----------------------------- MODULE CacheProxy -----------------------------
(***************************************************************************)
(* pkg/http/proxy: each process runs a caching HTTP server of its own, and *)
(* all of them share a cache directory.                                    *)
(*                                                                         *)
(* One cache key is modelled: nothing but Shutdown relates two keys.  Its  *)
(* object and its sidecar are two files, each replaced by a rename.  Hits  *)
(* read them without a lock; a fill replaces both while it holds the lock  *)
(* file of the key, and in each process one singleflight call at a time    *)
(* makes the fill.  A process can end at any point, which releases its     *)
(* lock.  On Windows there are no lock files (pkg/cache): a fill goes on   *)
(* without one, and fills of two processes may overlap.                    *)
(*                                                                         *)
(* The body of an object is abstracted to the number of the upstream fetch *)
(* that returned it.  A request is what net/http's handler goroutine does  *)
(* for it, a caller the goroutine that startFill starts on its behalf.     *)
(***************************************************************************)
EXTENDS Integers, FiniteSets

CONSTANTS
  Process,  \* the processes that run a proxy on the same directory
  Request,  \* the requests for the key
  Home,     \* Home[r] : the process that request r is sent to
  Ends,     \* Ends[p] : the ways in which process p may end
  Cases,    \* the implementations of the lock, with the kinds of key, that are tried
  Window,   \* MetadataTTL plus StaleWhileRevalidate
  MaxTime   \* a bound on the clock

Nobody == "nobody"

ASSUME CacheProxyAssumption ==
  /\ IsFiniteSet(Request)
  /\ Nobody \notin Process
  /\ Home \in [Request -> Process]
  /\ Ends \in [Process -> SUBSET {"shutdown", "exit"}]
  /\ Cases \subseteq {"unix", "windows"} \X {"artifact", "metadata"}
  /\ Window \in Nat \ {0}
  /\ MaxTime \in Nat

VARIABLES
  platform,  \* which implementation of cache.FileLock was built
  kind,      \* the ArtifactKind of the key: artifact or metadata
  now,       \* the clock
  fetches,   \* how many times upstream was asked
  object,    \* the object file: its body, and its mtime
  sidecar,   \* the sidecar file: FetchedAt, and the body it was written for
  lock,      \* who holds the lock file
  server,    \* where each process and its Shutdown are
  fill,      \* the singleflight call of each process
  request,   \* where the handler of each request is; over when it is answered
             \* or nobody waits for the answer any more
  judged,    \* the metadata by which a request was judged to be a hit
  caller     \* where each caller is

files == <<object, sidecar>>
clients == <<request, judged>>
settings == <<platform, kind>>
vars == <<settings, now, fetches, files, lock, server, fill, clients, caller>>

-----------------------------------------------------------------------------
NoFile == [body |-> 0, at |-> 0]
File(body, at) == [body |-> body, at |-> at]

NoFill == [at |-> "none"]
Waiting == [at |-> "lock"]
Locked == [at |-> "recheck"]
Fetching(blind) == [at |-> "fetch", blind |-> blind]
Storing(file, blind) == [at |-> "commit", file |-> file, blind |-> blind]
Describing(file) == [at |-> "sidecar", file |-> file]

\* What a fill ends with: the object is stored, or there is an error or a response
\* to be replayed, which a waiter just sends.
Result(outcome) == [at |-> "unlock", outcome |-> outcome]

Init ==
  /\ \E c \in Cases : platform = c[1] /\ kind = c[2]
  /\ now = 0
  /\ fetches = 0
  /\ object = NoFile
  /\ sidecar = NoFile
  /\ lock = Nobody
  /\ server = [p \in Process |-> "up"]
  /\ fill = [p \in Process |-> NoFill]
  /\ request = [r \in Request |-> "new"]
  /\ judged = [r \in Request |-> NoFile]
  /\ caller = [r \in Request |-> "none"]

\* Time goes by; it means nothing to an artifact.
Tick ==
  /\ kind = "metadata"
  /\ now < MaxTime
  /\ now' = now + 1
  /\ UNCHANGED <<settings, fetches, files, lock, server, fill, clients, caller>>

Go(r, place) == request' = [request EXCEPT ![r] = place]

-----------------------------------------------------------------------------
(***************************************************************************)
(* serveCacheable, tier 1: Stat looks at the object, which may fail, and   *)
(* then reads the sidecar.                                                 *)
(***************************************************************************)
Arrive(r) ==
  /\ request[r] = "new"
  /\ server[Home[r]] \in {"up", "closed"}
  /\ \/ Go(r, "miss") /\ UNCHANGED judged
     \/ object # NoFile /\ Go(r, "stat") /\ judged' = [judged EXCEPT ![r] = object]
  /\ UNCHANGED <<settings, now, fetches, files, lock, server, fill, caller>>

\* servable, isFresh and withinSWR.
Servable(file) == kind = "artifact" \/ now - file.at < Window

\* The sidecar's time stands in for the object's, unless it cannot be read.
MetaOf(file) == {file} \cup ({sidecar} \ {NoFile})

ReadSidecar(r) ==
  /\ request[r] = "stat"
  /\ \E meta \in MetaOf(judged[r]) :
       IF Servable(meta)
       THEN Go(r, "open") /\ judged' = [judged EXCEPT ![r] = meta]
       ELSE Go(r, "miss") /\ judged' = [judged EXCEPT ![r] = NoFile]
  /\ UNCHANGED <<settings, now, fetches, files, lock, server, fill, caller>>

(***************************************************************************)
(* serveStored opens the object, and what it opened is what is sent.  If   *)
(* it cannot, a hit is a miss after all, and after a fill an error is sent.*)
(***************************************************************************)
ServeStored(r) ==
  /\ request[r] \in {"open", "stored"}
  /\ \/ Go(r, "over")
     \/ request[r] = "open" /\ Go(r, "miss")
  /\ judged' = [judged EXCEPT ![r] = NoFile]
  /\ UNCHANGED <<settings, now, fetches, files, lock, server, fill, caller>>

\* startFill: unless the server is closed, a caller is registered and started.
StartFill(r) ==
  /\ request[r] = "miss"
  /\ IF server[Home[r]] = "up"
     THEN Go(r, "waiting") /\ caller' = [caller EXCEPT ![r] = "registered"]
     ELSE Go(r, "over") /\ UNCHANGED caller
  /\ UNCHANGED <<settings, now, fetches, files, lock, server, fill, judged>>

\* The handler's select: the result of its caller, or the client is gone.
ReceiveResult(r) ==
  /\ request[r] = "waiting"
  /\ caller[r] \in {"cached", "other"}
  /\ Go(r, IF caller[r] = "cached" THEN "stored" ELSE "over")
  /\ caller' = [caller EXCEPT ![r] = "none"]
  /\ UNCHANGED <<settings, now, fetches, files, lock, server, fill, judged>>

ClientGone(r) ==
  /\ request[r] = "waiting"
  /\ Go(r, "over")
  /\ caller' = [caller EXCEPT ![r] = IF @ \in {"registered", "joined"} THEN @ ELSE "none"]
  /\ UNCHANGED <<settings, now, fetches, files, lock, server, fill, judged>>

-----------------------------------------------------------------------------
\* singleflight.Group.Do: the first caller starts a call, the others join it.
Join(r) ==
  /\ caller[r] = "registered"
  /\ caller' = [caller EXCEPT ![r] = "joined"]
  /\ fill' = IF fill[Home[r]] = NoFill THEN [fill EXCEPT ![Home[r]] = Waiting] ELSE fill
  /\ UNCHANGED <<settings, now, fetches, files, lock, server, clients>>

\* baseCtx is cancelled.
BaseDone(p) == server[p] # "up" /\ server[p] # "closed"

Becomes(p, f) == fill' = [fill EXCEPT ![p] = f]

\* Variant with a bug: the lock does not exclude other processes.
UnlockedByMe(p) == lock # p

\* The lock of Windows excludes nobody.
LockFree(p) == platform = "windows" \/ lock = Nobody

\* WithLockContext gives up when baseCtx is done, but not on Windows.
Acquire(p) ==
  /\ fill[p].at = "lock"
  /\ \/ /\ LockFree(p)
        /\ lock' = IF platform = "unix" THEN p ELSE lock
        /\ Becomes(p, Locked)
     \/ platform = "unix" /\ BaseDone(p) /\ Becomes(p, Result("other")) /\ UNCHANGED lock
  /\ UNCHANGED <<settings, now, fetches, files, server, clients, caller>>

\* The lock file cannot be opened or locked, for another reason.
LockFails(p) ==
  /\ platform = "unix"
  /\ fill[p].at = "lock"
  /\ Becomes(p, Result("other"))
  /\ UNCHANGED <<settings, now, fetches, files, lock, server, clients, caller>>

\* Variant with a bug: the object is not looked at again under the lock.
NeverCurrent(meta) == FALSE

Current(meta) == object # NoFile /\ Servable(meta)

\* fillIfStale, under the lock; it fetches blindly when Stat fails.
Recheck(p) ==
  /\ fill[p].at = "recheck"
  /\ \/ \E meta \in MetaOf(object) :
          Becomes(p, IF Current(meta) THEN Result("cached") ELSE Fetching(FALSE))
     \/ Becomes(p, Fetching(TRUE))
  /\ UNCHANGED <<settings, now, fetches, files, lock, server, clients, caller>>

(***************************************************************************)
(* fetchVerifyCommit: upstream is asked once.  An error, another status    *)
(* than 2xx, or a body that breaks off, cannot be rewritten or fails       *)
(* Verify ends the fill; else the body is in a temporary file.             *)
(***************************************************************************)
Fetch(p) ==
  /\ fill[p].at = "fetch"
  /\ fetches' = fetches + 1
  /\ \/ Becomes(p, Result("other"))
     \/ ~BaseDone(p) /\ Becomes(p, Storing(File(fetches + 1, now), fill[p].blind))
  /\ UNCHANGED <<settings, now, files, lock, server, clients, caller>>

\* Commit renames the object, and takes the time for the sidecar.
CommitObject(p) ==
  /\ fill[p].at = "commit"
  /\ \/ /\ object' = fill[p].file
        /\ Becomes(p, Describing(File(fill[p].file.body, now)))
     \/ Becomes(p, Result("other")) /\ UNCHANGED object
  /\ UNCHANGED <<settings, now, fetches, sidecar, lock, server, clients, caller>>

\* writeSidecar may fail: the old sidecar, or none, stays.
CommitSidecar(p) ==
  /\ fill[p].at = "sidecar"
  /\ sidecar' \in {sidecar, fill[p].file}
  /\ Becomes(p, Result("cached"))
  /\ UNCHANGED <<settings, now, fetches, object, lock, server, clients, caller>>

\* Variant with a bug: a fill that fails keeps the lock.
UnlockIfStored(p) ==
  /\ fill[p].at = "unlock"
  /\ lock' = IF lock = p /\ fill[p].outcome # "other" THEN Nobody ELSE lock
  /\ Becomes(p, [fill[p] EXCEPT !.at = "over"])
  /\ UNCHANGED <<settings, now, fetches, files, server, clients, caller>>

\* The lock is released before the call is over and its result handed out.
Unlock(p) ==
  /\ fill[p].at = "unlock"
  /\ lock' = IF lock = p THEN Nobody ELSE lock
  /\ Becomes(p, [fill[p] EXCEPT !.at = "over"])
  /\ UNCHANGED <<settings, now, fetches, files, server, clients, caller>>

\* A caller whose handler does not wait any more leaves the result in its channel.
HandOut(p) ==
  /\ fill[p].at = "over"
  /\ caller' = [r \in Request |->
                  IF Home[r] # p \/ caller[r] # "joined" THEN caller[r]
                  ELSE IF request[r] = "waiting" THEN fill[p].outcome ELSE "none"]
  /\ Becomes(p, NoFill)
  /\ UNCHANGED <<settings, now, fetches, files, lock, server, clients>>

-----------------------------------------------------------------------------
Active(p) == {r \in Request : Home[r] = p /\ request[r] \in {"stat", "open", "miss", "waiting", "stored"}}

\* Variant with a bug: callers register themselves when they run.
CallersRunning(p) == {r \in Request : Home[r] = p /\ caller[r] = "joined"}

\* The callers that s.fills counts: from startFill until they have the result.
Fills(p) == {r \in Request : Home[r] = p /\ caller[r] \in {"registered", "joined"}}

(***************************************************************************)
(* Shutdown: close, cancel baseCtx, drain the handlers, wait for fills.    *)
(* Its deadline can pass in either wait, and it then reports an error.     *)
(***************************************************************************)
Close(p) == "shutdown" \in Ends[p] /\ server[p] = "up" /\ server' = [server EXCEPT ![p] = "closed"]
CancelBase(p) == server[p] = "closed" /\ server' = [server EXCEPT ![p] = "draining"]

Drain(p) ==
  /\ server[p] = "draining"
  /\ \/ Active(p) = {} /\ server' = [server EXCEPT ![p] = "drained"]
     \/ server' = [server EXCEPT ![p] = "expired"]

WaitForFills(p) ==
  /\ server[p] = "drained"
  /\ \/ Fills(p) = {} /\ server' = [server EXCEPT ![p] = "nil"]
     \/ server' = [server EXCEPT ![p] = "expired"]

Shutdown(p) ==
  /\ Close(p) \/ CancelBase(p) \/ Drain(p) \/ WaitForFills(p)
  /\ UNCHANGED <<settings, now, fetches, files, lock, fill, clients, caller>>

\* The process ends, whether or not anything is still running in it.
Exit(p) ==
  /\ "exit" \in Ends[p]
  /\ server[p] # "exited"
  /\ server' = [server EXCEPT ![p] = "exited"]
  /\ lock' = IF lock = p THEN Nobody ELSE lock
  /\ fill' = [fill EXCEPT ![p] = NoFill]
  /\ request' = [r \in Request |-> IF Home[r] = p THEN "over" ELSE request[r]]
  /\ caller' = [r \in Request |-> IF Home[r] = p THEN "none" ELSE caller[r]]
  /\ UNCHANGED <<settings, now, fetches, files, judged>>

-----------------------------------------------------------------------------
Handler(r) == Arrive(r) \/ ReadSidecar(r) \/ ServeStored(r) \/ StartFill(r) \/ ReceiveResult(r)

Filler(p) ==
  \/ Acquire(p) \/ Recheck(p) \/ Fetch(p) \/ CommitObject(p) \/ CommitSidecar(p)
  \/ Unlock(p) \/ HandOut(p)

Next ==
  \/ Tick
  \/ \E r \in Request : Handler(r) \/ ClientGone(r) \/ Join(r)
  \/ \E p \in Process : Filler(p) \/ LockFails(p) \/ Shutdown(p) \/ Exit(p)

Spec == Init /\ [][Next]_vars

(***************************************************************************)
(* While a goroutine can run, one does; upstream answers or baseCtx ends   *)
(* the fetch, and a lock file that is free is found so by some poll.  As   *)
(* none of them runs for ever, this alone is enough.  Nothing obliges a    *)
(* process to shut down or to exit, a client to stay, or a lock to fail.   *)
(***************************************************************************)
Goroutines ==
  \/ \E r \in Request : Handler(r) \/ Join(r)
  \/ \E p \in Process : Filler(p)

FairSpec == Spec /\ WF_vars(Goroutines)

-----------------------------------------------------------------------------
AnyFile == [body : Nat, at : Nat]

TypeOK ==
  /\ settings \in Cases
  /\ now \in 0 .. MaxTime
  /\ fetches \in Nat
  /\ {object, sidecar} \subseteq AnyFile
  /\ lock \in Process \cup {Nobody}
  /\ server \in [Process -> {"up", "closed", "draining", "drained", "nil", "expired", "exited"}]
  /\ fill \in [Process -> {NoFill, Waiting, Locked}
                \cup [at : {"fetch"}, blind : BOOLEAN]
                \cup [at : {"commit"}, file : AnyFile, blind : BOOLEAN]
                \cup [at : {"sidecar"}, file : AnyFile]
                \cup [at : {"unlock", "over"}, outcome : {"cached", "other"}]]
  /\ request \in [Request -> {"new", "stat", "open", "miss", "waiting", "stored", "over"}]
  /\ judged \in [Request -> AnyFile]
  /\ caller \in [Request -> {"none", "registered", "joined", "cached", "other"}]

(***************************************************************************)
(* "An unlocked reader always sees a whole old/new object": a hit may open *)
(* a newer object than the one whose age it looked at, but never an older  *)
(* one, even if a process ended between the two renames, a sidecar could   *)
(* not be written, or fills of two processes follow each other closely.    *)
(* Where locks do not exclude, fills overlap and this cannot be promised.  *)
(***************************************************************************)
HitsAreFresh ==
  platform = "unix" =>
    \A r \in Request : request[r] = "open" => judged[r].body <= object.body

(***************************************************************************)
(* "Artifacts are immutable; cached forever": once some process has stored *)
(* one, no process asks upstream for it again or replaces it, but for one  *)
(* that could not see it when it looked again under the lock.  Without     *)
(* locks two processes may both find it missing.                           *)
(***************************************************************************)
ArtifactFetchedOnce ==
  [][ platform = "unix" /\ kind = "artifact" /\ object # NoFile =>
        \/ object' = object /\ fetches' = fetches
        \/ \E p \in Process : fill[p].at \in {"fetch", "commit"} /\ fill[p].blind ]_vars

(***************************************************************************)
(* "No background goroutine touches the cache directory after Shutdown     *)
(* returns", if it returns nil: no handler or fill of that process is left,*)
(* nor any that has yet to start.                                          *)
(***************************************************************************)
ShutdownWaits ==
  \A p \in Process : server[p] = "nil" => Active(p) = {} /\ Fills(p) = {} /\ fill[p] = NoFill

(***************************************************************************)
(* A request that reached a handler gets an answer, unless its client or   *)
(* its process goes away: not one of the waiters that a call collapsed is  *)
(* forgotten, whatever the call returned and whenever it joined.           *)
(***************************************************************************)
EveryRequestEnds ==
  <>[](\A r \in Request : request[r] \in {"new", "over"})
=============================================================================
