------------------------- MODULE CacheProxyProofs --------------------------
(***************************************************************************)
(* Proofs about module CacheProxy, for any processes, requests and clock.  *)
(***************************************************************************)
EXTENDS CacheProxy, TLAPS

(***************************************************************************)
(* What holds because a fill has the lock file, and not where there is no  *)
(* such thing.                                                             *)
(***************************************************************************)
LocksExclude == platform = "unix"

USE DEF settings, LocksExclude

\* A fill looks at, and replaces, the files of the key under the lock file.
FillsHoldLock ==
  LocksExclude =>
    \A p \in Process : fill[p].at \in {"recheck", "fetch", "commit", "sidecar"} => lock = p

\* Bodies are numbered by fetches, the sidecar's is not ahead of the object's.
BodiesAreOrdered ==
  LocksExclude => object.body <= fetches /\ sidecar.body <= object.body

\* What a fill is about to store is newer than the object, and what it is about
\* to describe is the object.
FillsAreAhead ==
  LocksExclude =>
    \A p \in Process :
      /\ fill[p].at = "commit" => object.body < fill[p].file.body /\ fill[p].file.body <= fetches
      /\ fill[p].at = "sidecar" => fill[p].file.body = object.body

\* Handlers have judged metadata no newer than the object, if any.
JudgedIsNotAhead == LocksExclude => \A r \in Request : judged[r].body <= object.body

\* Nobody is about to replace an artifact, unless it could not see it.
ArtifactIsMissing ==
  LocksExclude /\ kind = "artifact" =>
    \A p \in Process : fill[p].at \in {"fetch", "commit"} => fill[p].blind \/ object = NoFile

-----------------------------------------------------------------------------
(* What holds on every platform.                                           *)

\* A caller is started after a miss.
CallersFollowMisses ==
  \A r \in Request : request[r] \in {"new", "stat", "open", "miss"} => caller[r] = "none"

\* A call has a caller.
CallsHaveCallers ==
  \A p \in Process : fill[p] # NoFill => \E r \in Request : Home[r] = p /\ caller[r] = "joined"

\* What Shutdown has waited for does not come back.
ShutdownHasWaited ==
  \A p \in Process :
    /\ server[p] \in {"drained", "nil"} => Active(p) = {}
    /\ server[p] = "nil" => Fills(p) = {}

IInv ==
  /\ TypeOK
  /\ FillsHoldLock
  /\ BodiesAreOrdered
  /\ FillsAreAhead
  /\ JudgedIsNotAhead
  /\ CallersFollowMisses
  /\ ArtifactIsMissing
  /\ CallsHaveCallers
  /\ ShutdownHasWaited

-----------------------------------------------------------------------------
\* What the call of a process can be.
CallSet ==
  {NoFill, Waiting, Locked}
    \cup [at : {"fetch"}, blind : BOOLEAN]
    \cup [at : {"commit"}, file : AnyFile, blind : BOOLEAN]
    \cup [at : {"sidecar"}, file : AnyFile]
    \cup [at : {"unlock", "over"}, outcome : {"cached", "other"}]

LEMMA FillFacts ==
  ASSUME TypeOK, NEW p \in Process
  PROVE  /\ fill[p] \in CallSet
         /\ fill[p].at \in {"none", "lock", "recheck", "fetch", "commit",
                            "sidecar", "unlock", "over"}
         /\ fill[p].at = "none" <=> fill[p] = NoFill
         /\ fill[p].at \in {"commit", "sidecar"} => fill[p].file \in AnyFile
         /\ fill[p].at \in {"fetch", "commit"} => fill[p].blind \in BOOLEAN
         /\ fill[p].at \in {"unlock", "over"} => fill[p].outcome \in {"cached", "other"}
BY DEF TypeOK, NoFill, Waiting, Locked, CallSet

\* The forms of a call that the actions write.
LEMMA NewFillFacts ==
  /\ NoFill \in CallSet /\ NoFill.at = "none"
  /\ Waiting \in CallSet /\ Waiting.at = "lock" /\ Waiting # NoFill
  /\ Locked \in CallSet /\ Locked.at = "recheck" /\ Locked # NoFill
  /\ \A blind \in BOOLEAN :
       /\ Fetching(blind) \in CallSet /\ Fetching(blind) # NoFill
       /\ Fetching(blind).at = "fetch" /\ Fetching(blind).blind = blind
  /\ \A f \in AnyFile, blind \in BOOLEAN :
       /\ Storing(f, blind) \in CallSet /\ Storing(f, blind) # NoFill
       /\ Storing(f, blind).at = "commit"
       /\ Storing(f, blind).file = f /\ Storing(f, blind).blind = blind
  /\ \A f \in AnyFile :
       /\ Describing(f) \in CallSet /\ Describing(f) # NoFill
       /\ Describing(f).at = "sidecar" /\ Describing(f).file = f
  /\ \A outcome \in {"cached", "other"} :
       /\ Result(outcome) \in CallSet /\ Result(outcome) # NoFill
       /\ Result(outcome).at = "unlock" /\ Result(outcome).outcome = outcome
<1>1. NoFill \in CallSet /\ NoFill.at = "none"
  BY DEF CallSet, NoFill
<1>2. /\ Waiting \in CallSet /\ Waiting.at = "lock" /\ Waiting # NoFill
      /\ Locked \in CallSet /\ Locked.at = "recheck" /\ Locked # NoFill
  BY <1>1 DEF CallSet, Waiting, Locked
<1>3. \A blind \in BOOLEAN :
        /\ Fetching(blind) \in CallSet /\ Fetching(blind) # NoFill
        /\ Fetching(blind).at = "fetch" /\ Fetching(blind).blind = blind
  BY <1>1 DEF CallSet, Fetching
<1>5. \A f \in AnyFile, blind \in BOOLEAN :
        /\ Storing(f, blind) \in CallSet /\ Storing(f, blind) # NoFill
        /\ Storing(f, blind).at = "commit"
        /\ Storing(f, blind).file = f /\ Storing(f, blind).blind = blind
  BY <1>1 DEF CallSet, Storing
<1>6. \A f \in AnyFile :
        /\ Describing(f) \in CallSet /\ Describing(f) # NoFill
        /\ Describing(f).at = "sidecar" /\ Describing(f).file = f
  BY <1>1 DEF CallSet, Describing
<1>4. \A outcome \in {"cached", "other"} :
        /\ Result(outcome) \in CallSet /\ Result(outcome) # NoFill
        /\ Result(outcome).at = "unlock" /\ Result(outcome).outcome = outcome
  BY <1>1 DEF CallSet, Result
<1> QED
  BY <1>1, <1>2, <1>3, <1>4, <1>5, <1>6

\* Files.
LEMMA FileFacts ==
  /\ NoFile \in AnyFile
  /\ \A body, at \in Nat : File(body, at) \in AnyFile /\ File(body, at).body = body
BY DEF NoFile, File, AnyFile

LEMMA InitInv == Init => IInv
<1> SUFFICES ASSUME Init PROVE IInv
  OBVIOUS
<1>1. \A p \in Process : fill[p] = NoFill /\ fill[p].at = "none"
  BY NewFillFacts DEF Init
<1>2. TypeOK
  BY FileFacts, CacheProxyAssumption DEF Init, TypeOK
<1>3. BodiesAreOrdered
  BY DEF Init, BodiesAreOrdered, NoFile
<1>4. JudgedIsNotAhead
  BY DEF Init, JudgedIsNotAhead, NoFile
<1>5. CallersFollowMisses
  BY DEF Init, CallersFollowMisses
<1>6. ShutdownHasWaited
  BY DEF Init, ShutdownHasWaited
<1> QED
  BY <1>1, <1>2, <1>3, <1>4, <1>5, <1>6
     DEF IInv, FillsHoldLock, FillsAreAhead, ArtifactIsMissing, CallsHaveCallers

-----------------------------------------------------------------------------
(* Steps of requests.                                                      *)

\* The handlers touch neither the files nor the calls.
LEMMA ClientsLeaveFiles ==
  ASSUME IInv, UNCHANGED <<settings, fetches, files, lock, fill>>
  PROVE  FillsHoldLock' /\ BodiesAreOrdered' /\ FillsAreAhead' /\ ArtifactIsMissing'
BY DEF IInv, files, FillsHoldLock, BodiesAreOrdered, FillsAreAhead, ArtifactIsMissing

\* A handler that goes from one place to another while its process is not drained,
\* or that goes on or ends, is not one that Shutdown missed.
LEMMA HandlersInTime ==
  ASSUME IInv, NEW r \in Request, UNCHANGED server,
         \A q \in Request \ {r} : request'[q] = request[q] /\ caller'[q] = caller[q],
         \/ r \in Active(Home[r])
         \/ server[Home[r]] \in {"up", "closed"}
         \/ /\ request'[r] \notin {"stat", "open", "miss", "waiting", "stored"} \/ request'[r] = request[r]
            /\ caller'[r] \in {"registered", "joined"} => caller[r] \in {"registered", "joined"}
  PROVE  ShutdownHasWaited'
<1>1. ASSUME NEW p \in Process, server[p] \in {"drained", "nil"} PROVE Active(p)' = {}
  BY <1>1 DEF IInv, ShutdownHasWaited, Active
<1>2. ASSUME NEW p \in Process, server[p] = "nil" PROVE Fills(p)' = {}
  BY <1>2 DEF IInv, ShutdownHasWaited, Active, Fills
<1> QED
  BY <1>1, <1>2 DEF ShutdownHasWaited

\* What every step of a handler has in common.
LEMMA ClientStepInv ==
  ASSUME IInv, NEW r \in Request,
         UNCHANGED <<settings, now, fetches, files, lock, server, fill>>,
         TypeOK',
         \A q \in Request \ {r} :
           request'[q] = request[q] /\ judged'[q] = judged[q] /\ caller'[q] = caller[q],
         LocksExclude => judged'[r].body <= object.body,
         request'[r] \in {"new", "stat", "open", "miss"} => caller'[r] = "none",
         caller[r] = "joined" => caller'[r] = "joined",
         ShutdownHasWaited'
  PROVE  IInv'
<1>1. JudgedIsNotAhead'
  BY DEF IInv, JudgedIsNotAhead, files
<1>2. CallersFollowMisses'
  BY DEF IInv, CallersFollowMisses
<1>3. CallsHaveCallers'
  <2> SUFFICES ASSUME NEW p \in Process, fill[p] # NoFill
               PROVE  \E q \in Request : Home[q] = p /\ caller'[q] = "joined"
    BY DEF CallsHaveCallers
  <2>1. PICK q \in Request : Home[q] = p /\ caller[q] = "joined"
    BY DEF IInv, CallsHaveCallers
  <2> QED
    BY <2>1
<1> QED
  BY <1>1, <1>2, <1>3, ClientsLeaveFiles DEF IInv

LEMMA HandlerInv ==
  ASSUME IInv, NEW r \in Request, Handler(r) \/ ClientGone(r)
  PROVE  IInv'
<1>0. /\ request \in [Request -> {"new", "stat", "open", "miss", "waiting", "stored", "over"}]
      /\ judged \in [Request -> AnyFile]
      /\ caller \in [Request -> {"none", "registered", "joined", "cached", "other"}]
      /\ object \in AnyFile /\ sidecar \in AnyFile /\ NoFile \in AnyFile
      /\ LocksExclude => judged[r].body <= object.body
  BY FileFacts DEF IInv, TypeOK, JudgedIsNotAhead
<1>1. CASE Arrive(r)
  <2>1. /\ UNCHANGED <<settings, now, fetches, files, lock, server, fill, caller>>
        /\ \A q \in Request \ {r} : request'[q] = request[q] /\ judged'[q] = judged[q]
        /\ request[r] = "new" /\ request'[r] \in {"stat", "miss"} /\ caller[r] = "none"
        /\ judged'[r] \in {judged[r], object}
    BY <1>0, <1>1 DEF Arrive, Go, IInv, CallersFollowMisses
  <2>2. TypeOK'
    BY <1>0, <1>1 DEF IInv, TypeOK, Arrive, Go, files
  <2>3. ShutdownHasWaited'
    BY <1>1, <2>1, HandlersInTime DEF Arrive
  <2>4. LocksExclude => judged'[r].body <= object.body
    BY <1>0, <2>1 DEF AnyFile
  <2> QED
    BY <2>1, <2>2, <2>3, <2>4, ClientStepInv
<1>2. CASE ReadSidecar(r)
  <2>1. /\ UNCHANGED <<settings, now, fetches, files, lock, server, fill, caller>>
        /\ request[r] = "stat" /\ caller[r] = "none"
        /\ \A q \in Request \ {r} : request'[q] = request[q] /\ judged'[q] = judged[q]
        /\ request'[r] \in {"miss", "open"} /\ judged'[r] \in {NoFile, sidecar, judged[r]}
    BY <1>0, <1>2 DEF ReadSidecar, MetaOf, Go, IInv, CallersFollowMisses
  <2>2. TypeOK'
    BY <1>0, <1>2 DEF IInv, TypeOK, ReadSidecar, MetaOf, Go, files
  <2>3. ShutdownHasWaited'
    BY <2>1, CacheProxyAssumption, HandlersInTime DEF Active
  <2>4. LocksExclude => judged'[r].body <= object.body
    BY <1>0, <2>1 DEF IInv, BodiesAreOrdered, AnyFile, NoFile
  <2> QED
    BY <2>1, <2>2, <2>3, <2>4, ClientStepInv
<1>3. CASE ServeStored(r)
  <2>1. /\ UNCHANGED <<settings, now, fetches, files, lock, server, fill, caller>>
        /\ request[r] \in {"open", "stored"} /\ request'[r] \in {"over", "miss"}
        /\ request'[r] = "miss" => caller[r] = "none"
        /\ judged'[r] = NoFile
        /\ \A q \in Request \ {r} : request'[q] = request[q] /\ judged'[q] = judged[q]
    BY <1>0, <1>3 DEF ServeStored, Go, IInv, CallersFollowMisses
  <2>2. TypeOK'
    BY <1>0, <1>3 DEF IInv, TypeOK, ServeStored, Go, files
  <2>3. ShutdownHasWaited'
    BY <2>1, CacheProxyAssumption, HandlersInTime DEF Active
  <2>4. LocksExclude => judged'[r].body <= object.body
    BY <1>0, <2>1 DEF AnyFile, NoFile
  <2> QED
    BY <2>1, <2>2, <2>3, <2>4, ClientStepInv
<1>4. CASE StartFill(r)
  <2>1. /\ UNCHANGED <<settings, now, fetches, files, lock, server, fill, judged>>
        /\ request[r] = "miss" /\ request'[r] \in {"waiting", "over"}
        /\ caller[r] = "none"
        /\ \A q \in Request \ {r} : request'[q] = request[q] /\ caller'[q] = caller[q]
    BY <1>0, <1>4 DEF StartFill, Go, IInv, CallersFollowMisses
  <2>2. TypeOK'
    BY <1>0, <1>4 DEF IInv, TypeOK, StartFill, Go, files
  <2>3. ShutdownHasWaited'
    BY <2>1, CacheProxyAssumption, HandlersInTime DEF Active
  <2> QED
    BY <1>0, <2>1, <2>2, <2>3, ClientStepInv
<1>5. CASE ReceiveResult(r) \/ ClientGone(r)
  <2>1. /\ UNCHANGED <<settings, now, fetches, files, lock, server, fill, judged>>
        /\ request[r] = "waiting" /\ request'[r] \in {"stored", "over"}
        /\ caller'[r] \in {caller[r], "none"} /\ (caller[r] = "joined" => caller'[r] = "joined")
        /\ \A q \in Request \ {r} : request'[q] = request[q] /\ caller'[q] = caller[q]
    BY <1>0, <1>5 DEF ReceiveResult, ClientGone, Go
  <2>2. TypeOK'
    BY <1>0, <2>1, <1>5 DEF IInv, TypeOK, ReceiveResult, ClientGone, Go, files
  <2>3. ShutdownHasWaited'
    BY <2>1, CacheProxyAssumption, HandlersInTime DEF Active
  <2> QED
    BY <1>0, <2>1, <2>2, <2>3, ClientStepInv
<1> QED
  BY <1>1, <1>2, <1>3, <1>4, <1>5 DEF Handler

LEMMA TickInv ==
  ASSUME IInv, Tick \/ UNCHANGED vars
  PROVE  IInv'
<1> USE CacheProxyAssumption
<1>1. UNCHANGED <<settings, fetches, files, lock, server, fill, clients, caller>>
  BY DEF Tick, vars
<1>2. now' \in 0 .. MaxTime
  BY DEF IInv, TypeOK, Tick, vars
<1> QED
  BY <1>1, <1>2, ClientsLeaveFiles
     DEF IInv, TypeOK, files, clients, JudgedIsNotAhead, CallersFollowMisses, CallsHaveCallers,
         ShutdownHasWaited, Active, Fills

LEMMA JoinInv ==
  ASSUME IInv, NEW r \in Request, Join(r)
  PROVE  IInv'
<1> DEFINE p == Home[r]
<1>1. /\ UNCHANGED <<settings, now, fetches, files, lock, server, clients>>
      /\ caller[r] = "registered" /\ caller'[r] = "joined"
      /\ \A q \in Request \ {r} : caller'[q] = caller[q]
      /\ p \in Process
  BY CacheProxyAssumption DEF IInv, TypeOK, Join
<1>2. /\ fill'[p] = fill[p] \/ fill'[p] = Waiting
      /\ \A q \in Process \ {p} : fill'[q] = fill[q]
  BY <1>1 DEF IInv, TypeOK, Join
<1>3. TypeOK'
  <2>1. fill \in [Process -> CallSet] /\ Waiting \in CallSet
    BY NewFillFacts DEF IInv, TypeOK, CallSet
  <2>2. fill' \in [Process -> CallSet]
    BY <2>1 DEF Join
  <2>3. caller' \in [Request -> {"none", "registered", "joined", "cached", "other"}]
    BY DEF IInv, TypeOK, Join
  <2> QED
    BY <1>1, <2>2, <2>3 DEF IInv, TypeOK, CallSet, files, clients
<1>4. \A q \in Process : fill'[q] = fill[q] \/ fill'[q].at = "lock"
  BY <1>2, NewFillFacts
<1>5. FillsHoldLock' /\ BodiesAreOrdered' /\ FillsAreAhead' /\ ArtifactIsMissing'
  BY <1>1, <1>4 DEF IInv, files, FillsHoldLock, BodiesAreOrdered, FillsAreAhead, ArtifactIsMissing
<1>6. JudgedIsNotAhead' /\ CallersFollowMisses'
  BY <1>1 DEF IInv, files, clients, JudgedIsNotAhead, CallersFollowMisses
<1>7. CallsHaveCallers'
  <2> SUFFICES ASSUME NEW q \in Process, fill'[q] # NoFill
               PROVE  \E c \in Request : Home[c] = q /\ caller'[c] = "joined"
    BY DEF CallsHaveCallers
  <2>1. CASE q = p
    BY <1>1, <2>1
  <2>2. CASE q # p
    <3>1. PICK c \in Request : Home[c] = q /\ caller[c] = "joined"
      BY <1>2, <2>2 DEF IInv, CallsHaveCallers
    <3> QED
      BY <1>1, <3>1
  <2> QED
    BY <2>1, <2>2
<1>8. ShutdownHasWaited'
  BY <1>1 DEF IInv, clients, ShutdownHasWaited, Active, Fills
<1> QED
  BY <1>3, <1>5, <1>6, <1>7, <1>8 DEF IInv

-----------------------------------------------------------------------------
(* Steps of fills.                                                         *)

\* A call that goes on keeps its callers, and Shutdown waits for them.
LEMMA CallGoesOn ==
  ASSUME IInv, NEW p \in Process, UNCHANGED <<server, clients, caller>>,
         fill[p] # NoFill, \A q \in Process \ {p} : fill'[q] = fill[q]
  PROVE  CallersFollowMisses' /\ CallsHaveCallers' /\ ShutdownHasWaited'
<1>1. CallersFollowMisses' /\ ShutdownHasWaited'
  BY DEF IInv, clients, CallersFollowMisses, ShutdownHasWaited, Active, Fills
<1>2. CallsHaveCallers'
  <2> SUFFICES ASSUME NEW q \in Process, fill'[q] # NoFill
               PROVE  \E c \in Request : Home[c] = q /\ caller'[c] = "joined"
    BY DEF CallsHaveCallers
  <2>1. PICK c \in Request : Home[c] = q /\ caller[c] = "joined"
    BY DEF IInv, CallsHaveCallers
  <2> QED
    BY <2>1
<1> QED
  BY <1>1, <1>2

\* What a step of the call of process p does to the other calls, and its typing.
LEMMA Becoming ==
  ASSUME TypeOK, NEW p \in Process, NEW f \in CallSet, Becomes(p, f)
  PROVE  /\ fill' \in [Process -> CallSet]
         /\ fill'[p] = f
         /\ \A q \in Process \ {p} : fill'[q] = fill[q]
BY DEF TypeOK, CallSet, Becomes

\* A step within the lock, or without it, that leaves the files alone.
LEMMA CallStepInv ==
  ASSUME IInv, NEW p \in Process, NEW f \in CallSet, Becomes(p, f), fill[p] # NoFill,
         UNCHANGED <<settings, now, object, sidecar, server, clients, caller>>,
         fetches' \in Nat, fetches <= fetches',
         lock' = lock \/ (lock = Nobody /\ lock' = p) \/ (lock = p /\ lock' = Nobody),
         LocksExclude =>
           /\ f.at \in {"recheck", "fetch", "commit", "sidecar"} => lock' = p
           /\ f.at = "commit" => object.body < f.file.body /\ f.file.body <= fetches'
           /\ f.at = "sidecar" => f.file.body = object.body
           /\ kind = "artifact" /\ f.at \in {"fetch", "commit"} => f.blind \/ object = NoFile
  PROVE  IInv'
<1>1. /\ fill' \in [Process -> CallSet] /\ fill'[p] = f
      /\ \A q \in Process \ {p} : fill'[q] = fill[q]
  BY Becoming DEF IInv
<1>2. TypeOK'
  BY <1>1 DEF IInv, TypeOK, CallSet, clients
<1>3. FillsHoldLock'
  BY <1>1, CacheProxyAssumption DEF IInv, FillsHoldLock
<1>4. BodiesAreOrdered'
  BY FileFacts DEF IInv, TypeOK, BodiesAreOrdered, AnyFile
<1>5. FillsAreAhead'
  <2> SUFFICES ASSUME NEW q \in Process \ {p}, LocksExclude
               PROVE  /\ fill[q].at = "commit" =>
                           object.body < fill[q].file.body /\ fill[q].file.body <= fetches'
                      /\ fill[q].at = "sidecar" => fill[q].file.body = object.body
    BY <1>1 DEF FillsAreAhead
  <2>1. fill[q].at = "commit" => fill[q].file.body \in Nat
    BY FillFacts DEF IInv, AnyFile
  <2> QED
    BY <2>1 DEF IInv, TypeOK, FillsAreAhead
<1>6. ArtifactIsMissing'
  BY <1>1 DEF IInv, ArtifactIsMissing
<1>7. JudgedIsNotAhead'
  BY DEF IInv, clients, JudgedIsNotAhead
<1> QED
  BY <1>1, <1>2, <1>3, <1>4, <1>5, <1>6, <1>7, CallGoesOn DEF IInv

LEMMA LockingInv ==
  ASSUME IInv, NEW p \in Process, Acquire(p) \/ LockFails(p) \/ Recheck(p) \/ Unlock(p)
  PROVE  IInv'
<1>1. /\ UNCHANGED <<settings, now, fetches, object, sidecar, server, clients, caller>>
      /\ fetches \in Nat
  BY DEF Acquire, LockFails, Recheck, Unlock, files, IInv, TypeOK
<1>2. CASE Acquire(p) \/ LockFails(p)
  <2>1. fill[p] # NoFill
    BY <1>2, NewFillFacts DEF Acquire, LockFails
  <2>2. CASE /\ LockFree(p) /\ Becomes(p, Locked)
             /\ lock' = IF platform = "unix" THEN p ELSE lock
    BY <1>1, <2>1, <2>2, NewFillFacts, CallStepInv DEF LockFree
  <2>3. CASE Becomes(p, Result("other")) /\ UNCHANGED lock
    <3>1. Result("other") \in CallSet /\ Result("other").at = "unlock"
      BY NewFillFacts
    <3> QED
      BY <1>1, <2>1, <2>3, <3>1, CallStepInv
  <2> QED
    BY <1>2, <2>2, <2>3 DEF Acquire, LockFails
<1>3. CASE Recheck(p)
  <2>1. fill[p] # NoFill /\ UNCHANGED lock /\ (LocksExclude => lock = p)
    BY <1>3, NewFillFacts DEF Recheck, IInv, FillsHoldLock
  <2>2. CASE Becomes(p, Result("cached"))
    <3>1. Result("cached") \in CallSet /\ Result("cached").at = "unlock"
      BY NewFillFacts
    <3> QED
      BY <1>1, <2>1, <2>2, <3>1, CallStepInv
  <2>3. ASSUME NEW blind \in BOOLEAN, Becomes(p, Fetching(blind)),
               blind \/ \E meta \in MetaOf(object) : ~Current(meta)
        PROVE  IInv'
    <3>1. kind = "artifact" => blind \/ object = NoFile
      BY <2>3 DEF Current, Servable
    <3>2. /\ Fetching(blind) \in CallSet
          /\ Fetching(blind).at = "fetch" /\ Fetching(blind).blind = blind
      BY NewFillFacts
    <3> QED
      BY <1>1, <2>1, <2>3, <3>1, <3>2, CallStepInv
  <2> QED
    BY <1>3, <2>2, <2>3 DEF Recheck
<1>4. CASE Unlock(p)
  <2> DEFINE f == [fill[p] EXCEPT !.at = "over"]
  <2>1. f \in CallSet /\ f.at = "over" /\ fill[p] # NoFill
    <3>1. fill[p] \in CallSet /\ fill[p].at = "unlock"
      BY <1>4, FillFacts DEF Unlock, IInv
    <3>2. fill[p] \in [at : {"unlock", "over"}, outcome : {"cached", "other"}]
      BY <3>1, NewFillFacts DEF CallSet
    <3> QED
      BY <3>1, <3>2, NewFillFacts DEF CallSet
  <2>2. Becomes(p, f) /\ (lock' = lock \/ (lock = p /\ lock' = Nobody))
    BY <1>4 DEF Unlock
  <2> HIDE DEF f
  <2> QED
    BY <1>1, <2>1, <2>2, CallStepInv
<1> QED
  BY <1>2, <1>3, <1>4

LEMMA FetchInv ==
  ASSUME IInv, NEW p \in Process, Fetch(p)
  PROVE  IInv'
<1> DEFINE f == Storing(File(fetches + 1, now), fill[p].blind)
<1>1. /\ UNCHANGED <<settings, now, object, sidecar, lock, server, clients, caller>>
      /\ fetches' = fetches + 1 /\ fetches \in Nat /\ now \in Nat
      /\ fill[p].at = "fetch" /\ fill[p] # NoFill /\ fill[p].blind \in BOOLEAN
      /\ LocksExclude => lock = p
      /\ LocksExclude /\ kind = "artifact" => fill[p].blind \/ object = NoFile
  BY CacheProxyAssumption, NewFillFacts, FillFacts
     DEF Fetch, files, IInv, TypeOK, FillsHoldLock, ArtifactIsMissing
<1>2. /\ f \in CallSet /\ f.at = "commit"
      /\ f.file.body = fetches + 1 /\ f.blind = fill[p].blind
  <2>1. fetches + 1 \in Nat
    BY <1>1
  <2> DEFINE file == File(fetches + 1, now)
             blind == fill[p].blind
  <2>2. file \in AnyFile /\ file.body = fetches + 1
    BY <1>1, <2>1, FileFacts
  <2>3. blind \in BOOLEAN
    BY <1>1
  <2>4. f = Storing(file, blind)
    OBVIOUS
  <2> HIDE DEF file, f
  <2>5. /\ f \in CallSet /\ f.at = "commit"
        /\ f.file = file /\ f.blind = blind
    BY <2>2, <2>3, <2>4, NewFillFacts
  <2> QED
    BY <2>2, <2>5
<1>6. Result("other") \in CallSet /\ Result("other").at = "unlock"
  BY NewFillFacts
<1>3. LocksExclude => object.body < fetches + 1
  BY <1>1 DEF IInv, TypeOK, BodiesAreOrdered, AnyFile
<1>4. CASE Becomes(p, f)
  <2> HIDE DEF f
  <2> QED
    BY <1>1, <1>2, <1>3, <1>4, CallStepInv
<1>5. CASE Becomes(p, Result("other"))
  BY <1>1, <1>6, <1>5, CallStepInv
<1> QED
  BY <1>4, <1>5 DEF Fetch

\* The object is replaced by a newer one, or stays.
LEMMA CommitObjectInv ==
  ASSUME IInv, NEW p \in Process, CommitObject(p)
  PROVE  IInv'
<1> DEFINE f == Describing(File(fill[p].file.body, now))
<1>1. /\ UNCHANGED <<settings, now, fetches, sidecar, lock, server, clients, caller>>
      /\ fetches \in Nat /\ now \in Nat /\ object \in AnyFile /\ fill[p].file \in AnyFile
      /\ fill[p].at = "commit" /\ fill[p] # NoFill /\ (LocksExclude => lock = p)
  BY CacheProxyAssumption, FillFacts, NewFillFacts DEF CommitObject, IInv, TypeOK, FillsHoldLock
<1>2. /\ LocksExclude => object.body < fill[p].file.body /\ fill[p].file.body <= fetches
      /\ fill[p].file.body \in Nat
  BY <1>1 DEF IInv, FillsAreAhead, AnyFile
<1>3. /\ f \in CallSet /\ f.at = "sidecar" /\ f.file.body = fill[p].file.body
      /\ Result("other") \in CallSet /\ Result("other").at = "unlock"
  BY <1>1, <1>2, NewFillFacts, FileFacts
<1> HIDE DEF f
<1>4. CASE Becomes(p, Result("other")) /\ UNCHANGED object
  BY <1>1, <1>3, <1>4, CallStepInv
<1>5. CASE object' = fill[p].file /\ Becomes(p, f)
  <2>1. /\ fill' \in [Process -> CallSet] /\ fill'[p] = f
        /\ \A q \in Process \ {p} : fill'[q] = fill[q]
    BY <1>3, <1>5, Becoming DEF IInv
  <2>2. TypeOK'
    BY <1>1, <1>5, <2>1 DEF IInv, TypeOK, CallSet, clients
  <2>3. FillsHoldLock'
    BY <1>1, <1>3, <2>1 DEF IInv, FillsHoldLock
  <2>4. BodiesAreOrdered'
    BY <1>1, <1>2, <1>5 DEF IInv, TypeOK, BodiesAreOrdered, AnyFile
  <2>5. LocksExclude => \A q \in Process \ {p} : fill'[q].at \notin {"recheck", "fetch", "commit", "sidecar"}
    BY <1>1, <2>1 DEF IInv, FillsHoldLock
  <2>6. FillsAreAhead' /\ ArtifactIsMissing'
    BY <1>1, <1>3, <1>5, <2>1, <2>5 DEF FillsAreAhead, ArtifactIsMissing
  <2>7. JudgedIsNotAhead'
    BY <1>1, <1>2, <1>5 DEF IInv, TypeOK, clients, JudgedIsNotAhead, AnyFile
  <2> QED
    BY <1>1, <2>1, <2>2, <2>3, <2>4, <2>6, <2>7, CallGoesOn DEF IInv
<1> QED
  BY <1>4, <1>5 DEF CommitObject, f

\* The sidecar becomes that of the object, or stays.
LEMMA CommitSidecarInv ==
  ASSUME IInv, NEW p \in Process, CommitSidecar(p)
  PROVE  IInv'
<1>1. /\ UNCHANGED <<settings, now, fetches, object, lock, server, clients, caller>>
      /\ fill[p].file \in AnyFile /\ (LocksExclude => fill[p].file.body = object.body)
      /\ fill[p] # NoFill
      /\ sidecar' \in {sidecar, fill[p].file} /\ Becomes(p, Result("cached"))
  BY FillFacts, NewFillFacts DEF CommitSidecar, IInv, FillsAreAhead
<1>2. /\ fill' \in [Process -> CallSet] /\ fill'[p] = Result("cached")
      /\ \A q \in Process \ {p} : fill'[q] = fill[q]
      /\ Result("cached").at = "unlock"
  BY <1>1, NewFillFacts, Becoming DEF IInv
<1>3. TypeOK'
  BY <1>1, <1>2 DEF IInv, TypeOK, CallSet, clients
<1>4. FillsHoldLock' /\ FillsAreAhead' /\ ArtifactIsMissing'
  BY <1>1, <1>2 DEF IInv, FillsHoldLock, FillsAreAhead, ArtifactIsMissing
<1>5. BodiesAreOrdered'
  BY <1>1 DEF IInv, TypeOK, BodiesAreOrdered, AnyFile
<1>6. JudgedIsNotAhead'
  BY <1>1 DEF IInv, clients, JudgedIsNotAhead
<1> QED
  BY <1>1, <1>2, <1>3, <1>4, <1>5, <1>6, CallGoesOn DEF IInv

\* The result goes to the callers that joined, and the call is over.
LEMMA HandOutInv ==
  ASSUME IInv, NEW p \in Process, HandOut(p)
  PROVE  IInv'
<1>1. /\ UNCHANGED <<settings, now, fetches, object, sidecar, lock, server, request, judged>>
      /\ Becomes(p, NoFill)
      /\ fill[p].outcome \in {"cached", "other"}
      /\ \A r \in Request : Home[r] # p \/ caller[r] # "joined" => caller'[r] = caller[r]
      /\ \A r \in Request : Home[r] = p /\ caller[r] = "joined" =>
                              caller'[r] \in {fill[p].outcome, "none"}
      /\ caller' = [r \in Request |->
                      IF Home[r] # p \/ caller[r] # "joined" THEN caller[r]
                      ELSE IF request[r] = "waiting" THEN fill[p].outcome ELSE "none"]
  BY FillFacts DEF HandOut, IInv, files, clients
<1>2. /\ fill' \in [Process -> CallSet] /\ fill'[p] = NoFill /\ NoFill.at = "none"
      /\ \A q \in Process \ {p} : fill'[q] = fill[q]
  BY <1>1, NewFillFacts, Becoming DEF IInv
<1>3. caller' \in [Request -> {"none", "registered", "joined", "cached", "other"}]
  BY <1>1 DEF IInv, TypeOK
<1>4. TypeOK'
  BY <1>1, <1>2, <1>3 DEF IInv, TypeOK, CallSet
<1>5. FillsHoldLock' /\ BodiesAreOrdered' /\ FillsAreAhead' /\ ArtifactIsMissing'
  BY <1>1, <1>2 DEF IInv, FillsHoldLock, BodiesAreOrdered, FillsAreAhead, ArtifactIsMissing
<1>6. JudgedIsNotAhead' /\ CallersFollowMisses'
  BY <1>1 DEF IInv, JudgedIsNotAhead, CallersFollowMisses
<1>7. CallsHaveCallers'
  <2> SUFFICES ASSUME NEW q \in Process, fill'[q] # NoFill
               PROVE  \E r \in Request : Home[r] = q /\ caller'[r] = "joined"
    BY DEF CallsHaveCallers
  <2>1. PICK r \in Request : Home[r] = q /\ caller[r] = "joined"
    BY <1>2 DEF IInv, CallsHaveCallers
  <2> QED
    BY <1>1, <1>2, <2>1
<1>8. ShutdownHasWaited'
  <2>1. \A q \in Process : Active(q)' = Active(q) /\ Fills(q)' \subseteq Fills(q)
    BY <1>1 DEF Active, Fills
  <2> QED
    BY <1>1, <2>1 DEF IInv, ShutdownHasWaited
<1> QED
  BY <1>4, <1>5, <1>6, <1>7, <1>8 DEF IInv

-----------------------------------------------------------------------------
(* Shutdown and the end of a process.                                      *)

LEMMA ShutdownInv ==
  ASSUME IInv, NEW p \in Process, Shutdown(p)
  PROVE  IInv'
<1>1. UNCHANGED <<settings, now, fetches, files, lock, fill, clients, caller>>
  BY DEF Shutdown
<1>2. /\ server' \in [Process -> {"up", "closed", "draining", "drained",
                               "nil", "expired", "exited"}]
      /\ \A q \in Process \ {p} : server'[q] = server[q]
      /\ server'[p] \in {"drained", "nil"} => server[p] = "drained" \/ Active(p) = {}
      /\ server'[p] = "nil" => Fills(p) = {}
  BY DEF IInv, TypeOK, Shutdown, Close, CancelBase, Drain, WaitForFills
<1>3. TypeOK'
  BY <1>1, <1>2 DEF IInv, TypeOK, files, clients
<1>4. JudgedIsNotAhead' /\ CallersFollowMisses' /\ CallsHaveCallers'
  BY <1>1 DEF IInv, files, clients, JudgedIsNotAhead, CallersFollowMisses, CallsHaveCallers
<1>5. ShutdownHasWaited'
  <2>1. \A q \in Process : Active(q)' = Active(q) /\ Fills(q)' = Fills(q)
    BY <1>1 DEF clients, Active, Fills
  <2> QED
    BY <1>2, <2>1 DEF IInv, ShutdownHasWaited
<1> QED
  BY <1>1, <1>3, <1>4, <1>5, ClientsLeaveFiles DEF IInv

LEMMA ExitInv ==
  ASSUME IInv, NEW p \in Process, Exit(p)
  PROVE  IInv'
<1>1. /\ UNCHANGED <<settings, now, fetches, object, sidecar, judged>>
      /\ lock' = IF lock = p THEN Nobody ELSE lock
      /\ request' = [r \in Request |-> IF Home[r] = p THEN "over" ELSE request[r]]
      /\ caller' = [r \in Request |-> IF Home[r] = p THEN "none" ELSE caller[r]]
  BY DEF Exit, files
<1>2. /\ fill' \in [Process -> CallSet] /\ fill'[p] = NoFill /\ NoFill.at = "none"
      /\ \A q \in Process \ {p} : fill'[q] = fill[q]
  BY NewFillFacts DEF Exit, IInv, TypeOK, CallSet
<1>3. /\ server' \in [Process -> {"up", "closed", "draining", "drained",
                               "nil", "expired", "exited"}]
      /\ server'[p] = "exited"
      /\ \A q \in Process \ {p} : server'[q] = server[q]
  BY DEF Exit, IInv, TypeOK
<1>4. TypeOK'
  <2>1. request' \in [Request -> {"new", "stat", "open", "miss", "waiting", "stored", "over"}]
    BY <1>1 DEF IInv, TypeOK
  <2>2. caller' \in [Request -> {"none", "registered", "joined", "cached", "other"}]
    BY <1>1 DEF IInv, TypeOK
  <2> QED
    BY <1>1, <1>2, <1>3, <2>1, <2>2 DEF IInv, TypeOK, CallSet
<1>5. FillsHoldLock' /\ BodiesAreOrdered' /\ FillsAreAhead' /\ ArtifactIsMissing'
  BY <1>1, <1>2 DEF IInv, FillsHoldLock, BodiesAreOrdered, FillsAreAhead, ArtifactIsMissing
<1>6. JudgedIsNotAhead' /\ CallersFollowMisses'
  BY <1>1 DEF IInv, JudgedIsNotAhead, CallersFollowMisses
<1>7. CallsHaveCallers'
  <2> SUFFICES ASSUME NEW q \in Process, fill'[q] # NoFill
               PROVE  \E r \in Request : Home[r] = q /\ caller'[r] = "joined"
    BY DEF CallsHaveCallers
  <2>1. PICK r \in Request : Home[r] = q /\ caller[r] = "joined"
    BY <1>2 DEF IInv, CallsHaveCallers
  <2> QED
    BY <1>1, <1>2, <2>1
<1>8. ShutdownHasWaited'
  <2>1. \A q \in Process : Active(q)' \subseteq Active(q) /\ Fills(q)' \subseteq Fills(q)
    BY <1>1 DEF Active, Fills
  <2> QED
    BY <1>3, <2>1 DEF IInv, ShutdownHasWaited
<1> QED
  BY <1>4, <1>5, <1>6, <1>7, <1>8 DEF IInv

LEMMA StepInv == IInv /\ [Next]_vars => IInv'
<1> SUFFICES ASSUME IInv, [Next]_vars PROVE IInv'
  OBVIOUS
<1>1. CASE Tick \/ UNCHANGED vars
  BY <1>1, TickInv
<1>2. ASSUME NEW r \in Request, Handler(r) \/ ClientGone(r) \/ Join(r) PROVE IInv'
  BY <1>2, HandlerInv, JoinInv
<1>3. ASSUME NEW p \in Process, Filler(p) \/ LockFails(p) PROVE IInv'
  BY <1>3, LockingInv, FetchInv, CommitObjectInv, CommitSidecarInv, HandOutInv DEF Filler
<1>4. ASSUME NEW p \in Process, Shutdown(p) \/ Exit(p) PROVE IInv'
  BY <1>4, ShutdownInv, ExitInv
<1> QED
  BY <1>1, <1>2, <1>3, <1>4 DEF Next

(***************************************************************************)
(* Every reachable state satisfies the inductive invariant, and with it    *)
(* the type invariant; the parts of it that rest on the lock file where    *)
(* there is one.                                                           *)
(***************************************************************************)
THEOREM Invariance == Spec => [](IInv /\ TypeOK)
<1>1. IInv => TypeOK
  BY DEF IInv
<1> QED
  BY <1>1, InitInv, StepInv, PTL DEF Spec

-----------------------------------------------------------------------------
(***************************************************************************)
(* Where lock files exclude, a hit is never answered with an older object  *)
(* than the one that was judged: objects only get newer, and a sidecar is  *)
(* written after, and under the same lock as, the object it describes.     *)
(***************************************************************************)
THEOREM HitsAreAlwaysFresh == Spec => []HitsAreFresh
<1>1. IInv => HitsAreFresh
  BY DEF IInv, JudgedIsNotAhead, HitsAreFresh
<1> QED
  BY <1>1, Invariance, PTL

(***************************************************************************)
(* A Shutdown that returns nil leaves no handler, caller or call of its    *)
(* process behind, and none comes after it.                                *)
(***************************************************************************)
THEOREM ShutdownAlwaysWaits == Spec => []ShutdownWaits
<1>1. IInv => ShutdownWaits
  BY DEF IInv, CallsHaveCallers, ShutdownHasWaited, ShutdownWaits, Fills
<1> QED
  BY <1>1, Invariance, PTL

\* While an artifact is stored, no call that can see it fetches or replaces it.
LEMMA StoredArtifactStays ==
  IInv /\ [Next]_vars =>
    (platform = "unix" /\ kind = "artifact" /\ object # NoFile =>
       \/ object' = object /\ fetches' = fetches
       \/ \E p \in Process : fill[p].at \in {"fetch", "commit"} /\ fill[p].blind)
<1> SUFFICES ASSUME IInv, [Next]_vars, LocksExclude, kind = "artifact", object # NoFile,
                    ~\E p \in Process : fill[p].at \in {"fetch", "commit"} /\ fill[p].blind
             PROVE  object' = object /\ fetches' = fetches
  OBVIOUS
<1>1. \A p \in Process : fill[p].at \notin {"fetch", "commit"}
  BY DEF IInv, ArtifactIsMissing
<1>2. CASE Tick \/ UNCHANGED vars
  BY <1>2 DEF Tick, vars, files
<1>3. ASSUME NEW r \in Request, Handler(r) \/ ClientGone(r) \/ Join(r)
      PROVE  object' = object /\ fetches' = fetches
  BY <1>3 DEF Handler, Arrive, ReadSidecar, ServeStored, StartFill, ReceiveResult, ClientGone,
              Join, files
<1>4. ASSUME NEW p \in Process, Filler(p) \/ LockFails(p) \/ Shutdown(p) \/ Exit(p)
      PROVE  object' = object /\ fetches' = fetches
  BY <1>1, <1>4 DEF Filler, Acquire, LockFails, Recheck, Fetch, CommitObject, CommitSidecar, Unlock,
                    HandOut, Shutdown, Exit, files
<1> QED
  BY <1>2, <1>3, <1>4 DEF Next

(***************************************************************************)
(* Where lock files exclude, no process asks upstream for an artifact that *)
(* is stored: each looks again under the lock before it fetches.  The one  *)
(* that does is one whose look failed.                                     *)
(***************************************************************************)
THEOREM ArtifactsAreFetchedOnce == Spec => ArtifactFetchedOnce
BY Invariance, StoredArtifactStays, PTL DEF Spec, ArtifactFetchedOnce
=============================================================================
