------------------------------ MODULE FileLock ------------------------------
(***************************************************************************)
(* pkg/filelock: WithExclusive and WithShared on one path, called by       *)
(* goroutines of one or several processes.                                 *)
(*                                                                         *)
(* Lock.with takes two locks in turn.  The first is this process's         *)
(* processLock: a first-come-first-served queue of waiters in front of a   *)
(* reader count and a writer flag, every change of which happens under mu  *)
(* (so one critical section is one action).  A waiter sleeps in a select   *)
(* on its done channel and its context; both may be ready, and a waiter    *)
(* that saw its context done may be granted the lock before it gets mu     *)
(* back to withdraw.  The second is the advisory lock of the operating     *)
(* system, polled every 10ms until it is free or the context is done.      *)
(*                                                                         *)
(* The package has processLocks because "some operating systems associate  *)
(* a lock with the process": goroutines of one process may all get it.     *)
(* That is assumed here; a release gives up the caller's own hold only.    *)
(***************************************************************************)
EXTENDS Integers, SequencesExt

CONSTANTS
  Caller,    \* goroutines that use the lock
  Process,
  ProcessOf  \* the process of each caller

ASSUME CallerAssumption ==
  /\ IsFiniteSet(Caller)
  /\ ProcessOf \in [Caller -> Process]

VARIABLES
  pc,       \* where each caller is in Lock.with
  shared,   \* whether its call is WithShared
  done,     \* whether the context of its call is done
  granted,  \* the waiters whose done channel is closed, until they release
  readers, writer, waiters,  \* the processLock of each process
  os        \* the callers that hold the operating system's lock

vars == <<pc, shared, done, granted, readers, writer, waiters, os>>

-----------------------------------------------------------------------------
Init ==
  /\ pc = [c \in Caller |-> "out"]
  /\ shared = [c \in Caller |-> FALSE]
  /\ done = [c \in Caller |-> FALSE]
  /\ granted = {}
  /\ readers = [p \in Process |-> 0]
  /\ writer = [p \in Process |-> FALSE]
  /\ waiters = [p \in Process |-> << >>]
  /\ os = {}

At(c, from, to) ==
  /\ pc[c] = from
  /\ pc' = [pc EXCEPT ![c] = to]

(***************************************************************************)
(* grantWaiters serves the first k waiters of queue q, when r readers and  *)
(* (if w) a writer are in.  Behind a writer it serves nobody; an exclusive *)
(* waiter at the head is served alone, once nobody is in; shared ones are  *)
(* served up to the first exclusive one.                                   *)
(***************************************************************************)
SharedPrefix(k, q, mode) ==
  /\ k \in 1 .. Len(q)
  /\ \A i \in 1 .. k : mode[q[i]]

\* Variant with a bug: an exclusive waiter does not wait for the readers.
GrantsDespiteReaders(k, q, r, w, mode) ==
  \/ k = 0 /\ (w \/ q = << >>)
  \/ k = 1 /\ ~w /\ q # << >> /\ ~mode[q[1]]
  \/ ~w /\ SharedPrefix(k, q, mode) /\ (k < Len(q) => ~mode[q[k + 1]])

Grants(k, q, r, w, mode) ==
  \/ k = 0 /\ (w \/ q = << >> \/ (r # 0 /\ ~mode[q[1]]))
  \/ k = 1 /\ ~w /\ q # << >> /\ ~mode[q[1]] /\ r = 0
  \/ ~w /\ SharedPrefix(k, q, mode) /\ (k < Len(q) => ~mode[q[k + 1]])

\* The processLock of p after grantWaiters, given what it was before, and the
\* waiters granted so far.
GrantWaiters(p, q, r, w, in, mode) ==
  \E k \in {n \in 0 .. Len(q) : Grants(n, q, r, w, mode)} :
    /\ waiters' = [waiters EXCEPT ![p] = SubSeq(q, k + 1, Len(q))]
    /\ readers' = [readers EXCEPT ![p] = IF k > 0 /\ mode[q[1]] THEN r + k ELSE r]
    /\ writer' = [writer EXCEPT ![p] = w \/ (k > 0 /\ ~mode[q[1]])]
    /\ granted' = in \cup {q[i] : i \in 1 .. k}

\* Variant with a bug: a release does not look at whoever waits.
ReleasedSilently(c) ==
  LET p == ProcessOf[c]
  IN  /\ granted' = granted \ {c}
      /\ readers' = [readers EXCEPT ![p] = IF shared[c] THEN @ - 1 ELSE @]
      /\ writer' = [writer EXCEPT ![p] = shared[c] /\ @]
      /\ UNCHANGED waiters

ReleaseLocked(c) ==
  LET p == ProcessOf[c]
  IN  GrantWaiters(p, waiters[p],
                   IF shared[c] THEN readers[p] - 1 ELSE readers[p],
                   shared[c] /\ writer[p],
                   granted \ {c}, shared)

-----------------------------------------------------------------------------
\* Variant with a bug: readers do not wait behind the queue.
Jump(q, c) == <<c>> \o q

Enqueued(q, c) == Append(q, c)

\* WithExclusive or WithShared: join the queue of this process.
Enqueue(c) ==
  /\ At(c, "out", "waiting")
  /\ \E isShared \in BOOLEAN :
       LET mode == [shared EXCEPT ![c] = isShared]
           p == ProcessOf[c]
       IN  /\ shared' = mode
           /\ GrantWaiters(p, Enqueued(waiters[p], c), readers[p], writer[p], granted, mode)
  /\ done' = [done EXCEPT ![c] = FALSE]
  /\ UNCHANGED os

\* The caller's context ends, or had ended when it called.
CancelContext(c) ==
  /\ pc[c] \in {"waiting", "polling"}
  /\ ~done[c]
  /\ done' = [done EXCEPT ![c] = TRUE]
  /\ UNCHANGED <<pc, shared, granted, readers, writer, waiters, os>>

\* case <-waiter.done.  TryLockContext looks at the context before it tries.
TakeGrant(c) ==
  /\ c \in granted
  /\ At(c, "waiting", IF done[c] THEN "releasing" ELSE "polling")
  /\ UNCHANGED <<shared, done, granted, readers, writer, waiters, os>>

\* case <-ctx.Done(), before mu is locked.
SeeCancel(c) ==
  /\ done[c]
  /\ At(c, "waiting", "withdrawing")
  /\ UNCHANGED <<shared, done, granted, readers, writer, waiters, os>>

Without(q, c) ==
  RemoveAt(q, CHOOSE i \in DOMAIN q : q[i] = c)

\* What a cancelled waiter does under mu: give the lock back if it was granted
\* after all, else leave the queue, which may let those behind it in.
LeaveQueue(c) ==
  LET p == ProcessOf[c]
  IN  GrantWaiters(p, Without(waiters[p], c), readers[p], writer[p], granted, shared)

\* Variants with a bug: nobody is let in, or a late grant goes unnoticed.
BackOutSilently(c) ==
  LET p == ProcessOf[c]
  IN  IF c \in granted THEN ReleaseLocked(c)
      ELSE /\ waiters' = [waiters EXCEPT ![p] = Without(waiters[p], c)]
           /\ UNCHANGED <<granted, readers, writer>>

BackOutUngranted(c) ==
  IF c \in granted
  THEN granted' = granted \ {c} /\ UNCHANGED <<readers, writer, waiters>>
  ELSE LeaveQueue(c)

BackOut(c) == IF c \in granted THEN ReleaseLocked(c) ELSE LeaveQueue(c)

Withdraw(c) ==
  /\ At(c, "withdrawing", "out")
  /\ BackOut(c)
  /\ UNCHANGED <<shared, done, os>>

-----------------------------------------------------------------------------
\* The operating system grants c the lock: other processes hold it shared at
\* most, and so does c; within a process it does not tell callers apart.
Compatible(c) ==
  \A d \in os : ProcessOf[d] # ProcessOf[c] => shared[c] /\ shared[d]

\* TryLockContext, TryRLockContext: one of the polls succeeds ...
GetOSLock(c) ==
  /\ Compatible(c)
  /\ At(c, "polling", "inside")
  /\ os' = os \cup {c}
  /\ UNCHANGED <<shared, done, granted, readers, writer, waiters>>

\* Variant with a bug: the wait for the other processes ignores the context.
Relentless(c) == FALSE

Impatient(c) == done[c]

\* ... or the context ends between two polls ...
AbandonOSLock(c) ==
  /\ Impatient(c)
  /\ At(c, "polling", "releasing")
  /\ UNCHANGED <<shared, done, granted, readers, writer, waiters, os>>

\* ... or the lock file cannot be opened or locked at all.
FailOSLock(c) ==
  /\ At(c, "polling", "releasing")
  /\ UNCHANGED <<shared, done, granted, readers, writer, waiters, os>>

\* The callback is over, with or without an error: fl.Unlock.
Unlock(c) ==
  /\ At(c, "inside", "releasing")
  /\ os' = os \ {c}
  /\ UNCHANGED <<shared, done, granted, readers, writer, waiters>>

\* releaseProcess, on every way out of Lock.with.
Release(c) ==
  /\ At(c, "releasing", "out")
  /\ ReleaseLocked(c)
  /\ UNCHANGED <<shared, done, os>>

-----------------------------------------------------------------------------
Select(c) == TakeGrant(c) \/ SeeCancel(c)

Next ==
  \E c \in Caller :
    \/ Enqueue(c) \/ CancelContext(c)
    \/ Select(c) \/ Withdraw(c)
    \/ GetOSLock(c) \/ AbandonOSLock(c) \/ FailOSLock(c)
    \/ Unlock(c) \/ Release(c)

Spec == Init /\ [][Next]_vars

(***************************************************************************)
(* The Go runtime runs every goroutine that can run, callbacks end, and a  *)
(* poll comes round every 10ms.  Nobody has to call, to cancel or to fail. *)
(***************************************************************************)
Fairness ==
  \A c \in Caller :
    /\ WF_vars(Select(c)) /\ WF_vars(Withdraw(c))
    /\ WF_vars(GetOSLock(c)) /\ WF_vars(AbandonOSLock(c))
    /\ WF_vars(Unlock(c)) /\ WF_vars(Release(c))

FairSpec == Spec /\ Fairness

-----------------------------------------------------------------------------
Location == {"out", "waiting", "withdrawing", "polling", "inside", "releasing"}

TypeOK ==
  /\ pc \in [Caller -> Location]
  /\ shared \in [Caller -> BOOLEAN]
  /\ done \in [Caller -> BOOLEAN]
  /\ granted \subseteq Caller
  /\ readers \in [Process -> Nat]
  /\ writer \in [Process -> BOOLEAN]
  /\ waiters \in [Process -> Seq(Caller)]
  /\ os \subseteq Caller

\* The callers of process p that hold its processLock.
Holders(p) == {c \in granted : ProcessOf[c] = p}

(***************************************************************************)
(* A callback given to WithExclusive runs while no other callback runs, in *)
(* this process or in any other, although neither of the two locks would   *)
(* be enough.                                                              *)
(***************************************************************************)
Exclusion ==
  \A c, d \in Caller :
    c # d /\ pc[c] = "inside" /\ pc[d] = "inside" => shared[c] /\ shared[d]

(***************************************************************************)
(* A processLock counts exactly those that hold it: readers is their       *)
(* number, writer says that the holder is an exclusive one and then it is  *)
(* alone.  So no cancellation, however it races with a grant, leaks a      *)
(* reader or gives the lock back twice.                                    *)
(***************************************************************************)
HoldersAreCounted ==
  \A p \in Process :
    /\ readers[p] = Cardinality({c \in Holders(p) : shared[c]})
    /\ writer[p] = (\E c \in Holders(p) : ~shared[c])
    /\ writer[p] => \A c, d \in Holders(p) : c = d

(***************************************************************************)
(* The queue of a process holds, once each, the callers that have neither  *)
(* been granted the lock nor given up.                                     *)
(***************************************************************************)
QueueIsExact ==
  \A p \in Process :
    /\ ToSet(waiters[p]) =
         {c \in Caller : /\ ProcessOf[c] = p
                         /\ pc[c] \in {"waiting", "withdrawing"}
                         /\ c \notin granted}
    /\ \A i, j \in DOMAIN waiters[p] : waiters[p][i] = waiters[p][j] => i = j

(***************************************************************************)
(* No wake-up is lost: whenever mu is free, grantWaiters would serve       *)
(* nobody, whatever left the queue or the lock before.                     *)
(***************************************************************************)
NobodyServable ==
  \A p \in Process : Grants(0, waiters[p], readers[p], writer[p], shared)

\* d stands before c in a queue, or c has yet to join it.
Ahead(d, c) ==
  \E i \in DOMAIN waiters[ProcessOf[c]] :
    LET q == waiters[ProcessOf[c]]
    IN  q[i] = d /\ \A j \in DOMAIN q : q[j] = c => i < j

(***************************************************************************)
(* Waiters are served first come, first served: nobody is granted the lock *)
(* before a waiter that came earlier, so that readers cannot starve a      *)
(* writer of their own process.                                            *)
(***************************************************************************)
NoOvertaking ==
  [][\A c \in granted' \ granted : \A d \in Caller :
       Ahead(d, c) => d \in granted' \/ pc'[d] = "out"]_vars

(***************************************************************************)
(* A caller whose context is done returns, whatever the other processes do.*)
(***************************************************************************)
ContextBoundsTheWait ==
  \A c \in Caller : done[c] /\ pc[c] # "out" ~> pc[c] = "out"

\* No other process than p holds the operating system's lock.
LeftTo(p) == \A c \in os : ProcessOf[c] = p

(***************************************************************************)
(* If the other processes leave the lock alone from some time on, every    *)
(* call of a process returns, even if no context ever ends: its queue      *)
(* starves nobody.  (Between processes nothing is fair but the context.)   *)
(***************************************************************************)
EveryCallReturns ==
  \A c \in Caller :
    <>[]LeftTo(ProcessOf[c]) => (pc[c] # "out" ~> pc[c] = "out")

-----------------------------------------------------------------------------
CallOf(c) ==
  [mode |-> IF pc[c] \in {"out", "releasing"} THEN "none"
            ELSE IF shared[c] THEN "shared" ELSE "exclusive",
   stage |-> IF pc[c] \in {"out", "releasing"} THEN "out"
             ELSE IF pc[c] = "inside" THEN "held" ELSE "wanted"]

Promise == INSTANCE ReadWriteLock WITH call <- [c \in Caller |-> CallOf(c)]

(***************************************************************************)
(* The package implements a readers-writer lock with calls that may fail.  *)
(***************************************************************************)
ImplementsReadWriteLock == Promise!Spec
=============================================================================
