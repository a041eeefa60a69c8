---------------------------- MODULE OrderedBatch ----------------------------
(***************************************************************************)
(* pkg/vendoring/ordered: Run hands jobs to a pool of workers, which       *)
(* prepare them concurrently, and commits the results itself in input      *)
(* order.                                                                  *)
(*                                                                         *)
(* Run schedules ahead of the job it is to commit, but no further than a   *)
(* window, nor past a barrier until everything before it is committed.     *)
(* Jobs travel through a buffered channel and are sent in order, so that   *)
(* the channel holds those from `taken` up to but not including `next`.    *)
(* Each job has a result channel with room for its one result.  However    *)
(* Run ends, it cancels its context, closes the jobs channel, waits for    *)
(* the workers and disposes of what they left in the result channels.      *)
(*                                                                         *)
(* Jobs are numbered from 1 here and from 0 in the code.                   *)
(***************************************************************************)
EXTENDS Integers, FiniteSets

CONSTANTS
  Count,           \* Options.Count
  MaxConcurrency,  \* a bound on Options.Concurrency
  Barrier          \* the jobs for which Options.Barrier holds

ASSUME OptionsAssumption ==
  /\ Count \in Nat
  /\ MaxConcurrency \in Nat
  /\ Barrier \subseteq 1 .. Count

Job == 1 .. Count

VARIABLES
  concurrency,  \* Options.Concurrency
  cancelled,    \* the context of Run, derived from its caller's, is done
  pc,           \* where Run is
  commit,       \* the job to commit
  next,         \* the first job not sent to the jobs channel
  taken,        \* the first job not received from it
  worker,       \* what each worker is doing, and with which job
  results,      \* the jobs whose result channel holds their result
  prepared,     \* the jobs whose Prepare has returned
  committed,    \* the jobs whose Commit has returned
  disposals,    \* how often the value of each job was disposed of
  ret           \* what Run returns

runLocals == <<pc, commit, next, ret>>
vars == <<concurrency, cancelled, runLocals, taken, worker, results, prepared, committed, disposals>>

-----------------------------------------------------------------------------
Width == IF concurrency < Count THEN concurrency ELSE Count

\* Variant with a bug: a single worker stays ahead of the commits.
DoubleWindow == 2 * Width

\* The window and the capacity of the channel differ for a single worker.
Window == IF concurrency = 1 THEN 1 ELSE 2 * Width

Worker == 1 .. Width

Doing(doing, i) == [doing |-> doing, job |-> i]
Idle == Doing("idle", 0)
Exited == Doing("exited", 0)

Init ==
  /\ concurrency \in 0 .. MaxConcurrency
  /\ cancelled = FALSE
  /\ pc = "begin"
  /\ commit = 1
  /\ next = 1
  /\ taken = 1
  /\ worker = [w \in Worker |-> Idle]
  /\ results = {}
  /\ prepared = {}
  /\ committed = {}
  /\ disposals = [i \in Job |-> 0]
  /\ ret = "nil"

\* The caller's context ends.
CancelContext ==
  /\ ~cancelled
  /\ pc # "returned"
  /\ cancelled' = TRUE
  /\ UNCHANGED <<concurrency, runLocals, taken, worker, results, prepared, committed, disposals>>

ContextErr == IF cancelled THEN "context" ELSE "nil"

\* Run rejects a bad concurrency, and has nothing to do without jobs.
Begin ==
  /\ pc = "begin"
  /\ IF concurrency < 1
     THEN pc' = "returned" /\ ret' = "invalid"
     ELSE IF Width = 0
     THEN pc' = "returned" /\ ret' = ContextErr
     ELSE pc' = "loop" /\ UNCHANGED ret
  /\ UNCHANGED <<concurrency, cancelled, commit, next, taken, worker, results, prepared, committed, disposals>>

\* The head of Run's loop, and its end.
Loop ==
  /\ pc = "loop"
  /\ IF cancelled \/ commit > Count
     THEN pc' = "unwind" /\ ret' = ContextErr
     ELSE pc' = "schedule" /\ UNCHANGED ret
  /\ UNCHANGED <<concurrency, cancelled, commit, next, taken, worker, results, prepared, committed, disposals>>

\* Variants with a bug: barriers, or the window, are not looked at.
AheadIgnoringBarriers == next <= Count /\ next < commit + Window

AheadIgnoringWindow == next <= Count /\ (next \in Barrier => next = commit)

\* Variant with a bug: a barrier waits for itself to be committed.
AheadAfterItself ==
  /\ next <= Count
  /\ next < commit + Window
  /\ next \in Barrier => next < commit

\* schedule goes on to another job.
Ahead ==
  /\ next <= Count
  /\ next < commit + Window
  /\ next \in Barrier => next = commit

ChannelHasRoom == next - taken < 2 * Width

Schedule ==
  /\ pc = "schedule"
  /\ IF Ahead
     THEN ChannelHasRoom /\ next' = next + 1 /\ UNCHANGED pc
     ELSE pc' = "commit" /\ UNCHANGED next
  /\ UNCHANGED <<concurrency, cancelled, commit, taken, worker, results, prepared, committed, disposals, ret>>

Disposed(S) == [i \in Job |-> IF i \in S THEN disposals[i] + 1 ELSE disposals[i]]

\* commit, case <-ctx.Done().
SeeCancel ==
  /\ pc = "commit"
  /\ cancelled
  /\ pc' = "unwind"
  /\ ret' = "context"
  /\ UNCHANGED <<concurrency, cancelled, commit, next, taken, worker, results, prepared, committed, disposals>>

\* Variant with a bug: a result that comes too late is dropped.
DroppedLate == disposals

DisposedLate == Disposed({commit})

\* commit, case prepared := <-results[index]; the context is looked at again.
ReceiveResult ==
  /\ pc = "commit"
  /\ commit \in results
  /\ results' = results \ {commit}
  /\ IF cancelled
     THEN pc' = "unwind" /\ ret' = "context" /\ disposals' = DisposedLate
     ELSE pc' = "committing" /\ UNCHANGED <<ret, disposals>>
  /\ UNCHANGED <<concurrency, cancelled, commit, next, taken, worker, prepared, committed>>

\* Commit returns, and the value is disposed of whether it failed or not.
CommitReturns ==
  /\ pc = "committing"
  /\ committed' = committed \cup {commit}
  /\ disposals' = Disposed({commit})
  /\ \/ pc' = "unwind" /\ ret' = "commit" /\ UNCHANGED commit
     \/ pc' = "loop" /\ commit' = commit + 1 /\ UNCHANGED ret
  /\ UNCHANGED <<concurrency, cancelled, next, taken, worker, results, prepared>>

\* The deferred cancel, and close(jobs).
Unwind ==
  /\ pc = "unwind"
  /\ cancelled' = TRUE
  /\ pc' = "join"
  /\ UNCHANGED <<concurrency, commit, next, taken, worker, results, prepared, committed, disposals, ret>>

\* Variant with a bug: Run does not wait for its workers.
NoWait == TRUE

WorkersDone == \A w \in Worker : worker[w] = Exited

\* workers.Wait() is over; what was not committed is disposed of.
Drain ==
  /\ pc = "join"
  /\ WorkersDone
  /\ disposals' = Disposed(results)
  /\ results' = {}
  /\ pc' = "returned"
  /\ UNCHANGED <<concurrency, cancelled, commit, next, taken, worker, prepared, committed, ret>>

-----------------------------------------------------------------------------
\* A worker receives a job ...
TakeJob(w) ==
  /\ worker[w] = Idle
  /\ taken < next
  /\ worker' = [worker EXCEPT ![w] = Doing("taken", taken)]
  /\ taken' = taken + 1
  /\ UNCHANGED <<concurrency, cancelled, runLocals, results, prepared, committed, disposals>>

\* ... passes over it if the context is done ...
StartPrepare(w) ==
  /\ worker[w].doing = "taken"
  /\ worker' = [worker EXCEPT ![w] = IF cancelled THEN Idle
                                     ELSE Doing("preparing", worker[w].job)]
  /\ UNCHANGED <<concurrency, cancelled, runLocals, taken, results, prepared, committed, disposals>>

\* ... and else prepares it: the result, or the error, goes to its channel.
FinishPrepare(w) ==
  /\ worker[w].doing = "preparing"
  /\ results' = results \cup {worker[w].job}
  /\ prepared' = prepared \cup {worker[w].job}
  /\ worker' = [worker EXCEPT ![w] = Idle]
  /\ UNCHANGED <<concurrency, cancelled, runLocals, taken, committed, disposals>>

\* The jobs channel is closed and empty.
ExitWorker(w) ==
  /\ pc = "join"
  /\ worker[w] = Idle
  /\ taken = next
  /\ worker' = [worker EXCEPT ![w] = Exited]
  /\ UNCHANGED <<concurrency, cancelled, runLocals, taken, results, prepared, committed, disposals>>

-----------------------------------------------------------------------------
Run == Begin \/ Loop \/ Schedule \/ SeeCancel \/ ReceiveResult \/ CommitReturns \/ Unwind \/ Drain

Prepare(w) ==
  /\ w \in Worker
  /\ TakeJob(w) \/ StartPrepare(w) \/ FinishPrepare(w) \/ ExitWorker(w)

Stopped == pc = "returned" /\ UNCHANGED vars

Next == Run \/ (\E w \in Worker : Prepare(w)) \/ CancelContext \/ Stopped

Spec == Init /\ [][Next]_vars

(***************************************************************************)
(* Goroutines that can run do run, and the callbacks Prepare and Commit    *)
(* return.                                                                 *)
(***************************************************************************)
Fairness == WF_vars(Run) /\ \A w \in 1 .. MaxConcurrency : WF_vars(Prepare(w))

FairSpec == Spec /\ Fairness

-----------------------------------------------------------------------------
TypeOK ==
  /\ concurrency \in 0 .. MaxConcurrency
  /\ cancelled \in BOOLEAN
  /\ pc \in {"begin", "loop", "schedule", "commit", "committing", "unwind", "join", "returned"}
  /\ commit \in 1 .. Count + 1
  /\ next \in 1 .. Count + 1
  /\ taken \in 1 .. next
  /\ worker \in [Worker -> {Idle, Exited}
                           \cup [doing : {"taken", "preparing"}, job : Job]]
  /\ results \subseteq prepared
  /\ prepared \subseteq Job
  /\ committed \subseteq Job
  /\ disposals \in [Job -> Nat]
  /\ ret \in {"nil", "invalid", "context", "commit"}

Preparing == {i \in Job : \E w \in Worker : worker[w] = Doing("preparing", i)}
Committing == {i \in Job : pc = "committing" /\ i = commit}

(***************************************************************************)
(* With one worker no job is prepared before its predecessors' commit      *)
(* returned: the serial batch reads its own writes                         *)
(* (TestRunSerialReadsAndBarrierObserveEarlierCommits).                    *)
(***************************************************************************)
SerialReadsItsWrites ==
  concurrency = 1 => \A i \in Preparing \cup prepared : 1 .. i - 1 \subseteq committed

(***************************************************************************)
(* Whatever Prepare returned is disposed of at most once, and not before   *)
(* its commit is over; when Run returns, also after a failed commit or a   *)
(* cancellation that raced with a result, none of it is left.              *)
(***************************************************************************)
DisposedExactlyOnce ==
  /\ \A i \in Job : disposals[i] <= (IF i \in prepared THEN 1 ELSE 0)
  /\ \A i \in results \cup Committing : disposals[i] = 0
  /\ pc = "returned" => \A i \in prepared : disposals[i] = 1

(***************************************************************************)
(* Run never blocks sending a job: the window keeps what it has sent and   *)
(* no worker has received within the capacity of the jobs channel.  A Run  *)
(* that blocked there would not see a cancellation, nor commit.            *)
(***************************************************************************)
SendNeverBlocks == pc = "schedule" /\ Ahead => ChannelHasRoom

(***************************************************************************)
(* When Run returns its workers are gone and no result is left behind, and *)
(* nil means that each job was committed.                                  *)
(***************************************************************************)
ReturnIsComplete ==
  pc = "returned" =>
    /\ \A w \in Worker : worker[w] = Exited
    /\ results = {}
    /\ ret = "nil" => committed = Job

(***************************************************************************)
(* The promise of the package, "Run prepares at most Concurrency jobs at   *)
(* once and retains at most twice that many uncommitted results.  A        *)
(* barrier is prepared only after its predecessors commit": bounded        *)
(* preparation, barriers that wait, commits in order,                      *)
(* none after the first failure or once Run has seen the cancellation, and *)
(* the rest discarded.                                                     *)
(***************************************************************************)
StateOf(i) ==
  CASE i \in committed -> "committed"
    [] i \in results \cup Committing -> "prepared"
    [] i \in Preparing -> "preparing"
    [] i \in prepared \ (committed \cup results \cup Committing) -> "discarded"
    [] OTHER -> "new"

Promise == INSTANCE OrderedCommit
  WITH job <- [i \in Job |-> StateOf(i)],
       halted <- pc \in {"unwind", "join", "returned"}

ImplementsOrderedCommit == Promise!Spec

(***************************************************************************)
(* Run returns.  Nothing in it waits for what need not come, with barriers *)
(* and failures and whether or not its context is ever cancelled.          *)
(***************************************************************************)
Terminates == <>(pc = "returned")
=============================================================================
