------------------------------ MODULE Scheduler ------------------------------
(***************************************************************************)
(* pkg/scheduler: a dependency graph executed by one coordinating          *)
(* goroutine (Run) and a bounded pool of workers.                          *)
(*                                                                         *)
(* Run owns states, results, inDegree, ready, running, finished and        *)
(* stopping; workers never touch them.  The two sides meet on two          *)
(* unbuffered channels: workCh hands a node to an idle worker, eventCh     *)
(* hands a finished node back.  An unbuffered send and its receive happen  *)
(* together, so each is one action here.  Run's select has three cases     *)
(* (offer a node, receive an event, see the context cancelled) and picks   *)
(* any that is ready: Offer, Receive and ObserveCancel are its             *)
(* alternatives.                                                           *)
(*                                                                         *)
(* What a node does is the Dispatcher's business.  Here a dispatch takes   *)
(* some time and returns any status the interface has, or one of its own   *)
(* making (OtherStatus), with or without an error.                         *)
(***************************************************************************)
EXTENDS DependencyGraph

CONSTANTS
  Graphs,          \* the graphs a run may be given
  MaxConcurrency,  \* WithMaxConcurrency
  FailFast,        \* WithFailFast
  OtherStatus,     \* statuses of a dispatcher's own; Status is an open string type
  None, Context    \* no error, and that of a context that is done

ASSUME SchedulerAssumption ==
  /\ Graphs \subseteq Graph
  /\ MaxConcurrency \in Int
  /\ FailFast \in BOOLEAN
  /\ None \notin Node /\ Context \notin Node /\ None # Context

\* The last three are not statuses of a dispatch, but names used below.
ASSUME StatusAssumption ==
  OtherStatus \cap {"succeeded", "failed", "skipped", "", "none", "pending", "running"} = {}

VARIABLES
  deps,       \* the graph of this run; never changes
  cancelled,  \* the caller's context is done
  pc,         \* where Run is
  states, results, inDegree, ready, running, finished, stopping,  \* Run's locals
  worker,     \* what each worker goroutine is doing
  aggregate   \* the AggregateResult of Run

runLocals == <<states, results, inDegree, ready, running, finished, stopping>>
vars == <<deps, cancelled, pc, runLocals, worker, aggregate>>

-----------------------------------------------------------------------------
NodeCount == Cardinality(Node)

WorkerCount == IF MaxConcurrency < NodeCount THEN MaxConcurrency ELSE NodeCount
Worker == 1 .. WorkerCount

\* The statuses that the package declares, and all that may be met with.
Declared == {"succeeded", "failed", "skipped"}
Status == Declared \cup OtherStatus

\* The Err of a result, by what it blames: nothing, a node, or the context.
Blame == Node \cup {None, Context}

Result == [status : Status, err : Blame]
NoResult == [status |-> "none", err |-> None]

\* What Dispatcher.Dispatch returns: a status (empty when it sets none) and
\* whether an error came with it.
DispatchReturn == [status : Status \cup {""}, err : BOOLEAN]

(***************************************************************************)
(* normalizeResult: an explicit skip stays a skip, any other error is a    *)
(* failure, no status is success, and every non-success carries an error.  *)
(* A status of the dispatcher's own is kept when no error came with it.    *)
(***************************************************************************)
NormalizeResult(n, ret) ==
  LET status == IF ret.status = "skipped" THEN "skipped"
                ELSE IF ret.err THEN "failed"
                ELSE IF ret.status = "" THEN "succeeded"
                ELSE ret.status
  IN  [status |-> status, err |-> IF status = "succeeded" THEN None ELSE n]

Idle == [phase |-> "idle"]
Exited == [phase |-> "exited"]
WorkerState ==
  {Idle, Exited}
    \cup [phase : {"taken", "dispatching"}, node : Node]
    \cup [phase : {"reporting"}, node : Node, result : Result]

Busy == {w \in Worker : worker[w].phase \notin {"idle", "exited"}}

NodesIn(state) == {n \in Node : states[n] = state}
Pending == NodesIn("pending")

-----------------------------------------------------------------------------
NoAggregate == [results |-> << >>, err |-> {}]

Init ==
  /\ deps \in Graphs
  /\ cancelled = FALSE
  /\ pc = "validate"
  /\ states = [n \in Node |-> "pending"]
  /\ results = [n \in Node |-> NoResult]
  /\ inDegree = [n \in Node |-> Cardinality(deps[n])]
  /\ ready = Roots(deps)
  /\ running = 0
  /\ finished = 0
  /\ stopping = FALSE
  /\ worker = [w \in Worker |-> Idle]
  /\ aggregate = NoAggregate

\* The context passed to Run can be cancelled at any time.
CancelContext ==
  /\ ~cancelled
  /\ pc # "returned"
  /\ cancelled' = TRUE
  /\ UNCHANGED <<deps, pc, runLocals, worker, aggregate>>

(***************************************************************************)
(* Run before the loop: reject a bad worker count or a cyclic graph.       *)
(***************************************************************************)
Valid == MaxConcurrency > 0 /\ Acyclic(deps)

Validate ==
  /\ pc = "validate"
  /\ pc' = IF Valid THEN "loop" ELSE "rejected"
  /\ UNCHANGED <<deps, cancelled, runLocals, worker, aggregate>>

(***************************************************************************)
(* The head of the loop: when there is room for another node, ready queue  *)
(* heads that are no longer pending are dropped before the select.         *)
(***************************************************************************)
Looping == pc = "loop" /\ finished < NodeCount

HasRoom == ~stopping /\ running < WorkerCount

StaleHeads ==
  {n \in ready : \A m \in ready : Rank[m] <= Rank[n] => states[m] # "pending"}

Queue == IF HasRoom THEN ready \ StaleHeads ELSE ready

\* Variant with a bug: the end of the queue is offered instead of its head.
LastOf(S) == CHOOSE n \in S : \A m \in S : Rank[m] <= Rank[n]

Peek(S) == First(S)

\* case out <- nextID: an idle worker takes the first ready node.
Offer(w) ==
  /\ Looping
  /\ HasRoom
  /\ Queue # {}
  /\ worker[w] = Idle
  /\ LET next == Peek(Queue)
     IN  /\ ready' = Queue \ {next}
         /\ states' = [states EXCEPT ![next] = "running"]
         /\ worker' = [worker EXCEPT ![w] = [phase |-> "taken", node |-> next]]
  /\ running' = running + 1
  /\ UNCHANGED <<deps, cancelled, pc, results, inDegree, finished, stopping, aggregate>>

(***************************************************************************)
(* recordEvent: note the result, and release the pending dependents of a   *)
(* node that succeeded, queueing those with no dependency left.            *)
(***************************************************************************)
Released(n, result) ==
  IF result.status = "succeeded" THEN Dependents(deps, n) \cap Pending ELSE {}

\* Variants with a bug: a node is queued with one dependency still to go, or
\* the in-degree is tested before it is decremented.
QueuedEarly(released) == {m \in released : inDegree[m] \in {1, 2}}
QueuedLate(released) == {m \in released : inDegree[m] = 0}

\* Those whose in-degree reaches zero.
Queued(released) == {m \in released : inDegree[m] = 1}

RecordEvent(n, result) ==
  LET released == Released(n, result)
  IN  /\ inDegree' = [m \in Node |->
                        IF m \in released THEN inDegree[m] - 1 ELSE inDegree[m]]
      /\ ready' = Queue \cup Queued(released)

\* Variants with a bug: only direct dependents are skipped; an explicit skip
\* blocks nothing; any loss stops the run; fail-fast forgets skipPending.
SkippedDirectly(n, result) ==
  IF result.status \in {"failed", "skipped"} THEN Dependents(deps, n) \cap Pending ELSE {}

SkippedByFailureOnly(n, result) ==
  IF result.status = "failed" THEN DependentsWithin(deps, n, Pending) ELSE {}

SkippedByAnyLoss(n, result) == IF result.status = "succeeded" THEN {} ELSE Pending

SkippedWithoutStop(n, result) ==
  IF result.status \in {"failed", "skipped"} THEN DependentsWithin(deps, n, Pending) ELSE {}

(***************************************************************************)
(* The nodes that Run gives up on after this event: every pending node     *)
(* when the run stops (skipPending), or the pending nodes behind the one   *)
(* that failed or was skipped (skipBlocked).  A status of the dispatcher's *)
(* own gives up nothing, and releases nothing either.                      *)
(***************************************************************************)
SkippedBy(n, result) ==
  IF result.status = "failed" /\ FailFast THEN Pending
  ELSE IF result.status \in {"failed", "skipped"} THEN DependentsWithin(deps, n, Pending)
  ELSE {}

Skip(m, blame) == [status |-> "skipped", err |-> blame]

\* case event := <-eventCh: a worker hands its result back and is idle again.
Receive(w) ==
  /\ Looping
  /\ worker[w].phase = "reporting"
  /\ LET n == worker[w].node
         result == worker[w].result
         skipped == SkippedBy(n, result)
     IN  /\ RecordEvent(n, result)
         /\ states' = [m \in Node |->
                         IF m \in {n} \cup skipped THEN "finished" ELSE states[m]]
         /\ results' = [m \in Node |-> IF m = n THEN result
                                       ELSE IF m \in skipped THEN Skip(m, n)
                                       ELSE results[m]]
         /\ finished' = finished + 1 + Cardinality(skipped)
         /\ stopping' = (stopping \/ (FailFast /\ result.status = "failed"))
  /\ running' = running - 1
  /\ worker' = [worker EXCEPT ![w] = Idle]
  /\ UNCHANGED <<deps, cancelled, pc, aggregate>>

NotStarted == Pending

\* case <-done: stop, and skip every node that has not started.
ObserveCancel ==
  /\ Looping
  /\ cancelled
  /\ ~stopping
  /\ stopping' = TRUE
  /\ states' = [m \in Node |-> IF m \in NotStarted THEN "finished" ELSE states[m]]
  /\ results' = [m \in Node |-> IF m \in NotStarted THEN Skip(m, Context) ELSE results[m]]
  /\ finished' = finished + Cardinality(NotStarted)
  /\ ready' = Queue
  /\ UNCHANGED <<deps, cancelled, pc, inDegree, running, worker, aggregate>>

-----------------------------------------------------------------------------
\* A worker receives from workCh, looks the node up and starts it.
StartNode(w) ==
  /\ worker[w].phase = "taken"
  /\ worker' = [worker EXCEPT ![w] = [phase |-> "dispatching", node |-> worker[w].node]]
  /\ UNCHANGED <<deps, cancelled, pc, runLocals, aggregate>>

\* Dispatch returns; the worker normalizes the result and turns to eventCh.
FinishNode(w) ==
  /\ worker[w].phase = "dispatching"
  /\ \E ret \in DispatchReturn :
       LET n == worker[w].node
       IN  worker' = [worker EXCEPT ![w] =
                        [phase |-> "reporting", node |-> n, result |-> NormalizeResult(n, ret)]]
  /\ UNCHANGED <<deps, cancelled, pc, runLocals, aggregate>>

\* workCh is closed: the worker's range loop ends.
ExitWorker(w) ==
  /\ pc = "closed"
  /\ worker[w] = Idle
  /\ worker' = [worker EXCEPT ![w] = Exited]
  /\ UNCHANGED <<deps, cancelled, pc, runLocals, aggregate>>

-----------------------------------------------------------------------------
\* Every node is accounted for: close(workCh).
CloseWork ==
  /\ pc = "loop"
  /\ finished >= NodeCount
  /\ pc' = "closed"
  /\ UNCHANGED <<deps, cancelled, runLocals, worker, aggregate>>

(***************************************************************************)
(* orderedResults and aggregateError.  The error joins those of the nodes  *)
(* that failed or ended in a status of their own; skips are reported only  *)
(* when there are none of those.                                           *)
(***************************************************************************)
OrderedResults ==
  LET order == Topological(deps)
      ordered[i \in 0 .. Len(order)] ==
        IF i = 0 THEN << >>
        ELSE IF results[order[i]] = NoResult THEN ordered[i - 1]
        ELSE Append(ordered[i - 1], order[i])
  IN  ordered[Len(order)]

\* Variant with a bug: skips are never reported.
FailuresOnly ==
  {n \in Node : results[n].status \notin {"succeeded", "skipped"}}

AggregateError ==
  LET skipped == {n \in Node : results[n].status = "skipped"}
      failed == {n \in Node : results[n].status \notin {"succeeded", "skipped"}}
  IN  IF failed # {} THEN failed ELSE skipped

\* workers.Wait() is over: Run returns.
ReturnAggregate ==
  /\ pc = "closed"
  /\ \A w \in Worker : worker[w] = Exited
  /\ pc' = "returned"
  /\ aggregate' = [results |-> OrderedResults, err |-> AggregateError]
  /\ UNCHANGED <<deps, cancelled, runLocals, worker>>

-----------------------------------------------------------------------------
\* The goroutine of Run, and that of worker w.
Run == \/ Validate
       \/ \E w \in Worker : Offer(w)
       \/ \E w \in Worker : Receive(w)
       \/ ObserveCancel
       \/ CloseWork
       \/ ReturnAggregate

WorkerLoop(w) == StartNode(w) \/ FinishNode(w) \/ ExitWorker(w)

Stopped == pc \in {"returned", "rejected"} /\ UNCHANGED vars

Next == Run \/ (\E w \in Worker : WorkerLoop(w)) \/ CancelContext \/ Stopped

Spec == Init /\ [][Next]_vars

(***************************************************************************)
(* The Go runtime schedules every runnable goroutine, and a dispatch that  *)
(* was started returns.  Nothing obliges the caller to cancel.             *)
(***************************************************************************)
Fairness == WF_vars(Run) /\ \A w \in Worker : WF_vars(WorkerLoop(w))

FairSpec == Spec /\ Fairness

-----------------------------------------------------------------------------
TypeOK ==
  /\ deps \in Graph
  /\ cancelled \in BOOLEAN
  /\ pc \in {"validate", "loop", "closed", "returned", "rejected"}
  /\ states \in [Node -> {"pending", "running", "finished"}]
  /\ results \in [Node -> Result \cup {NoResult}]
  /\ inDegree \in [Node -> Int]
  /\ ready \subseteq Node
  /\ running \in Int
  /\ finished \in Int
  /\ stopping \in BOOLEAN
  /\ worker \in [Worker -> WorkerState]
  /\ aggregate.err \in SUBSET Node

StatusOf(n) == results[n].status

\* n was handed to a worker: it runs, or its result is its own.
Dispatched(n) ==
  \/ states[n] = "running"
  \/ states[n] = "finished" /\ results[n].err \in {None, n}

(***************************************************************************)
(* A node is handed to a worker, and a fortiori succeeds, only when every  *)
(* node it depends on has succeeded: Run's ready queue and in-degree       *)
(* bookkeeping never release a node early.                                 *)
(***************************************************************************)
DependencyOrder ==
  \A n \in Node : (states[n] = "running" \/ StatusOf(n) = "succeeded") =>
    \A d \in deps[n] : StatusOf(d) = "succeeded"

(***************************************************************************)
(* skipBlocked leaves nothing behind: no pending node has a dependency     *)
(* that failed or was skipped, however far away the failure was.  (Such a  *)
(* node would never be released and Run would wait for it for ever.)       *)
(***************************************************************************)
NothingBlockedIsPending ==
  \A n \in Pending : \A d \in deps[n] : StatusOf(d) \notin {"failed", "skipped"}

(***************************************************************************)
(* While the run goes on, inDegree counts exactly the dependencies that    *)
(* have not succeeded and the ready queue holds exactly the pending nodes  *)
(* with none left.  So no node is queued twice or lost, and the loop that  *)
(* drops stale queue heads never has anything to drop.                     *)
(***************************************************************************)
ReadyIsExact ==
  /\ \A n \in Pending :
       inDegree[n] = Cardinality({d \in deps[n] : StatusOf(d) # "succeeded"})
  /\ ~stopping => ready = {n \in Pending : inDegree[n] = 0}

(***************************************************************************)
(* Run's two counters are right: running nodes are those in the hands of   *)
(* distinct workers, never more than the workers there are, and finished   *)
(* is the number of nodes with a result, so that the loop ends neither     *)
(* early (leaving workers blocked on eventCh) nor never.                   *)
(***************************************************************************)
CountersAgree ==
  /\ running = Cardinality(Busy)
  /\ NodesIn("running") = {worker[w].node : w \in Busy}
  /\ \A v, w \in Busy : worker[v].node = worker[w].node => v = w
  /\ finished = Cardinality(NodesIn("finished"))
  /\ NodesIn("finished") = {n \in Node : results[n] # NoResult}

(***************************************************************************)
(* A pending node depends on one that ended in a status of its             *)
(* dispatcher's own: nothing but a stop will ever take it out of pending.  *)
(***************************************************************************)
Stranded == \E n \in Pending : \E d \in deps[n] : StatusOf(d) \in OtherStatus

(***************************************************************************)
(* Run's loop waits for nothing only behind a status that is not among     *)
(* those the package declares: else, with no node running and some         *)
(* unaccounted for, there is a node to offer and an idle worker to take it.*)
(***************************************************************************)
NeverStuck ==
  Looping /\ running = 0 /\ ~Stranded =>
    Queue # {} /\ HasRoom /\ \E w \in Worker : worker[w] = Idle

(***************************************************************************)
(* Once the run stops (fail-fast after a failure, or cancellation) no node *)
(* is left that could still start; and fail-fast stops at the first        *)
(* failure that Run hears of.                                              *)
(***************************************************************************)
StopIsFinal ==
  /\ stopping => Pending = {}
  /\ FailFast /\ (\E n \in Node : StatusOf(n) = "failed") => stopping

(***************************************************************************)
(* Every skip blames an actual cause: the context only if it was           *)
(* cancelled, else a node that was dispatched and did not succeed itself.  *)
(* Without a fail-fast stop that node is one the skipped node depends on,  *)
(* directly or not.                                                        *)
(***************************************************************************)
SkipsAreJustified ==
  \A n \in Node : StatusOf(n) = "skipped" =>
    LET cause == results[n].err
    IN  \/ cause = Context /\ cancelled
        \/ /\ cause \in Node
           /\ results[cause] \in [status : {"failed", "skipped"}, err : {cause}]
           /\ \/ cause = n
              \/ FailFast /\ StatusOf(cause) = "failed"
              \/ n \in DependentsWithin(deps, cause, Node)

(***************************************************************************)
(* A node goes from pending to running to finished or straight to          *)
(* finished, and its result, once recorded, is never overwritten: a stop   *)
(* or a skip does not touch nodes that are running or done.                *)
(***************************************************************************)
OneWay ==
  \A n \in Node :
    /\ states[n] # "pending" => states'[n] # "pending"
    /\ states[n] = "running" /\ states'[n] = "finished" =>
         \E w \in Worker : /\ worker[w].phase = "reporting"
                          /\ worker[w].node = n
                          /\ results'[n] = worker[w].result
    /\ results[n] # NoResult => results'[n] = results[n]

ResultsAreFinal == [][OneWay]_vars

(***************************************************************************)
(* "AggregateResult contains one result per graph node in stable           *)
(* topological order", and Run's error names every node that failed or     *)
(* ended in a status of its own, or, when none did, every node that was    *)
(* skipped.                                                                *)
(***************************************************************************)
ReturnIsComplete ==
  pc = "returned" =>
    LET order == aggregate.results
    IN  /\ Len(order) = NodeCount
        /\ \A n \in Node : \E i \in DOMAIN order : order[i] = n
        /\ \A i, j \in DOMAIN order : order[i] \in deps[order[j]] => i < j
        /\ \A n \in Node : StatusOf(n) \notin {"succeeded", "skipped"} => n \in aggregate.err
        /\ (aggregate.err = {}) = (\A n \in Node : StatusOf(n) = "succeeded")
        /\ Busy = {}

(***************************************************************************)
(* With one worker the nodes run in the order of the aggregate: when a     *)
(* node has been handed out, nothing before it in topological order is     *)
(* still waiting, whatever was skipped in between.  (A node stranded       *)
(* behind a status of a dispatcher's own waits on and others overtake it.) *)
(***************************************************************************)
SequentialOrder ==
  /\ WorkerCount = 1
  /\ pc # "rejected" /\ Acyclic(deps)
  /\ \A n \in Node : StatusOf(n) \notin OtherStatus
  =>
    LET order == Topological(deps)
    IN  \A j \in DOMAIN order :
          Dispatched(order[j]) => \A i \in 1 .. j - 1 : states[order[i]] # "pending"

(***************************************************************************)
(* Run returns, whenever the caller cancels and whatever the dispatcher    *)
(* answers, unless and until a node is stranded behind a status of the     *)
(* dispatcher's own.  A stop (a failure with fail-fast, or cancellation)   *)
(* ends that too.                                                          *)
(***************************************************************************)
Terminates == []<>(pc \in {"returned", "rejected"} \/ Stranded)

-----------------------------------------------------------------------------
\* What a caller can tell of a node.
Outcome == [n \in Node |-> IF states[n] = "finished" THEN StatusOf(n) ELSE states[n]]

Dag == INSTANCE DagExecution
         WITH Limit <- WorkerCount, Stray <- OtherStatus, outcome <- Outcome, halted <- stopping

(***************************************************************************)
(* The scheduler implements its promise: every step of Run and of the      *)
(* workers is a step of DagExecution or invisible in it.                   *)
(***************************************************************************)
ImplementsDag == Dag!Safe

(***************************************************************************)
(* ... and, for a graph Run accepts, fair scheduling gives the liveness    *)
(* half: while the run goes on and has room, some node whose dependencies  *)
(* succeeded starts, and a node that runs is eventually known to have ended.*)
(***************************************************************************)
FulfilsDag == Valid => Dag!Fairness
=============================================================================
