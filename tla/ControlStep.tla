----------------------------- MODULE ControlStep -----------------------------
(***************************************************************************)
(* pkg/workflow/control.go: a parallel or matrix step runs its children as *)
(* a graph on pkg/scheduler.  Dispatching a child resolves its templates,  *)
(* executes it, counts it if it failed, and cancels the whole group when   *)
(* the count reaches the step's threshold.                                 *)
(*                                                                         *)
(* A child is a matrix row and the place of its step in the step's list.   *)
(* For a parallel step the rows are just groups of children: `needs` is    *)
(* enumerated alike for each, and there is no order but `needs`.  A matrix *)
(* is distinct if no axis repeats a value.                                 *)
(***************************************************************************)
EXTENDS DependencyGraph

CONSTANTS
  Row,            \* the rows of expandMatrix, those that are alike counted once
  StepCount,      \* how many steps are declared
  Parents,        \* the control steps that are tried
  MaxConcurrency, \* max_concurrency, zero if not given
  None, Context   \* the errors of a result of the Scheduler that blame no node

Step == 1 .. StepCount
Mode == {"wait_all", "fail_fast", "best_effort"}

ASSUME ControlAssumption ==
  /\ Row # {} /\ StepCount \in Nat \ {0}
  /\ Node = Row \X Step
  /\ Parents \subseteq [type : {"parallel", "matrix"}, needs : [Step -> SUBSET Step],
                        mode : Mode, maxFailures : Nat, distinct : BOOLEAN]
  /\ MaxConcurrency \in Nat
  /\ None \notin Node /\ Context \notin Node /\ None # Context

VARIABLES
  parent,           \* the control step
  phase,            \* where the step is
  child,            \* what became of each child
  failures,         \* how many executions have failed
  parentCancelled,  \* the context of the caller is done
  ret               \* what ExecuteControlStep returns

control == <<phase, child, failures, parentCancelled, ret>>

\* The variables of the Scheduler that it creates; `cancelled` is runCtx.
VARIABLES deps, cancelled, pc, states, results, inDegree, ready, running,
          finished, stopping, worker, aggregate

scheduler == <<deps, cancelled, pc, states, results, inDegree, ready, running,
               finished, stopping, worker, aggregate>>

vars == <<parent, control, scheduler>>

-----------------------------------------------------------------------------
\* effectiveControlConcurrency.
Concurrency ==
  IF MaxConcurrency \in 1 .. Cardinality(Node) THEN MaxConcurrency ELSE Cardinality(Node)

FailFastRun == INSTANCE Scheduler
  WITH Graphs <- Graph, MaxConcurrency <- Concurrency, FailFast <- TRUE,
       OtherStatus <- {}

KeepGoingRun == INSTANCE Scheduler
  WITH Graphs <- Graph, MaxConcurrency <- Concurrency, FailFast <- FALSE,
       OtherStatus <- {}

\* The scheduler is told to fail fast unless more failures are tolerated.
FailsFast == parent.mode = "fail_fast" /\ parent.maxFailures <= 1

\* Variant with a bug: the first step of a row follows the last of an earlier row.
PreviousOfAnyRow(r, i) ==
  IF i > 1 THEN {<<r, i - 1>>}
  ELSE {<<s, StepCount>> : s \in {q \in Row : Rank[<<q, 1>>] < Rank[<<r, 1>>]}}

\* In a matrix, a step without needs follows the one above it in its row.
Previous(r, i) == IF i > 1 THEN {<<r, i - 1>>} ELSE {}

\* buildParallelGraph and buildMatrixGraph.
ControlGraph ==
  [n \in Node |->
     IF parent.type = "matrix" /\ parent.needs[n[2]] = {} THEN Previous(n[1], n[2])
     ELSE {<<n[1], j>> : j \in parent.needs[n[2]]}]

\* validateNeedsGraph looks for cycles among the needs that are declared.
NeedsAreValid ==
  \A S \in SUBSET Step : S # {} => \E i \in S : parent.needs[i] \cap S = {}

\* Variant with a bug: rows that are alike are run as one.
AlwaysBuilt == TRUE

\* AddNode takes no second node of a name, and rows that are alike share theirs.
Buildable == parent.distinct

Init ==
  /\ parent \in Parents
  /\ phase = "validate"
  /\ child = [n \in Node |-> "waiting"]
  /\ failures = 0
  /\ parentCancelled = FALSE
  /\ ret = "none"
  /\ deps = ControlGraph
  /\ KeepGoingRun!Init

\* ValidateWorkflowSteps, which the callers pass first.
Validate ==
  /\ phase = "validate"
  /\ IF NeedsAreValid THEN phase' = "build" /\ UNCHANGED ret
                      ELSE phase' = "returned" /\ ret' = "invalid"
  /\ UNCHANGED <<parent, child, failures, parentCancelled, scheduler>>

\* buildControlGraph fails before the fail mode is looked at.
Build ==
  /\ phase = "build"
  /\ IF Buildable THEN phase' = "run" /\ UNCHANGED ret
                  ELSE phase' = "returned" /\ ret' = "error"
  /\ UNCHANGED <<parent, child, failures, parentCancelled, scheduler>>

CancelParent ==
  /\ phase = "run"
  /\ KeepGoingRun!CancelContext
  /\ parentCancelled' = TRUE
  /\ UNCHANGED <<parent, phase, child, failures, ret>>

\* The steps of the scheduler other than those of its dispatcher.
Schedule ==
  /\ phase = "run"
  /\ \/ ~FailsFast /\ KeepGoingRun!Run
     \/ FailsFast /\ FailFastRun!Run
     \/ \E w \in KeepGoingRun!Worker : KeepGoingRun!StartNode(w) \/ KeepGoingRun!ExitWorker(w)
  /\ UNCHANGED <<parent, control>>

-----------------------------------------------------------------------------
\* The workers in the dispatcher with a child in one of these conditions.
DispatchingWith(conditions) ==
  {w \in KeepGoingRun!Worker :
     worker[w].phase = "dispatching" /\ child[worker[w].node] \in conditions}

\* resolveControlStep; a child whose templates fail is not executed or counted.
Resolve(w) ==
  /\ \E c \in {"executing", "unresolved"} : child' = [child EXCEPT ![worker[w].node] = c]
  /\ UNCHANGED <<parent, phase, failures, parentCancelled, ret, scheduler>>

\* Variant with a bug: the threshold is a number of failures to tolerate.
ShouldCancelAbove(count) ==
  LET threshold == IF parent.mode = "fail_fast" /\ parent.maxFailures = 0
                   THEN 1 ELSE parent.maxFailures
  IN  parent.mode # "best_effort" /\ threshold > 0 /\ count > threshold

\* shouldCancelControl.
ShouldCancel(count) ==
  LET threshold == IF parent.mode = "fail_fast" /\ parent.maxFailures = 0
                   THEN 1 ELSE parent.maxFailures
  IN  parent.mode # "best_effort" /\ threshold > 0 /\ count >= threshold

\* The executor returns; failures.Add(1) decides who cancels the group.
Succeed(w) ==
  /\ child' = [child EXCEPT ![worker[w].node] = "succeeded"]
  /\ UNCHANGED <<parent, phase, failures, parentCancelled, ret, scheduler>>

Fail(w) ==
  /\ failures' = failures + 1
  /\ child' = [child EXCEPT ![worker[w].node] =
                 IF ShouldCancel(failures + 1) THEN "cancelling" ELSE "failed"]
  /\ UNCHANGED <<parent, phase, parentCancelled, ret, scheduler>>

CancelGroup(w) ==
  /\ cancelled' = TRUE
  /\ child' = [child EXCEPT ![worker[w].node] = "failed"]
  /\ UNCHANGED <<parent, phase, failures, parentCancelled, ret, deps, pc, states,
                 results, inDegree, ready, running, finished, stopping, worker, aggregate>>

\* Dispatch returns, without a status of its own.
DispatchReturns(w) ==
  /\ LET n == worker[w].node
     IN  /\ KeepGoingRun!FinishNode(w)
         /\ worker'[w].result =
              KeepGoingRun!NormalizeResult(n, [status |-> "", err |-> child[n] # "succeeded"])
  /\ UNCHANGED <<parent, phase, child, failures, parentCancelled, ret>>

Dispatch ==
  \/ \E w \in DispatchingWith({"waiting"}) : Resolve(w)
  \/ \E w \in DispatchingWith({"executing"}) : Succeed(w) \/ Fail(w)
  \/ \E w \in DispatchingWith({"cancelling"}) : CancelGroup(w)
  \/ \E w \in DispatchingWith({"succeeded", "failed", "unresolved"}) : DispatchReturns(w)

-----------------------------------------------------------------------------
\* Variant with a bug: the mode is forgotten.
FailureOfScheduler == pc = "rejected" \/ aggregate.err # {}

Failed == parent.mode # "best_effort" /\ (pc = "rejected" \/ aggregate.err # {})

\* ExecuteControlStep returns; its deferred cancel ends runCtx.
Return ==
  /\ phase = "run"
  /\ pc \in {"returned", "rejected"}
  /\ phase' = "returned"
  /\ ret' = IF Failed THEN "error" ELSE "nil"
  /\ cancelled' = TRUE
  /\ UNCHANGED <<parent, child, failures, parentCancelled, deps, pc, states,
                 results, inDegree, ready, running, finished, stopping, worker, aggregate>>

Stopped == phase = "returned" /\ UNCHANGED vars

Next == Validate \/ Build \/ CancelParent \/ Schedule \/ Dispatch \/ Return \/ Stopped

Spec == Init /\ [][Next]_vars

-----------------------------------------------------------------------------
StatusOf(n) == results[n].status
ChildrenThat(condition) == {n \in Node : child[n] = condition}

(***************************************************************************)
(* The group is cancelled exactly when the executions that have failed     *)
(* reach max_failures (one, for a fail_fast that gives none), whatever the *)
(* order in which children that fail together count themselves; never      *)
(* before, never for best_effort, and never for want of the last count.    *)
(* This is the code, and its test.  parallel.mdx says otherwise: that so   *)
(* many failures are tolerated before the group is cancelled, and only in  *)
(* the mode fail_fast (README, "Findings").                                *)
(***************************************************************************)
CancelledAtThreshold ==
  LET limit == IF parent.mode = "fail_fast" /\ parent.maxFailures = 0
               THEN 1 ELSE parent.maxFailures
      reached == /\ parent.mode # "best_effort"
                 /\ limit > 0
                 /\ Cardinality(ChildrenThat("failed")) >= limit
  IN  phase = "run" => (cancelled = (parentCancelled \/ reached))

(***************************************************************************)
(* Unless the group was cancelled or the scheduler fails fast, a child is  *)
(* passed over exactly when a child of its own row that it depends on did  *)
(* not succeed: the rows of a matrix do not affect each other.             *)
(***************************************************************************)
RowsAreIndependent ==
  phase = "run" /\ pc = "returned" /\ ~cancelled /\ ~FailsFast =>
    \A n \in Node :
      (child[n] = "waiting") = (\E m \in deps[n] : m[1] = n[1] /\ StatusOf(m) # "succeeded")

(***************************************************************************)
(* The step fails exactly when its graph could not be built, be it         *)
(* best_effort or not, or when it is not best_effort and some child did    *)
(* not succeed, be it for its templates, its command, a child it needs or  *)
(* a cancellation.  Of a step that could not be built no child has run.    *)
(***************************************************************************)
ReturnTellsFailure ==
  phase = "returned" /\ ret # "invalid" =>
    /\ (ret = "error") = (\/ ~parent.distinct
                          \/ /\ parent.mode # "best_effort"
                             /\ \E n \in Node : child[n] # "succeeded")
    /\ ~parent.distinct => \A n \in Node : child[n] = "waiting"

(***************************************************************************)
(* A step whose needs are valid is executed: "Steps within a single        *)
(* generated combination run in declared order unless they use needs to    *)
(* depend on a sibling", whichever sibling that is.                        *)
(***************************************************************************)
ValidNeedsAreExecuted == pc # "rejected"
=============================================================================
