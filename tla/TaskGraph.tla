------------------------------ MODULE TaskGraph ------------------------------
(***************************************************************************)
(* pkg/taskgraph: the commands and workflows that a command or workflow    *)
(* depends on are resolved into one graph, which pkg/scheduler executes.   *)
(*                                                                         *)
(* A reference stands for its NodeID: equal kind, name, file, flags and    *)
(* arguments make equal references.  The nodes of the Scheduler are the    *)
(* references that can be reached from the direct ones.  What the lookups  *)
(* say of them does not change during a run; in which order the visitor    *)
(* meets them only decides which of several errors it returns.             *)
(***************************************************************************)
EXTENDS DependencyGraph

CONSTANTS
  Declarations,   \* what the references may declare: a set of graphs
  Directs,        \* the sets of direct references, each with its fail mode
  MaxConcurrency, \* WithMaxConcurrency, zero if not given
  None, Context   \* the errors of a result of the Scheduler that blame no node

FailMode == {"wait_all", "fail_fast", "best_effort"}

ASSUME TaskGraphAssumption ==
  /\ Declarations \subseteq Graph
  /\ Directs \subseteq SUBSET [ref : Node, fail : FailMode]
  /\ MaxConcurrency \in Nat
  /\ None \notin Node /\ Context \notin Node /\ None # Context

VARIABLES
  direct,    \* the direct references
  declared,  \* what the lookup functions answer for each reference
  found,     \* the references that they know, and can run
  phase,     \* where Run is
  ret        \* what Run returns

request == <<direct, declared, found>>

\* The variables of the Scheduler that Run creates.
VARIABLES deps, cancelled, pc, states, results, inDegree, ready, running,
          finished, stopping, worker, aggregate

scheduler == <<deps, cancelled, pc, states, results, inDegree, ready, running,
               finished, stopping, worker, aggregate>>

vars == <<request, phase, ret, scheduler>>

-----------------------------------------------------------------------------
\* Variant with a bug: fail_fast wins over best_effort.
StrictestFailMode ==
  LET asked == {d.fail : d \in direct}
  IN  IF "fail_fast" \in asked THEN "fail_fast"
      ELSE IF "best_effort" \in asked THEN "best_effort"
      ELSE "wait_all"

\* Variant with a bug: fail_fast is not passed on.
ForgetfulFailMode ==
  LET asked == {d.fail : d \in direct}
  IN  IF "best_effort" \in asked THEN "best_effort" ELSE "wait_all"

\* The most permissive mode that a direct reference asks for, else wait_all.
EffectiveFailMode ==
  LET asked == {d.fail : d \in direct}
  IN  IF "best_effort" \in asked THEN "best_effort"
      ELSE IF "fail_fast" \in asked THEN "fail_fast"
      ELSE "wait_all"

(***************************************************************************)
(* Run passes WithMaxConcurrency on only if it is positive; scheduler.New  *)
(* has set one worker by then.                                             *)
(***************************************************************************)
SchedulerConcurrency == IF MaxConcurrency > 0 THEN MaxConcurrency ELSE 1

FailFastRun == INSTANCE Scheduler
  WITH Graphs <- Graph, MaxConcurrency <- SchedulerConcurrency, FailFast <- TRUE,
       OtherStatus <- {}

WaitAllRun == INSTANCE Scheduler
  WITH Graphs <- Graph, MaxConcurrency <- SchedulerConcurrency, FailFast <- FALSE,
       OtherStatus <- {}

\* What buildGraph visits: the least set with the direct references and, for
\* each reference that is known, those that it declares.
Closure ==
  LET Closed(S) == /\ \A d \in direct : d.ref \in S
                   /\ \A r \in S \cap found : declared[r] \subseteq S
  IN  {r \in Node : \A S \in SUBSET Node : Closed(S) => r \in S}

Init ==
  /\ direct \in Directs
  /\ declared \in Declarations
  /\ found \in SUBSET Node
  /\ direct = {} \/ Closure = Node
  /\ phase = "build"
  /\ ret = "none"
  /\ WaitAllRun!Init
  /\ deps = declared

(***************************************************************************)
(* buildGraph: the visitor stops at a reference without lookup or runner   *)
(* or that the lookup does not know, and at one that declares itself;      *)
(* Build rejects a cycle.                                                  *)
(***************************************************************************)
VisitErrors ==
  {e \in {"unresolved", "self"} :
     \/ e = "unresolved" /\ found # Node
     \/ e = "self" /\ \E r \in found : r \in declared[r]}

\* Variant with a bug: nobody looks for cycles.
BuildErrorsButCycles == VisitErrors

BuildErrors ==
  IF VisitErrors # {} THEN VisitErrors
  ELSE IF Acyclic(declared) THEN {} ELSE {"cycle"}

BuildGraph ==
  /\ phase = "build"
  /\ \/ direct = {} /\ phase' = "returned" /\ ret' = "nil"
     \/ direct # {} /\ phase' = "returned" /\ ret' \in BuildErrors
     \/ direct # {} /\ BuildErrors = {} /\ phase' = "run" /\ UNCHANGED ret
  /\ UNCHANGED <<request, scheduler>>

\* scheduler.New(...).Run(ctx)
Schedule ==
  /\ phase = "run"
  /\ IF EffectiveFailMode = "fail_fast" THEN FailFastRun!Next ELSE WaitAllRun!Next
  /\ UNCHANGED <<request, phase, ret>>

\* Run returns the error of the aggregate, unless best_effort forgives it.
Return ==
  /\ phase = "run"
  /\ pc \in {"returned", "rejected"}
  /\ phase' = "returned"
  /\ ret' = IF EffectiveFailMode # "best_effort" /\ (pc = "rejected" \/ aggregate.err # {})
            THEN "failed" ELSE "nil"
  /\ UNCHANGED <<request, scheduler>>

Stopped == phase = "returned" /\ UNCHANGED vars

Next == BuildGraph \/ Schedule \/ Return \/ Stopped

Spec == Init /\ [][Next]_vars

-----------------------------------------------------------------------------
TypeOK ==
  /\ direct \in Directs
  /\ declared \in Declarations
  /\ found \subseteq Node
  /\ phase \in {"build", "run", "returned"}
  /\ ret \in {"none", "nil", "unresolved", "self", "cycle", "failed"}
  /\ WaitAllRun!TypeOK

Asked(mode) == \E d \in direct : d.fail = mode
Succeeded(n) == results[n].status = "succeeded"
Ran == phase = "returned" /\ pc = "returned"

(***************************************************************************)
(* Nothing is executed unless everything resolves: the scheduler is never  *)
(* handed a graph that it would reject (an error that best_effort would    *)
(* swallow), and no reference starts before the last one was looked up.    *)
(***************************************************************************)
ResolvedBeforeRun ==
  /\ pc # "rejected"
  /\ (\E n \in Node : states[n] # "pending") => found = Node /\ Acyclic(declared)

(***************************************************************************)
(* wait_all, and best_effort, run "to completion regardless of siblings'   *)
(* failures": unless the context was cancelled, a reference whose own      *)
(* dependencies succeeded has been executed when Run returns.  One direct  *)
(* best_effort takes precedence over fail_fast for the whole graph.        *)
(***************************************************************************)
SiblingsComplete ==
  Ran /\ ~cancelled /\ (Asked("best_effort") \/ ~Asked("fail_fast")) =>
    \A n \in Node : (\A d \in deps[n] : Succeeded(d)) => results[n].err \in {None, n}

(***************************************************************************)
(* With fail_fast, and no best_effort beside it, no reference is started   *)
(* once the scheduler has recorded a failure.                              *)
(***************************************************************************)
FailFastStops ==
  [][ Asked("fail_fast") /\ ~Asked("best_effort") /\ (\E n \in Node : results[n].status = "failed")
        => {n \in Node : states'[n] = "running"} \subseteq {n \in Node : states[n] = "running"} ]_vars

(***************************************************************************)
(* "Unset (zero) means unbounded -- concurrent by default": without a      *)
(* bound, a reference whose dependencies have succeeded never waits for a  *)
(* worker to become idle.                                                  *)
(***************************************************************************)
ConcurrentByDefault ==
  MaxConcurrency = 0 /\ phase = "run" /\ WaitAllRun!Looping /\ ~stopping =>
    \A n \in WaitAllRun!Pending :
      (\A d \in deps[n] : Succeeded(d)) => \E w \in WaitAllRun!Worker : worker[w] = WaitAllRun!Idle
=============================================================================
