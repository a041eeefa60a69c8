--------------------------- MODULE TaskGraphProofs ---------------------------
(***************************************************************************)
(* Proofs about module TaskGraph, for any references, declarations and     *)
(* fail modes.  What is proved of the scheduler in SchedulerProofs holds   *)
(* of the one that Run creates, whichever mode the direct references ask   *)
(* for.                                                                    *)
(***************************************************************************)
EXTENDS TaskGraph, FiniteSetTheorems, TLAPS

Keep == INSTANCE SchedulerProofs
  WITH Graphs <- Graph, MaxConcurrency <- SchedulerConcurrency, FailFast <- FALSE,
       OtherStatus <- {}

Fast == INSTANCE SchedulerProofs
  WITH Graphs <- Graph, MaxConcurrency <- SchedulerConcurrency, FailFast <- TRUE,
       OtherStatus <- {}

-----------------------------------------------------------------------------
(***************************************************************************)
(* The scheduler of a task graph is one of those of SchedulerProofs.       *)
(***************************************************************************)
\* The actions of either instance.
LEMMA WaitAllIsKeep ==
  /\ WaitAllRun!Worker = Keep!Worker
  /\ WaitAllRun!Init <=> Keep!Init
  /\ WaitAllRun!Next <=> Keep!Next
  /\ WaitAllRun!vars = Keep!vars
<1>1. WaitAllRun!Worker = Keep!Worker
  BY DEF WaitAllRun!Worker, Keep!Worker, WaitAllRun!WorkerCount, Keep!WorkerCount,
         WaitAllRun!NodeCount, Keep!NodeCount, WaitAllRun!Cardinality, Keep!Cardinality
<1>2. WaitAllRun!Validate <=> Keep!Validate
  BY DEF WaitAllRun!Validate, Keep!Validate, WaitAllRun!Valid, Keep!Valid, WaitAllRun!Acyclic,
         Keep!Acyclic, WaitAllRun!runLocals, Keep!runLocals
<1>3. \A w : WaitAllRun!Offer(w) <=> Keep!Offer(w)
  BY DEF WaitAllRun!Offer, Keep!Offer, WaitAllRun!Looping, Keep!Looping, WaitAllRun!HasRoom,
         Keep!HasRoom, WaitAllRun!Queue, Keep!Queue, WaitAllRun!Peek, Keep!Peek,
         WaitAllRun!First, Keep!First, WaitAllRun!NodeCount, Keep!NodeCount,
         WaitAllRun!WorkerCount, Keep!WorkerCount, WaitAllRun!Idle, Keep!Idle,
         WaitAllRun!StaleHeads, Keep!StaleHeads, WaitAllRun!Cardinality, Keep!Cardinality
<1>4. \A w : WaitAllRun!Receive(w) <=> Keep!Receive(w)
  BY DEF WaitAllRun!Receive, Keep!Receive, WaitAllRun!Looping, Keep!Looping,
         WaitAllRun!RecordEvent, Keep!RecordEvent, WaitAllRun!Queue, Keep!Queue,
         WaitAllRun!HasRoom, Keep!HasRoom, WaitAllRun!StaleHeads, Keep!StaleHeads,
         WaitAllRun!Released, Keep!Released, WaitAllRun!Queued, Keep!Queued,
         WaitAllRun!SkippedBy, Keep!SkippedBy, WaitAllRun!Skip, Keep!Skip, WaitAllRun!Pending,
         Keep!Pending, WaitAllRun!NodesIn, Keep!NodesIn, WaitAllRun!Idle, Keep!Idle,
         WaitAllRun!WorkerCount, Keep!WorkerCount, WaitAllRun!NodeCount, Keep!NodeCount,
         WaitAllRun!Dependents, Keep!Dependents, WaitAllRun!DependentsWithin,
         Keep!DependentsWithin, WaitAllRun!Cardinality, Keep!Cardinality
<1>5. WaitAllRun!ObserveCancel <=> Keep!ObserveCancel
  BY DEF WaitAllRun!ObserveCancel, Keep!ObserveCancel, WaitAllRun!Looping, Keep!Looping,
         WaitAllRun!NotStarted, Keep!NotStarted, WaitAllRun!Pending, Keep!Pending,
         WaitAllRun!NodesIn, Keep!NodesIn, WaitAllRun!Queue, Keep!Queue, WaitAllRun!HasRoom,
         Keep!HasRoom, WaitAllRun!StaleHeads, Keep!StaleHeads, WaitAllRun!Skip, Keep!Skip,
         WaitAllRun!WorkerCount, Keep!WorkerCount, WaitAllRun!NodeCount, Keep!NodeCount,
         WaitAllRun!Cardinality, Keep!Cardinality
<1>6. WaitAllRun!CloseWork <=> Keep!CloseWork
  BY DEF WaitAllRun!CloseWork, Keep!CloseWork, WaitAllRun!NodeCount, Keep!NodeCount,
         WaitAllRun!runLocals, Keep!runLocals, WaitAllRun!Cardinality, Keep!Cardinality
<1>7. WaitAllRun!ReturnAggregate <=> Keep!ReturnAggregate
  BY DEF WaitAllRun!ReturnAggregate, Keep!ReturnAggregate, WaitAllRun!Worker, Keep!Worker,
         WaitAllRun!WorkerCount, Keep!WorkerCount, WaitAllRun!NodeCount, Keep!NodeCount,
         WaitAllRun!Exited, Keep!Exited, WaitAllRun!OrderedResults, Keep!OrderedResults,
         WaitAllRun!AggregateError, Keep!AggregateError, WaitAllRun!runLocals, Keep!runLocals,
         WaitAllRun!Topological, Keep!Topological, WaitAllRun!Ready, Keep!Ready,
         WaitAllRun!Placed, Keep!Placed, WaitAllRun!First, Keep!First, WaitAllRun!NoResult,
         Keep!NoResult, WaitAllRun!Cardinality, Keep!Cardinality
<1>8. WaitAllRun!Init <=> Keep!Init
  BY DEF WaitAllRun!Init, Keep!Init, WaitAllRun!Graph, Keep!Graph, WaitAllRun!Roots, Keep!Roots,
         WaitAllRun!Worker, Keep!Worker, WaitAllRun!WorkerCount, Keep!WorkerCount,
         WaitAllRun!NodeCount, Keep!NodeCount, WaitAllRun!Idle, Keep!Idle, WaitAllRun!NoResult,
         Keep!NoResult, WaitAllRun!NoAggregate, Keep!NoAggregate, WaitAllRun!Cardinality,
         Keep!Cardinality
<1>9. WaitAllRun!CancelContext <=> Keep!CancelContext
  BY DEF WaitAllRun!CancelContext, Keep!CancelContext, WaitAllRun!runLocals, Keep!runLocals
<1>10. \A w : WaitAllRun!StartNode(w) <=> Keep!StartNode(w)
  BY DEF WaitAllRun!StartNode, Keep!StartNode, WaitAllRun!runLocals, Keep!runLocals
<1>11. \A w : WaitAllRun!FinishNode(w) <=> Keep!FinishNode(w)
  BY DEF WaitAllRun!FinishNode, Keep!FinishNode, WaitAllRun!runLocals, Keep!runLocals,
         WaitAllRun!NormalizeResult, Keep!NormalizeResult, WaitAllRun!DispatchReturn,
         Keep!DispatchReturn, WaitAllRun!Status, WaitAllRun!Declared, Keep!Status, Keep!Declared
<1>12. \A w : WaitAllRun!ExitWorker(w) <=> Keep!ExitWorker(w)
  BY DEF WaitAllRun!ExitWorker, Keep!ExitWorker, WaitAllRun!Idle, Keep!Idle, WaitAllRun!Exited,
         Keep!Exited, WaitAllRun!runLocals, Keep!runLocals
<1>13. WaitAllRun!vars = Keep!vars
  BY DEF WaitAllRun!vars, Keep!vars, WaitAllRun!runLocals, Keep!runLocals
<1>14. WaitAllRun!Run <=> Keep!Run
  BY <1>1, <1>2, <1>3, <1>4, <1>5, <1>6, <1>7 DEF WaitAllRun!Run, Keep!Run
<1>15. \A w : WaitAllRun!WorkerLoop(w) <=> Keep!WorkerLoop(w)
  BY <1>10, <1>11, <1>12 DEF WaitAllRun!WorkerLoop, Keep!WorkerLoop
<1>16. WaitAllRun!Stopped <=> Keep!Stopped
  BY <1>13 DEF WaitAllRun!Stopped, Keep!Stopped, WaitAllRun!vars, Keep!vars,
         WaitAllRun!runLocals, Keep!runLocals
<1> QED
  BY <1>1, <1>8, <1>9, <1>13, <1>14, <1>15, <1>16 DEF WaitAllRun!Next, Keep!Next

LEMMA FailFastIsFast ==
  /\ FailFastRun!Worker = Fast!Worker
  /\ FailFastRun!Init <=> Fast!Init
  /\ FailFastRun!Next <=> Fast!Next
  /\ FailFastRun!vars = Fast!vars
<1>1. FailFastRun!Worker = Fast!Worker
  BY DEF FailFastRun!Worker, Fast!Worker, FailFastRun!WorkerCount, Fast!WorkerCount,
         FailFastRun!NodeCount, Fast!NodeCount, FailFastRun!Cardinality, Fast!Cardinality
<1>2. FailFastRun!Validate <=> Fast!Validate
  BY DEF FailFastRun!Validate, Fast!Validate, FailFastRun!Valid, Fast!Valid,
         FailFastRun!Acyclic, Fast!Acyclic, FailFastRun!runLocals, Fast!runLocals
<1>3. \A w : FailFastRun!Offer(w) <=> Fast!Offer(w)
  BY DEF FailFastRun!Offer, Fast!Offer, FailFastRun!Looping, Fast!Looping, FailFastRun!HasRoom,
         Fast!HasRoom, FailFastRun!Queue, Fast!Queue, FailFastRun!Peek, Fast!Peek,
         FailFastRun!First, Fast!First, FailFastRun!NodeCount, Fast!NodeCount,
         FailFastRun!WorkerCount, Fast!WorkerCount, FailFastRun!Idle, Fast!Idle,
         FailFastRun!StaleHeads, Fast!StaleHeads, FailFastRun!Cardinality, Fast!Cardinality
<1>4. \A w : FailFastRun!Receive(w) <=> Fast!Receive(w)
  BY DEF FailFastRun!Receive, Fast!Receive, FailFastRun!Looping, Fast!Looping,
         FailFastRun!RecordEvent, Fast!RecordEvent, FailFastRun!Queue, Fast!Queue,
         FailFastRun!HasRoom, Fast!HasRoom, FailFastRun!StaleHeads, Fast!StaleHeads,
         FailFastRun!Released, Fast!Released, FailFastRun!Queued, Fast!Queued,
         FailFastRun!SkippedBy, Fast!SkippedBy, FailFastRun!Skip, Fast!Skip,
         FailFastRun!Pending, Fast!Pending, FailFastRun!NodesIn, Fast!NodesIn, FailFastRun!Idle,
         Fast!Idle, FailFastRun!WorkerCount, Fast!WorkerCount, FailFastRun!NodeCount,
         Fast!NodeCount, FailFastRun!Dependents, Fast!Dependents, FailFastRun!DependentsWithin,
         Fast!DependentsWithin, FailFastRun!Cardinality, Fast!Cardinality
<1>5. FailFastRun!ObserveCancel <=> Fast!ObserveCancel
  BY DEF FailFastRun!ObserveCancel, Fast!ObserveCancel, FailFastRun!Looping, Fast!Looping,
         FailFastRun!NotStarted, Fast!NotStarted, FailFastRun!Pending, Fast!Pending,
         FailFastRun!NodesIn, Fast!NodesIn, FailFastRun!Queue, Fast!Queue, FailFastRun!HasRoom,
         Fast!HasRoom, FailFastRun!StaleHeads, Fast!StaleHeads, FailFastRun!Skip, Fast!Skip,
         FailFastRun!WorkerCount, Fast!WorkerCount, FailFastRun!NodeCount, Fast!NodeCount,
         FailFastRun!Cardinality, Fast!Cardinality
<1>6. FailFastRun!CloseWork <=> Fast!CloseWork
  BY DEF FailFastRun!CloseWork, Fast!CloseWork, FailFastRun!NodeCount, Fast!NodeCount,
         FailFastRun!runLocals, Fast!runLocals, FailFastRun!Cardinality, Fast!Cardinality
<1>7. FailFastRun!ReturnAggregate <=> Fast!ReturnAggregate
  BY DEF FailFastRun!ReturnAggregate, Fast!ReturnAggregate, FailFastRun!Worker, Fast!Worker,
         FailFastRun!WorkerCount, Fast!WorkerCount, FailFastRun!NodeCount, Fast!NodeCount,
         FailFastRun!Exited, Fast!Exited, FailFastRun!OrderedResults, Fast!OrderedResults,
         FailFastRun!AggregateError, Fast!AggregateError, FailFastRun!runLocals, Fast!runLocals,
         FailFastRun!Topological, Fast!Topological, FailFastRun!Ready, Fast!Ready,
         FailFastRun!Placed, Fast!Placed, FailFastRun!First, Fast!First, FailFastRun!NoResult,
         Fast!NoResult, FailFastRun!Cardinality, Fast!Cardinality
<1>8. FailFastRun!Init <=> Fast!Init
  BY DEF FailFastRun!Init, Fast!Init, FailFastRun!Graph, Fast!Graph, FailFastRun!Roots,
         Fast!Roots, FailFastRun!Worker, Fast!Worker, FailFastRun!WorkerCount, Fast!WorkerCount,
         FailFastRun!NodeCount, Fast!NodeCount, FailFastRun!Idle, Fast!Idle,
         FailFastRun!NoResult, Fast!NoResult, FailFastRun!NoAggregate, Fast!NoAggregate,
         FailFastRun!Cardinality, Fast!Cardinality
<1>9. FailFastRun!CancelContext <=> Fast!CancelContext
  BY DEF FailFastRun!CancelContext, Fast!CancelContext, FailFastRun!runLocals, Fast!runLocals
<1>10. \A w : FailFastRun!StartNode(w) <=> Fast!StartNode(w)
  BY DEF FailFastRun!StartNode, Fast!StartNode, FailFastRun!runLocals, Fast!runLocals
<1>11. \A w : FailFastRun!FinishNode(w) <=> Fast!FinishNode(w)
  BY DEF FailFastRun!FinishNode, Fast!FinishNode, FailFastRun!runLocals, Fast!runLocals,
         FailFastRun!NormalizeResult, Fast!NormalizeResult, FailFastRun!DispatchReturn,
         Fast!DispatchReturn, FailFastRun!Status, FailFastRun!Declared, Fast!Status, Fast!Declared
<1>12. \A w : FailFastRun!ExitWorker(w) <=> Fast!ExitWorker(w)
  BY DEF FailFastRun!ExitWorker, Fast!ExitWorker, FailFastRun!Idle, Fast!Idle,
         FailFastRun!Exited, Fast!Exited, FailFastRun!runLocals, Fast!runLocals
<1>13. FailFastRun!vars = Fast!vars
  BY DEF FailFastRun!vars, Fast!vars, FailFastRun!runLocals, Fast!runLocals
<1>14. FailFastRun!Run <=> Fast!Run
  BY <1>1, <1>2, <1>3, <1>4, <1>5, <1>6, <1>7 DEF FailFastRun!Run, Fast!Run
<1>15. \A w : FailFastRun!WorkerLoop(w) <=> Fast!WorkerLoop(w)
  BY <1>10, <1>11, <1>12 DEF FailFastRun!WorkerLoop, Fast!WorkerLoop
<1>16. FailFastRun!Stopped <=> Fast!Stopped
  BY <1>13 DEF FailFastRun!Stopped, Fast!Stopped, FailFastRun!vars, Fast!vars,
         FailFastRun!runLocals, Fast!runLocals
<1> QED
  BY <1>1, <1>8, <1>9, <1>13, <1>14, <1>15, <1>16 DEF FailFastRun!Next, Fast!Next

\* Only what is done about a failure is different.
LEMMA FastStartsAsKeep == Keep!Init <=> Fast!Init
BY DEF Keep!Init, Fast!Init, Keep!Graph, Fast!Graph, Keep!Roots, Fast!Roots, Keep!Worker,
         Fast!Worker, Keep!WorkerCount, Fast!WorkerCount, Keep!NodeCount, Fast!NodeCount,
         Keep!Idle, Fast!Idle, Keep!NoResult, Fast!NoResult, Keep!NoAggregate, Fast!NoAggregate,
         Keep!Cardinality, Fast!Cardinality

LEMMA TypesAgree == (WaitAllRun!TypeOK <=> Keep!TypeOK) /\ (WaitAllRun!TypeOK <=> Fast!TypeOK)
<1>1. WaitAllRun!TypeOK <=> Keep!TypeOK
  BY DEF WaitAllRun!TypeOK, Keep!TypeOK, WaitAllRun!Graph, Keep!Graph, WaitAllRun!Result,
         Keep!Result, WaitAllRun!Status, WaitAllRun!Declared, Keep!Status, Keep!Declared,
         WaitAllRun!Blame, Keep!Blame,
         WaitAllRun!NoResult, Keep!NoResult, WaitAllRun!WorkerState, Keep!WorkerState,
         WaitAllRun!Idle, Keep!Idle, WaitAllRun!Exited, Keep!Exited, WaitAllRun!Worker,
         Keep!Worker, WaitAllRun!WorkerCount, Keep!WorkerCount, WaitAllRun!NodeCount,
         Keep!NodeCount, WaitAllRun!Cardinality, Keep!Cardinality
<1>2. WaitAllRun!TypeOK <=> Fast!TypeOK
  BY DEF WaitAllRun!TypeOK, Fast!TypeOK, WaitAllRun!Graph, Fast!Graph, WaitAllRun!Result,
         Fast!Result, WaitAllRun!Status, WaitAllRun!Declared, Fast!Status, Fast!Declared,
         WaitAllRun!Blame, Fast!Blame,
         WaitAllRun!NoResult, Fast!NoResult, WaitAllRun!WorkerState, Fast!WorkerState,
         WaitAllRun!Idle, Fast!Idle, WaitAllRun!Exited, Fast!Exited, WaitAllRun!Worker,
         Fast!Worker, WaitAllRun!WorkerCount, Fast!WorkerCount, WaitAllRun!NodeCount,
         Fast!NodeCount, WaitAllRun!Cardinality, Fast!Cardinality
<1> QED  BY <1>1, <1>2

-----------------------------------------------------------------------------
(***************************************************************************)
(* What holds of the constants of the scheduler, and the results about it  *)
(* that are used here.                                                     *)
(***************************************************************************)
LEMMA SchedulerConstants ==
  /\ Keep!IsFiniteSet(Node) /\ Fast!IsFiniteSet(Node)
  /\ Rank \in [Node -> Nat]
  /\ \A m, n \in Node : Rank[m] = Rank[n] => m = n
  /\ Graph \subseteq Keep!Graph /\ Graph \subseteq Fast!Graph
  /\ SchedulerConcurrency \in Int /\ SchedulerConcurrency > 0
  /\ FALSE \in BOOLEAN /\ TRUE \in BOOLEAN
  /\ None \notin Node /\ Context \notin Node /\ None # Context
BY NodeAssumption, RankAssumption, TaskGraphAssumption
   DEF Keep!IsFiniteSet, Fast!IsFiniteSet, IsFiniteSet, Graph, Keep!Graph, Fast!Graph,
       SchedulerConcurrency

\* Together, an inductive invariant of either instance.
KeepInv == Keep!IInv /\ Keep!Ended /\ Keep!BlameIsOwn
FastInv == Fast!IInv /\ Fast!Ended /\ Fast!BlameIsOwn

\* Nothing is rejected that can run.
LEMMA KeepRejectsNothing ==
  [Keep!Next]_(Keep!vars) /\ pc # "rejected" /\ Acyclic(deps) => pc' # "rejected"
<1>1. Acyclic(deps) => Keep!Valid
  BY SchedulerConstants DEF Keep!Valid, Keep!Acyclic, Acyclic
<1> QED
  BY <1>1 DEF Keep!Next, Keep!Run, Keep!Validate, Keep!Offer, Keep!Receive, Keep!ObserveCancel,
       Keep!CloseWork, Keep!ReturnAggregate, Keep!WorkerLoop, Keep!StartNode, Keep!FinishNode,
       Keep!ExitWorker, Keep!CancelContext, Keep!Stopped, Keep!vars

LEMMA FastRejectsNothing ==
  [Fast!Next]_(Fast!vars) /\ pc # "rejected" /\ Acyclic(deps) => pc' # "rejected"
<1>1. Acyclic(deps) => Fast!Valid
  BY SchedulerConstants DEF Fast!Valid, Fast!Acyclic, Acyclic
<1> QED
  BY <1>1 DEF Fast!Next, Fast!Run, Fast!Validate, Fast!Offer, Fast!Receive, Fast!ObserveCancel,
       Fast!CloseWork, Fast!ReturnAggregate, Fast!WorkerLoop, Fast!StartNode, Fast!FinishNode,
       Fast!ExitWorker, Fast!CancelContext, Fast!Stopped, Fast!vars

LEMMA KeepResults ==
  /\ Keep!Init => KeepInv
  /\ KeepInv /\ [Keep!Next]_(Keep!vars) => KeepInv'
  /\ [Keep!Next]_(Keep!vars) => deps' = deps
  /\ KeepInv /\ pc = "returned" /\ ~cancelled =>
       \A n \in Node : (\A d \in deps[n] : Succeeded(d)) => results[n].err \in {None, n}
<1>1. Keep!Init => KeepInv
  <2>1. Keep!Init => Keep!IInv
    BY SchedulerConstants, Keep!InitIInv, Keep!SchedulerAssumption, Keep!NodeAssumption,
       Keep!RankAssumption,
     Keep!StatusAssumption
  <2>2. Keep!Init => Keep!BlameIsOwn
    BY SchedulerConstants, Keep!InitBlame, Keep!SchedulerAssumption, Keep!NodeAssumption,
       Keep!RankAssumption,
     Keep!StatusAssumption
  <2>3. Keep!Init => Keep!Ended
    BY DEF Keep!Init, Keep!Ended
  <2> QED  BY <2>1, <2>2, <2>3 DEF KeepInv
<1>2. KeepInv /\ [Keep!Next]_(Keep!vars) => KeepInv'
  <2>1. Keep!IInv /\ [Keep!Next]_(Keep!vars) => Keep!IInv'
    BY SchedulerConstants, Keep!StepIInv, Keep!SchedulerAssumption, Keep!NodeAssumption,
       Keep!RankAssumption,
     Keep!StatusAssumption
  <2>2. Keep!IInv /\ Keep!BlameIsOwn /\ [Keep!Next]_(Keep!vars) => Keep!BlameIsOwn'
    BY SchedulerConstants, Keep!StepKeepsBlame, Keep!SchedulerAssumption, Keep!NodeAssumption,
       Keep!RankAssumption,
     Keep!StatusAssumption
  <2>3. Keep!IInv /\ Keep!Ended /\ [Keep!Next]_(Keep!vars) => Keep!Ended'
    BY SchedulerConstants, Keep!StepEnds, Keep!SchedulerAssumption, Keep!NodeAssumption,
       Keep!RankAssumption,
     Keep!StatusAssumption
  <2> QED  BY <2>1, <2>2, <2>3 DEF KeepInv
<1>3. [Keep!Next]_(Keep!vars) => deps' = deps
  BY SchedulerConstants, Keep!GraphStays, Keep!SchedulerAssumption, Keep!NodeAssumption,
     Keep!RankAssumption,
     Keep!StatusAssumption
<1>4. ASSUME KeepInv, pc = "returned", ~cancelled,
             NEW n \in Node, \A d \in deps[n] : Succeeded(d)
      PROVE  results[n].err \in {None, n}
  <2>1. \A d \in deps[n] : Keep!StatusOf(d) = "succeeded"
    BY <1>4 DEF Succeeded, Keep!StatusOf
  <2> QED
    BY <1>4, <2>1, SchedulerConstants, Keep!UnblockedIsDispatched, Keep!SchedulerAssumption,
       Keep!NodeAssumption, Keep!RankAssumption,
     Keep!StatusAssumption DEF KeepInv
<1> QED  BY <1>1, <1>2, <1>3, <1>4

LEMMA FastResults ==
  /\ Fast!Init => FastInv
  /\ FastInv /\ [Fast!Next]_(Fast!vars) => FastInv'
  /\ [Fast!Next]_(Fast!vars) => deps' = deps
  /\ FastInv /\ [Fast!Next]_(Fast!vars) /\ (\E n \in Node : results[n].status = "failed") =>
       {n \in Node : states'[n] = "running"} \subseteq {n \in Node : states[n] = "running"}
<1>1. Fast!Init => FastInv
  <2>1. Fast!Init => Fast!IInv
    BY SchedulerConstants, Fast!InitIInv, Fast!SchedulerAssumption, Fast!NodeAssumption,
       Fast!RankAssumption,
     Fast!StatusAssumption
  <2>2. Fast!Init => Fast!BlameIsOwn
    BY SchedulerConstants, Fast!InitBlame, Fast!SchedulerAssumption, Fast!NodeAssumption,
       Fast!RankAssumption,
     Fast!StatusAssumption
  <2>3. Fast!Init => Fast!Ended
    BY DEF Fast!Init, Fast!Ended
  <2> QED  BY <2>1, <2>2, <2>3 DEF FastInv
<1>2. FastInv /\ [Fast!Next]_(Fast!vars) => FastInv'
  <2>1. Fast!IInv /\ [Fast!Next]_(Fast!vars) => Fast!IInv'
    BY SchedulerConstants, Fast!StepIInv, Fast!SchedulerAssumption, Fast!NodeAssumption,
       Fast!RankAssumption,
     Fast!StatusAssumption
  <2>2. Fast!IInv /\ Fast!BlameIsOwn /\ [Fast!Next]_(Fast!vars) => Fast!BlameIsOwn'
    BY SchedulerConstants, Fast!StepKeepsBlame, Fast!SchedulerAssumption, Fast!NodeAssumption,
       Fast!RankAssumption,
     Fast!StatusAssumption
  <2>3. Fast!IInv /\ Fast!Ended /\ [Fast!Next]_(Fast!vars) => Fast!Ended'
    BY SchedulerConstants, Fast!StepEnds, Fast!SchedulerAssumption, Fast!NodeAssumption,
       Fast!RankAssumption,
     Fast!StatusAssumption
  <2> QED  BY <2>1, <2>2, <2>3 DEF FastInv
<1>3. [Fast!Next]_(Fast!vars) => deps' = deps
  BY SchedulerConstants, Fast!GraphStays, Fast!SchedulerAssumption, Fast!NodeAssumption,
     Fast!RankAssumption,
     Fast!StatusAssumption
<1>4. ASSUME FastInv, [Fast!Next]_(Fast!vars), \E n \in Node : results[n].status = "failed"
      PROVE  {n \in Node : states'[n] = "running"} \subseteq {n \in Node : states[n] = "running"}
  <2>1. stopping
    BY <1>4 DEF FastInv, Fast!IInv, Fast!StopIsFinal, Fast!StatusOf
  <2>2. Fast!NodesIn("running")' \subseteq Fast!NodesIn("running")
    BY <1>4, <2>1, SchedulerConstants, Fast!NothingStartsOnceStopped, Fast!SchedulerAssumption,
       Fast!NodeAssumption, Fast!RankAssumption,
     Fast!StatusAssumption DEF FastInv
  <2> QED  BY <2>2 DEF Fast!NodesIn
<1> QED  BY <1>1, <1>2, <1>3, <1>4

-----------------------------------------------------------------------------
(***************************************************************************)
(* The inductive invariant.                                                *)
(***************************************************************************)
FailsFast == EffectiveFailMode = "fail_fast"

Resolved == found = Node /\ Acyclic(declared)

\* The scheduler is in one of the states that SchedulerProofs allows.
Scheduled == IF FailsFast THEN FastInv ELSE KeepInv

\* It has the graph that was declared, and takes no step before that resolves.
ResolvedFirst ==
  /\ deps = declared
  /\ pc # "rejected"
  /\ \/ Resolved
     \/ phase # "run" /\ \A n \in Node : states[n] = "pending"

IInv ==
  /\ TypeOK
  /\ Scheduled
  /\ ResolvedFirst

\* The code's order of precedence: best_effort, fail_fast, wait_all.
LEMMA ModeFacts == FailsFast <=> Asked("fail_fast") /\ ~Asked("best_effort")
BY DEF FailsFast, EffectiveFailMode, Asked

LEMMA ScheduledIsTyped == Scheduled => WaitAllRun!TypeOK
BY TypesAgree DEF Scheduled, KeepInv, FastInv, Keep!IInv, Fast!IInv

LEMMA NoErrorsIsResolved == BuildErrors = {} => Resolved
BY DEF BuildErrors, VisitErrors, Resolved

\* Every step is one of the scheduler that the fail mode picks, or none of it.
LEMMA StepSchedules ==
  ASSUME [Next]_vars
  PROVE  /\ UNCHANGED <<direct, declared, found>>
         /\ IF FailsFast THEN [Fast!Next]_(Fast!vars) ELSE [Keep!Next]_(Keep!vars)
<1>1. UNCHANGED <<direct, declared, found>>
  BY DEF Next, BuildGraph, Schedule, Return, Stopped, vars, request
<1>2. CASE Schedule
  BY <1>1, <1>2, WaitAllIsKeep, FailFastIsFast DEF Schedule, FailsFast
<1>3. CASE UNCHANGED scheduler
  BY <1>1, <1>3 DEF scheduler, Fast!vars, Keep!vars, Fast!runLocals, Keep!runLocals
<1> QED
  BY <1>1, <1>2, <1>3 DEF Next, BuildGraph, Return, Stopped, vars

LEMMA ModeStays == [Next]_vars => (FailsFast' <=> FailsFast)
<1> SUFFICES ASSUME [Next]_vars PROVE FailsFast' <=> FailsFast
  OBVIOUS
<1>1. direct' = direct
  BY StepSchedules
<1> QED  BY <1>1 DEF FailsFast, EffectiveFailMode

LEMMA InitIInv == Init => IInv
<1> SUFFICES ASSUME Init PROVE IInv
  OBVIOUS
<1>1. Keep!Init /\ Fast!Init
  BY WaitAllIsKeep, FastStartsAsKeep DEF Init
<1>2. Scheduled
  BY <1>1, KeepResults, FastResults DEF Scheduled
<1>3. TypeOK
  BY <1>2, ScheduledIsTyped DEF Init, TypeOK
<1>4. ResolvedFirst
  BY <1>1 DEF Init, ResolvedFirst, Keep!Init
<1> QED  BY <1>2, <1>3, <1>4 DEF IInv

LEMMA StepIInv == IInv /\ [Next]_vars => IInv'
<1> SUFFICES ASSUME IInv, [Next]_vars PROVE IInv'
  OBVIOUS
<1>1. /\ UNCHANGED <<direct, declared, found>>
      /\ IF FailsFast THEN [Fast!Next]_(Fast!vars) ELSE [Keep!Next]_(Keep!vars)
  BY StepSchedules
<1>2. Scheduled'
  <2>1. Scheduled /\ (FailsFast' <=> FailsFast)
    BY ModeStays DEF IInv
  <2> QED  BY <1>1, <2>1, KeepResults, FastResults DEF Scheduled
<1>3. TypeOK'
  <2>1. (Scheduled => WaitAllRun!TypeOK)'
    BY ScheduledIsTyped, PTL
  <2>2. WaitAllRun!TypeOK'
    BY <1>2, <2>1
  <2>3. /\ phase' \in {"build", "run", "returned"}
        /\ ret' \in {"none", "nil", "unresolved", "self", "cycle", "failed"}
    BY DEF IInv, TypeOK, Next, BuildGraph, BuildErrors, VisitErrors, Schedule, Return, Stopped, vars
  <2> QED  BY <1>1, <2>2, <2>3 DEF IInv, TypeOK
<1>4. ResolvedFirst'
  <2>1. deps' = declared'
    BY <1>1, KeepResults, FastResults DEF IInv, ResolvedFirst
  <2>2. Resolved' <=> Resolved
    BY <1>1 DEF Resolved, Acyclic
  <2>3. CASE Resolved
    <3>1. pc # "rejected" /\ Acyclic(deps)
      BY <2>3 DEF IInv, ResolvedFirst, Resolved
    <3>2. pc' # "rejected"
      BY <1>1, <3>1, KeepRejectsNothing, FastRejectsNothing
    <3> QED  BY <2>1, <2>2, <2>3, <3>2 DEF ResolvedFirst
  <2>4. CASE ~Resolved
    <3>1. phase # "run" /\ BuildErrors # {}
      BY <2>4, NoErrorsIsResolved DEF IInv, ResolvedFirst
    <3>2. phase' # "run" /\ UNCHANGED scheduler
      BY <3>1 DEF Next, BuildGraph, Schedule, Return, Stopped, vars
    <3> QED  BY <2>1, <2>4, <3>2 DEF IInv, ResolvedFirst, scheduler
  <2> QED  BY <2>3, <2>4
<1> QED  BY <1>2, <1>3, <1>4 DEF IInv

(***************************************************************************)
(* The inductive invariant holds in every state.                           *)
(***************************************************************************)
THEOREM Invariance == Spec => []IInv
BY InitIInv, StepIInv, PTL DEF Spec

-----------------------------------------------------------------------------
(***************************************************************************)
(* The properties.                                                         *)
(***************************************************************************)

(***************************************************************************)
(* No reference is executed before all are looked up and the cycles are    *)
(* ruled out, so that pkg/scheduler has nothing to reject.                 *)
(***************************************************************************)
THEOREM ResolvedBeforeRunHolds == Spec => []ResolvedBeforeRun
<1>1. IInv => ResolvedBeforeRun
  BY DEF IInv, ResolvedFirst, Resolved, ResolvedBeforeRun
<1> QED  BY <1>1, Invariance, PTL

(***************************************************************************)
(* With wait_all, and with best_effort beside any other mode, a reference  *)
(* is given up only because of its own dependencies.                       *)
(***************************************************************************)
THEOREM SiblingsCompleteHolds == Spec => []SiblingsComplete
<1>1. IInv => SiblingsComplete
  BY ModeFacts, KeepResults DEF IInv, Scheduled, SiblingsComplete, Ran
<1> QED  BY <1>1, Invariance, PTL

(***************************************************************************)
(* With fail_fast, and no best_effort beside it, the first failure that is *)
(* recorded is the end of starting.                                        *)
(***************************************************************************)
THEOREM FailFastStopsHolds == Spec => FailFastStops
<1> DEFINE StartsNothing ==
      {n \in Node : states'[n] = "running"} \subseteq {n \in Node : states[n] = "running"}
<1>1. IInv /\ [Next]_vars =>
        [ Asked("fail_fast") /\ ~Asked("best_effort") /\ (\E n \in Node : results[n].status = "failed")
            => StartsNothing ]_vars
  BY ModeFacts, StepSchedules, FastResults DEF IInv, Scheduled
<1> QED  BY <1>1, Invariance, PTL DEF Spec, FailFastStops

-----------------------------------------------------------------------------
(***************************************************************************)
(* Refinement: a task graph runs pkg/scheduler, with FailFast exactly when *)
(* fail_fast is what the direct references ask for, so that what holds of  *)
(* the scheduler holds of references.                                      *)
(***************************************************************************)
THEOREM RunsScheduler ==
  Spec => /\ FailsFast => FailFastRun!Spec
          /\ ~FailsFast => WaitAllRun!Spec
<1>1. Init => WaitAllRun!Init /\ FailFastRun!Init
  BY WaitAllIsKeep, FastStartsAsKeep, FailFastIsFast DEF Init
<1>2. FailsFast /\ [Next]_vars => FailsFast' /\ [FailFastRun!Next]_(FailFastRun!vars)
  <2>1. UNCHANGED Fast!vars <=> UNCHANGED FailFastRun!vars
    BY DEF Fast!vars, FailFastRun!vars, Fast!runLocals, FailFastRun!runLocals
  <2> QED  BY <2>1, ModeStays, StepSchedules, FailFastIsFast
<1>3. ~FailsFast /\ [Next]_vars => ~FailsFast' /\ [WaitAllRun!Next]_(WaitAllRun!vars)
  <2>1. UNCHANGED Keep!vars <=> UNCHANGED WaitAllRun!vars
    BY DEF Keep!vars, WaitAllRun!vars, Keep!runLocals, WaitAllRun!runLocals
  <2> QED  BY <2>1, ModeStays, StepSchedules, WaitAllIsKeep
<1> QED
  BY <1>1, <1>2, <1>3, PTL DEF Spec, FailFastRun!Spec, WaitAllRun!Spec
=============================================================================
