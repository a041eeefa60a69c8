-------------------------- MODULE ControlStepProofs --------------------------
(***************************************************************************)
(* Proofs about module ControlStep, for any rows, steps, needs, modes and  *)
(* thresholds.  What is proved of the scheduler in SchedulerProofs holds   *)
(* of the one that a control step runs, whether or not it fails fast.      *)
(***************************************************************************)
EXTENDS ControlStep, FiniteSetTheorems, TLAPS

Keep == INSTANCE SchedulerProofs
  WITH Graphs <- Graph, MaxConcurrency <- Concurrency, FailFast <- FALSE,
       OtherStatus <- {}

Fast == INSTANCE SchedulerProofs
  WITH Graphs <- Graph, MaxConcurrency <- Concurrency, FailFast <- TRUE,
       OtherStatus <- {}

-----------------------------------------------------------------------------
(***************************************************************************)
(* The scheduler of a control step is one of those of SchedulerProofs.     *)
(***************************************************************************)

\* The actions that the control step takes, of either instance.
LEMMA KeepGoingSteps ==
  /\ KeepGoingRun!Worker = Keep!Worker
  /\ KeepGoingRun!Init <=> Keep!Init
  /\ KeepGoingRun!Run <=> Keep!Run
  /\ KeepGoingRun!CancelContext <=> Keep!CancelContext
  /\ \A w : /\ KeepGoingRun!StartNode(w) <=> Keep!StartNode(w)
            /\ KeepGoingRun!FinishNode(w) <=> Keep!FinishNode(w)
            /\ KeepGoingRun!ExitWorker(w) <=> Keep!ExitWorker(w)
<1>1. KeepGoingRun!Worker = Keep!Worker
  BY DEF KeepGoingRun!Worker, Keep!Worker, KeepGoingRun!WorkerCount, Keep!WorkerCount,
         KeepGoingRun!NodeCount, Keep!NodeCount, KeepGoingRun!Cardinality, Keep!Cardinality
<1>2. KeepGoingRun!Validate <=> Keep!Validate
  BY DEF KeepGoingRun!Validate, Keep!Validate, KeepGoingRun!Valid, Keep!Valid,
         KeepGoingRun!Acyclic, Keep!Acyclic, KeepGoingRun!runLocals, Keep!runLocals
<1>3. \A w : KeepGoingRun!Offer(w) <=> Keep!Offer(w)
  BY DEF KeepGoingRun!Offer, Keep!Offer, KeepGoingRun!Looping, Keep!Looping,
         KeepGoingRun!HasRoom, Keep!HasRoom, KeepGoingRun!Queue, Keep!Queue, KeepGoingRun!Peek,
         Keep!Peek, KeepGoingRun!First, Keep!First, KeepGoingRun!NodeCount, Keep!NodeCount,
         KeepGoingRun!WorkerCount, Keep!WorkerCount, KeepGoingRun!Idle, Keep!Idle,
         KeepGoingRun!StaleHeads, Keep!StaleHeads, KeepGoingRun!Cardinality, Keep!Cardinality
<1>4. \A w : KeepGoingRun!Receive(w) <=> Keep!Receive(w)
  BY DEF KeepGoingRun!Receive, Keep!Receive, KeepGoingRun!Looping, Keep!Looping,
         KeepGoingRun!RecordEvent, Keep!RecordEvent, KeepGoingRun!Queue, Keep!Queue,
         KeepGoingRun!HasRoom, Keep!HasRoom, KeepGoingRun!StaleHeads, Keep!StaleHeads,
         KeepGoingRun!Released, Keep!Released, KeepGoingRun!Queued, Keep!Queued,
         KeepGoingRun!SkippedBy, Keep!SkippedBy, KeepGoingRun!Skip, Keep!Skip,
         KeepGoingRun!Pending, Keep!Pending, KeepGoingRun!NodesIn, Keep!NodesIn,
         KeepGoingRun!Idle, Keep!Idle, KeepGoingRun!WorkerCount, Keep!WorkerCount,
         KeepGoingRun!NodeCount, Keep!NodeCount, KeepGoingRun!Dependents, Keep!Dependents,
         KeepGoingRun!DependentsWithin, Keep!DependentsWithin, KeepGoingRun!Cardinality,
         Keep!Cardinality
<1>5. KeepGoingRun!ObserveCancel <=> Keep!ObserveCancel
  BY DEF KeepGoingRun!ObserveCancel, Keep!ObserveCancel, KeepGoingRun!Looping, Keep!Looping,
         KeepGoingRun!NotStarted, Keep!NotStarted, KeepGoingRun!Pending, Keep!Pending,
         KeepGoingRun!NodesIn, Keep!NodesIn, KeepGoingRun!Queue, Keep!Queue,
         KeepGoingRun!HasRoom, Keep!HasRoom, KeepGoingRun!StaleHeads, Keep!StaleHeads,
         KeepGoingRun!Skip, Keep!Skip, KeepGoingRun!WorkerCount, Keep!WorkerCount,
         KeepGoingRun!NodeCount, Keep!NodeCount, KeepGoingRun!Cardinality, Keep!Cardinality
<1>6. KeepGoingRun!CloseWork <=> Keep!CloseWork
  BY DEF KeepGoingRun!CloseWork, Keep!CloseWork, KeepGoingRun!NodeCount, Keep!NodeCount,
         KeepGoingRun!runLocals, Keep!runLocals, KeepGoingRun!Cardinality, Keep!Cardinality
<1>7. KeepGoingRun!ReturnAggregate <=> Keep!ReturnAggregate
  BY DEF KeepGoingRun!ReturnAggregate, Keep!ReturnAggregate, KeepGoingRun!Worker, Keep!Worker,
         KeepGoingRun!WorkerCount, Keep!WorkerCount, KeepGoingRun!NodeCount, Keep!NodeCount,
         KeepGoingRun!Exited, Keep!Exited, KeepGoingRun!OrderedResults, Keep!OrderedResults,
         KeepGoingRun!AggregateError, Keep!AggregateError, KeepGoingRun!runLocals,
         Keep!runLocals, KeepGoingRun!Topological, Keep!Topological, KeepGoingRun!Ready,
         Keep!Ready, KeepGoingRun!Placed, Keep!Placed, KeepGoingRun!First, Keep!First,
         KeepGoingRun!NoResult, Keep!NoResult, KeepGoingRun!Cardinality, Keep!Cardinality
<1>8. KeepGoingRun!Init <=> Keep!Init
  BY DEF KeepGoingRun!Init, Keep!Init, KeepGoingRun!Graph, Keep!Graph, KeepGoingRun!Roots,
         Keep!Roots, KeepGoingRun!Worker, Keep!Worker, KeepGoingRun!WorkerCount,
         Keep!WorkerCount, KeepGoingRun!NodeCount, Keep!NodeCount, KeepGoingRun!Idle, Keep!Idle,
         KeepGoingRun!NoResult, Keep!NoResult, KeepGoingRun!NoAggregate, Keep!NoAggregate,
         KeepGoingRun!Cardinality, Keep!Cardinality
<1>9. KeepGoingRun!CancelContext <=> Keep!CancelContext
  BY DEF KeepGoingRun!CancelContext, Keep!CancelContext, KeepGoingRun!runLocals, Keep!runLocals
<1>10. \A w : KeepGoingRun!StartNode(w) <=> Keep!StartNode(w)
  BY DEF KeepGoingRun!StartNode, Keep!StartNode, KeepGoingRun!runLocals, Keep!runLocals
<1>11. \A w : KeepGoingRun!FinishNode(w) <=> Keep!FinishNode(w)
  BY DEF KeepGoingRun!FinishNode, Keep!FinishNode, KeepGoingRun!runLocals, Keep!runLocals,
         KeepGoingRun!NormalizeResult, Keep!NormalizeResult, KeepGoingRun!DispatchReturn,
         Keep!DispatchReturn, KeepGoingRun!Status, KeepGoingRun!Declared, Keep!Status, Keep!Declared
<1>12. \A w : KeepGoingRun!ExitWorker(w) <=> Keep!ExitWorker(w)
  BY DEF KeepGoingRun!ExitWorker, Keep!ExitWorker, KeepGoingRun!Idle, Keep!Idle,
         KeepGoingRun!Exited, Keep!Exited, KeepGoingRun!runLocals, Keep!runLocals
<1> QED
  BY <1>1, <1>2, <1>3, <1>4, <1>5, <1>6, <1>7, <1>8, <1>9, <1>10, <1>11, <1>12
     DEF KeepGoingRun!Run, Keep!Run

LEMMA FailFastSteps == FailFastRun!Run <=> Fast!Run
<1>1. FailFastRun!Worker = Fast!Worker
  BY DEF FailFastRun!Worker, Fast!Worker, FailFastRun!WorkerCount, Fast!WorkerCount,
         FailFastRun!NodeCount, Fast!NodeCount, FailFastRun!Cardinality, Fast!Cardinality
<1>2. FailFastRun!Validate <=> Fast!Validate
  BY DEF FailFastRun!Validate, Fast!Validate, FailFastRun!Valid, Fast!Valid,
         FailFastRun!Acyclic, Fast!Acyclic, FailFastRun!runLocals, Fast!runLocals
<1>3. \A w : FailFastRun!Offer(w) <=> Fast!Offer(w)
  BY DEF FailFastRun!Offer, Fast!Offer, FailFastRun!Looping, Fast!Looping, FailFastRun!HasRoom,
         Fast!HasRoom, FailFastRun!Queue, Fast!Queue, FailFastRun!Peek, Fast!Peek,
         FailFastRun!First, Fast!First, FailFastRun!NodeCount, Fast!NodeCount,
         FailFastRun!WorkerCount, Fast!WorkerCount, FailFastRun!Idle, Fast!Idle,
         FailFastRun!StaleHeads, Fast!StaleHeads, FailFastRun!Cardinality, Fast!Cardinality
<1>4. \A w : FailFastRun!Receive(w) <=> Fast!Receive(w)
  BY DEF FailFastRun!Receive, Fast!Receive, FailFastRun!Looping, Fast!Looping,
         FailFastRun!RecordEvent, Fast!RecordEvent, FailFastRun!Queue, Fast!Queue,
         FailFastRun!HasRoom, Fast!HasRoom, FailFastRun!StaleHeads, Fast!StaleHeads,
         FailFastRun!Released, Fast!Released, FailFastRun!Queued, Fast!Queued,
         FailFastRun!SkippedBy, Fast!SkippedBy, FailFastRun!Skip, Fast!Skip,
         FailFastRun!Pending, Fast!Pending, FailFastRun!NodesIn, Fast!NodesIn, FailFastRun!Idle,
         Fast!Idle, FailFastRun!WorkerCount, Fast!WorkerCount, FailFastRun!NodeCount,
         Fast!NodeCount, FailFastRun!Dependents, Fast!Dependents, FailFastRun!DependentsWithin,
         Fast!DependentsWithin, FailFastRun!Cardinality, Fast!Cardinality
<1>5. FailFastRun!ObserveCancel <=> Fast!ObserveCancel
  BY DEF FailFastRun!ObserveCancel, Fast!ObserveCancel, FailFastRun!Looping, Fast!Looping,
         FailFastRun!NotStarted, Fast!NotStarted, FailFastRun!Pending, Fast!Pending,
         FailFastRun!NodesIn, Fast!NodesIn, FailFastRun!Queue, Fast!Queue, FailFastRun!HasRoom,
         Fast!HasRoom, FailFastRun!StaleHeads, Fast!StaleHeads, FailFastRun!Skip, Fast!Skip,
         FailFastRun!WorkerCount, Fast!WorkerCount, FailFastRun!NodeCount, Fast!NodeCount,
         FailFastRun!Cardinality, Fast!Cardinality
<1>6. FailFastRun!CloseWork <=> Fast!CloseWork
  BY DEF FailFastRun!CloseWork, Fast!CloseWork, FailFastRun!NodeCount, Fast!NodeCount,
         FailFastRun!runLocals, Fast!runLocals, FailFastRun!Cardinality, Fast!Cardinality
<1>7. FailFastRun!ReturnAggregate <=> Fast!ReturnAggregate
  BY DEF FailFastRun!ReturnAggregate, Fast!ReturnAggregate, FailFastRun!Worker, Fast!Worker,
         FailFastRun!WorkerCount, Fast!WorkerCount, FailFastRun!NodeCount, Fast!NodeCount,
         FailFastRun!Exited, Fast!Exited, FailFastRun!OrderedResults, Fast!OrderedResults,
         FailFastRun!AggregateError, Fast!AggregateError, FailFastRun!runLocals, Fast!runLocals,
         FailFastRun!Topological, Fast!Topological, FailFastRun!Ready, Fast!Ready,
         FailFastRun!Placed, Fast!Placed, FailFastRun!First, Fast!First, FailFastRun!NoResult,
         Fast!NoResult, FailFastRun!Cardinality, Fast!Cardinality
<1> QED
  BY <1>1, <1>2, <1>3, <1>4, <1>5, <1>6, <1>7 DEF FailFastRun!Run, Fast!Run

\* Only what is done about a failure is different.
LEMMA FastIsKeep ==
  /\ Fast!Worker = Keep!Worker
  /\ Fast!Init <=> Keep!Init
  /\ Fast!Validate <=> Keep!Validate
  /\ \A w : /\ Fast!Offer(w) <=> Keep!Offer(w)
            /\ Fast!StartNode(w) <=> Keep!StartNode(w)
            /\ Fast!FinishNode(w) <=> Keep!FinishNode(w)
            /\ Fast!ExitWorker(w) <=> Keep!ExitWorker(w)
  /\ Fast!ObserveCancel <=> Keep!ObserveCancel
  /\ Fast!CloseWork <=> Keep!CloseWork
  /\ Fast!ReturnAggregate <=> Keep!ReturnAggregate
  /\ Fast!CancelContext <=> Keep!CancelContext
<1>1. Fast!Worker = Keep!Worker
  BY DEF Fast!Worker, Keep!Worker, Fast!WorkerCount, Keep!WorkerCount, Fast!NodeCount,
         Keep!NodeCount, Fast!Cardinality, Keep!Cardinality
<1>2. Fast!Validate <=> Keep!Validate
  BY DEF Fast!Validate, Keep!Validate, Fast!Valid, Keep!Valid, Fast!Acyclic, Keep!Acyclic,
         Fast!runLocals, Keep!runLocals
<1>3. \A w : Fast!Offer(w) <=> Keep!Offer(w)
  BY DEF Fast!Offer, Keep!Offer, Fast!Looping, Keep!Looping, Fast!HasRoom, Keep!HasRoom,
         Fast!Queue, Keep!Queue, Fast!Peek, Keep!Peek, Fast!First, Keep!First, Fast!NodeCount,
         Keep!NodeCount, Fast!WorkerCount, Keep!WorkerCount, Fast!Idle, Keep!Idle,
         Fast!StaleHeads, Keep!StaleHeads, Fast!Cardinality, Keep!Cardinality
<1>4. Fast!ObserveCancel <=> Keep!ObserveCancel
  BY DEF Fast!ObserveCancel, Keep!ObserveCancel, Fast!Looping, Keep!Looping, Fast!NotStarted,
         Keep!NotStarted, Fast!Pending, Keep!Pending, Fast!NodesIn, Keep!NodesIn, Fast!Queue,
         Keep!Queue, Fast!HasRoom, Keep!HasRoom, Fast!StaleHeads, Keep!StaleHeads, Fast!Skip,
         Keep!Skip, Fast!WorkerCount, Keep!WorkerCount, Fast!NodeCount, Keep!NodeCount,
         Fast!Cardinality, Keep!Cardinality
<1>5. Fast!CloseWork <=> Keep!CloseWork
  BY DEF Fast!CloseWork, Keep!CloseWork, Fast!NodeCount, Keep!NodeCount, Fast!runLocals,
         Keep!runLocals, Fast!Cardinality, Keep!Cardinality
<1>6. Fast!ReturnAggregate <=> Keep!ReturnAggregate
  BY DEF Fast!ReturnAggregate, Keep!ReturnAggregate, Fast!Worker, Keep!Worker, Fast!WorkerCount,
         Keep!WorkerCount, Fast!NodeCount, Keep!NodeCount, Fast!Exited, Keep!Exited,
         Fast!OrderedResults, Keep!OrderedResults, Fast!AggregateError, Keep!AggregateError,
         Fast!runLocals, Keep!runLocals, Fast!Topological, Keep!Topological, Fast!Ready,
         Keep!Ready, Fast!Placed, Keep!Placed, Fast!First, Keep!First, Fast!NoResult,
         Keep!NoResult, Fast!Cardinality, Keep!Cardinality
<1>7. Fast!Init <=> Keep!Init
  BY DEF Fast!Init, Keep!Init, Fast!Graph, Keep!Graph, Fast!Roots, Keep!Roots, Fast!Worker,
         Keep!Worker, Fast!WorkerCount, Keep!WorkerCount, Fast!NodeCount, Keep!NodeCount,
         Fast!Idle, Keep!Idle, Fast!NoResult, Keep!NoResult, Fast!NoAggregate, Keep!NoAggregate,
         Fast!Cardinality, Keep!Cardinality
<1>8. Fast!CancelContext <=> Keep!CancelContext
  BY DEF Fast!CancelContext, Keep!CancelContext, Fast!runLocals, Keep!runLocals
<1>9. \A w : Fast!StartNode(w) <=> Keep!StartNode(w)
  BY DEF Fast!StartNode, Keep!StartNode, Fast!runLocals, Keep!runLocals
<1>10. \A w : Fast!FinishNode(w) <=> Keep!FinishNode(w)
  BY DEF Fast!FinishNode, Keep!FinishNode, Fast!runLocals, Keep!runLocals, Fast!NormalizeResult,
         Keep!NormalizeResult, Fast!DispatchReturn, Keep!DispatchReturn, Fast!Status, Fast!Declared,
         Keep!Status, Keep!Declared
<1>11. \A w : Fast!ExitWorker(w) <=> Keep!ExitWorker(w)
  BY DEF Fast!ExitWorker, Keep!ExitWorker, Fast!Idle, Keep!Idle, Fast!Exited, Keep!Exited,
         Fast!runLocals, Keep!runLocals
<1> QED
  BY <1>1, <1>2, <1>3, <1>4, <1>5, <1>6, <1>7, <1>8, <1>9, <1>10, <1>11

LEMMA FastInvariantsAreKeep ==
  /\ Fast!TypeOK <=> Keep!TypeOK
  /\ Fast!Shape <=> Keep!Shape
  /\ Fast!CountersAgree <=> Keep!CountersAgree
  /\ Fast!Ended <=> Keep!Ended
  /\ Fast!DispatchedInOrder <=> Keep!DispatchedInOrder
  /\ Fast!ReturnIsComplete <=> Keep!ReturnIsComplete
<1>1. Fast!TypeOK <=> Keep!TypeOK
  BY DEF Fast!TypeOK, Keep!TypeOK, Fast!Graph, Keep!Graph, Fast!Result, Keep!Result,
         Fast!Status, Fast!Declared, Keep!Status, Keep!Declared, Fast!Blame, Keep!Blame,
         Fast!NoResult, Keep!NoResult,
         Fast!WorkerState, Keep!WorkerState, Fast!Idle, Keep!Idle, Fast!Exited, Keep!Exited,
         Fast!Worker, Keep!Worker, Fast!WorkerCount, Keep!WorkerCount, Fast!NodeCount,
         Keep!NodeCount, Fast!Cardinality, Keep!Cardinality
<1>2. Fast!Shape <=> Keep!Shape
  BY DEF Fast!Shape, Keep!Shape, Fast!Result, Keep!Result, Fast!Status, Fast!Declared,
         Keep!Status, Keep!Declared, Fast!Blame,
         Keep!Blame, Fast!NoResult, Keep!NoResult, Fast!Valid, Keep!Valid, Fast!Acyclic,
         Keep!Acyclic, Fast!Exited, Keep!Exited, Fast!Worker, Keep!Worker, Fast!WorkerCount,
         Keep!WorkerCount, Fast!NodeCount, Keep!NodeCount, Fast!Cardinality, Keep!Cardinality
<1>3. Fast!CountersAgree <=> Keep!CountersAgree
  BY DEF Fast!CountersAgree, Keep!CountersAgree, Fast!Busy, Keep!Busy, Fast!NodesIn,
         Keep!NodesIn, Fast!NoResult, Keep!NoResult, Fast!Worker, Keep!Worker, Fast!WorkerCount,
         Keep!WorkerCount, Fast!NodeCount, Keep!NodeCount, Fast!Cardinality, Keep!Cardinality
<1>4. Fast!Ended <=> Keep!Ended
  BY DEF Fast!Ended, Keep!Ended, Fast!NodeCount, Keep!NodeCount, Fast!Worker, Keep!Worker,
         Fast!WorkerCount, Keep!WorkerCount, Fast!Exited, Keep!Exited, Fast!OrderedResults,
         Keep!OrderedResults, Fast!AggregateError, Keep!AggregateError, Fast!Topological,
         Keep!Topological, Fast!Ready, Keep!Ready, Fast!Placed, Keep!Placed, Fast!First,
         Keep!First, Fast!NoResult, Keep!NoResult, Fast!Cardinality, Keep!Cardinality
<1>5. Fast!DispatchedInOrder <=> Keep!DispatchedInOrder
  BY DEF Fast!DispatchedInOrder, Keep!DispatchedInOrder, Fast!Dispatched, Keep!Dispatched,
         Fast!StatusOf, Keep!StatusOf
<1>6. Fast!ReturnIsComplete <=> Keep!ReturnIsComplete
  BY DEF Fast!ReturnIsComplete, Keep!ReturnIsComplete, Fast!NodeCount, Keep!NodeCount,
         Fast!StatusOf, Keep!StatusOf, Fast!Busy, Keep!Busy, Fast!Worker, Keep!Worker,
         Fast!WorkerCount, Keep!WorkerCount, Fast!Cardinality, Keep!Cardinality
<1> QED  BY <1>1, <1>2, <1>3, <1>4, <1>5, <1>6

-----------------------------------------------------------------------------
(***************************************************************************)
(* What holds of the constants of the scheduler, and the results about it  *)
(* that are used here.                                                     *)
(***************************************************************************)
LEMMA ConcurrencyType == Concurrency \in Nat
BY NodeAssumption, ControlAssumption, FS_CardinalityType DEF Concurrency

LEMMA SchedulerConstants ==
  /\ Keep!IsFiniteSet(Node) /\ Fast!IsFiniteSet(Node)
  /\ Rank \in [Node -> Nat]
  /\ \A m, n \in Node : Rank[m] = Rank[n] => m = n
  /\ Graph \subseteq Keep!Graph /\ Graph \subseteq Fast!Graph
  /\ Concurrency \in Int
  /\ FALSE \in BOOLEAN /\ TRUE \in BOOLEAN
  /\ None \notin Node /\ Context \notin Node /\ None # Context
BY NodeAssumption, RankAssumption, ControlAssumption, ConcurrencyType
   DEF Keep!IsFiniteSet, Fast!IsFiniteSet, IsFiniteSet, Graph, Keep!Graph, Fast!Graph

LEMMA KeepResults ==
  /\ Keep!Init => Keep!IInv
  /\ Keep!IInv /\ [Keep!Next]_(Keep!vars) => Keep!IInv'
  /\ Keep!IInv /\ Keep!Ended /\ [Keep!Next]_(Keep!vars) => Keep!Ended'
  /\ Keep!IInv /\ Keep!Ended => Keep!ReturnIsComplete
  /\ Keep!IInv /\ Keep!DispatchedInOrder /\ [Keep!Next]_(Keep!vars) => Keep!DispatchedInOrder'
  /\ [Keep!Next]_(Keep!vars) => deps' = deps
<1>1. Keep!Init => Keep!IInv
  BY SchedulerConstants, Keep!InitIInv, Keep!SchedulerAssumption, Keep!NodeAssumption,
     Keep!RankAssumption, Keep!StatusAssumption
<1>2. Keep!IInv /\ [Keep!Next]_(Keep!vars) => Keep!IInv'
  BY SchedulerConstants, Keep!StepIInv, Keep!SchedulerAssumption, Keep!NodeAssumption,
     Keep!RankAssumption, Keep!StatusAssumption
<1>3. Keep!IInv /\ Keep!Ended /\ [Keep!Next]_(Keep!vars) => Keep!Ended'
  BY SchedulerConstants, Keep!StepEnds, Keep!SchedulerAssumption, Keep!NodeAssumption,
     Keep!RankAssumption, Keep!StatusAssumption
<1>4. Keep!IInv /\ Keep!Ended => Keep!ReturnIsComplete
  BY SchedulerConstants, Keep!EndedIsComplete, Keep!SchedulerAssumption, Keep!NodeAssumption,
     Keep!RankAssumption, Keep!StatusAssumption
<1>5. Keep!IInv /\ Keep!DispatchedInOrder /\ [Keep!Next]_(Keep!vars) => Keep!DispatchedInOrder'
  BY SchedulerConstants, Keep!StepDispatchesInOrder, Keep!SchedulerAssumption,
     Keep!NodeAssumption, Keep!RankAssumption, Keep!StatusAssumption
<1>6. [Keep!Next]_(Keep!vars) => deps' = deps
  BY SchedulerConstants, Keep!GraphStays, Keep!SchedulerAssumption, Keep!NodeAssumption,
     Keep!RankAssumption, Keep!StatusAssumption
<1> QED  BY <1>1, <1>2, <1>3, <1>4, <1>5, <1>6

LEMMA FastResults ==
  /\ Fast!Init => Fast!IInv
  /\ Fast!IInv /\ [Fast!Next]_(Fast!vars) => Fast!IInv'
  /\ Fast!IInv /\ Fast!Ended /\ [Fast!Next]_(Fast!vars) => Fast!Ended'
  /\ Fast!IInv /\ Fast!Ended => Fast!ReturnIsComplete
  /\ Fast!IInv /\ Fast!DispatchedInOrder /\ [Fast!Next]_(Fast!vars) => Fast!DispatchedInOrder'
  /\ [Fast!Next]_(Fast!vars) => deps' = deps
<1>1. Fast!Init => Fast!IInv
  BY SchedulerConstants, Fast!InitIInv, Fast!SchedulerAssumption, Fast!NodeAssumption,
     Fast!RankAssumption, Fast!StatusAssumption
<1>2. Fast!IInv /\ [Fast!Next]_(Fast!vars) => Fast!IInv'
  BY SchedulerConstants, Fast!StepIInv, Fast!SchedulerAssumption, Fast!NodeAssumption,
     Fast!RankAssumption, Fast!StatusAssumption
<1>3. Fast!IInv /\ Fast!Ended /\ [Fast!Next]_(Fast!vars) => Fast!Ended'
  BY SchedulerConstants, Fast!StepEnds, Fast!SchedulerAssumption, Fast!NodeAssumption,
     Fast!RankAssumption, Fast!StatusAssumption
<1>4. Fast!IInv /\ Fast!Ended => Fast!ReturnIsComplete
  BY SchedulerConstants, Fast!EndedIsComplete, Fast!SchedulerAssumption, Fast!NodeAssumption,
     Fast!RankAssumption, Fast!StatusAssumption
<1>5. Fast!IInv /\ Fast!DispatchedInOrder /\ [Fast!Next]_(Fast!vars) => Fast!DispatchedInOrder'
  BY SchedulerConstants, Fast!StepDispatchesInOrder, Fast!SchedulerAssumption,
     Fast!NodeAssumption, Fast!RankAssumption, Fast!StatusAssumption
<1>6. [Fast!Next]_(Fast!vars) => deps' = deps
  BY SchedulerConstants, Fast!GraphStays, Fast!SchedulerAssumption, Fast!NodeAssumption,
     Fast!RankAssumption, Fast!StatusAssumption
<1> QED  BY <1>1, <1>2, <1>3, <1>4, <1>5, <1>6


-----------------------------------------------------------------------------
(***************************************************************************)
(* What a step of Run does to the nodes and to the workers, whether it     *)
(* fails fast or not.                                                      *)
(***************************************************************************)

\* A worker is given a node that waits.
HandsOut(w, n) ==
  /\ states[n] = "pending"
  /\ states' = [states EXCEPT ![n] = "running"]
  /\ worker' = [worker EXCEPT ![w] = [phase |-> "taken", node |-> n]]
  /\ results' = results

\* A worker gives back its node with a result, and those in S are given up.
TakesBack(w, S) ==
  LET n == worker[w].node
  IN  /\ worker[w].phase = "reporting"
      /\ n \in Node /\ states[n] = "running"
      /\ states'[n] = "finished" /\ results'[n] = worker[w].result
      /\ \A m \in S : /\ m # n /\ states[m] = "pending"
                      /\ states'[m] = "finished"
                      /\ results'[m] = [status |-> "skipped", err |-> n]
      /\ \A m \in Node \ ({n} \cup S) : states'[m] = states[m] /\ results'[m] = results[m]
      /\ worker' = [worker EXCEPT ![w] = Keep!Idle]

\* All that wait are given up.
GivesUp ==
  /\ \A m \in Node : states[m] = "pending" =>
       states'[m] = "finished" /\ results'[m] = [status |-> "skipped", err |-> Context]
  /\ \A m \in Node : states[m] # "pending" => states'[m] = states[m] /\ results'[m] = results[m]
  /\ worker' = worker

RunEffect ==
  /\ deps' = deps /\ cancelled' = cancelled
  /\ \/ \E w \in Keep!Worker, n \in Node : HandsOut(w, n)
     \/ \E w \in Keep!Worker, S \in SUBSET Node : TakesBack(w, S)
     \/ GivesUp
     \/ UNCHANGED <<states, results, worker>>

LEMMA KeepRunEffect == Keep!IInv /\ Keep!Run => RunEffect
<1> SUFFICES ASSUME Keep!IInv, Keep!Run PROVE RunEffect
  OBVIOUS
<1>1. deps' = deps /\ cancelled' = cancelled
  BY DEF Keep!Run, Keep!Validate, Keep!Offer, Keep!Receive, Keep!ObserveCancel,
         Keep!CloseWork, Keep!ReturnAggregate, Keep!runLocals
<1>2. ASSUME NEW w \in Keep!Worker, Keep!Offer(w)
      PROVE  \E v \in Keep!Worker, n \in Node : HandsOut(v, n)
  <2> DEFINE next == Keep!First(Keep!Queue)
  <2>1. next \in Keep!Pending
    BY <1>2, SchedulerConstants, Keep!OfferFacts, Keep!SchedulerAssumption, Keep!NodeAssumption,
       Keep!RankAssumption, Keep!StatusAssumption
  <2>2. /\ states' = [states EXCEPT ![next] = "running"]
        /\ worker' = [worker EXCEPT ![w] = [phase |-> "taken", node |-> next]]
        /\ results' = results
    BY <1>2 DEF Keep!Offer, Keep!Peek
  <2>3. next \in Node /\ states[next] = "pending"
    BY <2>1 DEF Keep!Pending, Keep!NodesIn
  <2> HIDE DEF next
  <2> QED  BY <2>2, <2>3, FastIsKeep DEF HandsOut
<1>3. ASSUME NEW w \in Keep!Worker, Keep!Receive(w)
      PROVE  \E v \in Keep!Worker, S \in SUBSET Node : TakesBack(v, S)
  <2> DEFINE n == worker[w].node
             S == Keep!GivenUp(w)
  <2>1. /\ n \in Node /\ states[n] = "running"
        /\ S \subseteq Keep!Pending
        /\ \A m \in S : m \in Node /\ m # n
        /\ results'[n] = worker[w].result
        /\ \A m \in S : results'[m] = Keep!Skip(m, n)
        /\ \A m \in Node \ ({n} \cup S) : results'[m] = results[m] /\ states'[m] = states[m]
        /\ \A m \in {n} \cup S : states'[m] = "finished"
    BY <1>3, SchedulerConstants, Keep!ReceiveFacts, Keep!SchedulerAssumption, Keep!NodeAssumption,
       Keep!RankAssumption, Keep!StatusAssumption DEF Keep!EventNode, Keep!Event
  <2>2. worker[w].phase = "reporting" /\ worker' = [worker EXCEPT ![w] = Keep!Idle]
    BY <1>3 DEF Keep!Receive
  <2>3. \A m \in S : states[m] = "pending"
    BY <2>1 DEF Keep!Pending, Keep!NodesIn
  <2>4. \A m \in S : results'[m] = [status |-> "skipped", err |-> n]
    BY <2>1 DEF Keep!Skip
  <2> HIDE DEF S
  <2>5. TakesBack(w, S)
    BY <2>1, <2>2, <2>3, <2>4 DEF TakesBack
  <2> QED  BY <2>1, <2>5, FastIsKeep
<1>4. Keep!ObserveCancel => GivesUp
  BY DEF Keep!ObserveCancel, Keep!NotStarted, Keep!Pending, Keep!NodesIn, Keep!Skip, GivesUp
<1>5. Keep!Validate \/ Keep!CloseWork \/ Keep!ReturnAggregate =>
        UNCHANGED <<states, results, worker>>
  BY DEF Keep!Validate, Keep!CloseWork, Keep!ReturnAggregate, Keep!runLocals
<1> QED  BY <1>1, <1>2, <1>3, <1>4, <1>5 DEF Keep!Run, RunEffect

LEMMA FastRunEffect == Fast!IInv /\ Fast!Run => RunEffect
<1> SUFFICES ASSUME Fast!IInv, Fast!Run PROVE RunEffect
  OBVIOUS
<1>1. deps' = deps /\ cancelled' = cancelled
  BY DEF Fast!Run, Fast!Validate, Fast!Offer, Fast!Receive, Fast!ObserveCancel,
         Fast!CloseWork, Fast!ReturnAggregate, Fast!runLocals
<1>2. ASSUME NEW w \in Fast!Worker, Fast!Offer(w)
      PROVE  \E v \in Keep!Worker, n \in Node : HandsOut(v, n)
  <2> DEFINE next == Fast!First(Fast!Queue)
  <2>1. next \in Fast!Pending
    BY <1>2, SchedulerConstants, Fast!OfferFacts, Fast!SchedulerAssumption, Fast!NodeAssumption,
       Fast!RankAssumption, Fast!StatusAssumption
  <2>2. /\ states' = [states EXCEPT ![next] = "running"]
        /\ worker' = [worker EXCEPT ![w] = [phase |-> "taken", node |-> next]]
        /\ results' = results
    BY <1>2 DEF Fast!Offer, Fast!Peek
  <2>3. next \in Node /\ states[next] = "pending"
    BY <2>1 DEF Fast!Pending, Fast!NodesIn
  <2> HIDE DEF next
  <2> QED  BY <2>2, <2>3, FastIsKeep DEF HandsOut
<1>3. ASSUME NEW w \in Fast!Worker, Fast!Receive(w)
      PROVE  \E v \in Keep!Worker, S \in SUBSET Node : TakesBack(v, S)
  <2> DEFINE n == worker[w].node
             S == Fast!GivenUp(w)
  <2>1. /\ n \in Node /\ states[n] = "running"
        /\ S \subseteq Fast!Pending
        /\ \A m \in S : m \in Node /\ m # n
        /\ results'[n] = worker[w].result
        /\ \A m \in S : results'[m] = Fast!Skip(m, n)
        /\ \A m \in Node \ ({n} \cup S) : results'[m] = results[m] /\ states'[m] = states[m]
        /\ \A m \in {n} \cup S : states'[m] = "finished"
    BY <1>3, SchedulerConstants, Fast!ReceiveFacts, Fast!SchedulerAssumption, Fast!NodeAssumption,
       Fast!RankAssumption, Fast!StatusAssumption DEF Fast!EventNode, Fast!Event
  <2>2. worker[w].phase = "reporting" /\ worker' = [worker EXCEPT ![w] = Fast!Idle]
    BY <1>3 DEF Fast!Receive
  <2>3. \A m \in S : states[m] = "pending"
    BY <2>1 DEF Fast!Pending, Fast!NodesIn
  <2>4. \A m \in S : results'[m] = [status |-> "skipped", err |-> n]
    BY <2>1 DEF Fast!Skip
  <2> HIDE DEF S
  <2>5. TakesBack(w, S)
    BY <2>1, <2>2, <2>3, <2>4 DEF TakesBack, Keep!Idle, Fast!Idle
  <2> QED  BY <2>1, <2>5, FastIsKeep
<1>4. Fast!ObserveCancel => GivesUp
  BY DEF Fast!ObserveCancel, Fast!NotStarted, Fast!Pending, Fast!NodesIn, Fast!Skip, GivesUp
<1>5. Fast!Validate \/ Fast!CloseWork \/ Fast!ReturnAggregate =>
        UNCHANGED <<states, results, worker>>
  BY DEF Fast!Validate, Fast!CloseWork, Fast!ReturnAggregate, Fast!runLocals
<1> QED  BY <1>1, <1>2, <1>3, <1>4, <1>5 DEF Fast!Run, RunEffect

-----------------------------------------------------------------------------
(***************************************************************************)
(* The inductive invariant.                                                *)
(***************************************************************************)

\* What Dispatch makes of a child that is through.
Through == {"succeeded", "failed", "unresolved"}

ResultOf(n) == IF child[n] = "succeeded" THEN [status |-> "succeeded", err |-> None]
                                         ELSE [status |-> "failed", err |-> n]

Limit == IF parent.mode = "fail_fast" /\ parent.maxFailures = 0 THEN 1 ELSE parent.maxFailures

TypeOK ==
  /\ parent \in Parents
  /\ phase \in {"validate", "build", "run", "returned"}
  /\ child \in [Node -> {"waiting", "executing", "cancelling"} \cup Through]
  /\ failures \in Nat
  /\ parentCancelled \in BOOLEAN

\* Nothing happens in the scheduler before it starts.
Untouched ==
  pc \in {"validate", "rejected"} =>
    /\ \A w \in Keep!Worker : worker[w] = Keep!Idle
    /\ \A n \in Node : states[n] = "pending"

\* The scheduler is in one of the states that SchedulerProofs allows, with the
\* graph of the step.
Scheduled ==
  /\ IF FailsFast THEN Fast!IInv /\ Fast!Ended /\ Fast!DispatchedInOrder
                  ELSE Keep!IInv /\ Keep!Ended /\ Keep!DispatchedInOrder
  /\ deps = ControlGraph
  /\ Untouched

\* The scheduler knows of each child what became of it.
Followed ==
  /\ \A w \in Keep!Worker : worker[w].phase = "taken" => child[worker[w].node] = "waiting"
  /\ \A w \in Keep!Worker : worker[w].phase = "reporting" =>
       /\ child[worker[w].node] \in Through
       /\ worker[w].result = ResultOf(worker[w].node)
  /\ \A n \in Node : states[n] = "pending" => child[n] = "waiting"
  /\ \A n \in Node : states[n] = "finished" =>
       \/ child[n] = "waiting" /\ results[n].status = "skipped" /\ results[n].err # n
       \/ child[n] \in Through /\ results[n] = ResultOf(n)

\* Every failure is counted once, and the group is cancelled at the limit.
Counted ==
  LET failed == ChildrenThat("failed")
      cancelling == ChildrenThat("cancelling")
  IN  /\ failures = Cardinality(failed) + Cardinality(cancelling)
      /\ cancelling # {} => /\ parent.mode # "best_effort"
                            /\ Limit > 0 /\ Cardinality(failed) + 1 >= Limit
      /\ cancelled = (parentCancelled \/ /\ parent.mode # "best_effort"
                                         /\ Limit > 0 /\ Cardinality(failed) >= Limit)

IInv ==
  /\ TypeOK
  /\ phase # "returned" => Scheduled /\ Followed /\ Counted
  /\ phase \in {"validate", "build"} => pc = "validate"
  /\ phase = "run" => parent.distinct
  /\ phase = "returned" => \A w \in Keep!Worker : worker[w].phase # "dispatching"
  /\ ReturnTellsFailure

-----------------------------------------------------------------------------
(***************************************************************************)
(* The scheduler goes on as the one of SchedulerProofs.                    *)
(***************************************************************************)
LEMMA KeepBeforeTheStart ==
  Untouched /\ [Keep!Next]_(Keep!vars) => Untouched'
<1> SUFFICES ASSUME Untouched, [Keep!Next]_(Keep!vars), pc' \in {"validate", "rejected"}
             PROVE  states' = states /\ worker' = worker /\ pc \in {"validate", "rejected"}
  BY FastIsKeep DEF Untouched
<1>1. CASE Keep!Run
  BY <1>1 DEF Keep!Run, Keep!Validate, Keep!Offer, Keep!Receive, Keep!ObserveCancel, Keep!CloseWork,
              Keep!ReturnAggregate, Keep!Looping, Keep!runLocals
<1>2. ASSUME NEW w \in Keep!Worker, Keep!WorkerLoop(w)
      PROVE  states' = states /\ worker' = worker /\ pc \in {"validate", "rejected"}
  <2>1. pc' = pc /\ states' = states
    BY <1>2 DEF Keep!WorkerLoop, Keep!StartNode, Keep!FinishNode, Keep!ExitWorker, Keep!runLocals
  <2>2. worker[w].phase = "idle"
    BY <2>1, FastIsKeep DEF Untouched, Keep!Idle
  <2>3. FALSE
    BY <1>2, <2>1, <2>2 DEF Keep!WorkerLoop, Keep!StartNode, Keep!FinishNode, Keep!ExitWorker
  <2> QED  BY <2>3
<1>3. CASE Keep!CancelContext \/ Keep!Stopped \/ UNCHANGED Keep!vars
  BY <1>3 DEF Keep!CancelContext, Keep!Stopped, Keep!vars, Keep!runLocals
<1> QED  BY <1>1, <1>2, <1>3 DEF Keep!Next

LEMMA FastBeforeTheStart ==
  Untouched /\ [Fast!Next]_(Fast!vars) => Untouched'
<1> SUFFICES ASSUME Untouched, [Fast!Next]_(Fast!vars), pc' \in {"validate", "rejected"}
             PROVE  states' = states /\ worker' = worker /\ pc \in {"validate", "rejected"}
  BY FastIsKeep DEF Untouched
<1>1. CASE Fast!Run
  BY <1>1 DEF Fast!Run, Fast!Validate, Fast!Offer, Fast!Receive, Fast!ObserveCancel, Fast!CloseWork,
              Fast!ReturnAggregate, Fast!Looping, Fast!runLocals
<1>2. ASSUME NEW w \in Fast!Worker, Fast!WorkerLoop(w)
      PROVE  states' = states /\ worker' = worker /\ pc \in {"validate", "rejected"}
  <2>1. pc' = pc /\ states' = states
    BY <1>2 DEF Fast!WorkerLoop, Fast!StartNode, Fast!FinishNode, Fast!ExitWorker, Fast!runLocals
  <2>2. worker[w].phase = "idle"
    BY <2>1, FastIsKeep DEF Untouched, Keep!Idle
  <2>3. FALSE
    BY <1>2, <2>1, <2>2 DEF Fast!WorkerLoop, Fast!StartNode, Fast!FinishNode, Fast!ExitWorker
  <2> QED  BY <2>3
<1>3. CASE Fast!CancelContext \/ Fast!Stopped \/ UNCHANGED Fast!vars
  BY <1>3 DEF Fast!CancelContext, Fast!Stopped, Fast!vars, Fast!runLocals
<1> QED  BY <1>1, <1>2, <1>3 DEF Fast!Next

SchedulerStep ==
  IF FailsFast THEN [Fast!Next]_(Fast!vars) ELSE [Keep!Next]_(Keep!vars)

LEMMA StepSchedules ==
  Scheduled /\ parent' = parent /\ SchedulerStep => Scheduled'
<1> SUFFICES ASSUME Scheduled, parent' = parent, SchedulerStep PROVE Scheduled'
  OBVIOUS
<1>1. FailsFast' = FailsFast /\ ControlGraph' = ControlGraph
  BY DEF FailsFast, ControlGraph
<1>2. CASE FailsFast
  BY <1>1, <1>2, FastResults, FastBeforeTheStart DEF Scheduled, SchedulerStep
<1>3. CASE ~FailsFast
  BY <1>1, <1>3, KeepResults, KeepBeforeTheStart DEF Scheduled, SchedulerStep
<1> QED  BY <1>2, <1>3

\* A busy worker holds a node of its own that runs.
LEMMA SchedulerFacts ==
  ASSUME Scheduled
  PROVE  /\ worker \in [Keep!Worker -> Keep!WorkerState]
         /\ states \in [Node -> {"pending", "running", "finished"}]
         /\ \A w \in Keep!Worker : worker[w].phase \in {"taken", "dispatching", "reporting"} =>
              worker[w].node \in Node /\ states[worker[w].node] = "running"
         /\ \A v, w \in Keep!Worker :
              /\ worker[v].phase \in {"taken", "dispatching", "reporting"}
              /\ worker[w].phase \in {"taken", "dispatching", "reporting"}
              /\ worker[v].node = worker[w].node
              => v = w
<1>1. Keep!TypeOK /\ Keep!CountersAgree
  BY FastInvariantsAreKeep DEF Scheduled, Fast!IInv, Keep!IInv
<1>2. \A w \in Keep!Worker : worker[w].phase \in {"taken", "dispatching", "reporting"} =>
        w \in Keep!Busy
  BY DEF Keep!Busy
<1>3. \A w \in Keep!Busy : worker[w].node \in Keep!NodesIn("running")
  BY <1>1 DEF Keep!CountersAgree
<1> QED  BY <1>1, <1>2, <1>3 DEF Keep!TypeOK, Keep!CountersAgree, Keep!NodesIn

\* No child is dispatched when the scheduler has returned, or before it starts.
LEMMA EndedFacts ==
  ASSUME Scheduled, pc \in {"validate", "returned", "rejected"}
  PROVE  \A w \in Keep!Worker : worker[w].phase \in {"idle", "exited"}
<1>1. pc = "returned" => \A w \in Keep!Worker : worker[w] = Keep!Exited
  BY FastInvariantsAreKeep DEF Scheduled, Keep!Ended
<1> QED  BY <1>1 DEF Scheduled, Untouched, Keep!Idle, Keep!Exited

-----------------------------------------------------------------------------
(***************************************************************************)
(* The scheduler and the children keep in step.                            *)
(***************************************************************************)
LEMMA RunKeepsFollowed ==
  ASSUME Scheduled, Followed, RunEffect, child' = child
  PROVE  Followed'
<1>1. CASE UNCHANGED <<states, results, worker>>
  BY <1>1 DEF Followed, ResultOf
<1>2. ASSUME NEW w \in Keep!Worker, NEW n \in Node, HandsOut(w, n) PROVE Followed'
  <2>1. child[n] = "waiting"
    BY <1>2 DEF HandsOut, Followed
  <2>2. /\ worker'[w] = [phase |-> "taken", node |-> n]
        /\ \A v \in Keep!Worker \ {w} : worker'[v] = worker[v]
        /\ states'[n] = "running" /\ \A m \in Node \ {n} : states'[m] = states[m]
    BY <1>2, SchedulerFacts DEF HandsOut
  <2>3. results' = results
    BY <1>2 DEF HandsOut
  <2> QED  BY <2>1, <2>2, <2>3 DEF Followed, ResultOf
<1>3. ASSUME NEW w \in Keep!Worker, NEW S \in SUBSET Node, TakesBack(w, S) PROVE Followed'
  <2>1. PICK n \in Node : n = worker[w].node
    BY <1>3 DEF TakesBack
  <2>2. /\ worker'[w].phase = "idle"
        /\ \A v \in Keep!Worker \ {w} : worker'[v] = worker[v]
    BY <1>3, SchedulerFacts DEF TakesBack, Keep!Idle
  <2>3. child[n] \in Through /\ results'[n] = ResultOf(n) /\ states'[n] = "finished"
    BY <1>3, <2>1 DEF TakesBack, Followed
  <2>4. \A m \in S : /\ child[m] = "waiting" /\ m # n /\ states'[m] = "finished"
                     /\ results'[m].status = "skipped" /\ results'[m].err = n
    BY <1>3, <2>1 DEF TakesBack, Followed
  <2>5. \A m \in Node \ ({n} \cup S) : states'[m] = states[m] /\ results'[m] = results[m]
    BY <1>3, <2>1 DEF TakesBack
  <2> QED  BY <2>2, <2>3, <2>4, <2>5 DEF Followed, ResultOf
<1>4. CASE GivesUp
  <2>1. \A m \in Node : states[m] = "pending" =>
          child[m] = "waiting" /\ results'[m].status = "skipped" /\ results'[m].err # m
    BY <1>4, ControlAssumption DEF GivesUp, Followed
  <2>2. \A m \in Node : states'[m] # "pending"
    BY <1>4, SchedulerFacts DEF GivesUp
  <2> QED  BY <1>4, <2>1, <2>2 DEF GivesUp, Followed, ResultOf
<1> QED  BY <1>1, <1>2, <1>3, <1>4 DEF RunEffect

\* The worker of a child that moves on.
Holds(w, n) == w \in Keep!Worker /\ worker[w].phase = "dispatching" /\ worker[w].node = n

LEMMA ChildKeepsFollowed ==
  ASSUME TypeOK, Scheduled, Followed, NEW w, NEW n, Holds(w, n),
         NEW c, child' = [child EXCEPT ![n] = c],
         UNCHANGED <<states, results, worker>>
  PROVE  Followed'
<1>1. n \in Node /\ states[n] = "running"
  BY SchedulerFacts DEF Holds
<1>2. \A v \in Keep!Worker : worker[v].phase \in {"taken", "reporting"} =>
        worker[v].node \in Node /\ worker[v].node # n
  BY SchedulerFacts DEF Holds
<1>3. \A m \in Node \ {n} : child'[m] = child[m]
  BY <1>1 DEF TypeOK
<1> QED  BY <1>1, <1>2, <1>3 DEF Followed, ResultOf

LEMMA ReturnKeepsFollowed ==
  ASSUME TypeOK, Scheduled, Followed, NEW w \in Keep!Worker, child[worker[w].node] \in Through,
         worker[w].phase = "dispatching", DispatchReturns(w)
  PROVE  Followed'
<1>1. PICK n \in Node : n = worker[w].node
  BY SchedulerFacts
<1>2. Keep!FinishNode(w)
  BY KeepGoingSteps DEF DispatchReturns
<1>3. UNCHANGED <<states, results, child>>
  BY <1>2 DEF Keep!FinishNode, Keep!runLocals, DispatchReturns
<1>4. PICK r : worker' = [worker EXCEPT ![w] = [phase |-> "reporting", node |-> n, result |-> r]]
  BY <1>1, <1>2 DEF Keep!FinishNode
<1>5. /\ worker'[w].phase = "reporting" /\ worker'[w].node = n
      /\ \A v \in Keep!Worker \ {w} : worker'[v] = worker[v]
  BY <1>4, SchedulerFacts
<1>6. worker'[w].result = ResultOf(n)
  BY <1>1 DEF DispatchReturns, KeepGoingRun!NormalizeResult, ResultOf
<1> QED  BY <1>1, <1>3, <1>5, <1>6 DEF Followed, ResultOf

-----------------------------------------------------------------------------
(***************************************************************************)
(* The count.                                                              *)
(***************************************************************************)
LEMMA FiniteChildren ==
  ASSUME NEW S \in SUBSET Node
  PROVE  IsFiniteSet(S) /\ Cardinality(S) \in Nat
BY NodeAssumption, FS_Subset, FS_CardinalityType

LEMMA LimitType == TypeOK => Limit \in Nat
BY ControlAssumption DEF TypeOK, Limit

\* A child that begins, ends well or is not executed is not counted.
LEMMA OthersKeepCounted ==
  ASSUME TypeOK, Counted, UNCHANGED <<parent, failures, cancelled, parentCancelled>>,
         \A c \in {"failed", "cancelling"} : ChildrenThat(c)' = ChildrenThat(c)
  PROVE  Counted'
BY DEF Counted, Limit

LEMMA FailKeepsCounted ==
  ASSUME TypeOK, Scheduled, Counted, NEW w, NEW n, Holds(w, n), child[n] = "executing", Fail(w)
  PROVE  Counted'
<1> DEFINE F == ChildrenThat("failed")
           C == ChildrenThat("cancelling")
<1>1. n \in Node /\ n = worker[w].node
  BY SchedulerFacts DEF Holds
<1>2. F \in SUBSET Node /\ C \in SUBSET Node /\ n \notin F /\ n \notin C
  BY DEF ChildrenThat
<1>3. /\ IsFiniteSet(F) /\ Cardinality(F) \in Nat
      /\ IsFiniteSet(C) /\ Cardinality(C) \in Nat
  <2> HIDE DEF F, C
  <2> QED  BY <1>2, FiniteChildren
<1>4. failures' = failures + 1 /\ failures = Cardinality(F) + Cardinality(C)
  BY DEF Fail, Counted
<1>5. UNCHANGED <<parent, parentCancelled, cancelled>> /\ Limit' = Limit
  BY DEF Fail, scheduler, Limit
<1>6. ShouldCancel(failures + 1) <=>
        parent.mode # "best_effort" /\ Limit > 0 /\ failures + 1 >= Limit
  BY DEF ShouldCancel, Limit
<1>7. Limit \in Nat
  BY LimitType
<1>8. CASE ShouldCancel(failures + 1)
  <2>1. child' = [child EXCEPT ![n] = "cancelling"]
    BY <1>1, <1>8 DEF Fail
  <2>2. ChildrenThat("failed")' = F /\ ChildrenThat("cancelling")' = C \cup {n}
    BY <1>1, <1>2, <2>1 DEF ChildrenThat, TypeOK
  <2> HIDE DEF F, C
  <2>3. Cardinality(C \cup {n}) = Cardinality(C) + 1
    BY <1>2, <1>3, FS_AddElement
  <2>4. Cardinality(F) + 1 >= Limit
    <3>1. CASE C = {}
      <4>1. Cardinality(C) = 0
        BY <3>1, FS_EmptySet
      <4> QED  BY <1>3, <1>4, <1>6, <1>7, <1>8, <4>1
    <3>2. CASE C # {}
      BY <3>2 DEF Counted, C, F
    <3> QED  BY <3>1, <3>2
  <2>5. failures' = Cardinality(F) + Cardinality(C \cup {n})
    BY <1>3, <1>4, <2>3
  <2>6. cancelled' = (parentCancelled' \/ /\ parent'.mode # "best_effort"
                                          /\ Limit' > 0 /\ Cardinality(F) >= Limit')
    BY <1>5 DEF Counted, F
  <2> QED  BY <1>5, <1>6, <1>8, <2>2, <2>4, <2>5, <2>6 DEF Counted
<1>9. CASE ~ShouldCancel(failures + 1)
  <2>1. child' = [child EXCEPT ![n] = "failed"]
    BY <1>1, <1>9 DEF Fail
  <2>2. ChildrenThat("failed")' = F \cup {n} /\ ChildrenThat("cancelling")' = C
    BY <1>1, <1>2, <2>1 DEF ChildrenThat, TypeOK
  <2> HIDE DEF F, C
  <2>3. Cardinality(F \cup {n}) = Cardinality(F) + 1
    BY <1>2, <1>3, FS_AddElement
  <2>4. failures' = Cardinality(F \cup {n}) + Cardinality(C)
    BY <1>3, <1>4, <2>3
  <2>5. C # {} => parent.mode # "best_effort" /\ Limit > 0 /\ Cardinality(F) + 1 >= Limit
    BY DEF Counted, C, F
  <2>6. parent.mode # "best_effort" /\ Limit > 0 => Cardinality(F) + 1 < Limit
    BY <1>3, <1>4, <1>6, <1>7, <1>9
  <2>7. C = {}
    BY <1>3, <1>7, <2>5, <2>6
  <2>8. cancelled = (parentCancelled \/ /\ parent.mode # "best_effort"
                                        /\ Limit > 0 /\ Cardinality(F) >= Limit)
    BY DEF Counted, F
  <2>9. cancelled = (parentCancelled \/ /\ parent.mode # "best_effort"
                                        /\ Limit > 0 /\ Cardinality(F \cup {n}) >= Limit)
    <3>1. parent.mode # "best_effort" /\ Limit > 0 =>
            ~(Cardinality(F) >= Limit) /\ ~(Cardinality(F \cup {n}) >= Limit)
      BY <1>3, <1>7, <2>3, <2>6
    <3> QED  BY <2>8, <3>1
  <2> QED  BY <1>5, <2>2, <2>4, <2>7, <2>9 DEF Counted
<1> QED  BY <1>8, <1>9

LEMMA CancelKeepsCounted ==
  ASSUME TypeOK, Scheduled, Counted, NEW w, NEW n, Holds(w, n), child[n] = "cancelling",
         CancelGroup(w)
  PROVE  Counted'
<1> DEFINE F == ChildrenThat("failed")
           C == ChildrenThat("cancelling")
<1>1. n \in Node /\ n = worker[w].node
  BY SchedulerFacts DEF Holds
<1>2. F \in SUBSET Node /\ C \in SUBSET Node /\ n \notin F /\ n \in C
  BY <1>1 DEF ChildrenThat
<1>3. /\ IsFiniteSet(F) /\ Cardinality(F) \in Nat
      /\ IsFiniteSet(C) /\ Cardinality(C) \in Nat
  <2> HIDE DEF F, C
  <2> QED  BY <1>2, FiniteChildren
<1>4. /\ child' = [child EXCEPT ![n] = "failed"] /\ cancelled' = TRUE
      /\ UNCHANGED <<parent, parentCancelled, failures>> /\ Limit' = Limit
  BY <1>1 DEF CancelGroup, Limit
<1>5. ChildrenThat("failed")' = F \cup {n} /\ ChildrenThat("cancelling")' = C \ {n}
  BY <1>1, <1>2, <1>4 DEF ChildrenThat, TypeOK
<1>6. /\ parent.mode # "best_effort" /\ Limit > 0 /\ Cardinality(F) + 1 >= Limit
      /\ failures = Cardinality(F) + Cardinality(C)
  BY <1>2 DEF Counted
<1>7. Limit \in Nat
  BY LimitType
<1> HIDE DEF F, C
<1>8. Cardinality(F \cup {n}) = Cardinality(F) + 1 /\ Cardinality(C \ {n}) = Cardinality(C) - 1
  BY <1>2, <1>3, FS_AddElement, FS_RemoveElement
<1>9. failures' = Cardinality(F \cup {n}) + Cardinality(C \ {n})
  BY <1>3, <1>4, <1>6, <1>8
<1>10. Cardinality(F \cup {n}) >= Limit /\ Cardinality(F \cup {n}) + 1 >= Limit
  BY <1>3, <1>6, <1>7, <1>8
<1> QED  BY <1>4, <1>5, <1>6, <1>9, <1>10 DEF Counted

-----------------------------------------------------------------------------
(***************************************************************************)
(* The invariant holds at first, and every step keeps it.                  *)
(***************************************************************************)
LEMMA InitIInv == Init => IInv
<1> SUFFICES ASSUME Init PROVE IInv
  OBVIOUS
<1>1. Keep!Init /\ Fast!Init
  BY KeepGoingSteps, FastIsKeep DEF Init
<1>2. /\ pc = "validate" /\ cancelled = FALSE
      /\ \A n \in Node : states[n] = "pending"
      /\ \A w \in Keep!Worker : worker[w] = Keep!Idle
  BY <1>1 DEF Keep!Init
<1>3. Keep!Ended /\ Keep!DispatchedInOrder
  BY <1>2 DEF Keep!Ended, Keep!DispatchedInOrder, Keep!Dispatched
<1>4. Scheduled
  BY <1>1, <1>2, <1>3, KeepResults, FastResults, FastInvariantsAreKeep
     DEF Scheduled, Untouched, Init
<1>5. Followed
  BY <1>2 DEF Followed, Keep!Idle, Init
<1>6. TypeOK
  BY DEF Init, TypeOK
<1>7. Counted
  <2>1. ChildrenThat("failed") = {} /\ ChildrenThat("cancelling") = {}
    BY DEF Init, ChildrenThat
  <2>2. Cardinality({}) = 0
    BY FS_EmptySet
  <2>3. Limit \in Nat
    BY <1>6, LimitType
  <2>4. failures = 0 /\ parentCancelled = FALSE
    BY DEF Init
  <2>5. ~(Limit > 0 /\ 0 >= Limit)
    BY <2>3
  <2>6. cancelled = (parentCancelled \/ (parent.mode # "best_effort" /\ Limit > 0 /\ 0 >= Limit))
    BY <1>2, <2>4, <2>5, Zenon
  <2> QED  BY <2>1, <2>2, <2>4, <2>6 DEF Counted
<1>8. phase = "validate"
  BY DEF Init
<1> QED  BY <1>2, <1>4, <1>5, <1>6, <1>7, <1>8 DEF IInv, ReturnTellsFailure

\* A child is dispatched only while the step runs.
LEMMA DispatchRuns ==
  ASSUME IInv, NEW w \in KeepGoingRun!Worker, worker[w].phase = "dispatching"
  PROVE  /\ phase = "run" /\ Scheduled /\ Followed /\ Counted
         /\ w \in Keep!Worker /\ worker[w].node \in Node
<1>1. w \in Keep!Worker
  BY KeepGoingSteps
<1>2. phase # "returned"
  BY <1>1 DEF IInv
<1>3. phase \notin {"validate", "build"}
  BY <1>1, <1>2, EndedFacts DEF IInv
<1>4. phase = "run"
  BY <1>2, <1>3 DEF IInv, TypeOK
<1>5. Scheduled /\ Followed /\ Counted
  BY <1>2 DEF IInv
<1> QED  BY <1>1, <1>4, <1>5, SchedulerFacts

\* The steps of the scheduler are what it takes them for.
LEMMA SchedulerStepFacts ==
  ASSUME NEW w \in Keep!Worker
  PROVE  /\ Keep!StartNode(w) \/ Keep!FinishNode(w) \/ Keep!ExitWorker(w) => SchedulerStep
         /\ Keep!CancelContext => SchedulerStep
         /\ UNCHANGED scheduler => SchedulerStep
<1>1. Keep!StartNode(w) \/ Keep!FinishNode(w) \/ Keep!ExitWorker(w) => Fast!Next /\ Keep!Next
  BY FastIsKeep DEF Keep!Next, Keep!WorkerLoop, Fast!Next, Fast!WorkerLoop
<1>2. Keep!CancelContext => Fast!Next /\ Keep!Next
  BY FastIsKeep DEF Keep!Next, Fast!Next
<1>3. UNCHANGED scheduler => UNCHANGED Keep!vars /\ UNCHANGED Fast!vars
  BY DEF scheduler, Keep!vars, Keep!runLocals, Fast!vars, Fast!runLocals
<1> QED  BY <1>1, <1>2, <1>3 DEF SchedulerStep

LEMMA BeginningKeeps ==
  ASSUME IInv, Validate \/ Build
  PROVE  IInv'
<1>1. /\ phase \in {"validate", "build"}
      /\ UNCHANGED <<parent, child, failures, parentCancelled, scheduler>>
      /\ phase' \in {"build", "run", "returned"}
      /\ phase' = "run" => parent.distinct
      /\ phase' = "returned" => ret' = "invalid" \/ (ret' = "error" /\ ~parent.distinct)
  <2>1. CASE Validate
    BY <2>1 DEF Validate
  <2>2. CASE Build
    BY <2>2 DEF Build, Buildable
  <2> QED  BY <2>1, <2>2
<1>2. pc = "validate" /\ Scheduled /\ Followed /\ Counted
  BY <1>1 DEF IInv
<1>3. TypeOK'
  BY <1>1 DEF IInv, TypeOK, Validate, Build
<1>4. CASE phase' \in {"build", "run"}
  <2>1. Scheduled'
    <3>1. UNCHANGED Keep!vars /\ UNCHANGED Fast!vars
      BY <1>1 DEF scheduler, Keep!vars, Keep!runLocals, Fast!vars, Fast!runLocals
    <3> QED  BY <1>1, <1>2, <3>1, StepSchedules DEF SchedulerStep
  <2>2. Followed'
    BY <1>1, <1>2 DEF Followed, ResultOf, scheduler
  <2>3. Counted'
    BY <1>1, <1>2 DEF Counted, ChildrenThat, Limit, scheduler
  <2>4. pc' = "validate"
    BY <1>1, <1>2 DEF scheduler
  <2> QED  BY <1>3, <1>4, <2>1, <2>2, <2>3, <2>4, <1>1 DEF IInv, ReturnTellsFailure
<1>5. CASE phase' = "returned"
  <2>1. \A w \in Keep!Worker : worker[w].phase \in {"idle", "exited"}
    BY <1>2, EndedFacts
  <2>2. worker' = worker
    BY <1>1 DEF scheduler
  <2>4. \A n \in Node : child'[n] = "waiting"
    BY <1>1, <1>2 DEF Scheduled, Untouched, Followed
  <2>3. \A w \in Keep!Worker : worker'[w].phase # "dispatching"
    BY <2>1, <2>2
  <2> QED  BY <1>1, <1>3, <1>5, <2>3, <2>4 DEF IInv, ReturnTellsFailure
<1> QED  BY <1>1, <1>4, <1>5

\* A step after which the control step goes on.
LEMMA GoingOn ==
  ASSUME IInv, phase = "run", phase' = "run", UNCHANGED parent,
         TypeOK', Scheduled', Followed', Counted'
  PROVE  IInv'
BY DEF IInv, ReturnTellsFailure

LEMMA CancelParentKeeps ==
  ASSUME IInv, CancelParent
  PROVE  IInv'
<1>1. phase = "run" /\ Scheduled /\ Followed /\ Counted
  BY DEF CancelParent, IInv
<1>2. Keep!CancelContext /\ UNCHANGED <<parent, phase, child, failures>> /\ parentCancelled' = TRUE
  BY KeepGoingSteps DEF CancelParent
<1>3. cancelled' = TRUE /\ UNCHANGED <<states, results, worker>>
  BY <1>2 DEF Keep!CancelContext, Keep!runLocals
<1>4. SchedulerStep
  BY <1>2, FastIsKeep DEF SchedulerStep, Keep!Next, Fast!Next
<1>5. Scheduled'
  BY <1>1, <1>2, <1>4, StepSchedules
<1>6. Followed'
  BY <1>1, <1>2, <1>3 DEF Followed, ResultOf
<1>7. Counted'
  BY <1>1, <1>2, <1>3 DEF Counted, ChildrenThat, Limit
<1>8. TypeOK'
  BY <1>2 DEF IInv, TypeOK
<1> QED  BY <1>1, <1>2, <1>5, <1>6, <1>7, <1>8, GoingOn

LEMMA ScheduleKeeps ==
  ASSUME IInv, Schedule
  PROVE  IInv'
<1>1. phase = "run" /\ Scheduled /\ Followed /\ Counted
  BY DEF Schedule, IInv
<1>2. UNCHANGED <<parent, phase, child, failures, parentCancelled>>
  BY DEF Schedule, control
<1>3. TypeOK'
  BY <1>2 DEF IInv, TypeOK
<1>4. ASSUME cancelled' = cancelled PROVE Counted'
  BY <1>1, <1>2, <1>4 DEF Counted, ChildrenThat, Limit
<1>5. CASE ~FailsFast /\ KeepGoingRun!Run
  <2>1. Keep!Run
    BY <1>5, KeepGoingSteps
  <2>2. SchedulerStep
    BY <1>5, <2>1 DEF SchedulerStep, Keep!Next
  <2>3. RunEffect
    BY <1>1, <1>5, <2>1, KeepRunEffect DEF Scheduled
  <2>4. Scheduled' /\ Followed'
    BY <1>1, <1>2, <2>2, <2>3, StepSchedules, RunKeepsFollowed
  <2>5. Counted'
    BY <1>4, <2>3 DEF RunEffect
  <2> QED  BY <1>1, <1>2, <1>3, <2>4, <2>5, GoingOn
<1>6. CASE FailsFast /\ FailFastRun!Run
  <2>1. Fast!Run
    BY <1>6, FailFastSteps
  <2>2. SchedulerStep
    BY <1>6, <2>1 DEF SchedulerStep, Fast!Next
  <2>3. RunEffect
    BY <1>1, <1>6, <2>1, FastRunEffect DEF Scheduled
  <2>4. Scheduled' /\ Followed'
    BY <1>1, <1>2, <2>2, <2>3, StepSchedules, RunKeepsFollowed
  <2>5. Counted'
    BY <1>4, <2>3 DEF RunEffect
  <2> QED  BY <1>1, <1>2, <1>3, <2>4, <2>5, GoingOn
<1>7. ASSUME NEW w \in KeepGoingRun!Worker,
             KeepGoingRun!StartNode(w) \/ KeepGoingRun!ExitWorker(w)
      PROVE  IInv'
  <2>1. w \in Keep!Worker /\ (Keep!StartNode(w) \/ Keep!ExitWorker(w))
    BY <1>7, KeepGoingSteps
  <2>2. Scheduled'
    BY <1>1, <1>2, <2>1, SchedulerStepFacts, StepSchedules
  <2>3. UNCHANGED <<states, results, cancelled>>
    BY <2>1 DEF Keep!StartNode, Keep!ExitWorker, Keep!runLocals
  <2>4. /\ worker'[w].phase \in {"dispatching", "exited"}
        /\ \A v \in Keep!Worker \ {w} : worker'[v] = worker[v]
    BY <1>1, <2>1, SchedulerFacts DEF Keep!StartNode, Keep!ExitWorker, Keep!Exited
  <2>5. Followed'
    BY <1>1, <1>2, <2>1, <2>3, <2>4 DEF Followed, ResultOf
  <2> QED  BY <1>1, <1>2, <1>3, <1>4, <2>2, <2>3, <2>5, GoingOn
<1> QED  BY <1>5, <1>6, <1>7 DEF Schedule

LEMMA DispatchKeeps ==
  ASSUME IInv, Dispatch
  PROVE  IInv'
<1>1. ASSUME NEW w \in KeepGoingRun!Worker, worker[w].phase = "dispatching"
      PROVE  /\ phase = "run" /\ TypeOK /\ Scheduled /\ Followed /\ Counted
             /\ w \in Keep!Worker /\ worker[w].node \in Node /\ Holds(w, worker[w].node)
  BY <1>1, DispatchRuns DEF IInv, Holds
<1>2. ASSUME NEW w \in KeepGoingRun!Worker, worker[w].phase = "dispatching",
             UNCHANGED <<parent, phase, failures, parentCancelled, scheduler>>,
             NEW c \in {"executing", "unresolved", "succeeded"},
             child' = [child EXCEPT ![worker[w].node] = c],
             child[worker[w].node] \in {"waiting", "executing"}
      PROVE  IInv'
  <2> DEFINE n == worker[w].node
  <2>1. /\ phase = "run" /\ TypeOK /\ Scheduled /\ Followed /\ Counted
        /\ w \in Keep!Worker /\ n \in Node /\ Holds(w, n)
    BY <1>1, <1>2
  <2> HIDE DEF n
  <2>2. child' = [child EXCEPT ![n] = c] /\ child[n] \in {"waiting", "executing"}
    BY <1>2 DEF n
  <2>3. UNCHANGED <<states, results, worker, cancelled>>
    BY <1>2 DEF scheduler
  <2>4. Scheduled'
    BY <1>2, <2>1, SchedulerStepFacts, StepSchedules
  <2>5. Followed'
    BY <2>1, <2>2, <2>3, ChildKeepsFollowed
  <2>6. \A b \in {"failed", "cancelling"} : ChildrenThat(b)' = ChildrenThat(b)
    BY <2>1, <2>2 DEF ChildrenThat, TypeOK
  <2>7. Counted'
    BY <1>2, <2>1, <2>3, <2>6, OthersKeepCounted
  <2>8. TypeOK'
    BY <1>2, <2>1, <2>2 DEF TypeOK, Through
  <2> QED  BY <1>2, <2>1, <2>4, <2>5, <2>7, <2>8, GoingOn
<1>3. ASSUME NEW w \in KeepGoingRun!Worker, worker[w].phase = "dispatching",
             child[worker[w].node] = "waiting", Resolve(w)
      PROVE  IInv'
  BY <1>2, <1>3 DEF Resolve
<1>4. ASSUME NEW w \in KeepGoingRun!Worker, worker[w].phase = "dispatching",
             child[worker[w].node] = "executing", Succeed(w)
      PROVE  IInv'
  BY <1>2, <1>4 DEF Succeed
<1>5. ASSUME NEW w \in KeepGoingRun!Worker, worker[w].phase = "dispatching",
             child[worker[w].node] = "executing", Fail(w)
      PROVE  IInv'
  <2>1. PICK n \in Node : n = worker[w].node
    BY <1>1, <1>5
  <2>2. /\ phase = "run" /\ TypeOK /\ Scheduled /\ Followed /\ Counted
        /\ w \in Keep!Worker /\ Holds(w, n)
    BY <1>1, <1>5, <2>1
  <2>3. UNCHANGED <<parent, phase, parentCancelled, scheduler>> /\ failures' = failures + 1
    BY <1>5 DEF Fail
  <2>4. PICK c \in {"cancelling", "failed"} : child' = [child EXCEPT ![n] = c]
    BY <1>5, <2>1 DEF Fail
  <2>5. Scheduled'
    BY <2>2, <2>3, SchedulerStepFacts, StepSchedules
  <2>6. Followed'
    BY <2>2, <2>3, <2>4, ChildKeepsFollowed DEF scheduler
  <2>7. Counted'
    BY <1>5, <2>1, <2>2, FailKeepsCounted
  <2>8. TypeOK'
    BY <2>2, <2>3, <2>4 DEF TypeOK, Through
  <2> QED  BY <2>2, <2>3, <2>5, <2>6, <2>7, <2>8, GoingOn
<1>6. ASSUME NEW w \in KeepGoingRun!Worker, worker[w].phase = "dispatching",
             child[worker[w].node] = "cancelling", CancelGroup(w)
      PROVE  IInv'
  <2>1. PICK n \in Node : n = worker[w].node
    BY <1>1, <1>6
  <2>2. /\ phase = "run" /\ TypeOK /\ Scheduled /\ Followed /\ Counted
        /\ w \in Keep!Worker /\ Holds(w, n)
    BY <1>1, <1>6, <2>1
  <2>3. /\ UNCHANGED <<parent, phase, failures, parentCancelled>>
        /\ UNCHANGED <<deps, pc, states, results, inDegree, ready, running, finished,
                       stopping, worker, aggregate>>
        /\ child' = [child EXCEPT ![n] = "failed"] /\ cancelled' = TRUE
    BY <1>6, <2>1 DEF CancelGroup
  <2>4. SchedulerStep
    <3>1. CASE cancelled = TRUE
      BY <2>2, <2>3, <3>1, SchedulerStepFacts DEF scheduler
    <3>2. CASE cancelled = FALSE
      <4>1. pc # "returned"
        BY <2>2, EndedFacts DEF Holds
      <4>2. Keep!CancelContext
        BY <2>3, <3>2, <4>1 DEF Keep!CancelContext, Keep!runLocals
      <4> QED  BY <2>2, <4>2, SchedulerStepFacts
    <3>3. cancelled \in BOOLEAN
      BY <2>2, FastInvariantsAreKeep DEF Scheduled, Fast!IInv, Keep!IInv, Keep!TypeOK
    <3> QED  BY <3>1, <3>2, <3>3
  <2>5. Scheduled'
    BY <2>2, <2>3, <2>4, StepSchedules
  <2>6. Followed'
    BY <2>2, <2>3, ChildKeepsFollowed
  <2>7. Counted'
    BY <1>6, <2>1, <2>2, CancelKeepsCounted
  <2>8. TypeOK'
    BY <2>2, <2>3 DEF TypeOK, Through
  <2> QED  BY <2>2, <2>3, <2>5, <2>6, <2>7, <2>8, GoingOn
<1>7. ASSUME NEW w \in KeepGoingRun!Worker, worker[w].phase = "dispatching",
             child[worker[w].node] \in Through, DispatchReturns(w)
      PROVE  IInv'
  <2>1. /\ phase = "run" /\ TypeOK /\ Scheduled /\ Followed /\ Counted /\ w \in Keep!Worker
    BY <1>1, <1>7
  <2>2. UNCHANGED <<parent, phase, child, failures, parentCancelled>> /\ Keep!FinishNode(w)
    BY <1>7, KeepGoingSteps DEF DispatchReturns
  <2>3. Scheduled'
    BY <2>1, <2>2, SchedulerStepFacts, StepSchedules
  <2>4. Followed'
    BY <1>7, <2>1, ReturnKeepsFollowed
  <2>5. cancelled' = cancelled
    BY <2>2 DEF Keep!FinishNode
  <2>6. Counted'
    BY <2>1, <2>2, <2>5 DEF Counted, ChildrenThat, Limit
  <2>7. TypeOK'
    BY <2>1, <2>2 DEF TypeOK
  <2> QED  BY <2>1, <2>2, <2>3, <2>4, <2>6, <2>7, GoingOn
<1> QED  BY <1>3, <1>4, <1>5, <1>6, <1>7 DEF Dispatch, DispatchingWith, Through

\* When Run has returned, the children that succeeded are those it knows of.
LEMMA ReturnedFacts ==
  ASSUME Scheduled, Followed, pc = "returned"
  PROVE  /\ \A n \in Node : states[n] = "finished"
         /\ \A n \in Node : child[n] = "succeeded" <=> StatusOf(n) = "succeeded"
         /\ (aggregate.err = {}) = (\A n \in Node : StatusOf(n) = "succeeded")
<1>1. Keep!ReturnIsComplete /\ Keep!Ended /\ Keep!CountersAgree /\ Keep!TypeOK
  BY KeepResults, FastResults, FastInvariantsAreKeep DEF Scheduled, Keep!IInv, Fast!IInv
<1>2. \A n \in Node : states[n] = "finished"
  <2>1. finished >= Keep!NodeCount /\ finished = Keep!Cardinality(Keep!NodesIn("finished"))
    BY <1>1 DEF Keep!Ended, Keep!CountersAgree
  <2>2. Keep!NodesIn("finished") \in SUBSET Node
    BY DEF Keep!NodesIn
  <2>3. /\ Keep!NodeCount = Cardinality(Node)
        /\ Keep!Cardinality(Keep!NodesIn("finished")) = Cardinality(Keep!NodesIn("finished"))
    BY DEF Keep!NodeCount, Keep!Cardinality, Cardinality
  <2>4. Keep!NodesIn("finished") = Node
    BY <2>1, <2>2, <2>3, NodeAssumption, FS_Subset, FS_CardinalityType
  <2> QED  BY <2>4 DEF Keep!NodesIn
<1>3. \A n \in Node : child[n] = "succeeded" <=> StatusOf(n) = "succeeded"
  <2> SUFFICES ASSUME NEW n \in Node
               PROVE  child[n] = "succeeded" <=> StatusOf(n) = "succeeded"
    OBVIOUS
  <2>1. \/ child[n] = "waiting" /\ results[n].status = "skipped"
        \/ results[n] = ResultOf(n)
    BY <1>2 DEF Followed
  <2>2. ResultOf(n).status = IF child[n] = "succeeded" THEN "succeeded" ELSE "failed"
    BY DEF ResultOf
  <2> QED  BY <2>1, <2>2 DEF StatusOf
<1>4. (aggregate.err = {}) = (\A n \in Node : StatusOf(n) = "succeeded")
  BY <1>1 DEF Keep!ReturnIsComplete, Keep!StatusOf, StatusOf
<1> QED  BY <1>2, <1>3, <1>4

LEMMA ReturnKeeps ==
  ASSUME IInv, Return
  PROVE  IInv'
<1>1. /\ phase = "run" /\ phase' = "returned" /\ pc \in {"returned", "rejected"}
      /\ ret' = IF Failed THEN "error" ELSE "nil"
      /\ UNCHANGED <<parent, child, failures, parentCancelled, pc, worker, results>>
  BY DEF Return
<1>2. Scheduled /\ Followed /\ parent.distinct
  BY <1>1 DEF IInv
<1>3. \A w \in Keep!Worker : worker[w].phase \in {"idle", "exited"}
  BY <1>1, <1>2, EndedFacts
<1>4. (ret' = "error") = (parent.mode # "best_effort" /\ \E n \in Node : child[n] # "succeeded")
  <2>1. CASE pc = "rejected"
    <3>1. PICK r \in Row : TRUE
      BY ControlAssumption
    <3>2. <<r, 1>> \in Node
      BY ControlAssumption DEF Step
    <3>3. child[<<r, 1>>] = "waiting"
      BY <1>2, <2>1, <3>2 DEF Scheduled, Untouched, Followed
    <3> QED  BY <1>1, <2>1, <3>2, <3>3 DEF Failed
  <2>2. CASE pc = "returned"
    <3>1. (aggregate.err = {}) <=> (\A n \in Node : child[n] = "succeeded")
      BY <1>2, <2>2, ReturnedFacts
    <3> QED  BY <1>1, <2>2, <3>1 DEF Failed
  <2> QED  BY <1>1, <2>1, <2>2
<1>5. TypeOK'
  BY <1>1 DEF IInv, TypeOK
<1>6. ReturnTellsFailure'
  BY <1>1, <1>2, <1>4 DEF ReturnTellsFailure
<1> QED  BY <1>1, <1>3, <1>5, <1>6 DEF IInv

LEMMA StepIInv == IInv /\ [Next]_vars => IInv'
<1> SUFFICES ASSUME IInv, [Next]_vars PROVE IInv'
  OBVIOUS
<1>1. CASE Validate \/ Build
  BY <1>1, BeginningKeeps
<1>2. CASE CancelParent
  BY <1>2, CancelParentKeeps
<1>3. CASE Schedule
  BY <1>3, ScheduleKeeps
<1>4. CASE Dispatch
  BY <1>4, DispatchKeeps
<1>5. CASE Return
  BY <1>5, ReturnKeeps
<1>6. CASE UNCHANGED vars
  <2>1. UNCHANGED <<parent, phase, child, failures, parentCancelled, ret, scheduler>>
    BY <1>6 DEF vars, control
  <2>2. TypeOK' /\ ReturnTellsFailure'
    BY <2>1 DEF IInv, TypeOK, ReturnTellsFailure
  <2>3. ASSUME phase # "returned" PROVE Scheduled' /\ Followed' /\ Counted'
    <3>1. Scheduled /\ Followed /\ Counted
      BY <2>3 DEF IInv
    <3>2. UNCHANGED Keep!vars /\ UNCHANGED Fast!vars
      BY <2>1 DEF scheduler, Keep!vars, Keep!runLocals, Fast!vars, Fast!runLocals
    <3>3. Scheduled'
      BY <2>1, <3>1, <3>2, StepSchedules DEF SchedulerStep
    <3>4. Followed' /\ Counted'
      BY <2>1, <3>1 DEF Followed, Counted, ResultOf, ChildrenThat, Limit, scheduler
    <3> QED  BY <3>3, <3>4
  <2>4. pc' = pc /\ worker' = worker
    BY <2>1 DEF scheduler
  <2> QED  BY <2>1, <2>2, <2>3, <2>4 DEF IInv
<1> QED  BY <1>1, <1>2, <1>3, <1>4, <1>5, <1>6 DEF Next, Stopped

(***************************************************************************)
(* The control step and its scheduler keep in step, failures are counted   *)
(* once, and what was said of the scheduler holds of the one inside.       *)
(***************************************************************************)
THEOREM Invariance == Spec => []IInv
BY InitIInv, StepIInv, PTL DEF Spec

(***************************************************************************)
(* The group is cancelled exactly when as many executions failed as the    *)
(* step tolerates, in whatever order they count themselves.                *)
(***************************************************************************)
THEOREM CancelledAtThresholdHolds == Spec => []CancelledAtThreshold
<1>1. IInv => CancelledAtThreshold
  BY DEF IInv, Counted, Limit, CancelledAtThreshold
<1> QED  BY <1>1, Invariance, PTL

(***************************************************************************)
(* Without a cancellation and without failing fast, a child is passed over *)
(* exactly when one of its own row that it depends on did not succeed.     *)
(***************************************************************************)
THEOREM RowsAreIndependentHolds == Spec => []RowsAreIndependent
<1>1. IInv => RowsAreIndependent
  <2> SUFFICES ASSUME IInv, phase = "run", pc = "returned", ~cancelled, ~FailsFast,
                      NEW n \in Node
               PROVE  (child[n] = "waiting") <=>
                        \E m \in deps[n] : m[1] = n[1] /\ StatusOf(m) # "succeeded"
    BY DEF RowsAreIndependent
  <2>1. Scheduled /\ Followed
    BY DEF IInv
  <2>2. /\ Keep!TypeOK /\ Keep!DependencyOrder /\ Keep!SkipsAreJustified
        /\ Keep!DispatchedInOrder /\ deps = ControlGraph
    BY <2>1 DEF Scheduled, Keep!IInv
  <2>3. states[n] = "finished"
    BY <2>1, ReturnedFacts
  <2>4. \A m \in Node : deps[m] \subseteq Node
    BY <2>2 DEF Keep!TypeOK, Keep!Graph
  <2>5. \A m \in deps[n] : m[1] = n[1]
    BY <2>2 DEF ControlGraph, Previous
  <2> DEFINE Blocked == {m \in Node : \E d \in deps[m] : StatusOf(d) # "succeeded"}
  <2>6. \A m \in Blocked : StatusOf(m) # "succeeded"
    BY <2>2 DEF Keep!DependencyOrder, Keep!StatusOf, StatusOf
  <2>7. ASSUME child[n] = "waiting"
        PROVE  n \in Blocked
    <3>1. results[n].status = "skipped" /\ results[n].err # n
      BY <2>1, <2>3, <2>7 DEF Followed, Through
    <3>2. PICK cause \in Node : /\ cause = results[n].err
                                /\ results[cause].status \in {"failed", "skipped"}
                                /\ n \in Keep!DependentsWithin(deps, cause, Node)
      BY <2>2, <3>1 DEF Keep!SkipsAreJustified, Keep!StatusOf
    <3>3. \A x \in {cause} \cup Blocked : Keep!Dependents(deps, x) \cap Node \subseteq Blocked
      BY <2>6, <3>2 DEF Keep!Dependents, StatusOf
    <3>4. Blocked \in SUBSET Node
      OBVIOUS
    <3> HIDE DEF Blocked
    <3> QED  BY <3>2, <3>3, <3>4 DEF Keep!DependentsWithin
  <2>8. ASSUME child[n] # "waiting"
        PROVE  n \notin Blocked
    <3>1. results[n] = ResultOf(n)
      BY <2>1, <2>3, <2>8 DEF Followed
    <3>2. Keep!Dispatched(n)
      BY <2>3, <3>1 DEF Keep!Dispatched, ResultOf
    <3> QED  BY <2>2, <3>2 DEF Keep!DispatchedInOrder, Keep!StatusOf, StatusOf
  <2> QED  BY <2>5, <2>7, <2>8
<1> QED  BY <1>1, Invariance, PTL

(***************************************************************************)
(* ExecuteControlStep returns an error exactly when its graph cannot be    *)
(* built (and nothing runs then), or it is not best_effort and some child  *)
(* did not succeed.                                                        *)
(***************************************************************************)
THEOREM ReturnTellsFailureHolds == Spec => []ReturnTellsFailure
<1>1. IInv => ReturnTellsFailure
  BY DEF IInv
<1> QED  BY <1>1, Invariance, PTL
=============================================================================
