---------------------------- MODULE DagExecution -----------------------------
(***************************************************************************)
(* What pkg/scheduler promises its callers, without queues, counters,      *)
(* channels or workers: at most Limit nodes run at once, a node runs only  *)
(* after all it depends on succeeded, a node is given up exactly when      *)
(* something it depends on failed or was given up or when the run halts,   *)
(* and nothing is forgotten.  A node that ends in a stray status, one that *)
(* is no success and no loss, neither lets go nor gives up what depends on *)
(* it: that waits until the run halts.                                     *)
(***************************************************************************)
EXTENDS Integers, FiniteSets

CONSTANTS
  Node, Graphs, Limit,
  Stray  \* further ways to end

VARIABLES
  deps,     \* the graph
  outcome,  \* what became of each node so far
  halted    \* no further node may start

dagVars == <<deps, outcome, halted>>

Ended == {"succeeded", "failed", "skipped"} \cup Stray
Lost == {"failed", "skipped"}

With(o) == {n \in Node : outcome[n] = o}

Init ==
  /\ deps \in Graphs
  /\ outcome = [n \in Node |-> "pending"]
  /\ halted = FALSE

Start(n) ==
  /\ ~halted
  /\ outcome[n] = "pending"
  /\ \A d \in deps[n] : outcome[d] = "succeeded"
  /\ Cardinality(With("running")) < Limit
  /\ outcome' = [outcome EXCEPT ![n] = "running"]
  /\ UNCHANGED <<deps, halted>>

\* o is what the outcomes become when n ends as e and the nodes of S are given up.
GivingUp(n, e, S) ==
  [m \in Node |-> IF m = n THEN e ELSE IF m \in S THEN "skipped" ELSE outcome[m]]

\* S is what has to be given up: all that waits on a loss, and nothing else.
Blocked(o, S) ==
  /\ \A m \in S : \E d \in deps[m] : o[d] \in Lost
  /\ \A m \in With("pending") \ S : \A d \in deps[m] : o[d] \notin Lost

\* n ends, and what it blocks is given up in the same step.
Finish(n) ==
  /\ outcome[n] = "running"
  /\ \E e \in Ended, S \in SUBSET With("pending") :
       /\ outcome' = GivingUp(n, e, S)
       /\ Blocked(outcome', S)
  /\ UNCHANGED <<deps, halted>>

\* n fails and the run halts: everything still waiting is given up.
FinishAndHalt(n) ==
  /\ outcome[n] = "running"
  /\ outcome' = GivingUp(n, "failed", With("pending"))
  /\ halted' = TRUE
  /\ UNCHANGED deps

\* The run halts from outside.
Halt ==
  /\ ~halted
  /\ halted' = TRUE
  /\ outcome' = [m \in Node |-> IF outcome[m] = "pending" THEN "skipped" ELSE outcome[m]]
  /\ UNCHANGED deps

Next == Halt \/ \E n \in Node : Start(n) \/ Finish(n) \/ FinishAndHalt(n)

Fairness ==
  /\ WF_dagVars(\E n \in Node : Start(n))
  /\ \A n \in Node : WF_dagVars(Finish(n) \/ FinishAndHalt(n))

Safe == Init /\ [][Next]_dagVars
Spec == Safe /\ Fairness
=============================================================================
