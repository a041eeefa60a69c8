---------------------------- MODULE TerraformRun ----------------------------
(***************************************************************************)
(* pkg/scheduler/adapters: ExecuteTerraform selects components of all      *)
(* stacks, plans in which order they run, and has pkg/scheduler run them.  *)
(*                                                                         *)
(* Components that are passed over on the way from the selection to a      *)
(* dependent (their tags or labels do not match) are dropped from the      *)
(* graph, and dependencies through them become dependencies between the    *)
(* components left (FilterSelection).  The graph that runs is built anew   *)
(* from the stacks, gets those dependencies back, and is turned round to   *)
(* destroy.                                                                *)
(*                                                                         *)
(* The nodes of the Scheduler are the components selected.  All targets    *)
(* of dependencies are there and enabled.  That a dependency is optional   *)
(* is shown to users, and does not change the order.                       *)
(***************************************************************************)
EXTENDS Scheduler

CONSTANTS
  Component,  \* the Terraform components of all stacks
  Requests    \* what a user may ask for, and of which stacks

Depths == 0 .. Cardinality(Component)

\* dependencyDepths and dependentDepths have a depth for each of the flag and the
\* precomputed selection that asks for a closure; zero is unlimited.
Request ==
  [declares : [Component -> SUBSET Component],
   candidates : SUBSET Component,
   matching : SUBSET Component,
   dependencyDepths : SUBSET Depths,
   dependentDepths : SUBSET Depths,
   destroy : BOOLEAN]

\* effectiveTerraformMaxConcurrency asks for one worker at least.
ASSUME TerraformRunAssumption ==
  /\ MaxConcurrency > 0
  /\ IsFiniteSet(Component) /\ Node \subseteq Component
  /\ Requests \subseteq Request
  /\ \A r \in Requests : \A c \in Component : c \notin r.declares[c]

VARIABLES
  request,  \* the stacks, and what was asked for
  plan      \* what has become of the plan

-----------------------------------------------------------------------------
(***************************************************************************)
(* The components that can be reached from a set in so many hops.          *)
(***************************************************************************)
Within(edges, from, hops) ==
  LET reached[k \in Nat] ==
        IF k = 0 THEN from
        ELSE LET nearer == reached[k - 1]
             IN  nearer \cup UNION {edges[c] : c \in nearer}
  IN  reached[hops]

\* mergeClosureDepth: the most permissive depth wins.
Hops(depths) ==
  IF 0 \in depths THEN Cardinality(Component)
  ELSE CHOOSE d \in depths : \A e \in depths : e <= d

\* What markReachable adds to the seeds, if a closure was asked for.
MarkReachable(edges, from, depths) ==
  IF depths = {} THEN {} ELSE Within(edges, from, Hops(depths)) \ from

Mirrored(edges) == [c \in DOMAIN edges |-> {d \in DOMAIN edges : c \in edges[d]}]

Seeds(r) == r.candidates \cap r.matching

ReachedDependents(r) ==
  MarkReachable(Mirrored(r.declares), r.candidates, r.dependentDepths)

\* collectSelection: the components to include, and those to leave out.
Included(r) ==
  Seeds(r) \cup MarkReachable(r.declares, Seeds(r), r.dependencyDepths)
           \cup (ReachedDependents(r) \cap r.matching)

Dropped(r) ==
  IF r.dependentDepths = {} THEN {}
  ELSE (r.candidates \cup ReachedDependents(r)) \ Included(r)

-----------------------------------------------------------------------------
\* copyNodesToFilteredGraph, and the edges of buildScopedTerraformGraph.
Direct(r) == [n \in Included(r) |-> r.declares[n] \cap Included(r)]

\* Variant with a bug: only one dropped component is looked through.
ContractedOverOne(r) ==
  [n \in Included(r) |->
     (UNION {r.declares[c] : c \in r.declares[n] \cap Dropped(r)}) \cap (Included(r) \ {n})]

\* contractedEdges: where dropped components alone lie between.
Contracted(r) ==
  LET through == [c \in Component |-> r.declares[c] \cap Dropped(r)]
      walked(n) == Within(through, {n}, Cardinality(Component)) \ {n}
  IN  [n \in Included(r) |->
         (UNION {r.declares[c] : c \in walked(n)}) \cap (Included(r) \ {n})]

\* addContractedTerraformEdges
Both(f, g) == [n \in DOMAIN f |-> f[n] \cup g[n]]

InOrderFor(r, g) == IF r.destroy THEN Mirrored(g) ELSE g

\* Variant with a bug: the graph is turned round too early.
ContractedAfterReversal(r) == Both(InOrderFor(r, Direct(r)), Contracted(r))

\* The graph handed to scheduler.New.
Prepared(r) == InOrderFor(r, Both(Direct(r), Contracted(r)))

\* A graph is built anew from the stacks, and again to turn it round.
Built(r) == Acyclic(Direct(r)) /\ (r.destroy => Acyclic(Prepared(r)))

-----------------------------------------------------------------------------
TerraformInit ==
  /\ request \in Requests
  /\ Included(request) = Node
  /\ plan = "open"
  /\ deps = Prepared(request)
  /\ Init

\* ExecuteTerraform up to scheduler.New.
Plan ==
  /\ plan = "open"
  /\ plan' = IF Built(request) THEN "runs" ELSE "refused"
  /\ UNCHANGED <<request, vars>>

Execute == plan = "runs" /\ Next /\ UNCHANGED <<request, plan>>

Refused == plan = "refused" /\ UNCHANGED <<request, plan, vars>>

TerraformNext == Plan \/ Execute \/ Refused

TerraformSpec == TerraformInit /\ [][TerraformNext]_<<request, plan, vars>>

-----------------------------------------------------------------------------
\* What n declares leads to m, by way of the components in between alone.
LeadsTo(n, m, between) ==
  \A S \in SUBSET (between \cup {m}) :
    (\A c \in {n} \cup (S \ {m}) : request.declares[c] \cap (between \cup {m}) \subseteq S)
      => m \in S

(***************************************************************************)
(* "Edges through them are contracted so that execution order between the  *)
(* surviving nodes is preserved": what is selected runs after everything   *)
(* selected that it depends on, directly or by way of dropped components,  *)
(* and before it to destroy.                                               *)
(***************************************************************************)
OrderSurvivesSelection ==
  LET dropped == Dropped(request)
      Before(n) == {m \in Node \ {n} :
                      IF request.destroy THEN LeadsTo(m, n, dropped) ELSE LeadsTo(n, m, dropped)}
  IN  \A n \in Node : Dispatched(n) => \A m \in Before(n) : StatusOf(m) = "succeeded"

(***************************************************************************)
(* Only cycles are refused, before anything runs: stacks without a cycle   *)
(* can be run and destroyed, whatever part of them is selected.            *)
(***************************************************************************)
OnlyCyclesAreRefused ==
  plan = "refused" \/ pc = "rejected" =>
    /\ \A n \in Node : ~Dispatched(n)
    /\ \E S \in SUBSET Component :
         S # {} /\ \A c \in S : request.declares[c] \cap S # {}
=============================================================================
