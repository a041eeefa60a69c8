--------------------------- MODULE DependencyGraph ---------------------------
(***************************************************************************)
(* The dependency graph of pkg/dependency as a value: a function from each *)
(* node to the set of nodes it depends on.  AddDependencyWithOptional      *)
(* keeps Node.Dependencies and Node.Dependents mirror images of each other *)
(* without duplicates, so one function stands for both lists.              *)
(*                                                                         *)
(* Node IDs are strings that the code compares only to sort them; Rank is  *)
(* that order.                                                             *)
(***************************************************************************)
EXTENDS Integers, FiniteSets, Sequences

CONSTANTS
  Node,   \* the keys of Graph.Nodes
  Rank    \* Rank[n] : the place of n's ID in sort.Strings order

ASSUME NodeAssumption == IsFiniteSet(Node)

ASSUME RankAssumption ==
  /\ Rank \in [Node -> Nat]
  /\ \A m, n \in Node : Rank[m] = Rank[n] => m = n

Graph == [Node -> SUBSET Node]

\* The nodes that list n among their dependencies: Node.Dependents.
Dependents(g, n) == {m \in Node : n \in g[m]}

\* Nodes with no dependencies.
Roots(g) == {n \in Node : g[n] = {}}

\* The ID that sort.Strings puts first in a non-empty set of IDs.
First(S) == CHOOSE n \in S : \A m \in S : Rank[n] <= Rank[m]

(***************************************************************************)
(* No cycle: every non-empty set of nodes has a member none of whose       *)
(* dependencies is in the set.                                             *)
(***************************************************************************)
Acyclic(g) ==
  \A S \in SUBSET Node : S # {} => \E n \in S : g[n] \cap S = {}

(***************************************************************************)
(* The members of P that can be reached from n along Dependents edges by   *)
(* way of members of P only: the least subset of P closed under "pending   *)
(* dependent of".                                                          *)
(***************************************************************************)
DependentsWithin(g, n, P) ==
  LET Closed(S) == \A x \in {n} \cup S : Dependents(g, x) \cap P \subseteq S
  IN  {m \in P : \A S \in SUBSET P : Closed(S) => m \in S}

(***************************************************************************)
(* Kahn's algorithm with a sorted queue: the next ID is always the first,  *)
(* in string order, of the nodes whose dependencies are all placed.  On a  *)
(* cyclic graph the sequence stops short of Node.                          *)
(***************************************************************************)
Placed(seq) == {seq[i] : i \in DOMAIN seq}

Ready(g, seq) == {n \in Node \ Placed(seq) : g[n] \subseteq Placed(seq)}

Topological(g) ==
  LET kahn[k \in Nat] ==
        IF k = 0 THEN << >>
        ELSE LET seq == kahn[k - 1]
             IN  IF Ready(g, seq) = {} THEN seq
                 ELSE Append(seq, First(Ready(g, seq)))
  IN  kahn[Cardinality(Node)]
=============================================================================
