---------------------------- MODULE MCTerraformRun ----------------------------
(***************************************************************************)
(* Instances of TerraformRun: components x and y are not run, and lie      *)
(* between those that are.                                                 *)
(***************************************************************************)
EXTENDS TerraformRun

All == {"a", "b", "c", "d", "x", "y"}
ABCD == {"a", "b", "c", "d"}

MCRank == [n \in Node |-> CASE n = "a" -> 1 [] n = "b" -> 2 [] n = "c" -> 3 [] n = "d" -> 4]

\* Every acyclic graph whose edges point from later names to earlier ones, and
\* each of them turned round so that names and edges disagree.
Forward == {g \in Graph : \A n \in Node : \A m \in g[n] : Rank[m] < Rank[n]}
Backward == {g \in Graph : \A n \in Node : \A m \in g[n] : Rank[m] > Rank[n]}

WithOthers(g) == [c \in Component |-> IF c \in Node THEN g[c] ELSE {}]

\* Everything is selected, or what is not has no part in it.
Whole ==
  [declares : {WithOthers(g) : g \in Forward \cup Backward},
   candidates : {Node}, matching : {Node, Component},
   dependencyDepths : {{}}, dependentDepths : {{}}, destroy : BOOLEAN]

\* b and d depend on a by way of x, or of x and y, and of c perhaps.
Between ==
  {[e \in Component |->
     CASE e = "a" -> A [] e = "b" -> {"x"} [] e = "c" -> C [] e = "d" -> D
       [] e = "x" -> X [] e = "y" -> Y] :
     A \in {{}, {"d"}},
     C \in {{"a"}, {"x"}},
     D \in {{"c"}, {"y"}, {"a", "y"}},
     X \in {{"a"}, {"y"}, {"c", "y"}},
     Y \in {{"a"}, {"x"}}}

Part ==
  [declares : Between,
   candidates : {{"a"}, {"a", "x"}, {"a", "d", "y"}, Component},
   matching : {Node, {"a", "b", "d"}},
   dependencyDepths : {{}, {0}, {1}}, dependentDepths : {{}, {0}, {1, 2}}, destroy : BOOLEAN]

MCRequests == Whole \cup Part
=============================================================================
