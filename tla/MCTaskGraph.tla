---------------------------- MODULE MCTaskGraph ----------------------------
(***************************************************************************)
(* Small instances of TaskGraph.                                           *)
(***************************************************************************)
EXTENDS TaskGraph

AB == {"a", "b"}
ABC == {"a", "b", "c"}
MCRank == [n \in Node |-> CASE n = "a" -> 1 [] n = "b" -> 2 [] n = "c" -> 3]

\* Whatever can be declared, self-references and cycles too.
AnyDeclarations == Graph

\* Two references with any declarations under one that needs both, a chain
\* and a reference of its own, three independent references.
SomeDeclarations ==
  {[g EXCEPT !["c"] = {"a", "b"}] : g \in {h \in Graph : h["a"] \cup h["b"] \subseteq {"a", "b"}}}
    \cup {[n \in Node |-> IF n = "a" THEN {"b"} ELSE {}], [n \in Node |-> {}]}

\* No direct reference, or some with one fail mode each; the same reference
\* may be given twice with different modes.
FewDirects == {S \in SUBSET [ref : Node, fail : FailMode] : Cardinality(S) <= 2}
OneModeEach ==
  {S \in SUBSET [ref : Node, fail : FailMode] : \A d, e \in S : d.ref = e.ref => d = e}
=============================================================================
