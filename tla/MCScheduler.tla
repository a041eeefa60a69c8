----------------------------- MODULE MCScheduler -----------------------------
(***************************************************************************)
(* Small instances of Scheduler.  Every run starts from every graph of a   *)
(* set, so one run covers chains, forks, joins and diamonds.               *)
(***************************************************************************)
EXTENDS Scheduler

ABC == {"a", "b", "c"}

MCRank == [n \in Node |-> CASE n = "a" -> 1 [] n = "b" -> 2 [] n = "c" -> 3]

\* Every graph without self-dependencies (AddDependency rejects those), cyclic ones too.
AllGraphs == {g \in Graph : \A n \in Node : n \notin g[n]}
=============================================================================
