---------------------------- MODULE MCControlStep ----------------------------
(***************************************************************************)
(* Small instances of ControlStep.                                         *)
(***************************************************************************)
EXTENDS ControlStep

TwoByTwo == {"x", "y"} \X {1, 2}
TwoByTwoRank == [n \in Node |-> n[2] + IF n[1] = "x" THEN 0 ELSE 2]

OneByTwo == {"x"} \X {1, 2}
OneByTwoRank == [n \in Node |-> n[2]]

\* No needs; either step needs the other; needs that validation rejects.
SomeNeeds ==
  {[i \in Step |-> {}], [i \in Step |-> IF i = 2 THEN {1} ELSE {}],
   [i \in Step |-> IF i = 1 THEN {2} ELSE {}], [i \in Step |-> Step \ {i}]}

\* Every mode, thresholds below, at and above what two rows can reach, and matrices with
\* an axis that repeats a value.
SomeParents ==
  {p \in [type : {"parallel", "matrix"}, needs : SomeNeeds, mode : Mode, maxFailures : 0 .. 2,
           distinct : BOOLEAN] : p.distinct \/ p.type = "matrix"}
=============================================================================
