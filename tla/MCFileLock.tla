------------------------------ MODULE MCFileLock ------------------------------
(***************************************************************************)
(* Instances of FileLock for TLC.                                          *)
(***************************************************************************)
EXTENDS FileLock

CONSTANTS p1, p2, c1, c2, c3, c4

\* Two or three goroutines of one process, and one of another.
TwoAndOne == (c1 :> p1) @@ (c2 :> p1) @@ (c3 :> p2)
ThreeAndOne == (c1 :> p1) @@ (c2 :> p1) @@ (c3 :> p1) @@ (c4 :> p2)

\* Callers of the same process are interchangeable.
Alike == Permutations({c1, c2, c3})
=============================================================================
