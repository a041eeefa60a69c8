--------------------------- MODULE MCOrderedBatch ---------------------------
(***************************************************************************)
(* Instances of OrderedBatch for TLC.                                      *)
(***************************************************************************)
EXTENDS OrderedBatch

\* Jobs enough before the first barrier to fill the window of two workers, and
\* two barriers in a row, the second of them the last job.
MCBarrier == {6, 7}
=============================================================================
