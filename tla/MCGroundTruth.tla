--------------------------- MODULE MCGroundTruth ---------------------------
(***************************************************************************)
(* GroundTruth on small instances: rows one or two cells wide.             *)
(***************************************************************************)
EXTENDS GroundTruth, TLC

CONSTANTS l1, l2

MCWidths == {1, 2}
MCTwo == {l1, l2}
Symmetry == Permutations(Loggers)
=============================================================================
