---------------------------- MODULE MCJobBatches ----------------------------
(* Small instances of JobBatches for TLC. *)
EXTENDS JobBatches, TLC

CONSTANTS c1, c2

Siblings == Permutations(Child)
=============================================================================
