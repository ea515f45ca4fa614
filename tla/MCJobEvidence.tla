---------------------------- MODULE MCJobEvidence ----------------------------
EXTENDS JobEvidence, TLC

Symmetry == Permutations(Starter)
=============================================================================
