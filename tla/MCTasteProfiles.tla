--------------------------- MODULE MCTasteProfiles ---------------------------
EXTENDS TasteProfiles, TLC

\* Exemplars of different movies.
MCSubjectOf == [e \in Exemplar |-> e]

Symmetry == Permutations(Exemplar)
=============================================================================
