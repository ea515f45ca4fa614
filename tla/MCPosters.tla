------------------------------ MODULE MCPosters ------------------------------
(***************************************************************************)
(* Small instances of PosterArtwork and PosterAnalysis for TLC, in one     *)
(* state space: a behaviour is one of the mutations of a poster or one of  *)
(* an analysis of posters, as part says.                                   *)
(***************************************************************************)
EXTENDS Posters, TLC

VARIABLE part

PostersInit ==
  /\ part \in {"artwork", "analysis"}
  /\ Init /\ (part = "analysis" => file = Absent)
  /\ Analysis!Init /\ (part = "artwork" => kind = "group")

PostersNext ==
  /\ UNCHANGED part
  /\ \/ part = "artwork" /\ Next /\ UNCHANGED analysisVars
     \/ part = "analysis" /\ Analysis!Next /\ UNCHANGED vars

PostersSpec == PostersInit /\ [][PostersNext]_<<vars, analysisVars, part>>

Symmetry == Permutations(Job) \cup Permutations(Image) \cup Permutations(Member)
=============================================================================
