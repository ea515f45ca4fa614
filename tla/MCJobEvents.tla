----------------------------- MODULE MCJobEvents -----------------------------
(* Small instances of JobEvents for TLC. *)
EXTENDS JobEvents

CONSTANTS t1, t2, tab1, tab2
=============================================================================
