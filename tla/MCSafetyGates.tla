---------------------------- MODULE MCSafetyGates ----------------------------
(* Small instances of SafetyGates for TLC.  Nothing is submitted: JobSubmission, *)
(* which shares no state with the gates, stays as it is.                         *)
EXTENDS Queue

CONSTANTS d1, d2

NoSchedules == [sync |-> 0, heal |-> 0, healEnabled |-> FALSE, master |-> FALSE]

GatesInit == Init /\ Gates!Init
GatesSpec == /\ GatesInit
             /\ [][Gates!Next /\ UNCHANGED vars]_<<vars, gates>>
             /\ Gates!Fairness
=============================================================================
