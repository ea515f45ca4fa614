---------------------------- MODULE MCJobDelivery ----------------------------
(* Small instances of JobDelivery for TLC. *)
EXTENDS JobDelivery, TLC

CONSTANTS w1, w2, w3, hostA, hostB

OneHost == [w \in Worker |-> hostA]
TwoHosts == [w \in Worker |-> IF w = w1 THEN hostA ELSE hostB]
Incarnations == Permutations(Worker)
=============================================================================
