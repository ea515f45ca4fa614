----------------------------- MODULE MCSettings ------------------------------
(***************************************************************************)
(* Small instances of Configuration and Credentials for TLC, in one state  *)
(* space: a behaviour is one of the one component or one of the other,     *)
(* as part says.                                                           *)
(***************************************************************************)
EXTENDS Settings

CONSTANTS r1, r2, u1, u2, s1, s2

VARIABLE part

\* Two complete replacements, a new credential alone, and the address again.
Candidates == {<<u1, s1>>, <<u2, s2>>, <<"none", s2>>, <<u1, "none">>}

SettingsInit ==
  /\ part \in {"configuration", "credentials"}
  /\ Init
  /\ Pairs!Init

SettingsNext ==
  /\ UNCHANGED part
  /\ \/ part = "configuration" /\ Next /\ UNCHANGED pairs
     \/ part = "credentials" /\ Pairs!Next /\ UNCHANGED vars

SettingsSpec ==
  /\ SettingsInit
  /\ [][SettingsNext]_<<vars, pairs, part>>
  /\ Fairness
=============================================================================
