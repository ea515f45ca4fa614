------------------------------- MODULE Settings -------------------------------
(***************************************************************************)
(* The settings of the program: Configuration and the Credentials of one   *)
(* integration, side by side.  A revision of the configuration is a number *)
(* for the one and an address for the other; they share no state.          *)
(***************************************************************************)
EXTENDS Configuration

CONSTANTS Url, Secret, Candidate, MaxGen   \* those of Credentials

VARIABLES db, claim, secrets, client, envelope, tested

pairs == <<db, claim, secrets, client, envelope, tested>>

Pairs == INSTANCE Credentials

\* A credential is never stored, or used by the API, with an address it was not
\* tested with.  (The type invariants of both components are conjoined.)
PairsAreTested == TypeOK /\ Pairs!TypeOK /\ Pairs!PairsAreTested
=============================================================================
