--------------------------- MODULE MCJobSubmission ---------------------------
(* Small instances of JobSubmission for TLC.  The gates, which share no state with *)
(* it and have a run of their own, stay as they are.                               *)
EXTENDS Queue

Ask(kind, subject, body, key) == Intent(kind, subject, body, <<key>>)
Child(kind, key, subject) == Intent(kind, subject, None, ChildKey(<<key>>, subject))

\* Requests that repeat, overlap and contradict each other.
MCSingle ==
  {Ask("poster_pipeline", "m1", "b1", "k1"), Ask("poster_pipeline", "m1", "b1", "k2"),
   Ask("poster_restore", "m1", None, "k2"), Ask("system_noop", "noop", None, "k3")}

\* Two batches over the same subjects in opposite orders.
MCBulk ==
  {[kind |-> "poster_deploy_reset", key |-> <<"r1">>,
    children |-> <<Child("poster_reset", "r1", "m1"), Child("poster_reset", "r1", "m2")>>],
   [kind |-> "poster_deploy_reset", key |-> <<"r2">>,
    children |-> <<Child("poster_reset", "r2", "m2"), Child("poster_reset", "r2", "m1")>>]}

\* 03:01 is in the daily window; the two minutes are two healing intervals and
\* one interval of the library sync.
MCMinute == {1, 181}
MCSettings == [sync |-> 1000, heal |-> 100, healEnabled |-> TRUE, master |-> TRUE]

SubmissionInit == Init /\ Gates!Init
SubmissionSpec == SubmissionInit /\ [][Next /\ UNCHANGED gates]_<<vars, gates>>
=============================================================================
