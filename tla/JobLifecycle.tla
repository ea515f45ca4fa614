---------------------------- MODULE JobLifecycle ----------------------------
(***************************************************************************)
(* What the job platform promises about one job, whatever workers,         *)
(* tickets and crashes do: the life of the canonical row that the API      *)
(* shows (models/job.py and the phases of contracts.py).                   *)
(*                                                                         *)
(*   - an attempt is admitted only while the job is wanted, and every      *)
(*     admission and every revision raises the fence;                      *)
(*   - once cancellation is accepted nothing is admitted, nothing goes     *)
(*     back to the queue and the job can no longer succeed;                *)
(*   - a job is cancelled only if somebody asked for it;                   *)
(*   - a terminal row never changes again.                                 *)
(***************************************************************************)
EXTENDS Naturals

VARIABLES phase, outcome, cancelled, fence

lifecycle == <<phase, outcome, cancelled, fence>>

Verdict == {"succeeded", "failed", "cancelled", "unsafe"}

Init ==
  /\ phase = "queued" /\ outcome = "none"
  /\ cancelled = FALSE /\ fence = 0

\* A queued job starts, or a running one is handed to a replacement attempt.
Admit ==
  /\ phase \in {"queued", "running"} /\ ~cancelled
  /\ phase' = "running"
  /\ fence' = fence + 1
  /\ UNCHANGED <<outcome, cancelled>>

\* An attempt ended without a verdict: the same revision waits again.
Release ==
  /\ phase = "running" /\ ~cancelled
  /\ phase' = "queued"
  /\ UNCHANGED <<outcome, cancelled, fence>>

\* The waiting job is revised (a priority change).
Revise ==
  /\ phase = "queued"
  /\ fence' = fence + 1
  /\ UNCHANGED <<phase, outcome, cancelled>>

\* Cancellation is accepted while a worker holds the ticket.
RequestCancel ==
  /\ phase \in {"queued", "running"} /\ ~cancelled
  /\ phase' = "stopping" /\ cancelled' = TRUE
  /\ UNCHANGED <<outcome, fence>>

\* The one verdict.
Settle(verdict) ==
  /\ phase # "terminal"
  /\ phase' = "terminal" /\ outcome' = verdict
  /\ verdict = "succeeded" => phase = "running"
  /\ verdict \in {"succeeded", "failed"} => ~cancelled
  /\ cancelled' = (cancelled \/ verdict = "cancelled")
  /\ fence' \in {fence, fence + 1}

Next ==
  \/ Admit \/ Release \/ Revise \/ RequestCancel
  \/ \E verdict \in Verdict : Settle(verdict)

Spec == Init /\ [][Next]_lifecycle
=============================================================================
