------------------------------- MODULE Queue --------------------------------
(***************************************************************************)
(* The way of a job into its handler: JobSubmission, what enters the       *)
(* queue, and SafetyGates, what a delivery of the queue passes before its  *)
(* handler executes, side by side.  Both serialise work with advisory      *)
(* locks: a submission waits for a lock of its transaction, a delivery     *)
(* polls for one of its session.  The keys of the two do not meet, and     *)
(* they share no state.                                                    *)
(***************************************************************************)
EXTENDS JobSubmission

CONSTANTS Delivery, File, Permit, Policies, MaxLoss, Faults   \* those of SafetyGates

VARIABLES run, locks, leftover, losses

gates == <<run, locks, leftover, losses>>

Gates == INSTANCE SafetyGates

ASSUME QueueAssumption == Gates!SafetyGatesAssumption

\* While its session lasts, an exclusive maintenance operation executes alone, and
\* a media file has one writer (safety_gates.py).
Exclusion == Gates!Exclusion

\* Whatever a delivery locked belongs to an open session, which it will close, and
\* a handler whose session lasts has every gate it asked for.
NoLockForgotten == Gates!NoLockForgotten

\* In every group of deliveries somebody waits for nobody of the group: the gates
\* are taken in canonical order.
NoCircularWait == Gates!NoCircularWait

\* Admission ends, in success or failure, although a holder may never return.
AdmissionEnds == Gates!AdmissionEnds
=============================================================================
