--------------------------- MODULE JobDeliveryProofs ---------------------------
(***************************************************************************)
(* Type correctness and safety of JobDelivery, for every value of its      *)
(* constants.                                                              *)
(*                                                                         *)
(* The record updates of the transactions are typed once, as lemmas over   *)
(* rows; one lemma per actor then types its actions, and NextTyped joins   *)
(* them.                                                                   *)
(*                                                                         *)
(* LedgerInv strengthens AttemptLedger until every step preserves it; the  *)
(* action properties HeldWorkIsNotClaimed and EffectWhileWanted follow     *)
(* from it and a frame lemma each.  RowsInv and OnceInv do the same for    *)
(* MutationNeverReplayed.                                                  *)
(*                                                                         *)
(* LedgerStep says what a step may do to the ledgers, whoever takes it.    *)
(* RevisionInv and StoryInv say what a delivery knows of them, and from    *)
(* both follow the refinement of JobLifecycle and VerdictBacked; OpenInv   *)
(* adds the tickets for LedgersAgree.  WorkInv relates a delivery to the   *)
(* attempt row it executes, for PublicationAccountedFor, and TreeInv to    *)
(* its process tree, for ReplayAfterTreeDeath.                             *)
(***************************************************************************)
EXTENDS JobDelivery, TLAPS

-----------------------------------------------------------------------------
(* Typing of rows and of the state changes the transactions share.         *)

AttemptOutcome == Outcome \cup {"interrupted", "retrying"}

LEMMA AttemptRowUpdates ==
  ASSUME NEW r \in AttemptRow, NEW o \in AttemptOutcome
  PROVE  /\ [r EXCEPT !.phase = "finished", !.outcome = o] \in AttemptRow
         /\ [r EXCEPT !.phase = "stopping"] \in AttemptRow
         /\ [r EXCEPT !.identified = TRUE, !.child = "live"] \in AttemptRow
         /\ [r EXCEPT !.intent = TRUE, !.publication = FALSE] \in AttemptRow
         /\ [r EXCEPT !.effect = TRUE, !.publication = TRUE] \in AttemptRow
         /\ [r EXCEPT !.effect = TRUE] \in AttemptRow
         /\ [r EXCEPT !.child = IF @ \in {"live", "orphaned"} THEN "dead" ELSE @] \in AttemptRow
  <1>1. [r EXCEPT !.phase = "finished", !.outcome = o] \in AttemptRow
    BY DEF AttemptRow, AttemptOutcome
  <1>2. [r EXCEPT !.phase = "stopping"] \in AttemptRow
    BY DEF AttemptRow
  <1>3. [r EXCEPT !.identified = TRUE, !.child = "live"] \in AttemptRow
    BY DEF AttemptRow, Child
  <1>4. [r EXCEPT !.intent = TRUE, !.publication = FALSE] \in AttemptRow
    BY DEF AttemptRow
  <1>5. [r EXCEPT !.effect = TRUE, !.publication = TRUE] \in AttemptRow
    BY DEF AttemptRow
  <1>6. [r EXCEPT !.effect = TRUE] \in AttemptRow
    BY DEF AttemptRow
  <1>7. [r EXCEPT !.child = IF @ \in {"live", "orphaned"} THEN "dead" ELSE @] \in AttemptRow
    BY DEF AttemptRow, Child
  <1> QED BY <1>1, <1>2, <1>3, <1>4, <1>5, <1>6, <1>7

LEMMA AttemptRowChild ==
  ASSUME NEW r \in AttemptRow, NEW c \in Child
  PROVE  [r EXCEPT !.child = c] \in AttemptRow
  BY DEF AttemptRow

LEMMA ClosedTyped ==
  ASSUME attempts \in [Attempt -> AttemptRow], NEW a \in Attempt, NEW o \in AttemptOutcome
  PROVE  Closed(a, o) \in [Attempt -> AttemptRow]
  <1>1. [attempts[a] EXCEPT !.phase = "finished", !.outcome = o] \in AttemptRow
    BY AttemptRowUpdates
  <1> QED BY <1>1 DEF Closed

LEMMA TreeDeadTyped ==
  ASSUME attempts \in [Attempt -> AttemptRow], NEW a
  PROVE  TreeDead(a) \in [Attempt -> AttemptRow]
  <1>1. CASE a \in Attempt
    <2>1. [attempts[a] EXCEPT !.child = IF @ \in {"live", "orphaned"} THEN "dead" ELSE @] \in AttemptRow
      BY <1>1, AttemptRowUpdates DEF AttemptOutcome, Outcome
    <2> QED BY <1>1, <2>1 DEF TreeDead
  <1>2. CASE a \notin Attempt
    BY <1>2 DEF TreeDead
  <1> QED BY <1>1, <1>2

LEMMA JobRowUpdates ==
  ASSUME NEW r \in JobRow, NEW n \in Nat
  PROVE  /\ [r EXCEPT !.fence = n] \in JobRow
         /\ [r EXCEPT !.desired = "cancel", !.fence = n] \in JobRow
         /\ [r EXCEPT !.phase = "queued"] \in JobRow
         /\ [r EXCEPT !.phase = "stopping"] \in JobRow
         /\ [r EXCEPT !.desired = "cancel", !.phase = "stopping"] \in JobRow
         /\ [r EXCEPT !.attention = "safety_wait", !.defers = n] \in JobRow
         /\ [r EXCEPT !.attention = "pending", !.defers = n] \in JobRow
         /\ [r EXCEPT !.attention = "link", !.defers = n] \in JobRow
  BY DEF JobRow

LEMMA SettledTyped ==
  ASSUME job \in JobRow, NEW o \in Outcome
  PROVE  /\ Settled(o) \in JobRow
         /\ [Settled(o) EXCEPT !.fence = @ + 1] \in JobRow
         /\ [Settled(o) EXCEPT !.desired = "cancel", !.fence = @ + 1] \in JobRow
  <1>1. Settled(o) \in JobRow
    BY DEF Settled, JobRow
  <1>2. Settled(o).fence + 1 \in Nat
    BY <1>1 DEF JobRow
  <1> QED BY <1>1, <1>2, JobRowUpdates

LEMMA EndedTyped ==
  ASSUME dispatches \in [Generation -> DispatchRow],
         NEW d \in {"superseded", "stale", "succeeded", "failed", "cancelled"}, NEW g
  PROVE  /\ Ended(d) \in [Generation -> DispatchRow]
         /\ [dispatches EXCEPT ![g].disposition = d] \in [Generation -> DispatchRow]
  <1>1. \A r \in DispatchRow : [r EXCEPT !.disposition = d] \in DispatchRow
    BY DEF DispatchRow
  <1> QED BY <1>1 DEF Ended

LEMMA PickedTyped ==
  ASSUME tickets \in [Ticket -> TicketRow], NEW t, NEW w \in Worker
  PROVE  [tickets EXCEPT ![t].status = "picked", ![t].holder = w] \in [Ticket -> TicketRow]
  <1>1. \A r \in TicketRow : [r EXCEPT !.status = "picked", !.holder = w] \in TicketRow
    BY DEF TicketRow
  <1> QED BY <1>1

LEMMA DeletedTyped ==
  ASSUME tickets \in [Ticket -> TicketRow], NEW t, NEW why \in {"absent", "failed", "cancelled"}
  PROVE  Deleted(t, why) \in [Ticket -> TicketRow]
  <1>1. \A r \in TicketRow : [r EXCEPT !.status = why, !.holder = NoWorker] \in TicketRow
    BY DEF TicketRow
  <1> QED BY <1>1 DEF Deleted

LEMMA RequeuedTyped ==
  ASSUME tickets \in [Ticket -> TicketRow], NEW t
  PROVE  Requeued(t) \in [Ticket -> TicketRow]
  <1>1. \A r \in TicketRow : [r EXCEPT !.status = "queued", !.holder = NoWorker] \in TicketRow
    BY DEF TicketRow
  <1> QED BY <1>1 DEF Requeued

LEMMA EnqueuedTyped ==
  ASSUME NEW rows \in [Ticket -> TicketRow], NEW g \in Generation
  PROVE  Enqueued(rows, g) \in [Ticket -> TicketRow]
  <1>1. QueuedTicket(g) \in TicketRow
    BY JobDeliveryAssumption DEF QueuedTicket, TicketRow, Generation
  <1> QED BY <1>1 DEF Enqueued

LEMMA DeliveryTyped ==
  ASSUME delivery \in [Worker -> DeliveryRow], NEW w \in Worker, NEW s \in Step, NEW m \in Mode
  PROVE  /\ Goto(w, s) \in [Worker -> DeliveryRow]
         /\ GotoAs(w, s, m) \in [Worker -> DeliveryRow]
         /\ Answer(w, m) \in [Worker -> DeliveryRow]
         /\ Finish(w, m) \in [Worker -> DeliveryRow]
  <1>1. "reply" \in Step /\ "releasing" \in Step
    BY DEF Step
  <1>2. \A r \in DeliveryRow, p \in Step :
          [r EXCEPT !.step = p] \in DeliveryRow /\ [r EXCEPT !.step = p, !.mode = m] \in DeliveryRow
    BY DEF DeliveryRow
  <1> QED BY <1>1, <1>2 DEF Goto, GotoAs, Answer, Finish

LEMMA IdleTyped ==
  ASSUME JobDeliveryAssumption
  PROVE  IdleDelivery \in DeliveryRow
  BY DEF IdleDelivery, DeliveryRow, Step, Mode

LEMMA StartAttemptTyped ==
  ASSUME TypeOK, NEW w \in Worker, NEW ledger \in [Attempt -> AttemptRow],
         StartAttempt(w, ledger)
  PROVE  /\ job' \in JobRow /\ attempts' \in [Attempt -> AttemptRow]
         /\ serial' \in [attempt : 0 .. MaxAttempt, ticket : Ticket]
         /\ delivery' \in [Worker -> DeliveryRow]
  <1> DEFINE n == serial.attempt + 1
  <1>1. n \in Attempt /\ n \in 0 .. MaxAttempt /\ job.fence + 1 \in Nat
    BY SMTT(30), JobDeliveryAssumption DEF StartAttempt, TypeOK, Attempt, JobRow
  <1>2. job' \in JobRow
    BY <1>1 DEF StartAttempt, TypeOK, JobRow
  <1>3. [UnusedAttempt EXCEPT !.phase = "running", !.fence = job.fence + 1, !.runtime = w]
          \in AttemptRow
    BY <1>1 DEF UnusedAttempt, AttemptRow, Outcome, Child
  <1>4. attempts' \in [Attempt -> AttemptRow]
    BY <1>1, <1>3 DEF StartAttempt
  <1>5. serial' \in [attempt : 0 .. MaxAttempt, ticket : Ticket]
    BY <1>1 DEF StartAttempt, TypeOK
  <1>6. \A r \in DeliveryRow :
          [r EXCEPT !.step = "executing", !.attempt = n, !.fence = job.fence + 1] \in DeliveryRow
    BY <1>1 DEF DeliveryRow, Step
  <1>7. delivery' \in [Worker -> DeliveryRow]
    BY <1>6 DEF StartAttempt, TypeOK
  <1> QED BY <1>2, <1>4, <1>5, <1>7

LEMMA TerminalTyped ==
  ASSUME TypeOK, NEW w \in Worker, delivery[w].attempt \in Attempt, NEW o \in Outcome,
         NEW d \in {"succeeded", "failed", "cancelled"}, NEW ao \in AttemptOutcome,
         Terminal(w, o, d, ao)
  PROVE  /\ job' \in JobRow /\ attempts' \in [Attempt -> AttemptRow]
         /\ dispatches' \in [Generation -> DispatchRow]
  BY SettledTyped, ClosedTyped, EndedTyped DEF Terminal, TypeOK

LEMMA BackToQueueTyped ==
  ASSUME TypeOK, NEW w \in Worker, delivery[w].attempt \in Attempt, NEW ao \in AttemptOutcome,
         BackToQueue(w, ao)
  PROVE  /\ job' \in JobRow /\ attempts' \in [Attempt -> AttemptRow]
         /\ dispatches' \in [Generation -> DispatchRow]
  BY JobRowUpdates, ClosedTyped DEF BackToQueue, TypeOK

LEMMA AssessTyped ==
  ASSUME TypeOK, NEW a \in Attempt, NEW w \in Worker, NEW v \in Assess(a, w)
  PROVE  v.child \in Child
  <1>1. attempts[a].child \in Child
    BY DEF TypeOK, AttemptRow
  <1>2. \A x \in SameHostAssessments(a) : x.child \in Child
    BY <1>1 DEF SameHostAssessments, Assessment, Child
  <1> QED BY <1>1, <1>2 DEF Assess, Assessment

-----------------------------------------------------------------------------
(* Type correctness, one lemma per actor.                                  *)

LEMMA StartupTyped ==
  ASSUME TypeOK, NEW w \in Worker, Startup(w) PROVE TypeOK'
  <1>1. CASE Register(w)
    BY <1>1, DeliveryTyped DEF Register, TypeOK, canonical, queue, Step, Mode
  <1>2. CASE Ready(w)
    BY <1>2, DeliveryTyped DEF Ready, TypeOK, canonical, queue, Step, Mode
  <1>3. CASE SelectOrphan(w)
    <2>1. PICK v \in Assess(job.current, w) :
            /\ attempts' = [attempts EXCEPT ![job.current].child = v.child]
            /\ delivery' = [delivery EXCEPT ![w] =
                 [@ EXCEPT !.step = "reconciling", !.attempt = job.current,
                           !.fence = job.fence, !.generation = job.generation,
                           !.mode = IF v.verdict = "unsafe" THEN "unsafe"
                                    ELSE IF job.desired = "cancel" THEN "cancel"
                                    ELSE "interrupt"]]
      BY <1>3 DEF SelectOrphan
    <2>2. job.current \in Attempt /\ job.current \in 0 .. MaxAttempt
      BY <1>3 DEF SelectOrphan, Candidate, Unfinished, TypeOK, JobRow
    <2>3. [attempts[job.current] EXCEPT !.child = v.child] \in AttemptRow
      BY <2>2, AssessTyped, AttemptRowChild DEF TypeOK
    <2>4. attempts' \in [Attempt -> AttemptRow]
      BY <2>1, <2>2, <2>3 DEF TypeOK
    <2>5. job.fence \in Nat /\ job.generation \in 0 .. MaxGeneration
      BY DEF TypeOK, JobRow, Generation
    <2>6. \A r \in DeliveryRow, s \in Step, m \in Mode :
            [r EXCEPT !.step = s, !.attempt = job.current,
                      !.fence = job.fence, !.generation = job.generation, !.mode = m]
              \in DeliveryRow
      BY <2>2, <2>5 DEF DeliveryRow
    <2>7. "reconciling" \in Step /\ {"unsafe", "cancel", "interrupt"} \subseteq Mode
      BY DEF Step, Mode
    <2>8. delivery' \in [Worker -> DeliveryRow]
      BY <2>1, <2>6, <2>7 DEF TypeOK
    <2> QED BY <1>3, <2>4, <2>8 DEF SelectOrphan, TypeOK, queue
  <1>4. CASE ReconcileOrphan(w)
    <2>1. delivery' \in [Worker -> DeliveryRow]
      BY <1>4, IdleTyped, JobDeliveryAssumption DEF ReconcileOrphan, TypeOK
    <2>2. /\ job' \in JobRow /\ attempts' \in [Attempt -> AttemptRow]
          /\ dispatches' \in [Generation -> DispatchRow]
      <3>1. CASE UNCHANGED canonical
        BY <3>1 DEF canonical, TypeOK
      <3>2. CASE /\ delivery[w].attempt \in Attempt
                 /\ Terminal(w, "unsafe", "failed", "interrupted")
        BY <3>2, TerminalTyped DEF AttemptOutcome, Outcome
      <3>3. CASE /\ delivery[w].attempt \in Attempt
                 /\ job' = [Settled("cancelled") EXCEPT !.fence = @ + 1]
                 /\ attempts' = Closed(delivery[w].attempt, "cancelled")
                 /\ dispatches' = Ended("cancelled")
        BY <3>3, SettledTyped, ClosedTyped, EndedTyped DEF TypeOK, AttemptOutcome, Outcome
      <3>4. CASE delivery[w].attempt \in Attempt /\ BackToQueue(w, "interrupted")
        BY <3>4, BackToQueueTyped DEF AttemptOutcome
      <3> QED BY <1>4, <3>1, <3>2, <3>3, <3>4 DEF ReconcileOrphan, Owns, Unfinished
    <2> QED BY <1>4, <2>1, <2>2 DEF ReconcileOrphan, TypeOK, queue
  <1> QED BY <1>1, <1>2, <1>3, <1>4 DEF Startup

LEMMA EnvironmentTyped ==
  ASSUME TypeOK, NEW w \in Worker, Environment(w) PROVE TypeOK'
  <1>1. CASE Crash(w)
    <2>1. [IdleDelivery EXCEPT !.step = "down"] \in DeliveryRow
      BY IdleTyped, JobDeliveryAssumption DEF DeliveryRow, Step
    <2> QED BY <1>1, <2>1 DEF Crash, TypeOK, canonical, queue
  <1>2. CASE GracefulStop(w)
    BY <1>2, DeliveryTyped DEF GracefulStop, TypeOK, canonical, queue, Step, Mode
  <1>3. CASE RuntimeExpires(w)
    BY <1>3 DEF RuntimeExpires, TypeOK, canonical, queue
  <1>4. CASE RuntimeLapses(w)
    BY <1>4, JobDeliveryAssumption DEF RuntimeLapses, TypeOK, canonical, queue
  <1>5. CASE Heartbeat(w)
    BY <1>5 DEF Heartbeat, TypeOK, canonical, queue
  <1> QED BY <1>1, <1>2, <1>3, <1>4, <1>5 DEF Environment

LEMMA PreAdmissionTyped ==
  ASSUME TypeOK, NEW w \in Worker, PreAdmission(w) PROVE TypeOK'
  <1>1. ASSUME NEW t \in Ticket, TakeTicket(w, t), spent' \in [lapses : 0 .. MaxLapse, giveUps : 0 .. MaxGiveUp]
        PROVE  TypeOK'
    <2>1. tickets' \in [Ticket -> TicketRow]
      BY <1>1, PickedTyped DEF TakeTicket, TypeOK
    <2>2. t \in 0 .. MaxTicket /\ tickets[t].generation \in 0 .. MaxGeneration
      BY JobDeliveryAssumption DEF Ticket, TypeOK, TicketRow
    <2>3. \A r \in DeliveryRow, s \in Step :
            [r EXCEPT !.step = s, !.ticket = t, !.generation = tickets[t].generation]
              \in DeliveryRow
      BY <2>2 DEF DeliveryRow
    <2>6. IdleDelivery \in DeliveryRow /\ "picked" \in Step
      BY IdleTyped, JobDeliveryAssumption DEF Step
    <2>4. delivery' \in [Worker -> DeliveryRow]
      BY <1>1, <2>3, <2>6 DEF TakeTicket, TypeOK
    <2>5. serial' = serial /\ kind' = kind /\ runtime' = runtime
          /\ job' = job /\ dispatches' = dispatches /\ attempts' = attempts
      BY <1>1 DEF TakeTicket, canonical
    <2> QED BY <1>1, <2>1, <2>4, <2>5 DEF TypeOK
  <1>2. CASE \E t \in Ticket : Pick(w, t) \/ Redeliver(w, t)
    BY <1>1, <1>2 DEF Pick, Redeliver, TypeOK
  <1>3. CASE \E t \in Ticket : DeliverTwice(w, t)
    <2>1. PICK t \in Ticket : DeliverTwice(w, t)
      BY <1>3
    <2>2. spent' \in [lapses : 0 .. MaxLapse, giveUps : 0 .. MaxGiveUp]
      BY <2>1, JobDeliveryAssumption DEF DeliverTwice, TypeOK
    <2> QED BY <1>1, <2>1, <2>2 DEF DeliverTwice
  <1>4. CASE Preflight(w)
    BY <1>4, DeliveryTyped DEF Preflight, TypeOK, canonical, queue, Step, Mode
  <1>5. CASE WaitForGate(w)
    <2>1. job' \in JobRow
      BY <1>5, JobRowUpdates DEF WaitForGate, TypeOK
    <2> QED BY <1>5, <2>1, DeliveryTyped DEF WaitForGate, TypeOK, queue, Step, Mode
  <1>6. CASE AcquireGates(w)
    BY <1>6, DeliveryTyped DEF AcquireGates, TypeOK, canonical, queue, Step, Mode
  <1>7. CASE GateCancelled(w) \/ GateSessionBroken(w)
    <2>1. CASE GateCancelled(w)
      BY <2>1, DeliveryTyped DEF GateCancelled, TypeOK, canonical, queue, Step, Mode
    <2>2. CASE GateSessionBroken(w)
      <3>1. delivery' \in [Worker -> DeliveryRow]
        BY <2>2, DeliveryTyped DEF GateSessionBroken, TypeOK, Step, Mode
      <3> QED BY <2>2, <3>1 DEF GateSessionBroken, TypeOK, canonical, queue
    <2> QED BY <1>7, <2>1, <2>2
  <1>8. CASE GateTimeout(w) \/ GateConnectionLost(w)
    <2>1. GiveUp(w)
      BY <1>8 DEF GateTimeout, GateConnectionLost
    <2>2. spent' \in [lapses : 0 .. MaxLapse, giveUps : 0 .. MaxGiveUp]
      BY <2>1, JobDeliveryAssumption DEF GiveUp, TypeOK
    <2> QED BY <2>1, <2>2, DeliveryTyped DEF GiveUp, TypeOK, canonical, queue, Step, Mode
  <1>9. CASE Defer(w)
    <2>1. PreviousDefers + 1 \in Nat
      BY DEF PreviousDefers, TypeOK, JobRow
    <2>2. job' \in JobRow
      BY <1>9, <2>1, JobRowUpdates DEF Defer, TypeOK
    <2> QED BY <1>9, <2>2, DeliveryTyped DEF Defer, TypeOK, queue, Step, Mode
  <1>10. CASE DeferralExhausted(w)
    BY <1>10, SettledTyped, EndedTyped, DeliveryTyped
    DEF DeferralExhausted, TypeOK, queue, Step, Mode, Outcome
  <1>11. CASE DeferralMoot(w)
    BY <1>11, DeliveryTyped DEF DeferralMoot, TypeOK, canonical, queue, Step, Mode
  <1>12. CASE RecheckDeferral(w)
    BY <1>12, DeliveryTyped DEF RecheckDeferral, TypeOK, canonical, queue, Step, Mode
  <1>13. CASE ApplyIntent(w)
    <2>1. job' \in JobRow /\ dispatches' \in [Generation -> DispatchRow]
      BY <1>13, SettledTyped, EndedTyped DEF ApplyIntent, TypeOK, Outcome
    <2> QED BY <1>13, <2>1, DeliveryTyped DEF ApplyIntent, TypeOK, queue, Step, Mode
  <1> QED
    BY <1>2, <1>3, <1>4, <1>5, <1>6, <1>7, <1>8, <1>9, <1>10, <1>11, <1>12, <1>13
    DEF PreAdmission

LEMMA AdmissionTyped ==
  ASSUME TypeOK, NEW w \in Worker, Admission(w) PROVE TypeOK'
  <1>1. CASE AdmitNothing(w)
    BY <1>1, EndedTyped, DeliveryTyped DEF AdmitNothing, TypeOK, queue, Step, Mode
  <1>2. CASE AdmitAttempt(w)
    BY <1>2, StartAttemptTyped DEF AdmitAttempt, TypeOK
  <1>3. CASE AdmitBusy(w)
    <2>1. PICK a \in Attempt :
            delivery' = IF Fresh(a) THEN Finish(w, "requeue")
                        ELSE [delivery EXCEPT ![w].step = "recovering", ![w].attempt = a]
      BY <1>3 DEF AdmitBusy
    <2>3. a \in 0 .. MaxAttempt /\ {"recovering", "releasing"} \subseteq Step /\ "requeue" \in Mode
      BY JobDeliveryAssumption DEF Attempt, Step, Mode
    <2>4. \A r \in DeliveryRow, s \in Step : [r EXCEPT !.step = s, !.attempt = a] \in DeliveryRow
      BY <2>3 DEF DeliveryRow
    <2>5. Finish(w, "requeue") \in [Worker -> DeliveryRow]
      BY <2>3, DeliveryTyped DEF TypeOK
    <2>2. delivery' \in [Worker -> DeliveryRow]
      BY <2>1, <2>3, <2>4, <2>5 DEF TypeOK
    <2> QED BY <1>3, <2>2 DEF AdmitBusy, TypeOK, canonical, queue
  <1>4. CASE ExamineAttempt(w)
    <2> DEFINE a == delivery[w].attempt
    <2>1. PICK v \in Assess(a, w) :
            /\ attempts' = [attempts EXCEPT ![a].child = v.child]
            /\ delivery' =
                 IF v.verdict = "active" THEN Finish(w, "requeue")
                 ELSE [delivery EXCEPT ![w] =
                         [@ EXCEPT !.fence = job.fence,
                                   !.step = IF v.verdict = "unsafe" THEN "condemning"
                                                                    ELSE "superseding"]]
      BY <1>4 DEF ExamineAttempt
    <2>2. a \in Attempt
      BY <1>4 DEF ExamineAttempt, Candidate, Unfinished
    <2>3. [attempts[a] EXCEPT !.child = v.child] \in AttemptRow
      BY <2>2, AssessTyped, AttemptRowChild DEF TypeOK
    <2>4. attempts' \in [Attempt -> AttemptRow]
      BY <2>1, <2>2, <2>3 DEF TypeOK
    <2>5. job.fence \in Nat
      BY DEF TypeOK, JobRow
    <2>6. \A r \in DeliveryRow, p \in {"condemning", "superseding"} :
            [r EXCEPT !.fence = job.fence, !.step = p] \in DeliveryRow
      BY <2>5 DEF DeliveryRow, Step
    <2>7. delivery' \in [Worker -> DeliveryRow]
      BY <2>1, <2>6, DeliveryTyped DEF TypeOK, Step, Mode
    <2> QED BY <1>4, <2>4, <2>7 DEF ExamineAttempt, TypeOK, queue
  <1>5. CASE CandidateGone(w)
    BY <1>5, DeliveryTyped DEF CandidateGone, TypeOK, canonical, queue, Step, Mode
  <1>6. CASE CondemnAttempt(w)
    <2>1. /\ job' \in JobRow /\ attempts' \in [Attempt -> AttemptRow]
          /\ dispatches' \in [Generation -> DispatchRow]
      <3>1. CASE Owns(w, Busy, AnyWish)
        <4>1. delivery[w].attempt \in Attempt /\ Terminal(w, "unsafe", "failed", "interrupted")
          BY <1>6, <3>1 DEF CondemnAttempt, Owns, Unfinished
        <4> QED BY <4>1, TerminalTyped DEF AttemptOutcome, Outcome
      <3>2. CASE ~Owns(w, Busy, AnyWish)
        BY <1>6, <3>2 DEF CondemnAttempt, TypeOK, canonical
      <3> QED BY <3>1, <3>2
    <2> QED BY <1>6, <2>1, DeliveryTyped DEF CondemnAttempt, TypeOK, queue, Step, Mode
  <1>7. CASE SupersedeAttempt(w)
    <2>1. delivery[w].attempt \in Attempt
      BY <1>7 DEF SupersedeAttempt, Supersedable, Candidate, Unfinished
    <2>2. Closed(delivery[w].attempt, "interrupted") \in [Attempt -> AttemptRow]
      BY <2>1, ClosedTyped DEF TypeOK, AttemptOutcome
    <2> QED BY <1>7, <2>2, StartAttemptTyped DEF SupersedeAttempt, TypeOK
  <1>8. CASE SupersedeRefused(w)
    BY <1>8, DeliveryTyped DEF SupersedeRefused, TypeOK, canonical, queue, Step, Mode
  <1> QED BY <1>1, <1>2, <1>3, <1>4, <1>5, <1>6, <1>7, <1>8 DEF Admission

LEMMA ExecutionTyped ==
  ASSUME TypeOK, NEW w \in Worker, Execution(w) PROVE TypeOK'
  <1> DEFINE a == delivery[w].attempt
  <1>1. CASE LaunchChild(w)
    <2>1. [attempts[a] EXCEPT !.identified = TRUE, !.child = "live"] \in AttemptRow
      BY <1>1, AttemptRowUpdates DEF LaunchChild, Owns, Unfinished, TypeOK, AttemptOutcome, Outcome
    <2>2. attempts' \in [Attempt -> AttemptRow]
      BY <1>1, <2>1 DEF LaunchChild, TypeOK
    <2> QED BY <1>1, <2>2 DEF LaunchChild, TypeOK, queue
  <1>2. CASE RecordIntent(w)
    <2>1. [attempts[a] EXCEPT !.intent = TRUE, !.publication = FALSE] \in AttemptRow
      BY <1>2, AttemptRowUpdates DEF RecordIntent, Owns, Unfinished, TypeOK, AttemptOutcome, Outcome
    <2>2. attempts' \in [Attempt -> AttemptRow]
      BY <1>2, <2>1 DEF RecordIntent, TypeOK
    <2> QED BY <1>2, <2>2 DEF RecordIntent, TypeOK, queue
  <1>3. CASE Publish(w)
    <2>1. [attempts[a] EXCEPT !.effect = TRUE, !.publication = TRUE] \in AttemptRow
      BY <1>3, AttemptRowUpdates
      DEF Publish, MayPublish, Owns, Unfinished, TypeOK, AttemptOutcome, Outcome
    <2>2. attempts' \in [Attempt -> AttemptRow]
      BY <1>3, <2>1 DEF Publish, TypeOK
    <2> QED BY <1>3, <2>2 DEF Publish, TypeOK, queue
  <1>4. CASE PublishTorn(w)
    <2>1. [attempts[a] EXCEPT !.effect = TRUE] \in AttemptRow
      BY <1>4, AttemptRowUpdates
      DEF PublishTorn, MayPublish, Owns, Unfinished, TypeOK, AttemptOutcome, Outcome
    <2>2. attempts' \in [Attempt -> AttemptRow]
      BY <1>4, <2>1 DEF PublishTorn, TypeOK
    <2> QED BY <1>4, <2>2, DeliveryTyped DEF PublishTorn, TypeOK, queue, Step, Mode
  <1>5. CASE Return(w)
    BY <1>5, TreeDeadTyped, DeliveryTyped DEF Return, TypeOK, queue, Step, Mode
  <1>6. CASE Raise(w)
    <2>1. PICK class \in FailureClass(w) : delivery' = GotoAs(w, "failing", class)
      BY <1>6 DEF Raise
    <2>2. class \in Mode /\ "failing" \in Step
      BY DEF FailureClass, Mode, Step
    <2> QED BY <1>6, <2>1, <2>2, TreeDeadTyped, DeliveryTyped DEF Raise, TypeOK, queue
  <1>7. CASE Unwind(w)
    <2>1. TreeDead(a) \in [Attempt -> AttemptRow]
      BY TreeDeadTyped DEF TypeOK
    <2>2. a \in Attempt => [TreeDead(a)[a] EXCEPT !.phase = "stopping"] \in AttemptRow
      BY <2>1, AttemptRowUpdates DEF AttemptOutcome, Outcome
    <2>3. [TreeDead(a) EXCEPT ![a].phase = "stopping"] \in [Attempt -> AttemptRow]
      BY <2>1, <2>2
    <2>4. attempts' \in [Attempt -> AttemptRow]
      BY <1>7, <2>1, <2>3 DEF Unwind
    <2>5. job' \in JobRow
      BY <1>7, JobRowUpdates DEF Unwind, TypeOK
    <2> QED BY <1>7, <2>4, <2>5, DeliveryTyped DEF Unwind, TypeOK, queue, Step, Mode
  <1>8. CASE DeathUnproven(w)
    <2>1. delivery' = GotoAs(w, "failing", "unsafe") \/ delivery' = Finish(w, "hold")
      BY <1>8 DEF DeathUnproven
    <2>3. "failing" \in Step /\ "unsafe" \in Mode /\ "hold" \in Mode
      BY DEF Step, Mode
    <2>2. delivery' \in [Worker -> DeliveryRow]
      BY <2>1, <2>3, DeliveryTyped DEF TypeOK
    <2> QED BY <1>8, <2>2 DEF DeathUnproven, TypeOK, canonical, queue
  <1> QED BY <1>1, <1>2, <1>3, <1>4, <1>5, <1>6, <1>7, <1>8 DEF Execution

LEMMA FailTyped ==
  ASSUME TypeOK, NEW w \in Worker, delivery[w].attempt \in Attempt,
         NEW o \in {"failed", "cancelled"}, Fail(w, o)
  PROVE  /\ job' \in JobRow /\ attempts' \in [Attempt -> AttemptRow]
         /\ dispatches' \in [Generation -> DispatchRow]
  <1>1. o \in Outcome /\ o \in AttemptOutcome /\ o \in {"succeeded", "failed", "cancelled"}
    BY DEF Outcome, AttemptOutcome
  <1>2. "unsafe" \in Outcome /\ "interrupted" \in AttemptOutcome
    BY DEF Outcome, AttemptOutcome
  <1> QED BY <1>1, <1>2, TerminalTyped DEF Fail

LEMMA SettlementTyped ==
  ASSUME TypeOK, NEW w \in Worker, Settlement(w) PROVE TypeOK'
  <1> DEFINE a == delivery[w].attempt
             CanonicalTyped == /\ job' \in JobRow /\ attempts' \in [Attempt -> AttemptRow]
                               /\ dispatches' \in [Generation -> DispatchRow]
  <1>1. \A phases, desireds : Owns(w, phases, desireds) => a \in Attempt
    BY DEF Owns, Unfinished
  <1>2. UNCHANGED canonical => CanonicalTyped
    BY DEF canonical, TypeOK
  <1>3. CASE Succeed(w)
    <2>1. CanonicalTyped
      BY <1>1, <1>3, TerminalTyped DEF Succeed, AttemptOutcome, Outcome
    <2> QED BY <1>3, <2>1, DeliveryTyped DEF Succeed, TypeOK, queue, Step, Mode
  <1>4. CASE SuccessLost(w)
    <2>1. delivery' = GotoAs(w, "sealing", "lost") \/ delivery' = Finish(w, "hold")
      BY <1>4 DEF SuccessLost
    <2>3. "sealing" \in Step /\ "lost" \in Mode /\ "hold" \in Mode
      BY DEF Step, Mode
    <2>2. delivery' \in [Worker -> DeliveryRow]
      BY <2>1, <2>3, DeliveryTyped DEF TypeOK
    <2> QED BY <1>4, <2>2 DEF SuccessLost, TypeOK, canonical, queue
  <1>5. CASE SealCancelled(w)
    <2>1. CanonicalTyped
      BY <1>1, <1>2, <1>5, FailTyped DEF SealCancelled
    <2> QED BY <1>5, <2>1, DeliveryTyped DEF SealCancelled, TypeOK, queue, Step, Mode
  <1>6. CASE RetryLater(w)
    <2>1. CanonicalTyped
      BY <1>1, <1>2, <1>6, BackToQueueTyped DEF RetryLater, AttemptOutcome
    <2> QED BY <1>6, <2>1, DeliveryTyped DEF RetryLater, TypeOK, queue, Step, Mode
  <1>7. CASE FailForGood(w)
    <2> DEFINE o == IF delivery[w].mode = "cancelled" THEN "cancelled" ELSE "failed"
    <2>1. CASE delivery[w].mode = "unsafe" /\ Owns(w, Busy, AnyWish)
      <3>1. Terminal(w, "unsafe", "failed", "interrupted")
        BY <1>7, <2>1 DEF FailForGood
      <3> QED BY <1>1, <1>7, <2>1, <3>1, TerminalTyped, DeliveryTyped
              DEF FailForGood, AttemptOutcome, Outcome, TypeOK, queue, Step, Mode
    <2>2. CASE delivery[w].mode # "unsafe" /\ Owns(w, Busy, FailDesires(w, o))
      <3>1. Fail(w, o) /\ o \in {"failed", "cancelled"}
        BY <1>7, <2>2 DEF FailForGood
      <3> QED BY <1>1, <1>7, <2>2, <3>1, FailTyped, DeliveryTyped
              DEF FailForGood, TypeOK, queue, Step, Mode
    <2>3. CASE /\ ~(delivery[w].mode = "unsafe" /\ Owns(w, Busy, AnyWish))
               /\ ~(delivery[w].mode # "unsafe" /\ Owns(w, Busy, FailDesires(w, o)))
      <3>1. UNCHANGED canonical
        BY <1>7, <2>3 DEF FailForGood
      <3> QED BY <1>2, <1>7, <3>1, DeliveryTyped DEF FailForGood, TypeOK, queue, Step, Mode
    <2> QED BY <2>1, <2>2, <2>3
  <1>8. CASE TellQueue(w)
    <2>1. tickets' \in [Ticket -> TicketRow]
      BY <1>8, DeletedTyped, RequeuedTyped DEF TellQueue, TypeOK
    <2>2. delivery' \in [Worker -> DeliveryRow]
      BY <1>8, IdleTyped, JobDeliveryAssumption DEF TellQueue, TypeOK
    <2> QED BY <1>8, <2>1, <2>2 DEF TellQueue, TypeOK, canonical
  <1>9. CASE ReleaseFails(w)
    BY <1>9, DeliveryTyped DEF ReleaseFails, TypeOK, canonical, queue, Step, Mode
  <1> QED BY <1>3, <1>4, <1>5, <1>6, <1>7, <1>8, <1>9 DEF Settlement

LEMMA ControlTyped ==
  ASSUME TypeOK, Cancel \/ Reprioritize PROVE TypeOK'
  <1>2. CASE Cancel
    <2>1. tickets' \in [Ticket -> TicketRow]
      BY <1>2, DeletedTyped DEF Cancel, TypeOK
    <2>2. job' \in JobRow /\ dispatches' \in [Generation -> DispatchRow]
      BY <1>2, SettledTyped, JobRowUpdates, EndedTyped DEF Cancel, TypeOK, Outcome
    <2> QED BY <1>2, <2>1, <2>2 DEF Cancel, TypeOK
  <1>3. CASE Reprioritize
    <2> DEFINE g == job.generation + 1
               t == serial.ticket + 1
    <2>1. g \in Generation /\ t \in Ticket /\ t \in 0 .. MaxTicket
      BY <1>3, JobDeliveryAssumption DEF Reprioritize, Ticket
    <2>7. \A r \in JobRow, n \in Nat, h \in Generation, u \in Ticket :
            [r EXCEPT !.fence = n, !.generation = h, !.ticket = u] \in JobRow
      BY DEF JobRow
    <2>8. job \in JobRow /\ job.fence + 1 \in Nat
      BY DEF TypeOK, JobRow
    <2>2. job' \in JobRow
      BY <1>3, <2>1, <2>7, <2>8 DEF Reprioritize
    <2>3. [ticket |-> t, disposition |-> "active"] \in DispatchRow
      BY <2>1 DEF DispatchRow
    <2>4. dispatches' \in [Generation -> DispatchRow]
      BY <1>3, <2>3, EndedTyped DEF Reprioritize, TypeOK
    <2>5. tickets' \in [Ticket -> TicketRow]
      BY <1>3, <2>1, DeletedTyped, EnqueuedTyped DEF Reprioritize, TypeOK
    <2>6. serial' \in [attempt : 0 .. MaxAttempt, ticket : Ticket]
      BY <1>3, <2>1 DEF Reprioritize, TypeOK
    <2> QED BY <1>3, <2>2, <2>4, <2>5, <2>6 DEF Reprioritize, TypeOK
  <1> QED BY <1>2, <1>3

LEMMA MonitorTyped ==
  ASSUME TypeOK, RecoverDeferral \/ FlagTransport PROVE TypeOK'
  <1>1. CASE RecoverDeferral
    <2> DEFINE gone == tickets[job.ticket].status \in {"absent", "cancelled"}
               t == serial.ticket + 1
    <2>1. gone => t \in Ticket /\ t \in 0 .. MaxTicket
      BY <1>1, JobDeliveryAssumption DEF RecoverDeferral, Ticket
    <2>8. \A r \in JobRow, u \in Ticket :
            [r EXCEPT !.attention = "deferred", !.defers = 0, !.ticket = u] \in JobRow
      BY DEF JobRow
    <2>9. job.ticket \in Ticket /\ job \in JobRow
      BY DEF TypeOK, JobRow
    <2>2. job' \in JobRow
      <3>1. PICK u \in Ticket :
              job' = [job EXCEPT !.attention = "deferred", !.defers = 0, !.ticket = u]
        <4>1. CASE gone
          BY <1>1, <2>1, <4>1 DEF RecoverDeferral
        <4>2. CASE ~gone
          BY <1>1, <2>9, <4>2 DEF RecoverDeferral
        <4> QED BY <4>1, <4>2
      <3> QED BY <2>8, <2>9, <3>1
    <2>3. \A r \in DispatchRow : gone => [r EXCEPT !.ticket = t] \in DispatchRow
      BY <2>1 DEF DispatchRow
    <2>4. dispatches' \in [Generation -> DispatchRow]
      BY <1>1, <2>3 DEF RecoverDeferral, TypeOK
    <2>5. job.generation \in Generation
      BY DEF TypeOK, JobRow
    <2>6. tickets' \in [Ticket -> TicketRow]
      BY <1>1, <2>5, EnqueuedTyped, RequeuedTyped DEF RecoverDeferral, TypeOK
    <2>7. serial' \in [attempt : 0 .. MaxAttempt, ticket : Ticket]
      BY <1>1, <2>1 DEF RecoverDeferral, TypeOK
    <2> QED BY <1>1, <2>2, <2>4, <2>6, <2>7 DEF RecoverDeferral, TypeOK
  <1>2. CASE FlagTransport
    <2>1. job' \in JobRow
      BY <1>2, JobRowUpdates DEF FlagTransport, TypeOK
    <2> QED BY <1>2, <2>1 DEF FlagTransport, TypeOK, queue
  <1> QED BY <1>1, <1>2

LEMMA NextTyped ==
  ASSUME TypeOK, [Next]_vars PROVE TypeOK'
  <1>1. CASE UNCHANGED vars
    BY <1>1 DEF vars, TypeOK
  <1>2. ASSUME NEW w \in Worker, Notify(w) PROVE TypeOK'
    <2>1. \A r \in DeliveryRow : [r EXCEPT !.notified = TRUE] \in DeliveryRow
      BY DEF DeliveryRow
    <2> QED BY <1>2, <2>1 DEF Notify, TypeOK, canonical, queue
  <1>3. ASSUME NEW a \in Attempt, LeaderExits(a) \/ ChildExits(a) PROVE TypeOK'
    <2>1. "orphaned" \in Child
      BY DEF Child
    <2>2. [attempts[a] EXCEPT !.child = "orphaned"] \in AttemptRow
      BY <2>1, AttemptRowChild DEF TypeOK
    <2> QED BY <1>3, <2>2, TreeDeadTyped DEF LeaderExits, ChildExits, TypeOK, queue
  <1> QED
    BY <1>1, <1>2, <1>3, StartupTyped, EnvironmentTyped, PreAdmissionTyped, AdmissionTyped,
       ExecutionTyped, SettlementTyped, ControlTyped, MonitorTyped
    DEF Next

LEMMA InitTyped ==
  ASSUME Init PROVE TypeOK
  <1>1. 1 \in Attempt /\ 1 \in Generation /\ 1 \in Ticket
    BY JobDeliveryAssumption DEF Attempt, Generation, Ticket
  <1>2. kind \in AllKinds /\ job \in JobRow
    BY <1>1, JobDeliveryAssumption DEF Init, JobRow, Outcome
  <1>3. dispatches \in [Generation -> DispatchRow]
    BY <1>1, JobDeliveryAssumption DEF Init, DispatchRow, Ticket
  <1>4. attempts \in [Attempt -> AttemptRow]
    BY JobDeliveryAssumption DEF Init, AttemptRow, UnusedAttempt, Outcome, Child
  <1>5. tickets \in [Ticket -> TicketRow]
    BY <1>1, JobDeliveryAssumption DEF Init, TicketRow, QueuedTicket, UnusedTicket, Generation
  <1>6. serial \in [attempt : 0 .. MaxAttempt, ticket : Ticket]
    BY <1>1, JobDeliveryAssumption DEF Init
  <1>7. delivery \in [Worker -> DeliveryRow]
    <2>1. \A r \in DeliveryRow, s \in Step : [r EXCEPT !.step = s] \in DeliveryRow
      BY DEF DeliveryRow
    <2>2. IdleDelivery \in DeliveryRow /\ "off" \in Step
      BY IdleTyped, JobDeliveryAssumption DEF Step
    <2> QED BY <2>1, <2>2 DEF Init
  <1>8. /\ runtime \in [Worker -> {"absent", "fresh", "expired", "stopped"}]
        /\ spent \in [lapses : 0 .. MaxLapse, giveUps : 0 .. MaxGiveUp]
    BY JobDeliveryAssumption DEF Init
  <1> QED BY <1>2, <1>3, <1>4, <1>5, <1>6, <1>7, <1>8 DEF TypeOK

\* Every reachable row, ticket and delivery has its declared type, whatever the
\* workers, the bounds and the faults.
THEOREM TypeCorrect == Spec => []TypeOK
  <1>1. Init => TypeOK
    BY InitTyped
  <1>2. TypeOK /\ [Next]_vars => TypeOK'
    BY NextTyped
  <1> QED BY <1>1, <1>2, PTL DEF Spec

-----------------------------------------------------------------------------
(* The attempt ledger, strengthened until every step preserves it.         *)

LedgerInv ==
  /\ job.current = serial.attempt
  /\ \A a \in Attempt : Started(a) <=> a <= serial.attempt
  /\ \A a \in Attempt : Unfinished(a) => a = job.current
  /\ job.phase = "running" => Unfinished(job.current) /\ attempts[job.current].fence = job.fence
  /\ job.phase = "queued" => \A a \in Attempt : ~Unfinished(a)
  /\ \A a \in Attempt : Started(a) => attempts[a].fence <= job.fence
  /\ \A a, b \in Attempt : a < b /\ Started(b) => attempts[a].fence < attempts[b].fence
  /\ \A a \in Attempt : attempts[a].effect => Started(a)

\* A step that starts and finishes no attempt.
LedgerFrame ==
  /\ job'.current = job.current /\ serial'.attempt = serial.attempt
  /\ job'.fence \in Nat /\ job.fence <= job'.fence
  /\ \A a \in Attempt :
       /\ Started(a)' <=> Started(a)
       /\ Unfinished(a)' <=> Unfinished(a)
       /\ attempts'[a].fence = attempts[a].fence
       /\ attempts'[a].effect => attempts[a].effect \/ Started(a)
  /\ \/ job'.phase = job.phase /\ (job.phase = "running" => job'.fence = job.fence)
     \/ job'.phase \in {"stopping", "terminal"}

LEMMA LedgerTypes ==
  ASSUME TypeOK
  PROVE  /\ job.fence \in Nat /\ job.current \in Nat /\ serial.attempt \in Nat
         /\ job.phase \in {"queued", "running", "stopping", "terminal"}
         /\ \A a \in Attempt : attempts[a].fence \in Nat /\ a \in Nat
         /\ \A a \in Attempt : attempts[a].phase \in {"none", "running", "stopping", "finished"}
  <1>1. /\ job.fence \in Nat /\ job.current \in Nat /\ serial.attempt \in Nat
        /\ job.phase \in {"queued", "running", "stopping", "terminal"}
    BY JobDeliveryAssumption DEF TypeOK, JobRow
  <1>2. ASSUME NEW a \in Attempt
        PROVE  /\ attempts[a].fence \in Nat /\ a \in Nat
               /\ attempts[a].phase \in {"none", "running", "stopping", "finished"}
    <2>1. attempts[a] \in AttemptRow
      BY DEF TypeOK
    <2>2. a \in Nat
      BY JobDeliveryAssumption DEF Attempt
    <2> QED BY <2>1, <2>2 DEF AttemptRow
  <1> QED BY <1>1, <1>2

LEMMA LedgerFramed ==
  ASSUME TypeOK, LedgerInv, LedgerFrame
  PROVE  LedgerInv'
  <1>1. job'.current = serial'.attempt
    BY DEF LedgerInv, LedgerFrame
  <1>2. \A a \in Attempt : Started(a)' <=> a <= serial'.attempt
    BY DEF LedgerInv, LedgerFrame
  <1>3. \A a \in Attempt : Unfinished(a)' => a = job'.current
    BY DEF LedgerInv, LedgerFrame
  <1>4. job'.phase = "running" =>
          Unfinished(job.current)' /\ attempts'[job.current].fence = job'.fence
    BY DEF LedgerInv, LedgerFrame, Unfinished
  <1>5. job'.phase = "queued" => \A a \in Attempt : ~Unfinished(a)'
    BY DEF LedgerInv, LedgerFrame
  <1>6. \A a \in Attempt : Started(a)' => attempts'[a].fence <= job'.fence
    BY LedgerTypes DEF LedgerInv, LedgerFrame
  <1>7. \A a, b \in Attempt : a < b /\ Started(b)' => attempts'[a].fence < attempts'[b].fence
    BY DEF LedgerInv, LedgerFrame
  <1>8. \A a \in Attempt : attempts'[a].effect => Started(a)'
    BY DEF LedgerInv, LedgerFrame
  <1>9. job.current = job'.current
    BY DEF LedgerFrame
  <1> QED BY <1>1, <1>2, <1>3, <1>4, <1>5, <1>6, <1>7, <1>8, <1>9 DEF LedgerInv

LEMMA LedgerUntouched ==
  ASSUME TypeOK, LedgerInv, UNCHANGED <<job, attempts, serial>>
  PROVE  LedgerInv'
  BY DEF LedgerInv, Started, Unfinished

LEMMA LedgerClosed ==
  ASSUME TypeOK, LedgerInv, NEW a \in Attempt, a = job.current, NEW o, Unfinished(a),
         attempts' = Closed(a, o), serial'.attempt = serial.attempt,
         job'.current = job.current, job'.fence \in Nat, job.fence <= job'.fence,
         job'.phase \in {"queued", "terminal"}
  PROVE  LedgerInv'
  <1>1. \A b \in Attempt :
          /\ b # a => attempts'[b] = attempts[b]
          /\ attempts'[b].fence = attempts[b].fence /\ attempts'[b].effect = attempts[b].effect
    BY DEF Closed, TypeOK, AttemptRow
  <1>2. attempts'[a].phase = "finished"
    BY DEF Closed, TypeOK, AttemptRow
  <1>3. \A b \in Attempt : Started(b)' <=> Started(b)
    BY <1>1, <1>2 DEF Started, Unfinished
  <1>4. \A b \in Attempt : ~Unfinished(b)'
    BY <1>1, <1>2 DEF Unfinished, LedgerInv
  <1>5. \A b \in Attempt : Started(b)' => attempts'[b].fence <= job'.fence
    BY <1>1, <1>3, LedgerTypes DEF LedgerInv
  <1> QED BY <1>1, <1>3, <1>4, <1>5 DEF LedgerInv

LEMMA LedgerStarts ==
  ASSUME TypeOK, LedgerInv, NEW w \in Worker, NEW ledger \in [Attempt -> AttemptRow],
         \A a \in Attempt : /\ ledger[a].phase \notin {"running", "stopping"}
                            /\ (ledger[a].phase # "none") <=> Started(a)
                            /\ ledger[a].fence = attempts[a].fence
                            /\ ledger[a].effect = attempts[a].effect,
         StartAttempt(w, ledger)
  PROVE  LedgerInv'
  <1> DEFINE n == serial.attempt + 1
  <1>1. n \in Attempt
    BY JobDeliveryAssumption DEF StartAttempt, TypeOK, Attempt
  <1>2. /\ job'.current = n /\ serial'.attempt = n /\ job'.phase = "running"
        /\ job'.fence = job.fence + 1
    BY DEF StartAttempt, TypeOK, JobRow
  <1>3. /\ attempts'[n].phase = "running" /\ attempts'[n].fence = job.fence + 1
        /\ attempts'[n].effect = FALSE
    BY <1>1 DEF StartAttempt, UnusedAttempt
  <1>4. \A a \in Attempt \ {n} : attempts'[a] = ledger[a]
    BY DEF StartAttempt
  <1>5. \A a \in Attempt : Unfinished(a)' <=> a = n
    BY <1>1, <1>3, <1>4 DEF Unfinished
  <1>6. \A a \in Attempt : Started(a)' <=> Started(a) \/ a = n
    BY <1>3, <1>4 DEF Started
  <1>7. \A a \in Attempt : Started(a) => a < n
    BY LedgerTypes DEF LedgerInv
  <1>8. \A a \in Attempt : Started(a)' <=> a <= n
    BY <1>1, <1>6, LedgerTypes DEF LedgerInv
  <1>9. \A a \in Attempt : Started(a)' => attempts'[a].fence <= job.fence + 1
    BY <1>3, <1>4, <1>6, LedgerTypes DEF LedgerInv
  <1>10. \A a, b \in Attempt : a < b /\ Started(b)' => attempts'[a].fence < attempts'[b].fence
    <2> SUFFICES ASSUME NEW a \in Attempt, NEW b \in Attempt, a < b, Started(b)'
                 PROVE  attempts'[a].fence < attempts'[b].fence
      OBVIOUS
    <2>1. a # n /\ Started(a)
      BY <1>1, <1>7, <1>8, LedgerTypes DEF LedgerInv
    <2>2. CASE b = n
      BY <1>3, <1>4, <2>1, <2>2, LedgerTypes DEF LedgerInv
    <2>3. CASE b # n
      BY <1>4, <1>6, <2>1, <2>3 DEF LedgerInv
    <2> QED BY <2>2, <2>3
  <1>11. \A a \in Attempt : attempts'[a].effect => Started(a)'
    BY <1>3, <1>4, <1>6 DEF LedgerInv
  <1> QED BY <1>1, <1>2, <1>3, <1>5, <1>8, <1>9, <1>10, <1>11 DEF LedgerInv

\* A job row that still has its attempt, fence and phase, or stops, or ends.
LEMMA LedgerJobChanged ==
  ASSUME TypeOK, LedgerInv, UNCHANGED <<attempts, serial>>,
         job'.current = job.current, job'.fence \in Nat, job.fence <= job'.fence,
         \/ job'.phase = job.phase /\ (job.phase = "running" => job'.fence = job.fence)
         \/ job'.phase \in {"stopping", "terminal"}
  PROVE  LedgerInv'
  <1>1. LedgerFrame
    BY DEF LedgerFrame, Started, Unfinished
  <1> QED BY <1>1, LedgerFramed

\* One attempt row changes and keeps its phase and fence.
LEMMA LedgerAttemptChanged ==
  ASSUME TypeOK, LedgerInv, UNCHANGED <<job, serial>>, NEW a, NEW r,
         attempts' = [attempts EXCEPT ![a] = r],
         a \in Attempt => /\ r.phase = attempts[a].phase /\ r.fence = attempts[a].fence
                          /\ r.effect => attempts[a].effect \/ Started(a)
  PROVE  LedgerInv'
  <1>1. \A b \in Attempt : /\ attempts'[b].phase = attempts[b].phase
                           /\ attempts'[b].fence = attempts[b].fence
                           /\ attempts'[b].effect => attempts[b].effect \/ Started(b)
    BY DEF TypeOK
  <1>2. LedgerFrame
    BY <1>1, LedgerTypes DEF LedgerFrame, Started, Unfinished
  <1> QED BY <1>2, LedgerFramed

LEMMA StartupLedger ==
  ASSUME TypeOK, LedgerInv, NEW w \in Worker, Startup(w) PROVE LedgerInv'
  <1>1. CASE Register(w) \/ Ready(w)
    BY <1>1, LedgerUntouched DEF Register, Ready, canonical, queue
  <1>2. CASE SelectOrphan(w)
    <2>1. PICK c : attempts' = [attempts EXCEPT ![job.current].child = c]
      BY <1>2 DEF SelectOrphan
    <2>2. attempts' = [attempts EXCEPT ![job.current] = [attempts[job.current] EXCEPT !.child = c]]
      BY <2>1
    <2>3. job.current \in Attempt =>
            LET r == [attempts[job.current] EXCEPT !.child = c] IN
            /\ r.phase = attempts[job.current].phase /\ r.fence = attempts[job.current].fence
            /\ r.effect = attempts[job.current].effect
      BY DEF TypeOK, AttemptRow
    <2> QED BY <1>2, <2>2, <2>3, LedgerAttemptChanged DEF SelectOrphan, queue
  <1>3. CASE ReconcileOrphan(w)
    <2> DEFINE a == delivery[w].attempt
    <2>1. CASE UNCHANGED canonical
      BY <1>3, <2>1, LedgerUntouched DEF ReconcileOrphan, canonical, queue
    <2>2. CASE ~UNCHANGED canonical
      <3>1. a \in Attempt /\ a = job.current /\ Unfinished(a)
        BY <1>3, <2>2 DEF ReconcileOrphan, Owns, Claims, Unfinished
      <3>2. \E o : attempts' = Closed(a, o)
        BY <1>3, <2>2 DEF ReconcileOrphan, Terminal, BackToQueue
      <3>3. /\ job'.current = job.current /\ job'.fence \in Nat /\ job.fence <= job'.fence
            /\ job'.phase \in {"queued", "terminal"}
        <4>1. /\ job \in JobRow /\ job.fence \in Nat
          BY DEF TypeOK, JobRow
        <4>2. CASE \E o : job' = Settled(o)
          BY <4>1, <4>2 DEF Settled, JobRow
        <4>3. CASE job' = [Settled("cancelled") EXCEPT !.fence = @ + 1]
          BY <4>1, <4>3 DEF Settled, JobRow
        <4>4. CASE job' = [job EXCEPT !.phase = "queued"]
          BY <4>1, <4>4 DEF JobRow
        <4> QED BY <1>3, <2>2, <4>2, <4>3, <4>4 DEF ReconcileOrphan, Terminal, BackToQueue
      <3> QED BY <1>3, <3>1, <3>2, <3>3, LedgerClosed DEF ReconcileOrphan, queue
    <2> QED BY <2>1, <2>2
  <1> QED BY <1>1, <1>2, <1>3 DEF Startup

LEMMA SettledFrame ==
  ASSUME TypeOK, NEW o
  PROVE  /\ Settled(o).current = job.current /\ Settled(o).fence = job.fence
         /\ Settled(o).phase = "terminal" /\ Settled(o).generation = job.generation
         /\ Settled(o).desired = job.desired
         /\ job.fence \in Nat
  BY DEF TypeOK, JobRow, Settled

LEMMA TerminalLedger ==
  ASSUME TypeOK, LedgerInv, NEW w \in Worker, NEW o, NEW d, NEW ao,
         NEW phases, NEW desireds, Owns(w, phases, desireds),
         Terminal(w, o, d, ao) \/ BackToQueue(w, ao), serial' = serial
  PROVE  LedgerInv'
  <1> DEFINE a == delivery[w].attempt
  <1>1. a \in Attempt /\ a = job.current /\ Unfinished(a)
    BY DEF Owns, Claims, Unfinished
  <1>2. attempts' = Closed(a, ao)
    BY DEF Terminal, BackToQueue
  <1>3. /\ job'.current = job.current /\ job'.fence = job.fence /\ job.fence \in Nat
        /\ job'.phase \in {"queued", "terminal"}
    <2>1. CASE job' = Settled(o)
      BY <2>1, SettledFrame
    <2>2. CASE job' = [job EXCEPT !.phase = "queued"]
      BY <2>2 DEF TypeOK, JobRow
    <2> QED BY <2>1, <2>2 DEF Terminal, BackToQueue
  <1> QED BY <1>1, <1>2, <1>3, LedgerClosed

LEMMA PreAdmissionLedger ==
  ASSUME TypeOK, LedgerInv, NEW w \in Worker, PreAdmission(w) PROVE LedgerInv'
  <1>1. CASE \E t \in Ticket : Pick(w, t) \/ Redeliver(w, t) \/ DeliverTwice(w, t)
    BY <1>1, LedgerUntouched DEF Pick, Redeliver, DeliverTwice, TakeTicket, canonical
  <1>2. CASE \/ Preflight(w) \/ AcquireGates(w) \/ GateCancelled(w) \/ GateTimeout(w)
             \/ GateConnectionLost(w) \/ GateSessionBroken(w) \/ DeferralMoot(w)
             \/ RecheckDeferral(w)
    BY <1>2, LedgerUntouched
    DEF Preflight, AcquireGates, GateCancelled, GateTimeout, GateConnectionLost,
        GateSessionBroken, GiveUp,
        DeferralMoot, RecheckDeferral, canonical, queue
  <1>3. CASE WaitForGate(w) \/ Defer(w)
    <2>1. UNCHANGED <<attempts, serial>>
      BY <1>3 DEF WaitForGate, Defer, queue
    <2>2. job'.current = job.current /\ job'.fence = job.fence /\ job'.phase = job.phase
      BY <1>3 DEF WaitForGate, Defer, TypeOK, JobRow
    <2> QED BY <2>1, <2>2, LedgerTypes, LedgerJobChanged
  <1>4. CASE DeferralExhausted(w) \/ ApplyIntent(w)
    <2>1. UNCHANGED <<attempts, serial>>
      BY <1>4 DEF DeferralExhausted, ApplyIntent, queue
    <2>2. job' = job \/ \E o : job' = Settled(o)
      BY <1>4 DEF DeferralExhausted, ApplyIntent
    <2> QED BY <2>1, <2>2, SettledFrame, LedgerTypes, LedgerJobChanged
  <1> QED BY <1>1, <1>2, <1>3, <1>4 DEF PreAdmission

LEMMA AdmissionLedger ==
  ASSUME TypeOK, LedgerInv, NEW w \in Worker, Admission(w) PROVE LedgerInv'
  <1> DEFINE a == delivery[w].attempt
  <1>1. CASE AdmitNothing(w) \/ AdmitBusy(w) \/ CandidateGone(w) \/ SupersedeRefused(w)
    BY <1>1, LedgerUntouched
    DEF AdmitNothing, AdmitBusy, CandidateGone, SupersedeRefused, canonical, queue
  <1>2. CASE AdmitAttempt(w)
    <2>1. \A b \in Attempt : attempts[b].phase \notin {"running", "stopping"}
      BY <1>2 DEF AdmitAttempt, LedgerInv, Unfinished
    <2> QED BY <1>2, <2>1, LedgerStarts DEF AdmitAttempt, Started, TypeOK
  <1>3. CASE ExamineAttempt(w)
    <2>1. PICK c : attempts' = [attempts EXCEPT ![a] = [attempts[a] EXCEPT !.child = c]]
      BY <1>3 DEF ExamineAttempt
    <2>2. a \in Attempt =>
            LET r == [attempts[a] EXCEPT !.child = c] IN
            /\ r.phase = attempts[a].phase /\ r.fence = attempts[a].fence
            /\ r.effect = attempts[a].effect
      BY DEF TypeOK, AttemptRow
    <2> QED BY <1>3, <2>1, <2>2, LedgerAttemptChanged DEF ExamineAttempt, queue
  <1>4. CASE CondemnAttempt(w)
    <2>1. CASE Owns(w, Busy, AnyWish)
      BY <1>4, <2>1, TerminalLedger DEF CondemnAttempt, queue
    <2>2. CASE ~Owns(w, Busy, AnyWish)
      BY <1>4, <2>2, LedgerUntouched DEF CondemnAttempt, canonical, queue
    <2> QED BY <2>1, <2>2
  <1>5. CASE SupersedeAttempt(w)
    <2> DEFINE ledger == Closed(a, "interrupted")
    <2>1. a \in Attempt /\ a = job.current /\ Unfinished(a)
      BY <1>5 DEF SupersedeAttempt, Supersedable, Candidate, Unfinished
    <2>2. ledger \in [Attempt -> AttemptRow]
      BY <2>1, ClosedTyped DEF TypeOK, AttemptOutcome
    <2>3. /\ ledger[a].phase = "finished" /\ ledger[a].fence = attempts[a].fence
          /\ ledger[a].effect = attempts[a].effect
      BY <2>1 DEF Closed, TypeOK, AttemptRow
    <2>4. \A b \in Attempt \ {a} : ledger[b] = attempts[b]
      BY DEF Closed, TypeOK
    <2>5. \A b \in Attempt : /\ ledger[b].phase \notin {"running", "stopping"}
                             /\ (ledger[b].phase # "none") <=> Started(b)
                             /\ ledger[b].fence = attempts[b].fence
                             /\ ledger[b].effect = attempts[b].effect
      BY <2>1, <2>3, <2>4 DEF LedgerInv, Unfinished, Started
    <2>6. StartAttempt(w, ledger)
      BY <1>5 DEF SupersedeAttempt
    <2> QED BY <2>2, <2>5, <2>6, LedgerStarts
  <1> QED BY <1>1, <1>2, <1>3, <1>4, <1>5 DEF Admission

\* What an execution step may write into the attempt row it runs.
LEMMA RowFrame ==
  ASSUME NEW r \in AttemptRow, NEW c
  PROVE  /\ LET q == [r EXCEPT !.identified = TRUE, !.child = c] IN
              q.phase = r.phase /\ q.fence = r.fence /\ q.effect = r.effect
         /\ LET q == [r EXCEPT !.intent = TRUE, !.publication = FALSE] IN
              q.phase = r.phase /\ q.fence = r.fence /\ q.effect = r.effect
         /\ LET q == [r EXCEPT !.effect = TRUE, !.publication = TRUE] IN
              q.phase = r.phase /\ q.fence = r.fence
         /\ LET q == [r EXCEPT !.effect = TRUE] IN
              q.phase = r.phase /\ q.fence = r.fence
         /\ LET q == [r EXCEPT !.child = c] IN
              q.phase = r.phase /\ q.fence = r.fence /\ q.effect = r.effect
  BY DEF AttemptRow

LEMMA TreeDeadFrame ==
  ASSUME TypeOK, NEW a
  PROVE  /\ \A b \in Attempt : /\ TreeDead(a)[b].phase = attempts[b].phase
                               /\ TreeDead(a)[b].fence = attempts[b].fence
                               /\ TreeDead(a)[b].effect = attempts[b].effect
         /\ TreeDead(a) \in [Attempt -> AttemptRow]
  <1>1. TreeDead(a) \in [Attempt -> AttemptRow]
    BY TreeDeadTyped DEF TypeOK
  <1>2. CASE a \in Attempt
    <2>1. PICK c : TreeDead(a) = [attempts EXCEPT ![a] = [attempts[a] EXCEPT !.child = c]]
      BY DEF TreeDead
    <2> QED BY <1>1, <1>2, <2>1, RowFrame DEF TypeOK
  <1>3. CASE a \notin Attempt
    BY <1>1, <1>3 DEF TreeDead, TypeOK
  <1> QED BY <1>1, <1>2, <1>3

LEMMA ExecutionLedger ==
  ASSUME TypeOK, LedgerInv, NEW w \in Worker, Execution(w) PROVE LedgerInv'
  <1> DEFINE a == delivery[w].attempt
  <1>1. CASE LaunchChild(w)
    <2>1. attempts[a] \in AttemptRow
      BY <1>1 DEF LaunchChild, Owns, Unfinished, TypeOK
    <2>2. attempts' = [attempts EXCEPT ![a] =
                         [attempts[a] EXCEPT !.identified = TRUE, !.child = "live"]]
      BY <1>1 DEF LaunchChild
    <2>3. LET q == [attempts[a] EXCEPT !.identified = TRUE, !.child = "live"] IN
          q.phase = attempts[a].phase /\ q.fence = attempts[a].fence
            /\ q.effect = attempts[a].effect
      BY <2>1, RowFrame
    <2>4. UNCHANGED <<job, serial>>
      BY <1>1 DEF LaunchChild, queue
    <2> QED BY <2>2, <2>3, <2>4, LedgerAttemptChanged
  <1>2. CASE RecordIntent(w)
    <2>1. attempts[a] \in AttemptRow
      BY <1>2 DEF RecordIntent, Owns, Unfinished, TypeOK
    <2>2. attempts' = [attempts EXCEPT ![a] =
                         [attempts[a] EXCEPT !.intent = TRUE, !.publication = FALSE]]
      BY <1>2 DEF RecordIntent
    <2>3. LET q == [attempts[a] EXCEPT !.intent = TRUE, !.publication = FALSE] IN
          q.phase = attempts[a].phase /\ q.fence = attempts[a].fence
            /\ q.effect = attempts[a].effect
      BY <2>1, RowFrame
    <2>4. UNCHANGED <<job, serial>>
      BY <1>2 DEF RecordIntent, queue
    <2> QED BY <2>2, <2>3, <2>4, LedgerAttemptChanged
  <1>3. CASE Publish(w)
    <2>1. attempts[a] \in AttemptRow /\ Started(a)
      BY <1>3 DEF Publish, MayPublish, Owns, Unfinished, Started, TypeOK
    <2>2. attempts' = [attempts EXCEPT ![a] =
                         [attempts[a] EXCEPT !.effect = TRUE, !.publication = TRUE]]
      BY <1>3 DEF Publish
    <2> QED BY <1>3, <2>1, <2>2, RowFrame, LedgerAttemptChanged DEF Publish, queue
  <1>4. CASE PublishTorn(w)
    <2>1. attempts[a] \in AttemptRow /\ Started(a)
      BY <1>4 DEF PublishTorn, MayPublish, Owns, Unfinished, Started, TypeOK
    <2>2. attempts' = [attempts EXCEPT ![a] = [attempts[a] EXCEPT !.effect = TRUE]]
      BY <1>4 DEF PublishTorn
    <2> QED BY <1>4, <2>1, <2>2, RowFrame, LedgerAttemptChanged DEF PublishTorn, queue
  <1>5. CASE Return(w) \/ Raise(w)
    <2>1. attempts' = TreeDead(a) /\ UNCHANGED <<job, serial>>
      BY <1>5 DEF Return, Raise, queue
    <2>2. LedgerFrame
      BY <2>1, TreeDeadFrame, LedgerTypes DEF LedgerFrame, Started, Unfinished
    <2> QED BY <2>2, LedgerFramed
  <1>6. CASE Unwind(w)
    <2>1. CASE Owns(w, {"running"}, AnyWish)
      <3>1. a \in Attempt /\ attempts[a].phase \in {"running", "stopping"}
        BY <2>1 DEF Owns, Unfinished
      <3>2. attempts' = [TreeDead(a) EXCEPT ![a].phase = "stopping"]
        BY <1>6, <2>1 DEF Unwind
      <3>3. \A b \in Attempt : b # a => attempts'[b] = TreeDead(a)[b]
        BY <3>2, TreeDeadFrame
      <3>4. /\ attempts'[a].phase = "stopping" /\ attempts'[a].fence = attempts[a].fence
            /\ attempts'[a].effect = attempts[a].effect
        BY <3>1, <3>2, TreeDeadFrame DEF AttemptRow
      <3>5. /\ job'.current = job.current /\ job'.fence = job.fence /\ job'.phase = "stopping"
            /\ serial' = serial
        BY <1>6, <2>1 DEF Unwind, TypeOK, JobRow, queue
      <3>6. \A b \in Attempt : /\ attempts'[b].phase = attempts[b].phase \/ b = a
                               /\ attempts'[b].fence = attempts[b].fence
                               /\ attempts'[b].effect = attempts[b].effect
        BY <3>3, <3>4, TreeDeadFrame
      <3>7. LedgerFrame
        BY <3>1, <3>4, <3>5, <3>6, LedgerTypes DEF LedgerFrame, Started, Unfinished
      <3> QED BY <3>7, LedgerFramed
    <2>2. CASE ~Owns(w, {"running"}, AnyWish)
      <3>1. attempts' = TreeDead(a) /\ UNCHANGED <<job, serial>>
        BY <1>6, <2>2 DEF Unwind, queue
      <3>2. LedgerFrame
        BY <3>1, TreeDeadFrame, LedgerTypes DEF LedgerFrame, Started, Unfinished
      <3> QED BY <3>2, LedgerFramed
    <2> QED BY <2>1, <2>2
  <1>7. CASE DeathUnproven(w)
    BY <1>7, LedgerUntouched DEF DeathUnproven, canonical, queue
  <1> QED BY <1>1, <1>2, <1>3, <1>4, <1>5, <1>6, <1>7 DEF Execution

LEMMA SettlementLedger ==
  ASSUME TypeOK, LedgerInv, NEW w \in Worker, Settlement(w) PROVE LedgerInv'
  <1>1. CASE Succeed(w)
    BY <1>1, TerminalLedger DEF Succeed, queue
  <1>2. CASE SuccessLost(w) \/ ReleaseFails(w) \/ TellQueue(w)
    BY <1>2, LedgerUntouched DEF SuccessLost, ReleaseFails, TellQueue, canonical, queue
  <1>3. CASE SealCancelled(w)
    <2>1. CASE Owns(w, Busy, FailDesires(w, "cancelled"))
      BY <1>3, <2>1, TerminalLedger DEF SealCancelled, Fail, queue
    <2>2. CASE ~Owns(w, Busy, FailDesires(w, "cancelled"))
      BY <1>3, <2>2, LedgerUntouched DEF SealCancelled, canonical, queue
    <2> QED BY <2>1, <2>2
  <1>4. CASE RetryLater(w)
    <2>1. CASE Owns(w, Busy, {"run"})
      BY <1>4, <2>1, TerminalLedger DEF RetryLater, queue
    <2>2. CASE ~Owns(w, Busy, {"run"})
      BY <1>4, <2>2, LedgerUntouched DEF RetryLater, canonical, queue
    <2> QED BY <2>1, <2>2
  <1>5. CASE FailForGood(w)
    <2> DEFINE o == IF delivery[w].mode = "cancelled" THEN "cancelled" ELSE "failed"
    <2>1. CASE delivery[w].mode = "unsafe" /\ Owns(w, Busy, AnyWish)
      <3>1. Terminal(w, "unsafe", "failed", "interrupted") /\ serial' = serial
        BY <1>5, <2>1 DEF FailForGood, queue
      <3> QED BY <2>1, <3>1, TerminalLedger
    <2>2. CASE delivery[w].mode # "unsafe" /\ Owns(w, Busy, FailDesires(w, o))
      <3>1. Fail(w, o) /\ serial' = serial
        BY <1>5, <2>2 DEF FailForGood, queue
      <3> QED BY <2>2, <3>1, TerminalLedger DEF Fail
    <2>3. CASE /\ ~(delivery[w].mode = "unsafe" /\ Owns(w, Busy, AnyWish))
               /\ ~(delivery[w].mode # "unsafe" /\ Owns(w, Busy, FailDesires(w, o)))
      BY <1>5, <2>3, LedgerUntouched DEF FailForGood, canonical, queue
    <2> QED BY <2>1, <2>2, <2>3
  <1> QED BY <1>1, <1>2, <1>3, <1>4, <1>5 DEF Settlement

LEMMA ControlLedger ==
  ASSUME TypeOK, LedgerInv, Cancel \/ Reprioritize \/ RecoverDeferral \/ FlagTransport
  PROVE  LedgerInv'
  <1>0. job \in JobRow /\ job.fence \in Nat
    BY LedgerTypes DEF TypeOK
  <1>1. CASE Cancel
    <2>1. UNCHANGED <<attempts, serial>>
      BY <1>1 DEF Cancel
    <2>2. CASE job' = [Settled("cancelled") EXCEPT !.desired = "cancel", !.fence = @ + 1]
      <3>1. job'.current = job.current /\ job'.fence = job.fence + 1 /\ job'.phase = "terminal"
        BY <1>0, <2>2 DEF Settled, JobRow
      <3> QED BY <1>0, <2>1, <3>1, LedgerJobChanged
    <2>3. CASE job' = [job EXCEPT !.desired = "cancel", !.phase = "stopping"]
      <3>1. job'.current = job.current /\ job'.fence = job.fence /\ job'.phase = "stopping"
        BY <1>0, <2>3 DEF JobRow
      <3> QED BY <1>0, <2>1, <3>1, LedgerJobChanged
    <2> QED BY <1>1, <2>2, <2>3 DEF Cancel
  <1>2. CASE Reprioritize
    <2>1. UNCHANGED attempts /\ serial'.attempt = serial.attempt
      BY <1>2 DEF Reprioritize, TypeOK
    <2>2. /\ job'.current = job.current /\ job'.fence = job.fence + 1
          /\ job'.phase = "queued" /\ job.phase = "queued"
      BY <1>0, <1>2 DEF Reprioritize, JobRow
    <2>3. LedgerFrame
      BY <1>0, <2>1, <2>2 DEF LedgerFrame, Started, Unfinished
    <2> QED BY <2>3, LedgerFramed
  <1>3. CASE RecoverDeferral \/ FlagTransport
    <2>1. UNCHANGED attempts /\ serial'.attempt = serial.attempt
      BY <1>3 DEF RecoverDeferral, FlagTransport, queue, TypeOK
    <2>2. job'.current = job.current /\ job'.fence = job.fence /\ job'.phase = job.phase
      BY <1>0, <1>3 DEF RecoverDeferral, FlagTransport, JobRow
    <2>3. LedgerFrame
      BY <1>0, <2>1, <2>2 DEF LedgerFrame, Started, Unfinished
    <2> QED BY <2>3, LedgerFramed
  <1> QED BY <1>1, <1>2, <1>3

LEMMA NextLedger ==
  ASSUME TypeOK, LedgerInv, [Next]_vars PROVE LedgerInv'
  <1>1. CASE UNCHANGED vars
    BY <1>1, LedgerUntouched DEF vars
  <1>2. ASSUME NEW w \in Worker, Environment(w) \/ Notify(w) PROVE LedgerInv'
    BY <1>2, LedgerUntouched
    DEF Environment, Crash, GracefulStop, RuntimeExpires, RuntimeLapses, Heartbeat, Notify,
        canonical, queue
  <1>3. ASSUME NEW a \in Attempt, LeaderExits(a) \/ ChildExits(a) PROVE LedgerInv'
    <2>1. UNCHANGED <<job, serial>>
      BY <1>3 DEF LeaderExits, ChildExits, queue
    <2>2. CASE ChildExits(a)
      <3>1. LedgerFrame
        BY <2>1, <2>2, TreeDeadFrame, LedgerTypes DEF ChildExits, LedgerFrame, Started, Unfinished
      <3> QED BY <3>1, LedgerFramed
    <2>3. CASE LeaderExits(a)
      <3> DEFINE r == [attempts[a] EXCEPT !.child = "orphaned"]
      <3>1. attempts' = [attempts EXCEPT ![a] = r]
        BY <2>3 DEF LeaderExits
      <3>2. r.phase = attempts[a].phase /\ r.fence = attempts[a].fence /\ r.effect = attempts[a].effect
        BY RowFrame DEF TypeOK
      <3> HIDE DEF r
      <3> QED BY <2>1, <3>1, <3>2, LedgerAttemptChanged
    <2> QED BY <1>3, <2>2, <2>3
  <1> QED
    BY <1>1, <1>2, <1>3, StartupLedger, PreAdmissionLedger, AdmissionLedger, ExecutionLedger,
       SettlementLedger, ControlLedger
    DEF Next

LEMMA InitLedger ==
  ASSUME Init PROVE LedgerInv
  BY DEF Init, LedgerInv, UnusedAttempt, Started, Unfinished, Attempt

LEMMA LedgerInvariant == Spec => [](TypeOK /\ LedgerInv)
  <1>1. Init => TypeOK /\ LedgerInv
    BY InitTyped, InitLedger
  <1>2. TypeOK /\ LedgerInv /\ [Next]_vars => (TypeOK /\ LedgerInv)'
    BY NextTyped, NextLedger
  <1> QED BY <1>1, <1>2, PTL DEF Spec

\* At most one attempt is unfinished, it is the one the running job names, and
\* fences order the attempts, for any number of workers, tickets and faults.
THEOREM AttemptLedgerHolds == Spec => []AttemptLedger
  <1>1. ASSUME TypeOK, LedgerInv PROVE AttemptLedger
    <2>1. \A a, b \in Attempt : Unfinished(a) /\ Unfinished(b) => a = b
      BY <1>1 DEF LedgerInv
    <2>2. \A a, b \in Attempt : a < b /\ Started(b) => Started(a)
      BY <1>1, LedgerTypes DEF LedgerInv
    <2> QED BY <1>1, <2>1, <2>2 DEF LedgerInv, AttemptLedger
  <1> QED BY <1>1, LedgerInvariant, PTL

-----------------------------------------------------------------------------
(* What single steps may never do, from the ledger invariant.              *)

LEMMA OnlyAdmissionCounts ==
  ASSUME TypeOK, [Next]_vars
  PROVE  \/ serial'.attempt = serial.attempt
         \/ \E w \in Worker : AdmitAttempt(w) \/ SupersedeAttempt(w)
  <1>1. CASE UNCHANGED vars
    BY <1>1 DEF vars
  <1>2. ASSUME NEW w \in Worker, Startup(w) \/ Environment(w) \/ Notify(w)
        PROVE  serial' = serial
    BY <1>2
    DEF Startup, Register, Ready, SelectOrphan, ReconcileOrphan, Environment, Crash, GracefulStop,
        RuntimeExpires, RuntimeLapses, Heartbeat, Notify, queue
  <1>3. ASSUME NEW w \in Worker, PreAdmission(w)
        PROVE  serial' = serial
    BY <1>3
    DEF PreAdmission, Pick, Redeliver, DeliverTwice, TakeTicket, Preflight, WaitForGate,
        AcquireGates, GateCancelled, GateTimeout, GateConnectionLost, GateSessionBroken, GiveUp,
        Defer, DeferralExhausted, DeferralMoot, RecheckDeferral, ApplyIntent, queue
  <1>4. ASSUME NEW w \in Worker, Admission(w)
        PROVE  serial' = serial \/ AdmitAttempt(w) \/ SupersedeAttempt(w)
    BY <1>4
    DEF Admission, AdmitNothing, AdmitBusy, ExamineAttempt, CandidateGone, CondemnAttempt,
        SupersedeRefused, queue
  <1>5. ASSUME NEW w \in Worker, Execution(w) \/ Settlement(w)
        PROVE  serial' = serial
    BY <1>5
    DEF Execution, LaunchChild, RecordIntent, Publish, PublishTorn, Return, Raise, Unwind,
        DeathUnproven, Settlement, Succeed, SuccessLost, SealCancelled, RetryLater, FailForGood,
        ReleaseFails, TellQueue, queue
  <1>6. ASSUME NEW a \in Attempt, LeaderExits(a) \/ ChildExits(a)
        PROVE  serial' = serial
    BY <1>6 DEF LeaderExits, ChildExits, queue
  <1>7. CASE Cancel \/ Reprioritize \/ RecoverDeferral \/ FlagTransport
    BY <1>7 DEF Cancel, Reprioritize, RecoverDeferral, FlagTransport, queue, TypeOK
  <1> QED BY <1>1, <1>2, <1>3, <1>4, <1>5, <1>6, <1>7 DEF Next

\* A worker never admits a replacement beside an attempt whose incarnation is
\* alive, however long ago it examined that attempt.
THEOREM HeldWorkIsNotClaimedHolds == Spec => HeldWorkIsNotClaimed
  <1>1. ASSUME TypeOK, LedgerInv, [Next]_vars
        PROVE  [\A a \in Attempt : Unfinished(a) /\ Fresh(a) =>
                                     serial'.attempt = serial.attempt]_vars
    <2>1. ASSUME NEW w \in Worker, AdmitAttempt(w)
          PROVE  \A a \in Attempt : ~Unfinished(a)
      BY <1>1, <2>1 DEF AdmitAttempt, LedgerInv
    <2>2. ASSUME NEW w \in Worker, SupersedeAttempt(w)
          PROVE  \A a \in Attempt : Unfinished(a) => ~Fresh(a)
      <3>1. Candidate(delivery[w].attempt) /\ ~Fresh(delivery[w].attempt)
        BY <2>2 DEF SupersedeAttempt, Supersedable
      <3> QED BY <1>1, <3>1 DEF Candidate, LedgerInv
    <2> QED BY <1>1, <2>1, <2>2, OnlyAdmissionCounts
  <1> QED BY <1>1, LedgerInvariant, PTL DEF Spec, HeldWorkIsNotClaimed

EffectFrame == \A a \in Attempt : attempts'[a].effect = attempts[a].effect

LEMMA ClosedEffect ==
  ASSUME TypeOK, NEW a, NEW o, attempts' = Closed(a, o)
  PROVE  EffectFrame
  <1>1. \A r \in AttemptRow : [r EXCEPT !.phase = "finished", !.outcome = o].effect = r.effect
    BY DEF AttemptRow
  <1> QED BY <1>1 DEF Closed, EffectFrame, TypeOK

LEMMA ChildEffect ==
  ASSUME TypeOK, NEW a, NEW c, attempts' = [attempts EXCEPT ![a].child = c]
  PROVE  EffectFrame
  <1>1. \A r \in AttemptRow : [r EXCEPT !.child = c].effect = r.effect
    BY DEF AttemptRow
  <1> QED BY <1>1 DEF EffectFrame, TypeOK

LEMMA StartEffect ==
  ASSUME TypeOK, LedgerInv, NEW w \in Worker, NEW ledger,
         \A a \in Attempt : ledger[a].effect = attempts[a].effect,
         ledger \in [Attempt -> AttemptRow], StartAttempt(w, ledger)
  PROVE  EffectFrame
  <1> DEFINE n == serial.attempt + 1
  <1>1. n \in Attempt
    BY JobDeliveryAssumption DEF StartAttempt, TypeOK, Attempt
  <1>2. attempts'[n].effect = FALSE
    BY <1>1 DEF StartAttempt, UnusedAttempt
  <1>3. attempts[n].effect = FALSE
    BY <1>1, LedgerTypes DEF LedgerInv, TypeOK, AttemptRow
  <1>4. \A a \in Attempt \ {n} : attempts'[a] = ledger[a]
    BY DEF StartAttempt
  <1> QED BY <1>2, <1>3, <1>4 DEF EffectFrame

LEMMA OnlyPublicationHasEffect ==
  ASSUME TypeOK, LedgerInv, [Next]_vars
  PROVE  EffectFrame \/ \E w \in Worker : Publish(w) \/ PublishTorn(w)
  <1>0. UNCHANGED attempts => EffectFrame
    BY DEF EffectFrame
  <1>1. CASE UNCHANGED vars
    BY <1>0, <1>1 DEF vars
  <1>2. ASSUME NEW w \in Worker, Startup(w) \/ Environment(w) \/ Notify(w)
        PROVE  EffectFrame
    <2>1. CASE SelectOrphan(w)
      BY <2>1, ChildEffect DEF SelectOrphan
    <2>2. CASE ReconcileOrphan(w)
      BY <1>0, <2>2, ClosedEffect DEF ReconcileOrphan, Terminal, BackToQueue, canonical
    <2> QED BY <1>0, <1>2, <2>1, <2>2
            DEF Startup, Register, Ready, Environment, Crash, GracefulStop, RuntimeExpires,
                RuntimeLapses, Heartbeat, Notify, canonical
  <1>3. ASSUME NEW w \in Worker, PreAdmission(w)
        PROVE  EffectFrame
    BY <1>0, <1>3
    DEF PreAdmission, Pick, Redeliver, DeliverTwice, TakeTicket, Preflight, WaitForGate,
        AcquireGates, GateCancelled, GateTimeout, GateConnectionLost, GateSessionBroken, GiveUp,
        Defer, DeferralExhausted, DeferralMoot, RecheckDeferral, ApplyIntent, canonical
  <1>4. ASSUME NEW w \in Worker, Admission(w)
        PROVE  EffectFrame
    <2>1. CASE AdmitAttempt(w)
      BY <2>1, StartEffect DEF AdmitAttempt, TypeOK
    <2>2. CASE ExamineAttempt(w)
      BY <2>2, ChildEffect DEF ExamineAttempt
    <2>3. CASE CondemnAttempt(w)
      BY <1>0, <2>3, ClosedEffect DEF CondemnAttempt, Terminal, canonical
    <2>4. CASE SupersedeAttempt(w)
      <3> DEFINE a == delivery[w].attempt
      <3>1. a \in Attempt
        BY <2>4 DEF SupersedeAttempt, Supersedable, Candidate, Unfinished
      <3>2. Closed(a, "interrupted") \in [Attempt -> AttemptRow]
        BY <3>1, ClosedTyped DEF TypeOK, AttemptOutcome
      <3>3. \A r \in AttemptRow :
              [r EXCEPT !.phase = "finished", !.outcome = "interrupted"].effect = r.effect
        BY DEF AttemptRow
      <3>4. \A b \in Attempt : Closed(a, "interrupted")[b].effect = attempts[b].effect
        BY <3>3 DEF Closed, TypeOK
      <3> QED BY <2>4, <3>2, <3>4, StartEffect DEF SupersedeAttempt
    <2> QED BY <1>0, <1>4, <2>1, <2>2, <2>3, <2>4
            DEF Admission, AdmitNothing, AdmitBusy, CandidateGone, SupersedeRefused, canonical
  <1>5. ASSUME NEW w \in Worker, Execution(w)
        PROVE  EffectFrame \/ Publish(w) \/ PublishTorn(w)
    <2> DEFINE a == delivery[w].attempt
    <2>1. CASE LaunchChild(w)
      <3>1. \A r \in AttemptRow :
              [r EXCEPT !.identified = TRUE, !.child = "live"].effect = r.effect
        BY DEF AttemptRow
      <3>2. attempts' = [attempts EXCEPT ![a] =
                           [attempts[a] EXCEPT !.identified = TRUE, !.child = "live"]]
        BY <2>1 DEF LaunchChild
      <3> QED BY <3>1, <3>2 DEF EffectFrame, TypeOK
    <2>2. CASE RecordIntent(w)
      <3>1. \A r \in AttemptRow :
              [r EXCEPT !.intent = TRUE, !.publication = FALSE].effect = r.effect
        BY DEF AttemptRow
      <3> QED BY <2>2, <3>1 DEF RecordIntent, EffectFrame, TypeOK
    <2>3. CASE Return(w) \/ Raise(w)
      BY <2>3, TreeDeadFrame DEF Return, Raise, EffectFrame
    <2>4. CASE Unwind(w)
      <3>1. \A r \in AttemptRow : [r EXCEPT !.phase = "stopping"].effect = r.effect
        BY DEF AttemptRow
      <3>2. \/ attempts' = TreeDead(a)
            \/ attempts' = [TreeDead(a) EXCEPT ![a].phase = "stopping"]
        BY <2>4 DEF Unwind
      <3>3. /\ TreeDead(a) \in [Attempt -> AttemptRow]
            /\ \A b \in Attempt : TreeDead(a)[b].effect = attempts[b].effect
        BY TreeDeadFrame
      <3>4. CASE attempts' = TreeDead(a)
        BY <3>3, <3>4 DEF EffectFrame
      <3>5. CASE attempts' = [TreeDead(a) EXCEPT ![a].phase = "stopping"]
        BY <3>1, <3>3, <3>5 DEF EffectFrame
      <3> QED BY <3>2, <3>4, <3>5
    <2>5. CASE DeathUnproven(w)
      BY <1>0, <2>5 DEF DeathUnproven, canonical
    <2> QED BY <1>5, <2>1, <2>2, <2>3, <2>4, <2>5 DEF Execution
  <1>6. ASSUME NEW w \in Worker, Settlement(w)
        PROVE  EffectFrame
    <2>1. UNCHANGED attempts \/ \E a, o : attempts' = Closed(a, o)
      <3>1. CASE FailForGood(w)
        BY <3>1 DEF FailForGood, Fail, Terminal, canonical
      <3>2. CASE SealCancelled(w) \/ RetryLater(w)
        BY <3>2 DEF SealCancelled, RetryLater, Fail, Terminal, BackToQueue, canonical
      <3> QED BY <1>6, <3>1, <3>2
              DEF Settlement, Succeed, SuccessLost, ReleaseFails, TellQueue, Terminal, canonical
    <2> QED BY <1>0, <2>1, ClosedEffect
  <1>7. ASSUME NEW a \in Attempt, LeaderExits(a) \/ ChildExits(a)
        PROVE  EffectFrame
    <2>1. CASE LeaderExits(a)
      BY <2>1, ChildEffect DEF LeaderExits
    <2>2. CASE ChildExits(a)
      BY <2>2, TreeDeadFrame DEF ChildExits, EffectFrame
    <2> QED BY <1>7, <2>1, <2>2
  <1>8. CASE Cancel \/ Reprioritize \/ RecoverDeferral \/ FlagTransport
    BY <1>0, <1>8 DEF Cancel, Reprioritize, RecoverDeferral, FlagTransport
  <1> QED BY <1>1, <1>2, <1>3, <1>4, <1>5, <1>6, <1>7, <1>8 DEF Next

\* Only the current attempt of a running and still wanted job replaces a
\* destination: not after cancellation was accepted, not after a verdict, not
\* from an attempt that was superseded.
THEOREM EffectWhileWantedHolds == Spec => EffectWhileWanted
  <1>1. ASSUME TypeOK, LedgerInv, [Next]_vars
        PROVE  [\A a \in Attempt : attempts'[a].effect # attempts[a].effect =>
                  /\ a = job.current /\ Unfinished(a) /\ attempts[a].fence = job.fence
                  /\ job.phase = "running" /\ job.desired = "run"]_vars
    <2>1. ASSUME NEW w \in Worker, Publish(w) \/ PublishTorn(w), NEW a \in Attempt,
                 attempts'[a].effect # attempts[a].effect
          PROVE  /\ a = job.current /\ Unfinished(a) /\ attempts[a].fence = job.fence
                 /\ job.phase = "running" /\ job.desired = "run"
      <3>1. Owns(w, {"running"}, {"run"})
        BY <2>1 DEF Publish, PublishTorn, MayPublish
      <3>2. a = delivery[w].attempt
        BY <1>1, <2>1 DEF Publish, PublishTorn, TypeOK
      <3> QED BY <1>1, <3>1, <3>2 DEF Owns, Claims, LedgerInv
    <2> QED BY <1>1, <2>1, OnlyPublicationHasEffect DEF EffectFrame
  <1> QED BY <1>1, LedgerInvariant, PTL DEF Spec, EffectWhileWanted

-----------------------------------------------------------------------------
(* A mutation that is not replay-safe is attempted once.                   *)

\* A delivery that executes or fails has an attempt, and an orphan that is not
\* replay-safe is only ever reconciled as unsafe.
RowInv(d) ==
  /\ d.step \in {"executing", "failing"} => d.attempt \in Attempt
  /\ UnsafeMutation /\ d.step = "reconciling" => d.mode = "unsafe"

RowsInv == \A w \in Worker : RowInv(delivery[w])

\* Once its attempt exists, such a job never waits in the queue again.
OnceInv ==
  UnsafeMutation => /\ serial.attempt <= 1
                    /\ job.phase = "queued" => serial.attempt = 0

QuietStep == Step \ {"executing", "failing", "reconciling"}

LEMMA OneRowChanged ==
  ASSUME TypeOK, RowsInv, kind' = kind, NEW w \in Worker, NEW r,
         delivery' = [delivery EXCEPT ![w] = r], RowInv(r)
  PROVE  RowsInv'
  BY DEF RowsInv, RowInv, TypeOK, UnsafeMutation

LEMMA QuietRow ==
  ASSUME NEW r \in DeliveryRow, r.step \in QuietStep
  PROVE  RowInv(r)
  BY DEF RowInv, QuietStep

LEMMA QuietMove ==
  ASSUME TypeOK, RowsInv, kind' = kind, NEW w \in Worker, NEW s \in QuietStep, NEW m \in Mode,
         \/ delivery' = Goto(w, s)
         \/ delivery' = GotoAs(w, s, m)
         \/ delivery' = Answer(w, m)
         \/ delivery' = Finish(w, m)
  PROVE  RowsInv'
  <1>1. s \in Step /\ "reply" \in QuietStep /\ "releasing" \in QuietStep
    BY DEF QuietStep, Step
  <1>2. \A p \in QuietStep :
          /\ [delivery[w] EXCEPT !.step = p].step = p
          /\ [delivery[w] EXCEPT !.step = p] \in DeliveryRow
          /\ [delivery[w] EXCEPT !.step = p, !.mode = m].step = p
          /\ [delivery[w] EXCEPT !.step = p, !.mode = m] \in DeliveryRow
    <2>1. delivery[w] \in DeliveryRow
      BY DEF TypeOK
    <2>2. \A r \in DeliveryRow, p \in Step :
            /\ [r EXCEPT !.step = p].step = p /\ [r EXCEPT !.step = p] \in DeliveryRow
            /\ [r EXCEPT !.step = p, !.mode = m].step = p
            /\ [r EXCEPT !.step = p, !.mode = m] \in DeliveryRow
      BY DEF DeliveryRow
    <2> QED BY <2>1, <2>2 DEF QuietStep
  <1>3. CASE delivery' = Goto(w, s)
    BY <1>2, <1>3, QuietRow, OneRowChanged DEF Goto
  <1>4. ASSUME NEW p \in QuietStep, delivery' = GotoAs(w, p, m)
        PROVE  RowsInv'
    <2> DEFINE r == [delivery[w] EXCEPT !.step = p, !.mode = m]
    <2>1. GotoAs(w, p, m) = [delivery EXCEPT ![w] = r]
      BY DEF GotoAs, TypeOK
    <2>2. RowInv(r)
      BY <1>2, QuietRow
    <2>3. delivery' = [delivery EXCEPT ![w] = r]
      BY <1>4, <2>1
    <2> HIDE DEF r
    <2> QED BY <2>2, <2>3, OneRowChanged
  <1>5. CASE delivery' = Answer(w, m)
    BY <1>1, <1>4, <1>5 DEF Answer
  <1>6. CASE delivery' = Finish(w, m)
    BY <1>1, <1>4, <1>6 DEF Finish
  <1> QED BY <1>3, <1>4, <1>5, <1>6

LEMMA IdleRow ==
  ASSUME TypeOK, RowsInv, kind' = kind, NEW w \in Worker,
         delivery' = [delivery EXCEPT ![w] = IdleDelivery]
  PROVE  RowsInv'
  <1>1. RowInv(IdleDelivery)
    BY DEF RowInv, IdleDelivery
  <1> QED BY <1>1, OneRowChanged

LEMMA SameRows ==
  ASSUME RowsInv, kind' = kind, delivery' = delivery
  PROVE  RowsInv'
  BY DEF RowsInv, RowInv, UnsafeMutation

LEMMA StartupRows ==
  ASSUME TypeOK, RowsInv, NEW w \in Worker, Startup(w) PROVE RowsInv'
  <1>1. CASE Register(w) \/ Ready(w)
    BY <1>1, QuietMove DEF Register, Ready, QuietStep, Step, Mode
  <1>2. CASE SelectOrphan(w)
    <2>1. PICK v \in Assess(job.current, w) : delivery' =
            [delivery EXCEPT ![w] =
               [@ EXCEPT !.step = "reconciling", !.attempt = job.current,
                         !.fence = job.fence, !.generation = job.generation,
                         !.mode = IF v.verdict = "unsafe" THEN "unsafe"
                                  ELSE IF job.desired = "cancel" THEN "cancel"
                                  ELSE "interrupt"]]
      BY <1>2 DEF SelectOrphan
    <2> DEFINE r == [delivery[w] EXCEPT !.step = "reconciling", !.attempt = job.current,
                         !.fence = job.fence, !.generation = job.generation,
                         !.mode = IF v.verdict = "unsafe" THEN "unsafe"
                                  ELSE IF job.desired = "cancel" THEN "cancel"
                                  ELSE "interrupt"]
    <2>2. UnsafeMutation => v.verdict = "unsafe"
      BY <1>2, <2>1 DEF SelectOrphan, Assess, SameHostAssessments, Assessment, Replayable
    <2>3. delivery[w] \in DeliveryRow
      BY DEF TypeOK
    <2>4. r.step = "reconciling" /\ (v.verdict = "unsafe" => r.mode = "unsafe")
      BY <2>3 DEF DeliveryRow
    <2>5. RowInv(r)
      BY <2>2, <2>4 DEF RowInv
    <2>6. delivery' = [delivery EXCEPT ![w] = r] /\ kind' = kind
      BY <1>2, <2>1 DEF SelectOrphan
    <2> QED BY <2>5, <2>6, OneRowChanged
  <1>3. CASE ReconcileOrphan(w)
    BY <1>3, IdleRow DEF ReconcileOrphan
  <1> QED BY <1>1, <1>2, <1>3 DEF Startup

LEMMA PreAdmissionRows ==
  ASSUME TypeOK, RowsInv, NEW w \in Worker, PreAdmission(w) PROVE RowsInv'
  <1>1. ASSUME NEW t \in Ticket, TakeTicket(w, t) PROVE RowsInv'
    <2> DEFINE r == [IdleDelivery EXCEPT !.step = "picked", !.ticket = t,
                                         !.generation = tickets[t].generation]
    <2>1. RowInv(r)
      BY DEF RowInv, IdleDelivery
    <2> QED BY <1>1, <2>1, OneRowChanged DEF TakeTicket
  <1>2. CASE \E t \in Ticket : Pick(w, t) \/ Redeliver(w, t) \/ DeliverTwice(w, t)
    BY <1>1, <1>2 DEF Pick, Redeliver, DeliverTwice
  <1>3. CASE Preflight(w) \/ RecheckDeferral(w)
    <2>1. /\ kind' = kind
          /\ \E s \in {"gating", "intent"}, m \in Mode :
               delivery' = Goto(w, s) \/ delivery' = Answer(w, m)
      BY <1>3 DEF Preflight, RecheckDeferral, Mode
    <2> QED BY <2>1, QuietMove DEF QuietStep, Step
  <1>4. CASE WaitForGate(w) \/ AcquireGates(w) \/ GateCancelled(w) \/ Defer(w) \/ DeferralMoot(w)
    BY <1>4, QuietMove
    DEF WaitForGate, AcquireGates, GateCancelled, Defer, DeferralMoot, QuietStep, Step, Mode
  <1>5. CASE GateTimeout(w) \/ GateConnectionLost(w) \/ GateSessionBroken(w)
    BY <1>5, QuietMove
    DEF GateTimeout, GateConnectionLost, GateSessionBroken, GiveUp, QuietStep, Step, Mode
  <1>6. CASE DeferralExhausted(w)
    BY <1>6, QuietMove DEF DeferralExhausted, QuietStep, Step, Mode
  <1>7. CASE ApplyIntent(w)
    <2>1. kind' = kind /\ (delivery' = Answer(w, "ack") \/ delivery' = Finish(w, "ack"))
      BY <1>7 DEF ApplyIntent
    <2> QED BY <2>1, QuietMove DEF QuietStep, Step, Mode
  <1> QED BY <1>2, <1>3, <1>4, <1>5, <1>6, <1>7 DEF PreAdmission

LEMMA StartAttemptRows ==
  ASSUME TypeOK, RowsInv, kind' = kind, NEW w \in Worker, NEW ledger, StartAttempt(w, ledger)
  PROVE  RowsInv'
  <1> DEFINE n == serial.attempt + 1
             r == [delivery[w] EXCEPT !.step = "executing", !.attempt = n, !.fence = job.fence + 1]
  <1>1. n \in Attempt
    BY JobDeliveryAssumption DEF StartAttempt, TypeOK, Attempt
  <1>2. delivery[w] \in DeliveryRow
    BY DEF TypeOK
  <1>3. r.step = "executing" /\ r.attempt = n
    BY <1>2 DEF DeliveryRow
  <1>4. RowInv(r)
    BY <1>1, <1>3 DEF RowInv
  <1>5. delivery' = [delivery EXCEPT ![w] = r]
    BY DEF StartAttempt
  <1> QED BY <1>4, <1>5, OneRowChanged

LEMMA AdmissionRows ==
  ASSUME TypeOK, RowsInv, NEW w \in Worker, Admission(w) PROVE RowsInv'
  <1>1. CASE AdmitNothing(w) \/ CandidateGone(w) \/ CondemnAttempt(w) \/ SupersedeRefused(w)
    <2>1. kind' = kind /\ \/ delivery' = Goto(w, "unadmitted")
                          \/ \E m \in Mode : delivery' = Finish(w, m)
      BY <1>1 DEF AdmitNothing, CandidateGone, CondemnAttempt, SupersedeRefused, Mode
    <2> QED BY <2>1, QuietMove DEF QuietStep, Step, Mode
  <1>2. CASE AdmitAttempt(w) \/ SupersedeAttempt(w)
    BY <1>2, StartAttemptRows DEF AdmitAttempt, SupersedeAttempt
  <1>3. CASE AdmitBusy(w)
    <2>1. PICK a \in Attempt :
            \/ delivery' = Finish(w, "requeue")
            \/ delivery' = [delivery EXCEPT ![w] =
                              [delivery[w] EXCEPT !.step = "recovering", !.attempt = a]]
      BY <1>3 DEF AdmitBusy
    <2>2. kind' = kind
      BY <1>3 DEF AdmitBusy
    <2>3. delivery[w] \in DeliveryRow
      BY DEF TypeOK
    <2>4. [delivery[w] EXCEPT !.step = "recovering", !.attempt = a].step = "recovering"
      BY <2>3 DEF DeliveryRow
    <2>5. RowInv([delivery[w] EXCEPT !.step = "recovering", !.attempt = a])
      BY <2>4 DEF RowInv
    <2>6. CASE delivery' = Finish(w, "requeue")
      BY <2>2, <2>6, QuietMove DEF QuietStep, Step, Mode
    <2>7. CASE delivery' = [delivery EXCEPT ![w] =
                              [delivery[w] EXCEPT !.step = "recovering", !.attempt = a]]
      BY <2>2, <2>5, <2>7, OneRowChanged
    <2> QED BY <2>1, <2>6, <2>7
  <1>4. CASE ExamineAttempt(w)
    <2>1. PICK p \in {"condemning", "superseding"} :
            \/ delivery' = Finish(w, "requeue")
            \/ delivery' = [delivery EXCEPT ![w] =
                              [delivery[w] EXCEPT !.fence = job.fence, !.step = p]]
      BY <1>4 DEF ExamineAttempt
    <2>2. kind' = kind
      BY <1>4 DEF ExamineAttempt
    <2>3. delivery[w] \in DeliveryRow
      BY DEF TypeOK
    <2>4. [delivery[w] EXCEPT !.fence = job.fence, !.step = p].step = p
      BY <2>3 DEF DeliveryRow
    <2>5. RowInv([delivery[w] EXCEPT !.fence = job.fence, !.step = p])
      BY <2>4 DEF RowInv
    <2>6. CASE delivery' = Finish(w, "requeue")
      BY <2>2, <2>6, QuietMove DEF QuietStep, Step, Mode
    <2>7. CASE delivery' = [delivery EXCEPT ![w] =
                              [delivery[w] EXCEPT !.fence = job.fence, !.step = p]]
      BY <2>2, <2>5, <2>7, OneRowChanged
    <2> QED BY <2>1, <2>6, <2>7
  <1> QED BY <1>1, <1>2, <1>3, <1>4 DEF Admission

\* A handler that executes fails with the attempt it executed.
LEMMA FailingRow ==
  ASSUME TypeOK, RowsInv, kind' = kind, NEW w \in Worker, NEW m \in Mode, Executing(w),
         delivery' = GotoAs(w, "failing", m)
  PROVE  RowsInv'
  <1> DEFINE r == [delivery[w] EXCEPT !.step = "failing", !.mode = m]
  <1>1. delivery[w] \in DeliveryRow /\ delivery[w].attempt \in Attempt
    BY DEF TypeOK, RowsInv, RowInv, Executing
  <1>2. r.step = "failing" /\ r.attempt = delivery[w].attempt
    BY <1>1 DEF DeliveryRow
  <1>3. RowInv(r)
    BY <1>1, <1>2 DEF RowInv
  <1> QED BY <1>3, OneRowChanged DEF GotoAs

LEMMA ExecutionRows ==
  ASSUME TypeOK, RowsInv, NEW w \in Worker, Execution(w) PROVE RowsInv'
  <1>1. CASE LaunchChild(w) \/ RecordIntent(w) \/ Publish(w)
    BY <1>1, SameRows DEF LaunchChild, RecordIntent, Publish
  <1>2. CASE PublishTorn(w)
    BY <1>2, FailingRow DEF PublishTorn, MayPublish, Mode
  <1>3. CASE Return(w)
    BY <1>3, QuietMove DEF Return, QuietStep, Step, Mode
  <1>4. CASE Raise(w)
    <2>1. PICK class \in FailureClass(w) : delivery' = GotoAs(w, "failing", class)
      BY <1>4 DEF Raise
    <2>2. class \in Mode
      BY DEF FailureClass, Mode
    <2> QED BY <1>4, <2>1, <2>2, FailingRow DEF Raise
  <1>5. CASE Unwind(w)
    BY <1>5, QuietMove DEF Unwind, QuietStep, Step, Mode
  <1>6. CASE DeathUnproven(w)
    <2>1. CASE delivery' = GotoAs(w, "failing", "unsafe")
      BY <1>6, <2>1, FailingRow DEF DeathUnproven, Mode
    <2>2. CASE delivery' = Finish(w, "hold")
      BY <1>6, <2>2, QuietMove DEF DeathUnproven, QuietStep, Step, Mode
    <2> QED BY <1>6, <2>1, <2>2 DEF DeathUnproven
  <1> QED BY <1>1, <1>2, <1>3, <1>4, <1>5, <1>6 DEF Execution

LEMMA SettlementRows ==
  ASSUME TypeOK, RowsInv, NEW w \in Worker, Settlement(w) PROVE RowsInv'
  <1>1. CASE TellQueue(w)
    BY <1>1, IdleRow DEF TellQueue
  <1>2. CASE Succeed(w) \/ SuccessLost(w) \/ SealCancelled(w) \/ RetryLater(w) \/ FailForGood(w)
            \/ ReleaseFails(w)
    <2>1. /\ kind' = kind
          /\ \/ delivery' = GotoAs(w, "sealing", "lost")
             \/ \E m \in Mode : delivery' = Finish(w, m) \/ delivery' = Answer(w, m)
      BY <1>2 DEF Succeed, SuccessLost, SealCancelled, RetryLater, FailForGood, ReleaseFails, Mode
    <2> QED BY <2>1, QuietMove DEF QuietStep, Step, Mode
  <1> QED BY <1>1, <1>2 DEF Settlement

LEMMA EnvironmentRows ==
  ASSUME TypeOK, RowsInv, NEW w \in Worker, Environment(w) \/ Notify(w) PROVE RowsInv'
  <1>1. CASE Crash(w)
    <2>1. RowInv([IdleDelivery EXCEPT !.step = "down"])
      BY DEF RowInv, IdleDelivery
    <2> QED BY <1>1, <2>1, OneRowChanged DEF Crash
  <1>2. CASE GracefulStop(w)
    BY <1>2, QuietMove DEF GracefulStop, QuietStep, Step, Mode
  <1>3. CASE RuntimeExpires(w) \/ RuntimeLapses(w) \/ Heartbeat(w)
    BY <1>3, SameRows DEF RuntimeExpires, RuntimeLapses, Heartbeat
  <1>4. CASE Notify(w)
    <2> DEFINE r == [delivery[w] EXCEPT !.notified = TRUE]
    <2>1. delivery[w] \in DeliveryRow /\ RowInv(delivery[w])
      BY DEF TypeOK, RowsInv
    <2>2. r.step = delivery[w].step /\ r.attempt = delivery[w].attempt /\ r.mode = delivery[w].mode
      BY <2>1 DEF DeliveryRow
    <2>3. RowInv(r)
      BY <2>1, <2>2 DEF RowInv
    <2>4. delivery' = [delivery EXCEPT ![w] = r] /\ kind' = kind
      BY <1>4 DEF Notify
    <2> QED BY <2>3, <2>4, OneRowChanged
  <1> QED BY <1>1, <1>2, <1>3, <1>4 DEF Environment

LEMMA NextRows ==
  ASSUME TypeOK, RowsInv, [Next]_vars PROVE RowsInv' /\ kind' = kind
  <1>1. CASE UNCHANGED vars
    BY <1>1, SameRows DEF vars
  <1>2. ASSUME NEW a \in Attempt, LeaderExits(a) \/ ChildExits(a) PROVE RowsInv' /\ kind' = kind
    BY <1>2, SameRows DEF LeaderExits, ChildExits
  <1>3. CASE Cancel \/ Reprioritize \/ RecoverDeferral \/ FlagTransport
    BY <1>3, SameRows DEF Cancel, Reprioritize, RecoverDeferral, FlagTransport
  <1>4. ASSUME NEW w \in Worker,
               \/ Startup(w) \/ Environment(w) \/ PreAdmission(w) \/ Admission(w)
               \/ Execution(w) \/ Settlement(w) \/ Notify(w)
        PROVE  RowsInv'
    BY <1>4, StartupRows, EnvironmentRows, PreAdmissionRows, AdmissionRows, ExecutionRows,
       SettlementRows
  <1>5. ASSUME NEW w \in Worker,
               \/ Startup(w) \/ Environment(w) \/ Execution(w) \/ Settlement(w) \/ Notify(w)
        PROVE  kind' = kind
    BY <1>5
    DEF Startup, Register, Ready, SelectOrphan, ReconcileOrphan, Environment, Crash, GracefulStop,
        RuntimeExpires, RuntimeLapses, Heartbeat, Execution, LaunchChild, RecordIntent, Publish,
        PublishTorn, Return, Raise, Unwind, DeathUnproven, Settlement, Succeed, SuccessLost,
        SealCancelled, RetryLater, FailForGood, ReleaseFails, TellQueue, Notify
  <1>6. ASSUME NEW w \in Worker, PreAdmission(w) \/ Admission(w)
        PROVE  kind' = kind
    BY <1>6
    DEF PreAdmission, Pick, Redeliver, DeliverTwice, TakeTicket, Preflight, WaitForGate,
        AcquireGates, GateCancelled, GateTimeout, GateConnectionLost, GateSessionBroken, GiveUp,
        Defer, DeferralExhausted, DeferralMoot, RecheckDeferral, ApplyIntent, Admission,
        AdmitNothing, AdmitAttempt, AdmitBusy, ExamineAttempt, CandidateGone, CondemnAttempt, SupersedeAttempt,
        SupersedeRefused
  <1> QED BY <1>1, <1>2, <1>3, <1>4, <1>5, <1>6 DEF Next

\* Who goes back to the queue, and from where.
LEMMA OnlyReleaseRequeues ==
  ASSUME TypeOK, [Next]_vars, job'.phase = "queued", job.phase # "queued"
  PROVE  \E w \in Worker :
           \/ ReconcileOrphan(w) /\ delivery[w].mode = "interrupt" /\ Owns(w, Busy, {"run"})
           \/ RetryLater(w) /\ Owns(w, Busy, {"run"})
  <1>0. /\ job \in JobRow
        /\ \A o : Settled(o).phase = "terminal"
        /\ [Settled("cancelled") EXCEPT !.fence = @ + 1].phase = "terminal"
        /\ [Settled("cancelled") EXCEPT !.desired = "cancel", !.fence = @ + 1].phase = "terminal"
        /\ [job EXCEPT !.phase = "stopping"].phase = "stopping"
        /\ [job EXCEPT !.desired = "cancel", !.phase = "stopping"].phase = "stopping"
    BY DEF TypeOK, JobRow, Settled
  <1>1. ~UNCHANGED vars
    BY DEF vars
  <1>2. ASSUME NEW w \in Worker, Startup(w) \/ Environment(w) \/ Notify(w)
        PROVE  ReconcileOrphan(w) /\ delivery[w].mode = "interrupt" /\ Owns(w, Busy, {"run"})
    <2>1. CASE ReconcileOrphan(w)
      BY <1>0, <2>1 DEF ReconcileOrphan, Terminal, canonical
    <2> QED BY <1>2, <2>1
            DEF Startup, Register, Ready, SelectOrphan, Environment, Crash, GracefulStop,
                RuntimeExpires, RuntimeLapses, Heartbeat, Notify, canonical
  <1>3. ASSUME NEW w \in Worker, PreAdmission(w) PROVE FALSE
    <2>1. CASE WaitForGate(w) \/ Defer(w)
      BY <1>0, <2>1 DEF WaitForGate, Defer, Deferrable, JobRow
    <2> QED BY <1>0, <1>3, <2>1
            DEF PreAdmission, Pick, Redeliver, DeliverTwice, TakeTicket, Preflight,
                AcquireGates, GateCancelled, GateTimeout, GateConnectionLost,
                GateSessionBroken, GiveUp, DeferralExhausted, DeferralMoot, RecheckDeferral,
                ApplyIntent, canonical
  <1>4. ASSUME NEW w \in Worker, Admission(w) PROVE FALSE
    <2>1. CASE AdmitAttempt(w) \/ SupersedeAttempt(w)
      BY <1>0, <2>1 DEF AdmitAttempt, SupersedeAttempt, StartAttempt, JobRow
    <2>2. CASE CondemnAttempt(w)
      BY <1>0, <2>2 DEF CondemnAttempt, Terminal, canonical
    <2> QED BY <1>4, <2>1, <2>2
            DEF Admission, AdmitNothing, AdmitBusy, ExamineAttempt, CandidateGone,
                SupersedeRefused, canonical
  <1>5. ASSUME NEW w \in Worker, Execution(w) PROVE FALSE
    BY <1>0, <1>5
    DEF Execution, LaunchChild, RecordIntent, Publish, PublishTorn, Return, Raise, Unwind,
        DeathUnproven, canonical
  <1>6. ASSUME NEW w \in Worker, Settlement(w) PROVE RetryLater(w) /\ Owns(w, Busy, {"run"})
    <2>1. CASE RetryLater(w)
      BY <2>1 DEF RetryLater, canonical
    <2>2. CASE FailForGood(w)
      BY <1>0, <2>2 DEF FailForGood, Fail, Terminal, canonical
    <2>3. CASE Succeed(w) \/ SuccessLost(w) \/ SealCancelled(w) \/ ReleaseFails(w)
                \/ TellQueue(w)
      BY <1>0, <2>3 DEF Succeed, SuccessLost, SealCancelled, ReleaseFails, TellQueue, Fail, Terminal, canonical
    <2> QED BY <1>6, <2>1, <2>2, <2>3 DEF Settlement
  <1>7. \A a \in Attempt : ~(LeaderExits(a) \/ ChildExits(a))
    BY DEF LeaderExits, ChildExits
  <1>8. ~Cancel
    BY <1>0 DEF Cancel
  <1>9. ~(Reprioritize \/ RecoverDeferral \/ FlagTransport)
    BY <1>0 DEF Reprioritize, RecoverDeferral, PendingDeferral, FlagTransport, JobRow
  <1> QED BY <1>1, <1>2, <1>3, <1>4, <1>5, <1>6, <1>7, <1>8, <1>9 DEF Next

\* No attempt of a mutation that is not replay-safe does.
LEMMA OnlyReplayableRequeues ==
  ASSUME TypeOK, RowsInv, UnsafeMutation, [Next]_vars
  PROVE  job'.phase = "queued" => job.phase = "queued"
  <1> SUFFICES ASSUME job'.phase = "queued", job.phase # "queued" PROVE FALSE
    OBVIOUS
  <1>1. PICK w \in Worker :
          \/ ReconcileOrphan(w) /\ delivery[w].mode = "interrupt"
          \/ RetryLater(w)
    BY OnlyReleaseRequeues
  <1>2. CASE ReconcileOrphan(w) /\ delivery[w].mode = "interrupt"
    BY <1>2 DEF ReconcileOrphan, RowsInv, RowInv
  <1>3. CASE RetryLater(w)
    <2>1. delivery[w].attempt \in Attempt /\ delivery[w].attempt < 1
      BY <1>3 DEF RetryLater, MayRetry, MaxAttempts, RowsInv, RowInv
    <2> QED BY <2>1 DEF Attempt
  <1> QED BY <1>1, <1>2, <1>3

LEMMA NextOnce ==
  ASSUME TypeOK, RowsInv, OnceInv, [Next]_vars PROVE OnceInv'
  <1>1. kind' = kind /\ serial.attempt \in Nat /\ serial'.attempt \in Nat
    BY NextRows, NextTyped DEF TypeOK
  <1>2. CASE UnsafeMutation
    <2>1. job'.phase = "queued" => job.phase = "queued"
      BY <1>2, OnlyReplayableRequeues
    <2>2. CASE serial'.attempt = serial.attempt
      BY <1>2, <2>1, <2>2 DEF OnceInv
    <2>3. ASSUME NEW w \in Worker, AdmitAttempt(w) PROVE OnceInv'
      <3>1. serial.attempt = 0 /\ serial'.attempt = serial.attempt + 1 /\ job'.phase = "running"
        BY <1>2, <2>3 DEF AdmitAttempt, Admissible, StartAttempt, OnceInv, TypeOK, JobRow
      <3> QED BY <3>1 DEF OnceInv
    <2>4. ASSUME NEW w \in Worker, SupersedeAttempt(w) PROVE FALSE
      BY <1>2, <2>4 DEF SupersedeAttempt, Supersedable
    <2> QED BY <2>2, <2>3, <2>4, OnlyAdmissionCounts
  <1>3. CASE ~UnsafeMutation
    BY <1>1, <1>3 DEF OnceInv, UnsafeMutation
  <1> QED BY <1>2, <1>3

LEMMA OnceInvariant == Spec => [](TypeOK /\ RowsInv /\ OnceInv)
  <1>1. Init => TypeOK /\ RowsInv /\ OnceInv
    <2>1. ASSUME Init PROVE RowsInv /\ OnceInv
      BY <2>1 DEF Init, RowsInv, RowInv, OnceInv, IdleDelivery
    <2> QED BY <2>1, InitTyped
  <1>2. TypeOK /\ RowsInv /\ OnceInv /\ [Next]_vars => (TypeOK /\ RowsInv /\ OnceInv)'
    BY NextTyped, NextRows, NextOnce
  <1> QED BY <1>1, <1>2, PTL DEF Spec

\* A mutation that is not replay-safe is attempted at most once, through every
\* crash, redelivery, duplicate delivery and recovery.
THEOREM MutationNeverReplayedHolds == Spec => []MutationNeverReplayed
  <1>1. OnceInv => MutationNeverReplayed
    BY DEF OnceInv, MutationNeverReplayed
  <1> QED BY <1>1, OnceInvariant, PTL

-----------------------------------------------------------------------------
(* What deliveries, tickets and the job row know of each other.            *)

Working == {"executing", "returned", "failing", "sealing"}

\* The job is not wanted any more, as the revision that w delivers.
Unwanted(d) == job.desired = "cancel" \/ d.generation < job.generation

\* The attempt that d runs cannot own the job again.
Lost(d) ==
  \/ d.generation < job.generation \/ d.attempt < job.current \/ d.fence < job.fence
  \/ job.phase = "terminal" \/ attempts[d.attempt].phase = "finished"
  \/ dispatches[d.generation].disposition # "active"

\* Steps of a delivery that has taken a ticket.
Carries == Step \ {"off", "starting", "reconciling", "idle", "down"}

\* A delivery is never ahead of the job, and carries the generation of its ticket.
BoundsInv(d) ==
  /\ d.generation <= job.generation /\ d.attempt <= serial.attempt /\ d.fence <= job.fence
  /\ d.step \in Carries => /\ d.ticket \in Ticket /\ d.ticket <= serial.ticket
                           /\ d.generation = tickets[d.ticket].generation
  /\ d.step \notin Carries => d.ticket = 0 /\ ~d.notified

\* Whoever is told to stop, or seals a cancellation, does so for a job that is not
\* wanted any more, or has lost it.
WantInv(d) ==
  /\ d.notified => Unwanted(d)
  /\ d.step = "sealing" => Unwanted(d)
  /\ d.step = "failing" /\ d.mode = "cancelled" => Unwanted(d) \/ Lost(d)
  /\ d.step \in Working => d.attempt \in Attempt

DeliveryInv(d) == BoundsInv(d) /\ WantInv(d)

TicketInv ==
  /\ \A t \in Ticket : t > serial.ticket => tickets[t].status = "absent"
  /\ \A t \in Ticket : tickets[t].generation <= job.generation
  /\ \A t \in Ticket : t <= serial.ticket => tickets[t].generation \in Generation
  /\ \A t \in Ticket : tickets[t].status = "cancelled" =>
       job.desired = "cancel" \/ tickets[t].generation < job.generation

RowStates ==
  /\ job.phase = "terminal" <=> job.outcome # "none"
  /\ job.phase = "stopping" => job.desired = "cancel"
  /\ job.phase \in {"queued", "running"} => job.desired = "run"

DeliveriesInv == \A w \in Worker : DeliveryInv(delivery[w])

RevisionInv ==
  RowStates /\ TicketInv /\ DeliveriesInv

-----------------------------------------------------------------------------
(* What a step may do to the ledgers, whoever takes it.                    *)

JobKept ==
  /\ job'.phase = job.phase /\ job'.outcome = job.outcome /\ job'.desired = job.desired
  /\ job'.current = job.current /\ job'.generation = job.generation /\ job'.fence = job.fence

AttemptsKept ==
  \A a \in Attempt : attempts'[a].phase = attempts[a].phase
                     /\ attempts'[a].outcome = attempts[a].outcome

DispositionsKept ==
  \A g \in Generation : dispatches'[g].disposition = dispatches[g].disposition

Quiet == JobKept /\ AttemptsKept /\ DispositionsKept

\* A delivery that does not match its dispatch any more.
MarksStale ==
  /\ UNCHANGED <<job, attempts>>
  /\ \E w \in Worker :
       /\ delivery[w].step = "admitting" /\ ~AdmissionOver(w) /\ ~AdmissionMatches(w)
       /\ dispatches' = [dispatches EXCEPT ![delivery[w].generation].disposition = "stale"]

Starts ==
  /\ job.desired = "run" /\ UNCHANGED dispatches
  /\ \E w \in Worker :
       \/ job.phase = "queued" /\ StartAttempt(w, attempts)
       \/ job.phase = "running" /\ Unfinished(job.current)
            /\ StartAttempt(w, Closed(job.current, "interrupted"))

HasOwner == job.phase \in Busy /\ job.outcome = "none" /\ Unfinished(job.current)

\* The owner of the job writes its verdict.
OwnerEnds(o) ==
  /\ HasOwner /\ o \in Outcome \ {"none"}
  /\ o \in {"succeeded", "failed"} => job.desired = "run"
  /\ o = "cancelled" => job.desired = "cancel"
  /\ job' = Settled(o) \/ job' = [Settled(o) EXCEPT !.fence = @ + 1]
  /\ \E ao \in AttemptOutcome : attempts' = Closed(job.current, ao)
                                /\ (ao = "succeeded" <=> o = "succeeded")
  /\ \E d \in {"succeeded", "failed", "cancelled"} : dispatches' = Ended(d)

\* Or gives it back to the queue.
OwnerReleases ==
  /\ HasOwner /\ job.desired = "run" /\ UNCHANGED dispatches
  /\ job' = [job EXCEPT !.phase = "queued"]
  /\ \E ao \in {"retrying", "interrupted"} : attempts' = Closed(job.current, ao)

\* The job ends and nobody runs it, or whoever does has been asked to stop.
Dismissed ==
  /\ UNCHANGED attempts
  /\ \E d \in {"failed", "cancelled"} : dispatches' = Ended(d)
  /\ \/ job.phase = "queued" /\ job' = Settled("failed")
     \/ job.phase # "terminal" /\ job.desired = "cancel" /\ job' = Settled("cancelled")
     \/ /\ job.phase # "terminal" /\ job.desired = "run"
        /\ job' = [Settled("cancelled") EXCEPT !.desired = "cancel", !.fence = @ + 1]

CancelAccepted ==
  /\ job.phase # "terminal" /\ job.desired = "run" /\ UNCHANGED <<attempts, dispatches>>
  /\ job' = [job EXCEPT !.desired = "cancel", !.phase = "stopping"]

Revised ==
  LET g == job.generation + 1 IN
  /\ job.phase = "queued" /\ g \in Generation /\ UNCHANGED attempts
  /\ \E t \in Ticket :
       /\ job' = [job EXCEPT !.fence = @ + 1, !.generation = g, !.ticket = t]
       /\ dispatches' = [dispatches EXCEPT
            ![job.generation].disposition = "superseded",
            ![g] = [ticket |-> t, disposition |-> "active"]]

LedgerStep ==
  \/ Quiet \/ MarksStale \/ Starts \/ OwnerReleases \/ Dismissed \/ CancelAccepted \/ Revised
  \/ \E o \in Outcome : OwnerEnds(o)

LEMMA AttemptQuiet ==
  ASSUME NEW r \in AttemptRow, NEW c
  PROVE  /\ LET q == [r EXCEPT !.identified = TRUE, !.child = c] IN
              q.phase = r.phase /\ q.outcome = r.outcome
         /\ LET q == [r EXCEPT !.intent = TRUE, !.publication = FALSE] IN
              q.phase = r.phase /\ q.outcome = r.outcome
         /\ LET q == [r EXCEPT !.effect = TRUE, !.publication = TRUE] IN
              q.phase = r.phase /\ q.outcome = r.outcome
         /\ LET q == [r EXCEPT !.effect = TRUE] IN
              q.phase = r.phase /\ q.outcome = r.outcome
         /\ LET q == [r EXCEPT !.child = c] IN
              q.phase = r.phase /\ q.outcome = r.outcome
  BY DEF AttemptRow

LEMMA QuietStill ==
  ASSUME TypeOK, UNCHANGED canonical PROVE Quiet
  BY DEF canonical, Quiet, JobKept, AttemptsKept, DispositionsKept

LEMMA QuietChild ==
  ASSUME TypeOK, NEW a, NEW c, UNCHANGED <<job, dispatches>>,
         \/ attempts' = [attempts EXCEPT ![a].child = c]
         \/ attempts' = TreeDead(a)
  PROVE  Quiet
  <1>1. \E x : attempts' = [attempts EXCEPT ![a].child = x]
    BY DEF TreeDead
  <1>2. AttemptsKept
    BY <1>1, AttemptQuiet DEF AttemptsKept, TypeOK
  <1> QED BY <1>2 DEF Quiet, JobKept, DispositionsKept

LEMMA StartupSteps ==
  ASSUME TypeOK, RevisionInv, NEW w \in Worker, Startup(w) PROVE LedgerStep
  <1>1. CASE Register(w) \/ Ready(w)
    BY <1>1, QuietStill DEF Register, Ready, LedgerStep
  <1>2. CASE SelectOrphan(w)
    BY <1>2, QuietChild DEF SelectOrphan, LedgerStep
  <1>3. CASE ReconcileOrphan(w)
    <2> DEFINE d == delivery[w]
    <2>1. CASE UNCHANGED canonical
      BY <2>1, QuietStill DEF LedgerStep
    <2>2. CASE ~UNCHANGED canonical
      <3>1. HasOwner /\ d.attempt = job.current /\ job.desired \in AnyWish
        BY <1>3, <2>2 DEF ReconcileOrphan, Owns, Claims, HasOwner, AnyWish, TypeOK
      <3>2. CASE Terminal(w, "unsafe", "failed", "interrupted")
        BY <3>1, <3>2 DEF Terminal, OwnerEnds, LedgerStep, Outcome, AttemptOutcome
      <3>3. CASE /\ Owns(w, Busy, {"cancel"})
                 /\ job' = [Settled("cancelled") EXCEPT !.fence = @ + 1]
                 /\ attempts' = Closed(delivery[w].attempt, "cancelled")
                 /\ dispatches' = Ended("cancelled")
        BY <3>1, <3>3 DEF Owns, Claims, OwnerEnds, LedgerStep, Outcome, AttemptOutcome
      <3>4. CASE Owns(w, Busy, {"run"}) /\ BackToQueue(w, "interrupted")
        BY <3>1, <3>4 DEF Owns, Claims, BackToQueue, OwnerReleases, LedgerStep
      <3> QED BY <1>3, <2>2, <3>2, <3>3, <3>4 DEF ReconcileOrphan
    <2> QED BY <2>1, <2>2
  <1> QED BY <1>1, <1>2, <1>3 DEF Startup

LEMMA EnvironmentSteps ==
  ASSUME TypeOK, NEW w \in Worker, Environment(w) \/ Notify(w) PROVE LedgerStep
  BY QuietStill
  DEF Environment, Crash, GracefulStop, RuntimeExpires, RuntimeLapses, Heartbeat, Notify, LedgerStep

LEMMA PreAdmissionSteps ==
  ASSUME TypeOK, RevisionInv, NEW w \in Worker, PreAdmission(w) PROVE LedgerStep
  <1>1. CASE \/ \E t \in Ticket : Pick(w, t) \/ Redeliver(w, t) \/ DeliverTwice(w, t)
             \/ Preflight(w) \/ AcquireGates(w) \/ GateCancelled(w) \/ GateTimeout(w)
             \/ GateConnectionLost(w) \/ GateSessionBroken(w) \/ DeferralMoot(w)
             \/ RecheckDeferral(w)
    BY <1>1, QuietStill
    DEF Pick, Redeliver, DeliverTwice, TakeTicket, Preflight, AcquireGates, GateCancelled,
        GateTimeout, GateConnectionLost, GateSessionBroken, GiveUp, DeferralMoot,
        RecheckDeferral, LedgerStep
  <1>2. CASE WaitForGate(w) \/ Defer(w)
    <2>1. UNCHANGED <<attempts, dispatches>>
      BY <1>2 DEF WaitForGate, Defer
    <2>2. JobKept
      BY <1>2 DEF WaitForGate, Defer, JobKept, TypeOK, JobRow
    <2> QED BY <2>1, <2>2 DEF LedgerStep, Quiet, AttemptsKept, DispositionsKept
  <1>3. CASE DeferralExhausted(w)
    BY <1>3 DEF DeferralExhausted, Deferrable, LedgerStep, Dismissed
  <1>4. CASE ApplyIntent(w)
    <2>1. CASE UNCHANGED <<job, dispatches>>
      BY <1>4, <2>1, QuietStill DEF ApplyIntent, LedgerStep, canonical
    <2>2. CASE ~UNCHANGED <<job, dispatches>>
      BY <1>4, <2>2 DEF ApplyIntent, LedgerStep, Dismissed
    <2> QED BY <2>1, <2>2
  <1> QED BY <1>1, <1>2, <1>3, <1>4 DEF PreAdmission

LEMMA AdmissionSteps ==
  ASSUME TypeOK, RevisionInv, NEW w \in Worker, Admission(w) PROVE LedgerStep
  <1> DEFINE a == delivery[w].attempt
  <1>1. CASE AdmitBusy(w) \/ CandidateGone(w) \/ SupersedeRefused(w)
    BY <1>1, QuietStill DEF AdmitBusy, CandidateGone, SupersedeRefused, LedgerStep
  <1>2. CASE AdmitNothing(w)
    <2>1. CASE dispatches' = dispatches
      BY <1>2, <2>1, QuietStill DEF AdmitNothing, LedgerStep, canonical
    <2>2. CASE dispatches' # dispatches
      BY <1>2, <2>2 DEF AdmitNothing, LedgerStep, MarksStale
    <2> QED BY <2>1, <2>2
  <1>3. CASE AdmitAttempt(w)
    BY <1>3 DEF AdmitAttempt, Admissible, LedgerStep, Starts
  <1>4. CASE ExamineAttempt(w)
    <2>1. \E c : attempts' = [attempts EXCEPT ![a].child = c]
      BY <1>4 DEF ExamineAttempt
    <2> QED BY <1>4, <2>1, QuietChild DEF ExamineAttempt, LedgerStep
  <1>5. CASE CondemnAttempt(w)
    <2>1. CASE Owns(w, Busy, AnyWish)
      BY <1>5, <2>1
      DEF CondemnAttempt, Terminal, Owns, Claims, LedgerStep, OwnerEnds, HasOwner, Outcome,
          AttemptOutcome
    <2>2. CASE ~Owns(w, Busy, AnyWish)
      BY <1>5, <2>2, QuietStill DEF CondemnAttempt, LedgerStep
    <2> QED BY <2>1, <2>2
  <1>6. CASE SupersedeAttempt(w)
    <2>1. job.desired = "run" /\ a = job.current /\ Unfinished(a) /\ job.phase \in Busy
      BY <1>6 DEF SupersedeAttempt, Supersedable, Candidate
    <2>2. job.phase = "running"
      BY <2>1 DEF RevisionInv, RowStates, Busy
    <2> QED BY <1>6, <2>1, <2>2 DEF SupersedeAttempt, LedgerStep, Starts
  <1> QED BY <1>1, <1>2, <1>3, <1>4, <1>5, <1>6 DEF Admission

\* Who is told to stop does not own a job that is running.
LEMMA NotifiedDoesNotOwn ==
  ASSUME TypeOK, RevisionInv, NEW w \in Worker, delivery[w].notified
  PROVE  ~Owns(w, {"running"}, AnyWish)
  <1>1. Unwanted(delivery[w])
    BY DEF RevisionInv, DeliveriesInv, DeliveryInv, WantInv
  <1>2. job.phase = "running" => job.desired = "run"
    BY DEF RevisionInv, RowStates
  <1>3. job.generation \in Nat
    BY JobDeliveryAssumption DEF TypeOK, JobRow, Generation
  <1> QED BY <1>1, <1>2, <1>3 DEF Owns, Claims, Unwanted

LEMMA ExecutionSteps ==
  ASSUME TypeOK, RevisionInv, NEW w \in Worker, Execution(w) PROVE LedgerStep
  <1> DEFINE a == delivery[w].attempt
  <1>1. CASE LaunchChild(w) \/ RecordIntent(w) \/ Publish(w) \/ PublishTorn(w)
    <2>1. UNCHANGED <<job, dispatches>>
      BY <1>1 DEF LaunchChild, RecordIntent, Publish, PublishTorn
    <2>2. \/ attempts' = [attempts EXCEPT ![a] =
                            [attempts[a] EXCEPT !.identified = TRUE, !.child = "live"]]
          \/ attempts' = [attempts EXCEPT ![a] =
                            [attempts[a] EXCEPT !.intent = TRUE, !.publication = FALSE]]
          \/ attempts' = [attempts EXCEPT ![a] =
                            [attempts[a] EXCEPT !.effect = TRUE, !.publication = TRUE]]
          \/ attempts' = [attempts EXCEPT ![a] = [attempts[a] EXCEPT !.effect = TRUE]]
      BY <1>1 DEF LaunchChild, RecordIntent, Publish, PublishTorn
    <2>3. ASSUME NEW r, attempts' = [attempts EXCEPT ![a] = r],
                 a \in Attempt => /\ r.phase = attempts[a].phase
                                  /\ r.outcome = attempts[a].outcome
          PROVE  AttemptsKept
      BY <2>3 DEF AttemptsKept, TypeOK
    <2>4. a \in Attempt => attempts[a] \in AttemptRow
      BY DEF TypeOK
    <2>5. AttemptsKept
      BY <2>2, <2>3, <2>4, AttemptQuiet
    <2> QED BY <2>1, <2>5 DEF LedgerStep, Quiet, JobKept, DispositionsKept
  <1>2. CASE Return(w) \/ Raise(w)
    BY <1>2, QuietChild DEF Return, Raise, LedgerStep
  <1>3. CASE Unwind(w)
    <2>1. UNCHANGED <<job, dispatches>> /\ attempts' = TreeDead(a)
      BY <1>3, NotifiedDoesNotOwn DEF Unwind
    <2> QED BY <2>1, QuietChild DEF LedgerStep
  <1>4. CASE DeathUnproven(w)
    BY <1>4, QuietStill DEF DeathUnproven, LedgerStep
  <1> QED BY <1>1, <1>2, <1>3, <1>4 DEF Execution

LEMMA FailSteps ==
  ASSUME TypeOK, NEW w \in Worker, NEW desireds, Owns(w, Busy, desireds),
         NEW o \in {"failed", "cancelled"}, Fail(w, o),
         ~Uncertain(w) => job.desired = (IF o = "failed" THEN "run" ELSE "cancel")
  PROVE  LedgerStep
  <1>1. HasOwner /\ delivery[w].attempt = job.current
    BY DEF Owns, Claims, HasOwner
  <1>2. CASE Uncertain(w)
    BY <1>1, <1>2 DEF Fail, Terminal, LedgerStep, OwnerEnds, Outcome, AttemptOutcome
  <1>3. CASE ~Uncertain(w)
    BY <1>1, <1>3 DEF Fail, Terminal, LedgerStep, OwnerEnds, Outcome, AttemptOutcome
  <1> QED BY <1>2, <1>3

\* Who owns the job and gives up on it because it is cancelled is right.
LEMMA CancelledIsWanted ==
  ASSUME TypeOK, RevisionInv, NEW w \in Worker, Owns(w, Busy, AnyWish),
         Unwanted(delivery[w]) \/ Lost(delivery[w])
  PROVE  job.desired = "cancel"
  <1> DEFINE d == delivery[w]
  <1>1. /\ d.generation = job.generation /\ d.attempt = job.current /\ d.fence = job.fence
        /\ job.phase # "terminal" /\ attempts[d.attempt].phase # "finished"
        /\ dispatches[d.generation].disposition = "active"
    BY DEF Owns, Claims, Unfinished, Busy, Current
  <1>2. job.generation \in Nat /\ job.current \in Nat /\ job.fence \in Nat
    BY JobDeliveryAssumption DEF TypeOK, JobRow, Generation
  <1> QED BY <1>1, <1>2 DEF Unwanted, Lost

LEMMA SettlementSteps ==
  ASSUME TypeOK, RevisionInv, NEW w \in Worker, Settlement(w) PROVE LedgerStep
  <1>0. WantInv(delivery[w])
    BY DEF RevisionInv, DeliveriesInv, DeliveryInv
  <1>1. CASE SuccessLost(w) \/ ReleaseFails(w) \/ TellQueue(w)
    BY <1>1, QuietStill DEF SuccessLost, ReleaseFails, TellQueue, LedgerStep
  <1>2. CASE Succeed(w)
    BY <1>2 DEF Succeed, Terminal, Owns, Claims, LedgerStep, OwnerEnds, HasOwner, Outcome,
                AttemptOutcome
  <1>3. CASE SealCancelled(w)
    <2>1. CASE Owns(w, Busy, AnyWish)
      <3>1. Fail(w, "cancelled")
        BY <1>3, <2>1 DEF SealCancelled, FailDesires
      <3>2. job.desired = "cancel"
        BY <1>0, <1>3, <2>1, CancelledIsWanted DEF SealCancelled, WantInv
      <3> QED BY <2>1, <3>1, <3>2, FailSteps
    <2>2. CASE ~Owns(w, Busy, AnyWish)
      BY <1>3, <2>2, QuietStill DEF SealCancelled, FailDesires, LedgerStep
    <2> QED BY <2>1, <2>2
  <1>4. CASE RetryLater(w)
    <2>1. CASE Owns(w, Busy, {"run"})
      BY <1>4, <2>1
      DEF RetryLater, BackToQueue, Owns, Claims, LedgerStep, OwnerReleases, HasOwner
    <2>2. CASE ~Owns(w, Busy, {"run"})
      BY <1>4, <2>2, QuietStill DEF RetryLater, LedgerStep
    <2> QED BY <2>1, <2>2
  <1>5. CASE FailForGood(w)
    <2> DEFINE o == IF delivery[w].mode = "cancelled" THEN "cancelled" ELSE "failed"
    <2>1. CASE delivery[w].mode = "unsafe" /\ Owns(w, Busy, AnyWish)
      BY <1>5, <2>1
      DEF FailForGood, Terminal, Owns, Claims, LedgerStep, OwnerEnds, HasOwner, Outcome,
          AttemptOutcome
    <2>2. CASE delivery[w].mode # "unsafe" /\ Owns(w, Busy, FailDesires(w, o))
      <3>1. Fail(w, o) /\ o \in {"failed", "cancelled"}
        BY <1>5, <2>2 DEF FailForGood
      <3>2. CASE o = "failed"
        <4>1. ~Uncertain(w) => job.desired = "run"
          BY <2>2, <3>2 DEF FailDesires, Owns, Claims
        <4> QED BY <2>2, <3>1, <3>2, <4>1, FailSteps
      <3>3. CASE o = "cancelled"
        <4>1. delivery[w].mode = "cancelled" /\ Owns(w, Busy, AnyWish)
          BY <2>2, <3>3 DEF FailDesires
        <4>2. job.desired = "cancel"
          BY <1>0, <1>5, <4>1, CancelledIsWanted DEF FailForGood, WantInv
        <4> QED BY <2>2, <3>1, <3>3, <4>2, FailSteps
      <3> QED BY <3>1, <3>2, <3>3
    <2>3. CASE /\ ~(delivery[w].mode = "unsafe" /\ Owns(w, Busy, AnyWish))
               /\ ~(delivery[w].mode # "unsafe" /\ Owns(w, Busy, FailDesires(w, o)))
      <3>1. UNCHANGED canonical
        BY <1>5, <2>3 DEF FailForGood
      <3> QED BY <3>1, QuietStill DEF LedgerStep
    <2> QED BY <2>1, <2>2, <2>3
  <1> QED BY <1>1, <1>2, <1>3, <1>4, <1>5 DEF Settlement

LEMMA ControlSteps ==
  ASSUME TypeOK, Cancel \/ Reprioritize \/ RecoverDeferral \/ FlagTransport PROVE LedgerStep
  <1>1. CASE Cancel
    BY <1>1 DEF Cancel, LedgerStep, Dismissed, CancelAccepted
  <1>2. CASE Reprioritize
    BY <1>2 DEF Reprioritize, LedgerStep, Revised
  <1>3. CASE RecoverDeferral \/ FlagTransport
    <2>1. JobKept /\ attempts' = attempts
      BY <1>3 DEF RecoverDeferral, FlagTransport, JobKept, TypeOK, JobRow
    <2>2. DispositionsKept
      <3>1. \A g \in Generation : \A t :
              [dispatches[g] EXCEPT !.ticket = t].disposition = dispatches[g].disposition
        BY DEF TypeOK, DispatchRow
      <3>2. \/ dispatches' = dispatches
            \/ dispatches' = [dispatches EXCEPT ![job.generation] =
                               [dispatches[job.generation] EXCEPT !.ticket = serial.ticket + 1]]
        BY <1>3 DEF RecoverDeferral, FlagTransport
      <3>3. CASE dispatches' = dispatches
        BY <3>3 DEF DispositionsKept
      <3>4. CASE dispatches' = [dispatches EXCEPT ![job.generation] =
                                 [dispatches[job.generation] EXCEPT !.ticket = serial.ticket + 1]]
        BY <3>1, <3>4 DEF DispositionsKept, TypeOK
      <3> QED BY <3>2, <3>3, <3>4
    <2> QED BY <2>1, <2>2 DEF LedgerStep, Quiet, AttemptsKept
  <1> QED BY <1>1, <1>2, <1>3

LEMMA NextSteps ==
  ASSUME TypeOK, RevisionInv, [Next]_vars PROVE LedgerStep
  <1>1. CASE UNCHANGED vars
    BY <1>1, QuietStill DEF vars, canonical, LedgerStep
  <1>2. ASSUME NEW a \in Attempt, LeaderExits(a) \/ ChildExits(a) PROVE LedgerStep
    BY <1>2, QuietChild DEF LeaderExits, ChildExits, LedgerStep
  <1> QED
    BY <1>1, <1>2, StartupSteps, EnvironmentSteps, PreAdmissionSteps, AdmissionSteps,
       ExecutionSteps, SettlementSteps, ControlSteps
    DEF Next

-----------------------------------------------------------------------------
(* No step goes back: generations, fences and serials grow, what ended     *)
(* stays ended, a ticket keeps the generation it was enqueued for.         *)

Forward ==
  /\ job.generation <= job'.generation /\ job.fence <= job'.fence /\ job.current <= job'.current
  /\ job.desired = "cancel" => job'.desired = "cancel"
  /\ job.phase = "terminal" => job'.phase = "terminal"
  /\ \A a \in Attempt : attempts[a].phase = "finished" => attempts'[a].phase = "finished"
  /\ \A g \in Generation : g <= job.generation /\ dispatches[g].disposition # "active" =>
                           dispatches'[g].disposition # "active"

LEMMA RowTypes ==
  ASSUME TypeOK
  PROVE  /\ job.generation \in Generation /\ job.generation \in Nat
         /\ job.fence \in Nat /\ job.current \in Nat /\ job.current \in 0 .. MaxAttempt
         /\ job.ticket \in Ticket /\ job.ticket \in Nat /\ serial.ticket \in Nat
         /\ serial.attempt \in Nat /\ serial.ticket \in Ticket
         /\ job.phase \in {"queued", "running", "stopping", "terminal"}
         /\ job.desired \in {"run", "cancel"} /\ job.outcome \in Outcome
  BY JobDeliveryAssumption DEF TypeOK, JobRow, Generation, Ticket

LEMMA OwnerEndsForms ==
  ASSUME TypeOK, NEW o, OwnerEnds(o)
  PROVE  /\ job'.phase = "terminal" /\ job'.outcome = o /\ job'.desired = job.desired
         /\ job'.current = job.current /\ job'.generation = job.generation
         /\ job'.fence \in {job.fence, job.fence + 1} /\ job'.fence \in Nat
  <1>1. CASE job' = Settled(o)
    BY <1>1 DEF TypeOK, JobRow, Settled
  <1>2. CASE job' = [Settled(o) EXCEPT !.fence = @ + 1]
    BY <1>2 DEF TypeOK, JobRow, Settled
  <1> QED BY <1>1, <1>2 DEF OwnerEnds

LEMMA DismissedForms ==
  ASSUME TypeOK, Dismissed
  PROVE  /\ job'.phase = "terminal" /\ job.phase # "terminal"
         /\ job'.current = job.current /\ job'.generation = job.generation
         /\ job'.fence \in {job.fence, job.fence + 1} /\ job'.fence \in Nat
         /\ \/ job'.outcome = "cancelled" /\ job'.desired = "cancel"
            \/ job.phase = "queued" /\ job'.outcome = "failed" /\ job'.desired = job.desired
  <1>1. CASE job.phase = "queued" /\ job' = Settled("failed")
    BY <1>1 DEF TypeOK, JobRow, Settled
  <1>2. CASE job.phase # "terminal" /\ job.desired = "cancel" /\ job' = Settled("cancelled")
    BY <1>2 DEF TypeOK, JobRow, Settled
  <1>3. CASE /\ job.phase # "terminal"
             /\ job' = [Settled("cancelled") EXCEPT !.desired = "cancel", !.fence = @ + 1]
    BY <1>3 DEF TypeOK, JobRow, Settled
  <1> QED BY <1>1, <1>2, <1>3 DEF Dismissed

LEMMA ClosedForms ==
  ASSUME TypeOK, NEW a \in Attempt, NEW o
  PROVE  /\ Closed(a, o)[a].phase = "finished" /\ Closed(a, o)[a].outcome = o
         /\ \A b \in Attempt \ {a} : Closed(a, o)[b] = attempts[b]
  BY DEF TypeOK, AttemptRow, Closed

LEMMA EndedForms ==
  ASSUME TypeOK, NEW d
  PROVE  /\ Ended(d)[job.generation].disposition = d
         /\ \A g \in Generation \ {job.generation} : Ended(d)[g] = dispatches[g]
  BY RowTypes DEF TypeOK, DispatchRow, Ended

LEMMA StartForms ==
  ASSUME TypeOK, NEW w \in Worker, NEW ledger \in [Attempt -> AttemptRow],
         StartAttempt(w, ledger)
  PROVE  /\ serial.attempt + 1 \in Attempt /\ job'.current = serial.attempt + 1
         /\ serial'.attempt = job'.current /\ serial'.ticket = serial.ticket
         /\ job'.phase = "running" /\ job'.fence = job.fence + 1
         /\ job'.outcome = job.outcome /\ job'.desired = job.desired
         /\ job'.generation = job.generation /\ job'.ticket = job.ticket
         /\ attempts'[job'.current].phase = "running" /\ attempts'[job'.current].outcome = "none"
         /\ attempts'[job'.current].fence = job.fence + 1 /\ attempts'[job'.current].runtime = w
         /\ attempts'[job'.current].child = "none" /\ attempts'[job'.current].identified = FALSE
         /\ attempts'[job'.current].effect = FALSE
         /\ \A b \in Attempt \ {job'.current} : attempts'[b] = ledger[b]
  <1> DEFINE n == serial.attempt + 1
  <1>1. n \in Attempt
    BY SMTT(30), JobDeliveryAssumption DEF StartAttempt, TypeOK, Attempt
  <1>2. serial'.attempt = n /\ serial'.ticket = serial.ticket
    BY DEF StartAttempt, TypeOK
  <1>3. /\ job'.phase = "running" /\ job'.fence = job.fence + 1 /\ job'.current = n
        /\ job'.outcome = job.outcome /\ job'.desired = job.desired
        /\ job'.generation = job.generation /\ job'.ticket = job.ticket
    BY DEF StartAttempt, TypeOK, JobRow
  <1>4. /\ attempts'[n].phase = "running" /\ attempts'[n].outcome = "none"
        /\ attempts'[n].fence = job.fence + 1 /\ attempts'[n].runtime = w
        /\ attempts'[n].child = "none" /\ attempts'[n].identified = FALSE
        /\ attempts'[n].effect = FALSE
    BY <1>1 DEF StartAttempt, UnusedAttempt
  <1>5. \A b \in Attempt \ {n} : attempts'[b] = ledger[b]
    BY DEF StartAttempt
  <1>6. job'.current = n
    BY <1>3
  <1> QED BY <1>1, <1>2, <1>3, <1>4, <1>5, <1>6

LEMMA RevisedForms ==
  ASSUME TypeOK, Revised
  PROVE  /\ job'.phase = "queued" /\ job'.fence = job.fence + 1
         /\ job'.current = job.current /\ job'.outcome = job.outcome
         /\ job'.desired = job.desired /\ job'.generation = job.generation + 1
         /\ job.generation + 1 \in Generation
         /\ dispatches'[job.generation + 1].disposition = "active"
         /\ dispatches'[job.generation].disposition = "superseded"
         /\ \A g \in Generation \ {job.generation, job.generation + 1} :
              dispatches'[g] = dispatches[g]
  <1>1. job'.phase = "queued" /\ job'.fence = job.fence + 1
         /\ job'.current = job.current /\ job'.outcome = job.outcome
         /\ job'.desired = job.desired /\ job'.generation = job.generation + 1
    BY DEF Revised, TypeOK, JobRow
  <1>2. PICK t \in Ticket : dispatches' = [dispatches EXCEPT
            ![job.generation].disposition = "superseded",
            ![job.generation + 1] = [ticket |-> t, disposition |-> "active"]]
    BY DEF Revised
  <1>3. job.generation \in Generation /\ job.generation + 1 \in Generation
        /\ job.generation # job.generation + 1
    BY RowTypes DEF Revised
  <1>4. dispatches'[job.generation + 1].disposition = "active"
    BY <1>2, <1>3 DEF TypeOK
  <1>5. dispatches'[job.generation].disposition = "superseded"
    BY <1>2, <1>3 DEF TypeOK, DispatchRow
  <1>6. \A g \in Generation \ {job.generation, job.generation + 1} : dispatches'[g] = dispatches[g]
    BY <1>2, <1>3 DEF TypeOK
  <1> QED BY <1>1, <1>3, <1>4, <1>5, <1>6

\* The job row after each kind of step.
LEMMA CancelForms ==
  ASSUME TypeOK, CancelAccepted
  PROVE  /\ job'.phase = "stopping" /\ job'.desired = "cancel" /\ job'.outcome = job.outcome
         /\ job'.current = job.current /\ job'.generation = job.generation
         /\ job'.fence = job.fence
  BY DEF CancelAccepted, TypeOK, JobRow

LEMMA ReleaseForms ==
  ASSUME TypeOK, OwnerReleases
  PROVE  /\ job'.phase = "queued" /\ job'.desired = job.desired /\ job'.outcome = job.outcome
         /\ job'.current = job.current /\ job'.generation = job.generation
         /\ job'.fence = job.fence
  BY DEF OwnerReleases, TypeOK, JobRow

\* The ledger a replacement starts from.
LEMMA StartsForms ==
  ASSUME TypeOK, LedgerInv, RowStates, Starts
  PROVE  \E w \in Worker, ledger \in [Attempt -> AttemptRow] :
           /\ StartAttempt(w, ledger)
           /\ \/ ledger = attempts
              \/ Unfinished(job.current) /\ ledger = Closed(job.current, "interrupted")
           /\ job.outcome = "none" /\ job.phase \in {"queued", "running"}
  <1>1. job.phase \in {"queued", "running"} /\ job.outcome = "none"
    BY DEF Starts, RowStates
  <1>2. Unfinished(job.current) => Closed(job.current, "interrupted") \in [Attempt -> AttemptRow]
    BY ClosedTyped DEF TypeOK, Unfinished, AttemptOutcome
  <1>3. CASE \E w \in Worker : job.phase = "queued" /\ StartAttempt(w, attempts)
    <2>1. PICK w \in Worker : StartAttempt(w, attempts)
      BY <1>3
    <2>2. attempts \in [Attempt -> AttemptRow]
      BY DEF TypeOK
    <2>3. WITNESS w \in Worker, attempts \in [Attempt -> AttemptRow]
    <2> QED BY <1>1, <2>1
  <1>4. CASE \E w \in Worker : /\ job.phase = "running" /\ Unfinished(job.current)
                               /\ StartAttempt(w, Closed(job.current, "interrupted"))
    BY <1>1, <1>2, <1>4
  <1> QED BY <1>3, <1>4 DEF Starts

LEMMA StepForward ==
  ASSUME TypeOK, LedgerInv, RowStates, LedgerStep PROVE Forward
  <1>1. CASE Quiet
    BY <1>1, RowTypes DEF Quiet, JobKept, AttemptsKept, DispositionsKept, Forward
  <1>2. CASE MarksStale
    <2>1. UNCHANGED <<job, attempts>>
      BY <1>2 DEF MarksStale
    <2>2. \A g \in Generation : \/ dispatches'[g] = dispatches[g]
                                \/ dispatches'[g].disposition = "stale"
      BY <1>2 DEF MarksStale, TypeOK, DispatchRow
    <2> QED BY <2>1, <2>2, RowTypes DEF Forward
  <1>3. CASE Starts
    <2>1. PICK w \in Worker, ledger \in [Attempt -> AttemptRow] :
            /\ StartAttempt(w, ledger)
            /\ \/ ledger = attempts
               \/ Unfinished(job.current) /\ ledger = Closed(job.current, "interrupted")
            /\ job.phase \in {"queued", "running"}
      BY <1>3, StartsForms
    <2>2. \A a \in Attempt : attempts[a].phase = "finished" => ledger[a].phase = "finished"
      BY <2>1, ClosedForms DEF Unfinished
    <2>3. serial.attempt + 1 \in Attempt /\ job'.current = serial.attempt + 1
      BY <2>1, StartForms
    <2>4. ~Started(job'.current) /\ job.current <= job'.current
      BY <2>3, RowTypes DEF LedgerInv
    <2>5. \A a \in Attempt : attempts[a].phase = "finished" => attempts'[a].phase = "finished"
      <3>1. \A a \in Attempt \ {job'.current} : attempts'[a] = ledger[a]
        BY <2>1, StartForms
      <3>2. job'.current \in Attempt /\ attempts[job'.current].phase = "none"
        BY <2>3, <2>4 DEF Started
      <3> QED BY <2>2, <3>1, <3>2
    <2>6. /\ job'.generation = job.generation /\ job'.desired = job.desired
          /\ job'.fence = job.fence + 1 /\ job.phase # "terminal" /\ dispatches' = dispatches
      BY <1>3, <2>1, StartForms DEF Starts
    <2> QED BY <2>4, <2>5, <2>6, RowTypes DEF Forward
  <1>4. ASSUME NEW o \in Outcome, OwnerEnds(o) PROVE Forward
    <2>1. job'.generation = job.generation /\ job.fence <= job'.fence
          /\ job'.current = job.current /\ job'.desired = job.desired /\ job'.phase = "terminal"
      BY <1>4, OwnerEndsForms, RowTypes
    <2>2. \A a \in Attempt : attempts[a].phase = "finished" => attempts'[a].phase = "finished"
      BY <1>4, ClosedForms DEF OwnerEnds, HasOwner, Unfinished
    <2>3. \A g \in Generation : dispatches[g].disposition # "active" =>
                                  dispatches'[g].disposition # "active"
      BY <1>4, EndedForms DEF OwnerEnds
    <2> QED BY <2>1, <2>2, <2>3, RowTypes DEF Forward
  <1>5. CASE OwnerReleases
    <2>1. \A a \in Attempt : attempts[a].phase = "finished" => attempts'[a].phase = "finished"
      BY <1>5, ClosedForms DEF OwnerReleases, HasOwner, Unfinished
    <2> QED BY <1>5, <2>1, ReleaseForms, RowTypes DEF Forward, OwnerReleases, HasOwner, Busy
  <1>6. CASE Dismissed
    <2>1. /\ job'.generation = job.generation /\ job.fence <= job'.fence
          /\ job'.current = job.current /\ job'.phase = "terminal"
          /\ job.desired = "cancel" => job'.desired = "cancel"
      BY <1>6, DismissedForms, RowTypes
    <2>2. \A g \in Generation : dispatches[g].disposition # "active" =>
                                  dispatches'[g].disposition # "active"
      BY <1>6, EndedForms DEF Dismissed
    <2> QED BY <1>6, <2>1, <2>2, RowTypes DEF Forward, Dismissed
  <1>7. CASE CancelAccepted
    BY <1>7, CancelForms, RowTypes DEF Forward, CancelAccepted
  <1>8. CASE Revised
    <2>1. UNCHANGED attempts /\ job.phase = "queued"
      BY <1>8 DEF Revised
    <2>2. \A g \in Generation : g <= job.generation /\ dispatches[g].disposition # "active" =>
                                  dispatches'[g].disposition # "active"
      BY <1>8, RevisedForms, RowTypes DEF Generation
    <2> QED BY <1>8, <2>1, <2>2, RevisedForms, RowTypes DEF Forward
  <1> QED BY <1>1, <1>2, <1>3, <1>4, <1>5, <1>6, <1>7, <1>8 DEF LedgerStep

LEMMA StepRowStates ==
  ASSUME TypeOK, LedgerInv, RowStates, LedgerStep PROVE RowStates'
  <1>1. CASE Quiet \/ MarksStale
    BY <1>1 DEF Quiet, JobKept, MarksStale, RowStates
  <1>2. CASE Starts
    <2>1. PICK w \in Worker, ledger \in [Attempt -> AttemptRow] :
            StartAttempt(w, ledger) /\ job.outcome = "none"
      BY <1>2, StartsForms
    <2> QED BY <1>2, <2>1, StartForms DEF RowStates, Starts
  <1>3. ASSUME NEW o \in Outcome, OwnerEnds(o) PROVE RowStates'
    BY <1>3, OwnerEndsForms DEF OwnerEnds, HasOwner, RowStates
  <1>4. CASE OwnerReleases
    BY <1>4, ReleaseForms DEF OwnerReleases, HasOwner, RowStates
  <1>5. CASE Dismissed
    BY <1>5, DismissedForms DEF RowStates
  <1>6. CASE CancelAccepted
    BY <1>6, CancelForms DEF CancelAccepted, RowStates
  <1>7. CASE Revised
    <2>1. job.phase = "queued"
      BY <1>7 DEF Revised
    <2> QED BY <1>7, <2>1, RevisedForms DEF RowStates
  <1> QED BY <1>1, <1>2, <1>3, <1>4, <1>5, <1>6, <1>7 DEF LedgerStep

-----------------------------------------------------------------------------
(* The verdict and the dispatch ledger.                                    *)

VerdictInv ==
  VerdictBacked /\ (job.outcome = "succeeded" => job.current \in Attempt)

LEMMA StepVerdict ==
  ASSUME TypeOK, LedgerInv, RowStates, VerdictInv, LedgerStep PROVE VerdictInv'
  <1>0. job.phase # "terminal" => \A a \in Attempt : attempts[a].outcome # "succeeded"
    BY DEF RowStates, VerdictInv, VerdictBacked
  <1>1. CASE Quiet
    BY <1>1, RowTypes
    DEF Quiet, JobKept, AttemptsKept, VerdictInv, VerdictBacked, Unfinished, LedgerInv, RowStates
  <1>2. CASE MarksStale \/ Revised \/ CancelAccepted
    <2>1. UNCHANGED attempts /\ job'.current = job.current /\ job'.outcome = job.outcome
      BY <1>2, RevisedForms, CancelForms DEF MarksStale, Revised, CancelAccepted
    <2> QED BY <2>1 DEF VerdictInv, VerdictBacked, Unfinished
  <1>3. CASE Starts
    <2>1. PICK w \in Worker, ledger \in [Attempt -> AttemptRow] :
            /\ StartAttempt(w, ledger)
            /\ \/ ledger = attempts
               \/ Unfinished(job.current) /\ ledger = Closed(job.current, "interrupted")
            /\ job.outcome = "none" /\ job.phase \in {"queued", "running"}
      BY <1>3, StartsForms
    <2>2. \A a \in Attempt : ledger[a].outcome # "succeeded"
      BY <1>0, <2>1, ClosedForms DEF Unfinished
    <2>3. \A a \in Attempt : attempts'[a].outcome # "succeeded"
      BY <2>1, <2>2, StartForms
    <2> QED BY <2>1, <2>3, StartForms DEF VerdictInv, VerdictBacked
  <1>4. ASSUME NEW o \in Outcome, OwnerEnds(o) PROVE VerdictInv'
    <2>1. job.current \in Attempt /\ job.phase # "terminal"
      BY <1>4 DEF OwnerEnds, HasOwner, Unfinished, Busy
    <2>2. job'.outcome = o /\ job'.current = job.current
      BY <1>4, OwnerEndsForms
    <2>3. /\ attempts'[job.current].phase = "finished"
          /\ attempts'[job.current].outcome = "succeeded" <=> o = "succeeded"
          /\ \A b \in Attempt \ {job.current} : attempts'[b] = attempts[b]
      BY <1>4, <2>1, ClosedForms DEF OwnerEnds
    <2>4. \A a \in Attempt : ~Unfinished(a)'
      BY <2>3 DEF LedgerInv, Unfinished
    <2> QED BY <1>0, <2>1, <2>2, <2>3, <2>4 DEF VerdictInv, VerdictBacked
  <1>5. CASE OwnerReleases
    <2>1. job.current \in Attempt /\ job.outcome = "none" /\ job.phase # "terminal"
      BY <1>5 DEF OwnerReleases, HasOwner, Unfinished, Busy
    <2>2. \A a \in Attempt : attempts'[a].outcome # "succeeded"
      BY <1>0, <1>5, <2>1, ClosedForms DEF OwnerReleases
    <2> QED BY <1>5, <2>1, <2>2, ReleaseForms DEF VerdictInv, VerdictBacked
  <1>6. CASE Dismissed
    <2>1. UNCHANGED attempts /\ job.phase # "terminal"
      BY <1>6 DEF Dismissed
    <2>2. job'.outcome = "cancelled" \/ (job.phase = "queued" /\ job'.outcome = "failed")
      BY <1>6, DismissedForms
    <2> QED BY <1>0, <2>1, <2>2 DEF VerdictInv, VerdictBacked, LedgerInv, Unfinished
  <1> QED BY <1>1, <1>2, <1>3, <1>4, <1>5, <1>6 DEF LedgerStep

\* An active dispatch is the current generation's, and its job is open.
DispatchInv ==
  /\ \A g \in Generation : dispatches[g].disposition = "active" =>
                             g = job.generation /\ job.phase # "terminal"
  /\ \A g \in Generation : g > job.generation => dispatches[g].disposition = "none"

LEMMA StepDispatch ==
  ASSUME TypeOK, LedgerInv, RowStates, DispatchInv, LedgerStep
  PROVE  DispatchInv'
  <1>1. CASE Quiet
    BY <1>1 DEF Quiet, JobKept, DispositionsKept, DispatchInv
  <1>2. CASE MarksStale
    <2>1. PICK w \in Worker :
            /\ dispatches[delivery[w].generation].disposition = "active"
            /\ dispatches' = [dispatches EXCEPT ![delivery[w].generation].disposition = "stale"]
      BY <1>2 DEF MarksStale, AdmissionOver
    <2>2. \A g \in Generation :
            \/ dispatches'[g] = dispatches[g]
            \/ /\ g = delivery[w].generation /\ dispatches'[g].disposition = "stale"
      BY <2>1 DEF TypeOK, DispatchRow
    <2> QED BY <1>2, <2>1, <2>2, RowTypes DEF MarksStale, DispatchInv, Generation
  <1>3. CASE Starts
    <2>1. PICK w \in Worker, ledger \in [Attempt -> AttemptRow] : StartAttempt(w, ledger)
      BY <1>3, StartsForms
    <2> QED BY <1>3, <2>1, StartForms DEF Starts, DispatchInv
  <1>4. ASSUME NEW d \in {"succeeded", "failed", "cancelled"}, dispatches' = Ended(d),
               job'.generation = job.generation, job'.phase = "terminal"
        PROVE  DispatchInv'
    BY <1>4, EndedForms, RowTypes DEF DispatchInv, Generation
  <1>5. ASSUME NEW o \in Outcome, OwnerEnds(o) PROVE DispatchInv'
    BY <1>4, <1>5, OwnerEndsForms DEF OwnerEnds
  <1>6. CASE Dismissed
    BY <1>4, <1>6, DismissedForms DEF Dismissed
  <1>7. CASE OwnerReleases
    BY <1>7, ReleaseForms DEF OwnerReleases, DispatchInv
  <1>8. CASE CancelAccepted
    BY <1>8, CancelForms DEF CancelAccepted, DispatchInv
  <1>9. CASE Revised
    BY <1>9, RevisedForms, RowTypes DEF DispatchInv, Generation
  <1> QED BY <1>1, <1>2, <1>3, <1>5, <1>6, <1>7, <1>8, <1>9 DEF LedgerStep

-----------------------------------------------------------------------------
(* The queue.                                                              *)

QueueForward ==
  /\ serial.ticket <= serial'.ticket /\ serial.attempt <= serial'.attempt
  /\ \A t \in Ticket : t <= serial.ticket => tickets'[t].generation = tickets[t].generation

QueueStep == QueueForward /\ TicketInv'

LEMMA TicketTypes ==
  ASSUME TypeOK
  PROVE  \A t \in Ticket : /\ t \in Nat /\ tickets[t] \in TicketRow
                           /\ tickets[t].generation \in Nat
  BY JobDeliveryAssumption DEF TypeOK, TicketRow, Ticket

LEMMA TicketsStand ==
  ASSUME TypeOK, TypeOK', TicketInv, Forward, tickets' = tickets, serial'.ticket = serial.ticket,
         serial.attempt <= serial'.attempt
  PROVE  QueueStep
  <1>1. QueueForward
    BY RowTypes DEF QueueForward
  <1>2. job.generation \in Nat /\ job'.generation \in Nat
    BY RowTypes, JobDeliveryAssumption DEF TypeOK, JobRow, Generation
  <1>3. TicketInv'
    BY <1>2, TicketTypes DEF TicketInv, Forward
  <1> QED BY <1>1, <1>3 DEF QueueStep

LEMMA GenerationTypes ==
  ASSUME TypeOK, TypeOK'
  PROVE  /\ job.generation \in Nat /\ job'.generation \in Nat
         /\ serial.attempt \in Nat /\ serial'.attempt \in Nat
  BY RowTypes, JobDeliveryAssumption DEF TypeOK, JobRow, Generation

Handed(t, s, h) == [tickets EXCEPT ![t].status = s, ![t].holder = h]

LEMMA HandedForms ==
  ASSUME TypeOK, NEW t \in Ticket, NEW s, NEW h
  PROVE  /\ Handed(t, s, h)[t].status = s /\ DOMAIN Handed(t, s, h) = Ticket
         /\ \A u \in Ticket : /\ Handed(t, s, h)[u].generation = tickets[u].generation
                              /\ u # t => Handed(t, s, h)[u] = tickets[u]
  BY DEF TypeOK, TicketRow, Handed

\* A ticket that is there changes hands.
LEMMA TicketChanged ==
  ASSUME TypeOK, TypeOK', TicketInv, Forward, serial' = serial,
         NEW t \in Ticket, NEW s, NEW h, tickets[t].status # "absent", tickets' = Handed(t, s, h),
         s = "cancelled" => job'.desired = "cancel"
  PROVE  QueueStep
  <1>1. \A u \in Ticket : /\ tickets'[u].generation = tickets[u].generation
                          /\ u # t => tickets'[u].status = tickets[u].status
    BY HandedForms
  <1>2. tickets'[t].status = s
    BY HandedForms
  <1>3. t <= serial.ticket
    BY TicketTypes, RowTypes DEF TicketInv
  <1>4. job.generation \in Nat /\ job'.generation \in Nat /\ job.generation <= job'.generation
    BY GenerationTypes DEF Forward
  <1>5. TicketInv'
    <2>1. \A u \in Ticket : u > serial'.ticket => tickets'[u].status = "absent"
      BY <1>1, <1>3, TicketTypes, RowTypes DEF TicketInv
    <2>2. ASSUME NEW u \in Ticket PROVE tickets'[u].generation <= job'.generation
      <3>1. tickets[u].generation <= job.generation /\ tickets[u].generation \in Nat
        BY TicketTypes DEF TicketInv
      <3> QED BY <1>1, <1>4, <3>1
    <2>3. \A u \in Ticket : u <= serial'.ticket => tickets'[u].generation \in Generation
      BY <1>1 DEF TicketInv
    <2>4. ASSUME NEW u \in Ticket, tickets'[u].status = "cancelled"
          PROVE  job'.desired = "cancel" \/ tickets'[u].generation < job'.generation
      <3>1. CASE u = t
        BY <1>2, <2>4, <3>1
      <3>2. CASE u # t
        <4>1. job.desired = "cancel" \/ tickets[u].generation < job.generation
          BY <1>1, <2>4, <3>2 DEF TicketInv
        <4>2. tickets[u].generation \in Nat /\ (job.desired = "cancel" => job'.desired = "cancel")
          BY TicketTypes DEF Forward
        <4> QED BY <1>1, <1>4, <4>1, <4>2
      <3> QED BY <3>1, <3>2
    <2> QED BY <2>1, <2>2, <2>3, <2>4 DEF TicketInv
  <1>6. QueueForward
    BY <1>1, RowTypes DEF QueueForward
  <1> QED BY <1>5, <1>6 DEF QueueStep

\* A ticket is added; the one it replaces, if any, was deleted.
LEMMA TicketAdded ==
  ASSUME TypeOK, TypeOK', TicketInv, Forward, serial'.ticket = serial.ticket + 1,
         serial'.attempt = serial.attempt, serial.ticket + 1 \in Ticket,
         NEW rows, NEW t \in Ticket, NEW g \in Generation, g = job'.generation,
         \/ rows = tickets
         \/ /\ rows = Deleted(t, "cancelled") /\ tickets[t].status # "absent"
            /\ job.generation < job'.generation,
         tickets' = Enqueued(rows, g)
  PROVE  QueueStep
  <1> DEFINE n == serial.ticket + 1
  <1>1. /\ \A u \in Ticket : rows[u].generation = tickets[u].generation
        /\ \A u \in Ticket :
             rows[u].status # tickets[u].status =>
               u = t /\ tickets[t].status # "absent" /\ job.generation < job'.generation
        /\ DOMAIN rows = Ticket
    <2>1. CASE rows = tickets
      BY <2>1 DEF TypeOK
    <2>2. CASE /\ rows = Handed(t, "cancelled", NoWorker) /\ tickets[t].status # "absent"
               /\ job.generation < job'.generation
      BY <2>2, HandedForms
    <2> QED BY <2>1, <2>2 DEF Handed, Deleted
  <1>2. /\ tickets'[n].status = "queued" /\ tickets'[n].generation = g
        /\ \A u \in Ticket \ {n} : tickets'[u] = rows[u]
    BY <1>1 DEF Enqueued, QueuedTicket
  <1>3. job.generation \in Nat /\ job'.generation \in Nat /\ job.generation <= job'.generation
    BY RowTypes, JobDeliveryAssumption DEF TypeOK, JobRow, Generation, Forward
  <1>4. \A u \in Ticket : tickets[u].status # "absent" => u <= serial.ticket
    BY TicketTypes, RowTypes DEF TicketInv
  <1>5. TicketInv'
    <2>1. ASSUME NEW u \in Ticket, u > serial'.ticket PROVE tickets'[u].status = "absent"
      <3>1. u # n /\ u > serial.ticket /\ tickets[u].status = "absent"
        BY <2>1, <1>4, TicketTypes, RowTypes
      <3> QED BY <1>1, <1>2, <3>1
    <2>2. ASSUME NEW u \in Ticket PROVE tickets'[u].generation <= job'.generation
      <3>1. CASE u = n
        BY <1>2, <1>3, <3>1
      <3>2. CASE u # n
        BY <1>1, <1>2, <1>3, <3>2, TicketTypes DEF TicketInv
      <3> QED BY <3>1, <3>2
    <2>3. ASSUME NEW u \in Ticket, u <= serial'.ticket PROVE tickets'[u].generation \in Generation
      <3>1. CASE u = n
        BY <1>2, <3>1
      <3>2. CASE u # n
        <4>1. u <= serial.ticket
          BY <2>3, <3>2, TicketTypes, RowTypes
        <4> QED BY <1>1, <1>2, <3>2, <4>1 DEF TicketInv
      <3> QED BY <3>1, <3>2
    <2>4. ASSUME NEW u \in Ticket, tickets'[u].status = "cancelled"
          PROVE  job'.desired = "cancel" \/ tickets'[u].generation < job'.generation
      <3>1. u # n /\ rows[u].status = "cancelled" /\ tickets'[u].generation = tickets[u].generation
        BY <1>1, <1>2, <2>4
      <3>2. CASE tickets[u].status = "cancelled"
        BY <1>3, <3>1, <3>2, TicketTypes DEF TicketInv, Forward
      <3>3. CASE job.generation < job'.generation
        BY <1>3, <3>1, <3>3, TicketTypes DEF TicketInv
      <3> QED BY <1>1, <3>1, <3>2, <3>3
    <2> QED BY <2>1, <2>2, <2>3, <2>4 DEF TicketInv
  <1>6. QueueForward
    BY <1>1, <1>2, TicketTypes, RowTypes DEF QueueForward
  <1> QED BY <1>5, <1>6 DEF QueueStep

LEMMA NextQueue ==
  ASSUME TypeOK, TypeOK', LedgerInv, TicketInv, Forward, [Next]_vars PROVE QueueStep
  <1>0. serial.attempt \in Nat /\ serial'.attempt \in Nat
    BY GenerationTypes
  <1>1. CASE UNCHANGED <<tickets, serial>>
    BY <1>0, <1>1, TicketsStand
  <1>2. ASSUME NEW w \in Worker, NEW ledger \in [Attempt -> AttemptRow], tickets' = tickets,
               StartAttempt(w, ledger)
        PROVE  QueueStep
    <2>1. serial'.ticket = serial.ticket /\ serial.attempt <= serial'.attempt
      <3>1. serial'.attempt = serial.attempt + 1 /\ serial'.ticket = serial.ticket
        BY <1>2, StartForms
      <3> QED BY <1>0, <3>1
    <2> QED BY <1>2, <2>1, TicketsStand
  <1>3. ASSUME NEW w \in Worker, NEW t \in Ticket, TakeTicket(w, t),
               tickets[t].status # "absent"
        PROVE  QueueStep
    <2>1. tickets' = Handed(t, "picked", w) /\ serial' = serial
      BY <1>3 DEF TakeTicket, Handed
    <2> QED BY <1>3, <2>1, TicketChanged
  <1>4. ASSUME NEW w \in Worker, TellQueue(w) PROVE QueueStep
    <2> DEFINE t == delivery[w].ticket
    <2>1. serial' = serial
      BY <1>4 DEF TellQueue
    <2>2. CASE tickets' = tickets
      BY <1>1, <2>1, <2>2
    <2>3. CASE tickets' # tickets
      <3>1. /\ tickets[t].status \in {"queued", "picked", "failed"}
            /\ \/ tickets' = Deleted(t, "absent") \/ tickets' = Requeued(t)
               \/ tickets' = Deleted(t, "failed")
        BY <1>4, <2>3 DEF TellQueue
      <3>2. t \in Ticket
        BY <2>3, <3>1 DEF Deleted, Requeued, TypeOK
      <3>3. PICK s \in {"absent", "queued", "failed"} :
              tickets' = Handed(t, s, NoWorker)
        BY <3>1 DEF Deleted, Requeued, Handed
      <3> QED BY <2>1, <3>1, <3>2, <3>3, TicketChanged
    <2> QED BY <2>2, <2>3
  <1>5. CASE Cancel
    <2>1. job'.desired = "cancel"
      BY <1>5 DEF Cancel, TypeOK, JobRow, Settled
    <2>2. job.ticket \in Ticket
      BY RowTypes
    <2>3. /\ tickets' = Handed(job.ticket, "cancelled", NoWorker) /\ serial' = serial
          /\ tickets[job.ticket].status # "absent"
      BY <1>5 DEF Cancel, Deleted, Handed
    <2> QED BY <2>1, <2>2, <2>3, TicketChanged
  <1>6. CASE Reprioritize
    <2>1. /\ job'.generation = job.generation + 1 /\ job.generation + 1 \in Generation
          /\ serial.ticket + 1 \in Ticket
      BY <1>6 DEF Reprioritize, TypeOK, JobRow
    <2>2. serial'.ticket = serial.ticket + 1 /\ serial'.attempt = serial.attempt
      BY <1>6 DEF Reprioritize, TypeOK
    <2>3. job.ticket \in Ticket /\ job.generation < job'.generation
      BY <2>1, RowTypes
    <2>4. /\ tickets' = Enqueued(Deleted(job.ticket, "cancelled"), job.generation + 1)
          /\ tickets[job.ticket].status # "absent"
      BY <1>6 DEF Reprioritize
    <2> QED BY <2>1, <2>2, <2>3, <2>4, TicketAdded
  <1>7. CASE RecoverDeferral
    <2> DEFINE status == tickets[job.ticket].status
    <2>1. CASE status \in {"absent", "cancelled"}
      <3>1. /\ tickets' = Enqueued(tickets, job.generation) /\ serial.ticket + 1 \in Ticket
            /\ job'.generation = job.generation
        BY <1>7, <2>1 DEF RecoverDeferral, TypeOK, JobRow
      <3>2. serial'.ticket = serial.ticket + 1 /\ serial'.attempt = serial.attempt
        BY <1>7, <2>1 DEF RecoverDeferral, TypeOK
      <3> QED BY <3>1, <3>2, RowTypes, TicketAdded
    <2>2. CASE status \notin {"absent", "cancelled"}
      <3>1. serial' = serial /\ (tickets' = tickets \/ tickets' = Requeued(job.ticket))
        BY <1>7, <2>2 DEF RecoverDeferral
      <3>2. CASE tickets' = tickets
        BY <1>1, <3>1, <3>2
      <3>3. CASE tickets' = Handed(job.ticket, "queued", NoWorker)
        <4>1. job.ticket \in Ticket /\ tickets[job.ticket].status # "absent" /\ serial' = serial
          BY <2>2, <3>1, RowTypes
        <4> QED BY <3>3, <4>1, TicketChanged
      <3> QED BY <3>1, <3>2, <3>3 DEF Requeued, Handed
    <2> QED BY <2>1, <2>2
  <1>8. ASSUME NEW w \in Worker,
               Startup(w) \/ Environment(w) \/ Execution(w) \/ Notify(w)
        PROVE  UNCHANGED <<tickets, serial>>
    BY <1>8
    DEF Startup, Register, Ready, SelectOrphan, ReconcileOrphan, Environment, Crash, GracefulStop,
        RuntimeExpires, RuntimeLapses, Heartbeat, Execution, LaunchChild, RecordIntent, Publish,
        PublishTorn, Return, Raise, Unwind, DeathUnproven, Notify, queue
  <1>9. ASSUME NEW w \in Worker, PreAdmission(w) PROVE QueueStep
    <2>1. CASE \E t \in Ticket : Pick(w, t) \/ Redeliver(w, t) \/ DeliverTwice(w, t)
      BY <1>3, <2>1 DEF Pick, Redeliver, DeliverTwice
    <2>2. CASE ~(\E t \in Ticket : Pick(w, t) \/ Redeliver(w, t) \/ DeliverTwice(w, t))
      <3>1. UNCHANGED queue
        BY <1>9, <2>2
        DEF PreAdmission, Preflight, WaitForGate, AcquireGates, GateCancelled, GateTimeout,
            GateConnectionLost, GateSessionBroken, GiveUp, Defer, DeferralExhausted,
            DeferralMoot, RecheckDeferral, ApplyIntent
      <3> QED BY <1>1, <3>1 DEF queue
    <2> QED BY <2>1, <2>2
  <1>10. ASSUME NEW w \in Worker, Admission(w) PROVE QueueStep
    <2>1. CASE AdmitAttempt(w)
      BY <1>2, <2>1 DEF AdmitAttempt, TypeOK
    <2>2. CASE SupersedeAttempt(w)
      <3>1. delivery[w].attempt \in Attempt
        BY <2>2 DEF SupersedeAttempt, Supersedable, Candidate, Unfinished
      <3>2. Closed(delivery[w].attempt, "interrupted") \in [Attempt -> AttemptRow]
        BY <3>1, ClosedTyped DEF TypeOK, AttemptOutcome
      <3> QED BY <1>2, <2>2, <3>2 DEF SupersedeAttempt
    <2>3. CASE ~AdmitAttempt(w) /\ ~SupersedeAttempt(w)
      <3>1. UNCHANGED queue
        BY <1>10, <2>3
        DEF Admission, AdmitNothing, AdmitBusy, ExamineAttempt, CandidateGone, CondemnAttempt,
            SupersedeRefused
      <3> QED BY <1>1, <3>1 DEF queue
    <2> QED BY <2>1, <2>2, <2>3
  <1>11. ASSUME NEW w \in Worker, Settlement(w) PROVE QueueStep
    <2>1. TellQueue(w) \/ UNCHANGED queue
      BY <1>11 DEF Settlement, Succeed, SuccessLost, SealCancelled, RetryLater, FailForGood,
                   ReleaseFails
    <2> QED BY <1>1, <1>4, <2>1 DEF queue
  <1>12. ASSUME NEW a \in Attempt, LeaderExits(a) \/ ChildExits(a) PROVE QueueStep
    BY <1>1, <1>12 DEF LeaderExits, ChildExits, queue
  <1>13. CASE FlagTransport
    BY <1>1, <1>13 DEF FlagTransport, queue
  <1>14. CASE UNCHANGED vars
    BY <1>1, <1>14 DEF vars
  <1> QED BY <1>1, <1>5, <1>6, <1>7, <1>8, <1>9, <1>10, <1>11, <1>12, <1>13, <1>14 DEF Next

-----------------------------------------------------------------------------
(* What the deliveries know.                                               *)

LEMMA DeliveryTypes ==
  ASSUME TypeOK
  PROVE  \A w \in Worker :
           /\ delivery[w] \in DeliveryRow
           /\ delivery[w].fence \in Nat /\ delivery[w].attempt \in Nat
           /\ delivery[w].generation \in Nat /\ delivery[w].ticket \in Nat
  BY JobDeliveryAssumption DEF TypeOK, DeliveryRow

\* What a delivery knows stays true whatever the others do.
LEMMA DeliveryStands ==
  ASSUME TypeOK, TypeOK', TicketInv, Forward, QueueForward,
         NEW d \in DeliveryRow, DeliveryInv(d)
  PROVE  DeliveryInv(d)'
  <1>1. /\ d.fence \in Nat /\ d.attempt \in Nat /\ d.generation \in Nat /\ d.ticket \in Nat
        /\ job'.generation \in Nat /\ job'.fence \in Nat /\ job'.current \in Nat
        /\ serial'.attempt \in Nat /\ serial'.ticket \in Nat
    <2>1. d.fence \in Nat /\ d.attempt \in Nat /\ d.generation \in Nat /\ d.ticket \in Nat
      BY JobDeliveryAssumption DEF DeliveryRow
    <2>2. job'.generation \in Nat /\ job'.fence \in Nat /\ job'.current \in Nat
      BY JobDeliveryAssumption DEF TypeOK, JobRow, Generation
    <2>3. serial'.attempt \in Nat /\ serial'.ticket \in Nat
      BY JobDeliveryAssumption DEF TypeOK, Ticket
    <2> QED BY <2>1, <2>2, <2>3
  <1>2. BoundsInv(d)'
    <2>1. d.generation <= job'.generation /\ d.attempt <= serial'.attempt /\ d.fence <= job'.fence
      BY <1>1, RowTypes DEF DeliveryInv, BoundsInv, Forward, QueueForward
    <2>2. d.step \in Carries => d.ticket <= serial'.ticket
      BY <1>1, RowTypes DEF DeliveryInv, BoundsInv, QueueForward
    <2>3. d.step \in Carries => /\ d.ticket \in Ticket
                                /\ d.generation = tickets'[d.ticket].generation
      BY DEF DeliveryInv, BoundsInv, QueueForward
    <2>4. d.step \notin Carries => d.ticket = 0 /\ ~d.notified
      BY DEF DeliveryInv, BoundsInv
    <2> QED BY <2>1, <2>2, <2>3, <2>4 DEF BoundsInv
  <1>3. Unwanted(d) => job'.desired = "cancel" \/ d.generation < job'.generation
    BY <1>1, RowTypes DEF Unwanted, Forward
  <1>4. ASSUME d.attempt \in Attempt, d.generation \in Generation, d.generation <= job.generation,
               Lost(d)
        PROVE  \/ d.generation < job'.generation \/ d.attempt < job'.current \/ d.fence < job'.fence
               \/ job'.phase = "terminal" \/ attempts'[d.attempt].phase = "finished"
               \/ dispatches'[d.generation].disposition # "active"
    <2>1. CASE d.generation < job.generation \/ d.attempt < job.current \/ d.fence < job.fence
      BY <1>1, <2>1, RowTypes DEF Forward
    <2>2. CASE \/ job.phase = "terminal" \/ attempts[d.attempt].phase = "finished"
               \/ dispatches[d.generation].disposition # "active"
      BY <1>4, <2>2 DEF Forward
    <2> QED BY <1>4, <2>1, <2>2 DEF Lost
  <1>5. d.step = "failing" => /\ d.attempt \in Attempt /\ d.generation \in Generation
                              /\ d.generation <= job.generation
    <2>1. "failing" \in Working /\ "failing" \in Carries
      BY DEF Working, Carries, Step
    <2> QED BY <2>1 DEF DeliveryInv, BoundsInv, WantInv, TicketInv
  <1>6. WantInv(d)'
    BY <1>3, <1>4, <1>5 DEF DeliveryInv, WantInv, Unwanted, Lost
  <1> QED BY <1>2, <1>6 DEF DeliveryInv

\* One delivery moves, to something it knows already.
LEMMA DeliveriesKnown ==
  ASSUME TypeOK, TypeOK', TicketInv, DeliveriesInv, Forward, QueueForward,
         NEW w \in Worker, NEW r, delivery' = [delivery EXCEPT ![w] = r], DeliveryInv(r)
  PROVE  DeliveriesInv'
  <1>1. r \in DeliveryRow
    BY DEF TypeOK
  <1>2. ASSUME NEW v \in Worker PROVE DeliveryInv(delivery[v])'
    <2>1. PICK d \in DeliveryRow : d = delivery'[v] /\ DeliveryInv(d)
      BY <1>1 DEF TypeOK, DeliveriesInv
    <2>2. DeliveryInv(d)'
      BY <2>1, DeliveryStands
    <2> QED BY <2>1, <2>2 DEF DeliveryInv, BoundsInv, WantInv, Unwanted, Lost
  <1> QED BY <1>2 DEF DeliveriesInv

LEMMA DeliveriesStand ==
  ASSUME TypeOK, TypeOK', TicketInv, DeliveriesInv, Forward, QueueForward, delivery' = delivery
  PROVE  DeliveriesInv'
  <1>1. ASSUME NEW v \in Worker PROVE DeliveryInv(delivery[v])'
    <2>1. PICK d \in DeliveryRow : d = delivery'[v] /\ DeliveryInv(d)
      BY DEF TypeOK, DeliveriesInv
    <2>2. DeliveryInv(d)'
      BY <2>1, DeliveryStands
    <2> QED BY <2>1, <2>2 DEF DeliveryInv, BoundsInv, WantInv, Unwanted, Lost
  <1> QED BY <1>1 DEF DeliveriesInv

\* A delivery goes to step s under mode m and keeps everything else.
Moves(w, s, m) ==
  \/ delivery' = Goto(w, s) /\ s # "failing"
  \/ delivery' = GotoAs(w, s, m)

LEMMA DeliveryMoves ==
  ASSUME TypeOK, TypeOK', TicketInv, DeliveriesInv, Forward, QueueForward,
         NEW w \in Worker, NEW s \in Step, NEW m, Moves(w, s, m),
         delivery[w].step \in Carries <=> s \in Carries,
         s \in Working => delivery[w].step \in Working,
         s = "sealing" => Unwanted(delivery[w]),
         s = "failing" /\ m = "cancelled" => Unwanted(delivery[w]) \/ Lost(delivery[w])
  PROVE  DeliveriesInv'
  <1> DEFINE d == delivery[w]
  <1>1. PICK r : /\ delivery' = [delivery EXCEPT ![w] = r]
                 /\ \/ r = [d EXCEPT !.step = s] /\ s # "failing"
                    \/ r = [d EXCEPT !.step = s, !.mode = m]
    BY DEF Moves, Goto, GotoAs
  <1>2. /\ r.step = s /\ r.ticket = d.ticket /\ r.generation = d.generation
        /\ r.attempt = d.attempt /\ r.fence = d.fence /\ r.notified = d.notified
        /\ s = "failing" => r.mode = m
    BY <1>1, DeliveryTypes DEF DeliveryRow
  <1>3. DeliveryInv(d)
    BY DEF DeliveriesInv
  <1>4. BoundsInv(r)
    BY <1>2, <1>3 DEF DeliveryInv, BoundsInv
  <1>5. WantInv(r)
    BY <1>2, <1>3 DEF DeliveryInv, WantInv, Unwanted, Lost
  <1> QED BY <1>1, <1>4, <1>5, DeliveriesKnown DEF DeliveryInv

LEMMA DeliveryIdles ==
  ASSUME TypeOK, TypeOK', TicketInv, DeliveriesInv, Forward, QueueForward, NEW w \in Worker,
         \/ delivery' = [delivery EXCEPT ![w] = IdleDelivery]
         \/ delivery' = [delivery EXCEPT ![w] = [IdleDelivery EXCEPT !.step = "down"]]
  PROVE  DeliveriesInv'
  <1>1. ASSUME NEW r, r = IdleDelivery \/ r = [IdleDelivery EXCEPT !.step = "down"]
        PROVE  DeliveryInv(r)
    <2>1. /\ r.step \in {"idle", "down"} /\ r.ticket = 0 /\ r.generation = 0 /\ r.attempt = 0
          /\ r.fence = 0 /\ r.notified = FALSE
      BY <1>1 DEF IdleDelivery
    <2> QED BY <2>1, RowTypes DEF DeliveryInv, BoundsInv, WantInv, Carries, Working
  <1> QED BY <1>1, DeliveriesKnown

\* What the lemmas below know of a step, whoever takes it.
KnownStep ==
  /\ TypeOK /\ TypeOK' /\ LedgerInv /\ RevisionInv
  /\ Forward /\ QueueForward

LEMMA KnownMoves ==
  ASSUME KnownStep, NEW w \in Worker, NEW s \in Step \ {"failing", "sealing"}, NEW m, Moves(w, s, m),
         delivery[w].step \in Carries <=> s \in Carries,
         s \in Working => delivery[w].step \in Working
  PROVE  DeliveriesInv'
  BY DeliveryMoves DEF KnownStep, RevisionInv

LEMMA KnownStands ==
  ASSUME KnownStep, delivery' = delivery PROVE DeliveriesInv'
  BY DeliveriesStand DEF KnownStep, RevisionInv

LEMMA KnownIdles ==
  ASSUME KnownStep, NEW w \in Worker,
         \/ delivery' = [delivery EXCEPT ![w] = IdleDelivery]
         \/ delivery' = [delivery EXCEPT ![w] = [IdleDelivery EXCEPT !.step = "down"]]
  PROVE  DeliveriesInv'
  BY DeliveryIdles DEF KnownStep, RevisionInv

LEMMA KnownRow ==
  ASSUME KnownStep, NEW w \in Worker, NEW r, delivery' = [delivery EXCEPT ![w] = r], DeliveryInv(r)
  PROVE  DeliveriesInv'
  BY DeliveriesKnown DEF KnownStep, RevisionInv

LEMMA StartupKnown ==
  ASSUME KnownStep, NEW w \in Worker, Startup(w) PROVE DeliveriesInv'
  <1> DEFINE d == delivery[w]
  <1>1. CASE Register(w)
    BY <1>1, KnownMoves DEF Register, Moves, Carries, Working, Step
  <1>2. CASE Ready(w)
    BY <1>2, KnownMoves DEF Ready, Moves, Carries, Working, Step
  <1>3. CASE SelectOrphan(w)
    <2>1. PICK m : delivery' = [delivery EXCEPT ![w] =
                     [d EXCEPT !.step = "reconciling", !.attempt = job.current,
                               !.fence = job.fence, !.generation = job.generation, !.mode = m]]
      BY <1>3 DEF SelectOrphan
    <2> DEFINE r == [d EXCEPT !.step = "reconciling", !.attempt = job.current,
                              !.fence = job.fence, !.generation = job.generation, !.mode = m]
    <2>2. d.ticket = 0 /\ ~d.notified
      BY <1>3 DEF SelectOrphan, KnownStep, RevisionInv, DeliveriesInv, DeliveryInv, BoundsInv, Carries
    <2>3. /\ r.step = "reconciling" /\ r.attempt = job.current /\ r.fence = job.fence
          /\ r.generation = job.generation /\ r.ticket = d.ticket /\ r.notified = d.notified
      BY DeliveryTypes DEF KnownStep, DeliveryRow
    <2>4. /\ job.current = serial.attempt
          /\ job.current <= job.current /\ job.fence <= job.fence /\ job.generation <= job.generation
      BY RowTypes DEF KnownStep, LedgerInv
    <2>5. DeliveryInv(r)
      BY <2>2, <2>3, <2>4 DEF DeliveryInv, BoundsInv, WantInv, Carries, Working
    <2> QED BY <2>1, <2>5, KnownRow
  <1>4. CASE ReconcileOrphan(w)
    BY <1>4, KnownIdles DEF ReconcileOrphan
  <1> QED BY <1>1, <1>2, <1>3, <1>4 DEF Startup

LEMMA EnvironmentKnown ==
  ASSUME KnownStep, NEW w \in Worker, Environment(w) \/ Notify(w) PROVE DeliveriesInv'
  <1> DEFINE d == delivery[w]
  <1>1. CASE Crash(w)
    BY <1>1, KnownIdles DEF Crash
  <1>2. CASE GracefulStop(w)
    BY <1>2, KnownMoves DEF GracefulStop, Moves, Carries, Working, Step
  <1>3. CASE RuntimeExpires(w) \/ RuntimeLapses(w) \/ Heartbeat(w)
    BY <1>3, KnownStands DEF RuntimeExpires, RuntimeLapses, Heartbeat
  <1>4. CASE Notify(w)
    <2> DEFINE r == [d EXCEPT !.notified = TRUE]
    <2>1. /\ r.step = d.step /\ r.attempt = d.attempt /\ r.fence = d.fence /\ r.mode = d.mode
          /\ r.generation = d.generation /\ r.ticket = d.ticket
      BY DeliveryTypes DEF KnownStep, DeliveryRow
    <2>2. DeliveryInv(d) /\ TicketInv
      BY DEF KnownStep, RevisionInv, DeliveriesInv
    <2>3. d.ticket \in Ticket /\ tickets[d.ticket].status = "cancelled" /\ d.ticket # 0
      BY <1>4 DEF Notify, Ticket
    <2>4. d.step \in Carries
      BY <2>2, <2>3 DEF DeliveryInv, BoundsInv
    <2>5. Unwanted(d)
      BY <2>2, <2>3, <2>4 DEF DeliveryInv, BoundsInv, TicketInv, Unwanted
    <2>6. DeliveryInv(r)
      BY <2>1, <2>2, <2>4, <2>5 DEF DeliveryInv, BoundsInv, WantInv, Unwanted, Lost
    <2>7. delivery' = [delivery EXCEPT ![w] = r]
      BY <1>4 DEF Notify
    <2> QED BY <2>6, <2>7, KnownRow
  <1> QED BY <1>1, <1>2, <1>3, <1>4 DEF Environment

LEMMA PreAdmissionKnown ==
  ASSUME KnownStep, NEW w \in Worker, PreAdmission(w) PROVE DeliveriesInv'
  <1>1. ASSUME NEW t \in Ticket, TakeTicket(w, t), tickets[t].status # "absent"
        PROVE  DeliveriesInv'
    <2> DEFINE r == [IdleDelivery EXCEPT !.step = "picked", !.ticket = t,
                                         !.generation = tickets[t].generation]
    <2>1. /\ r.step = "picked" /\ r.ticket = t /\ r.generation = tickets[t].generation
          /\ r.attempt = 0 /\ r.fence = 0 /\ r.notified = FALSE
      BY DEF IdleDelivery
    <2>2. t <= serial.ticket /\ tickets[t].generation <= job.generation
      BY <1>1, TicketTypes, RowTypes DEF KnownStep, RevisionInv, TicketInv
    <2>3. 0 <= serial.attempt /\ 0 <= job.fence
      BY RowTypes DEF KnownStep
    <2>4. "picked" \in Carries /\ "picked" \notin Working
      BY DEF Carries, Step, Working
    <2>5. DeliveryInv(r)
      BY <2>1, <2>2, <2>3, <2>4 DEF DeliveryInv, BoundsInv, WantInv
    <2> QED BY <1>1, <2>5, KnownRow DEF TakeTicket
  <1>2. CASE \E t \in Ticket : Pick(w, t) \/ Redeliver(w, t) \/ DeliverTwice(w, t)
    BY <1>1, <1>2 DEF Pick, Redeliver, DeliverTwice
  <1>3. CASE Preflight(w) \/ WaitForGate(w) \/ AcquireGates(w) \/ GateCancelled(w)
    <2>1. /\ delivery[w].step \in {"picked", "gating", "waiting"}
          /\ \E s \in {"reply", "gating", "waiting", "admitting", "intent"} : \E m : Moves(w, s, m)
      BY <1>3 DEF Preflight, WaitForGate, AcquireGates, GateCancelled, Moves, Answer
    <2> QED BY <2>1, KnownMoves DEF Carries, Working, Step
  <1>4. CASE GateTimeout(w) \/ GateConnectionLost(w) \/ GateSessionBroken(w)
    <2>1. /\ delivery[w].step \in {"gating", "waiting"}
          /\ \E s \in {"reply", "deferring"} : \E m : Moves(w, s, m)
      BY <1>4 DEF GateTimeout, GateConnectionLost, GateSessionBroken, GiveUp, Moves, Answer
    <2> QED BY <2>1, KnownMoves DEF Carries, Working, Step
  <1>5. CASE Defer(w) \/ DeferralExhausted(w) \/ DeferralMoot(w) \/ RecheckDeferral(w)
    <2>1. /\ delivery[w].step \in {"deferring", "deferred"}
          /\ \E s \in {"reply", "deferred", "intent"} : \E m : Moves(w, s, m)
      BY <1>5 DEF Defer, DeferralExhausted, DeferralMoot, RecheckDeferral, Moves, Answer
    <2> QED BY <2>1, KnownMoves DEF Carries, Working, Step
  <1>6. CASE ApplyIntent(w)
    <2>1. /\ delivery[w].step \in {"intent", "unadmitted"}
          /\ \E s \in {"reply", "releasing"} : \E m : Moves(w, s, m)
      BY <1>6 DEF ApplyIntent, Moves, Answer, Finish
    <2> QED BY <2>1, KnownMoves DEF Carries, Working, Step
  <1> QED BY <1>2, <1>3, <1>4, <1>5, <1>6 DEF PreAdmission

LEMMA DeliveryStarts ==
  ASSUME KnownStep, NEW w \in Worker, NEW ledger \in [Attempt -> AttemptRow],
         delivery[w].step \in Carries, StartAttempt(w, ledger)
  PROVE  DeliveriesInv'
  <1> DEFINE d == delivery[w]
             r == [d EXCEPT !.step = "executing", !.attempt = job'.current, !.fence = job'.fence]
  <1>1. /\ job'.current \in Attempt /\ job'.current = serial'.attempt
        /\ job'.current = serial.attempt + 1 /\ job'.fence = job.fence + 1
        /\ job'.generation = job.generation /\ job'.desired = job.desired
        /\ serial'.ticket = serial.ticket
    BY StartForms DEF KnownStep
  <1>2. delivery' = [delivery EXCEPT ![w] = r]
    BY <1>1 DEF StartAttempt
  <1>3. /\ r.step = "executing" /\ r.attempt = job'.current /\ r.fence = job'.fence
        /\ r.generation = d.generation /\ r.ticket = d.ticket /\ r.notified = d.notified
    BY DeliveryTypes DEF KnownStep, DeliveryRow
  <1>4. DeliveryInv(d)
    BY DEF KnownStep, RevisionInv, DeliveriesInv
  <1>5. "executing" \in Carries /\ "executing" \in Working
    BY DEF Carries, Step, Working
  <1>6. job'.current <= serial'.attempt /\ job'.fence <= job'.fence
    BY <1>1, RowTypes DEF KnownStep, TypeOK, JobRow
  <1>7. delivery'[w] = r
    BY <1>2 DEF KnownStep, TypeOK
  <1>8. BoundsInv(delivery[w])'
    BY <1>1, <1>3, <1>4, <1>5, <1>6, <1>7 DEF DeliveryInv, BoundsInv, KnownStep, QueueForward
  <1>9. WantInv(delivery[w])'
    BY <1>1, <1>3, <1>4, <1>5, <1>7 DEF DeliveryInv, WantInv, Unwanted
  <1>10. ASSUME NEW v \in Worker, v # w PROVE DeliveryInv(delivery[v])'
    <2>1. PICK e \in DeliveryRow : e = delivery'[v] /\ DeliveryInv(e)
      BY <1>2, <1>10 DEF KnownStep, TypeOK, RevisionInv, DeliveriesInv
    <2>2. DeliveryInv(e)'
      BY <2>1, DeliveryStands DEF KnownStep, RevisionInv
    <2> QED BY <2>1, <2>2 DEF DeliveryInv, BoundsInv, WantInv, Unwanted, Lost
  <1> QED BY <1>8, <1>9, <1>10 DEF DeliveriesInv, DeliveryInv

LEMMA AdmissionKnown ==
  ASSUME KnownStep, NEW w \in Worker, Admission(w) PROVE DeliveriesInv'
  <1> DEFINE d == delivery[w]
  <1>0. d \in DeliveryRow /\ DeliveryInv(d)
    BY DeliveryTypes DEF KnownStep, RevisionInv, DeliveriesInv
  <1>1. CASE AdmitNothing(w) \/ CandidateGone(w) \/ CondemnAttempt(w) \/ SupersedeRefused(w)
    <2>1. /\ d.step \in {"admitting", "recovering", "condemning", "superseding"}
          /\ \E s \in {"unadmitted", "releasing"} : \E m : Moves(w, s, m)
      BY <1>1 DEF AdmitNothing, CandidateGone, CondemnAttempt, SupersedeRefused, Moves, Finish
    <2> QED BY <2>1, KnownMoves DEF Carries, Working, Step
  <1>2. CASE AdmitAttempt(w)
    BY <1>2, DeliveryStarts DEF AdmitAttempt, Admissible, KnownStep, TypeOK, Carries, Step
  <1>3. CASE SupersedeAttempt(w)
    <2>1. d.attempt \in Attempt
      BY <1>3 DEF SupersedeAttempt, Supersedable, Candidate, Unfinished
    <2>2. Closed(d.attempt, "interrupted") \in [Attempt -> AttemptRow]
      BY <2>1, ClosedTyped DEF KnownStep, TypeOK, AttemptOutcome
    <2> QED BY <1>3, <2>2, DeliveryStarts DEF SupersedeAttempt, Carries, Step
  <1>4. CASE AdmitBusy(w)
    <2>1. PICK a \in Attempt :
            /\ Unfinished(a)
            /\ delivery' = IF Fresh(a) THEN Finish(w, "requeue")
                           ELSE [delivery EXCEPT ![w] = [d EXCEPT !.step = "recovering", !.attempt = a]]
      BY <1>4 DEF AdmitBusy
    <2> DEFINE r == [d EXCEPT !.step = "recovering", !.attempt = a]
    <2>2. a <= serial.attempt
      BY <2>1 DEF KnownStep, LedgerInv, Unfinished, Started
    <2>3. /\ r.step = "recovering" /\ r.attempt = a /\ r.fence = d.fence
          /\ r.generation = d.generation /\ r.ticket = d.ticket /\ r.notified = d.notified
      BY <1>0 DEF DeliveryRow
    <2>4. d.step \in Carries /\ "recovering" \in Carries /\ "recovering" \notin Working
      BY <1>4 DEF AdmitBusy, Admissible, Carries, Step, Working
    <2>5. DeliveryInv(r)
      BY <1>0, <2>2, <2>3, <2>4 DEF DeliveryInv, BoundsInv, WantInv, Unwanted
    <2>6. CASE delivery' = Finish(w, "requeue")
      BY <2>4, <2>6, KnownMoves DEF Moves, Finish, Carries, Working, Step
    <2> QED BY <2>1, <2>5, <2>6, KnownRow
  <1>5. CASE ExamineAttempt(w)
    <2>1. PICK p \in {"condemning", "superseding"} :
            \/ delivery' = Finish(w, "requeue")
            \/ delivery' = [delivery EXCEPT ![w] = [d EXCEPT !.fence = job.fence, !.step = p]]
      BY <1>5 DEF ExamineAttempt
    <2> DEFINE r == [d EXCEPT !.fence = job.fence, !.step = p]
    <2>2. /\ r.step = p /\ r.attempt = d.attempt /\ r.fence = job.fence
          /\ r.generation = d.generation /\ r.ticket = d.ticket /\ r.notified = d.notified
      BY <1>0 DEF DeliveryRow
    <2>3. d.step \in Carries /\ p \in Carries /\ p \notin Working /\ job.fence <= job.fence
      BY <1>5, RowTypes DEF ExamineAttempt, Carries, Step, Working, KnownStep
    <2>4. DeliveryInv(r)
      BY <1>0, <2>2, <2>3 DEF DeliveryInv, BoundsInv, WantInv, Unwanted
    <2>5. CASE delivery' = Finish(w, "requeue")
      BY <2>3, <2>5, KnownMoves DEF Moves, Finish, Carries, Working, Step
    <2> QED BY <2>1, <2>4, <2>5, KnownRow
  <1> QED BY <1>1, <1>2, <1>3, <1>4, <1>5 DEF Admission

\* A delivery that ran an attempt and does not own the job any more has lost it.
LEMMA NotOwnedIsLost ==
  ASSUME TypeOK, LedgerInv, RowStates, NEW w \in Worker, DeliveryInv(delivery[w]),
         delivery[w].attempt \in Attempt, ~Owns(w, Busy, AnyWish)
  PROVE  Lost(delivery[w])
  <1> DEFINE d == delivery[w]
  <1>1. /\ d.generation <= job.generation /\ d.attempt <= job.current /\ d.fence <= job.fence
        /\ d.generation \in Nat /\ d.fence \in Nat /\ d.attempt \in Nat
    BY DeliveryTypes DEF DeliveryInv, BoundsInv, LedgerInv
  <1>2. CASE d.generation < job.generation \/ d.attempt < job.current \/ d.fence < job.fence
    BY <1>2 DEF Lost
  <1>3. CASE d.generation = job.generation /\ d.attempt = job.current /\ d.fence = job.fence
    <2>1. \/ job.phase = "terminal" \/ ~Unfinished(d.attempt)
          \/ dispatches[d.generation].disposition # "active"
      BY <1>3, RowTypes DEF Owns, Claims, RowStates, Busy, AnyWish, Current, LedgerInv
    <2>2. ~Unfinished(d.attempt) => attempts[d.attempt].phase = "finished"
      BY <1>1, LedgerTypes DEF LedgerInv, Started, Unfinished
    <2> QED BY <2>1, <2>2 DEF Lost
  <1> QED BY <1>1, <1>2, <1>3, RowTypes

LEMMA ExecutionKnown ==
  ASSUME KnownStep, NEW w \in Worker, Execution(w) PROVE DeliveriesInv'
  <1> DEFINE d == delivery[w]
  <1>0. d \in DeliveryRow /\ DeliveryInv(d) /\ TypeOK /\ LedgerInv /\ RowStates
    BY DeliveryTypes DEF KnownStep, RevisionInv, DeliveriesInv
  <1>1. CASE LaunchChild(w) \/ RecordIntent(w) \/ Publish(w)
    BY <1>1, KnownStands DEF LaunchChild, RecordIntent, Publish
  <1>2. d.step = "executing" => /\ d.step \in Carries /\ d.step \in Working
                                /\ d.attempt \in Attempt
    BY <1>0 DEF DeliveryInv, WantInv, Carries, Step, Working
  <1>3. ASSUME NEW m, d.step = "executing", delivery' = GotoAs(w, "failing", m),
               m = "cancelled" => d.notified \/ ~Owns(w, Busy, AnyWish)
        PROVE  DeliveriesInv'
    <2>1. m = "cancelled" => Unwanted(d) \/ Lost(d)
      BY <1>0, <1>2, <1>3, NotOwnedIsLost DEF DeliveryInv, WantInv
    <2>2. "failing" \in Carries /\ "failing" \in Working /\ "failing" \in Step
      BY DEF Carries, Step, Working
    <2> QED BY <1>2, <1>3, <2>1, <2>2, DeliveryMoves DEF Moves, KnownStep, RevisionInv
  <1>4. CASE PublishTorn(w)
    BY <1>3, <1>4 DEF PublishTorn, MayPublish, Executing
  <1>5. CASE Return(w)
    BY <1>2, <1>5, KnownMoves DEF Return, Executing, Moves, Carries, Working, Step
  <1>6. CASE Raise(w)
    <2>1. PICK class \in FailureClass(w) : delivery' = GotoAs(w, "failing", class)
      BY <1>6 DEF Raise
    <2>2. class = "cancelled" => d.notified \/ ~Owns(w, Busy, AnyWish)
      BY DEF FailureClass
    <2> QED BY <1>3, <1>6, <2>1, <2>2 DEF Raise, Executing
  <1>7. CASE Unwind(w)
    <2>1. Unwanted(d)
      BY <1>0, <1>7 DEF Unwind, DeliveryInv, WantInv
    <2>2. "sealing" \in Carries /\ "sealing" \in Working /\ "sealing" \in Step
      BY DEF Carries, Step, Working
    <2> QED BY <1>2, <1>7, <2>1, <2>2, DeliveryMoves
            DEF Unwind, Executing, Moves, KnownStep, RevisionInv
  <1>8. CASE DeathUnproven(w)
    <2>1. CASE delivery' = GotoAs(w, "failing", "unsafe")
      BY <1>3, <1>8, <2>1 DEF DeathUnproven, Executing
    <2>2. CASE delivery' = Finish(w, "hold")
      BY <1>2, <1>8, <2>2, KnownMoves DEF DeathUnproven, Executing, Moves, Finish, Carries, Working, Step
    <2> QED BY <1>8, <2>1, <2>2 DEF DeathUnproven
  <1> QED BY <1>1, <1>4, <1>5, <1>6, <1>7, <1>8 DEF Execution

LEMMA SettlementKnown ==
  ASSUME KnownStep, NEW w \in Worker, Settlement(w) PROVE DeliveriesInv'
  <1>1. CASE TellQueue(w)
    BY <1>1, KnownIdles DEF TellQueue
  <1>2. CASE SuccessLost(w) /\ Claims(w, Busy, {"cancel"})
    <2>1. Unwanted(delivery[w])
      BY <1>2 DEF Claims, Unwanted
    <2>2. "sealing" \in Step /\ "sealing" \in Carries /\ "sealing" \in Working
          /\ delivery[w].step \in Carries /\ delivery[w].step \in Working
      BY <1>2 DEF SuccessLost, Carries, Step, Working
    <2>3. delivery' = GotoAs(w, "sealing", "lost")
      BY <1>2 DEF SuccessLost
    <2> QED BY <2>1, <2>2, <2>3, DeliveryMoves DEF Moves, KnownStep, RevisionInv
  <1>3. CASE \/ Succeed(w) \/ SealCancelled(w) \/ RetryLater(w) \/ FailForGood(w)
             \/ ReleaseFails(w) \/ (SuccessLost(w) /\ ~Claims(w, Busy, {"cancel"}))
    <2>1. /\ delivery[w].step \in {"returned", "sealing", "failing", "releasing"}
          /\ \E s \in {"reply", "releasing"} : \E m : Moves(w, s, m)
      BY <1>3 DEF Succeed, SealCancelled, RetryLater, MayRetry, FailForGood, ReleaseFails,
                  SuccessLost, Moves, Answer, Finish
    <2> QED BY <2>1, KnownMoves DEF Carries, Working, Step
  <1> QED BY <1>1, <1>2, <1>3 DEF Settlement

LEMMA NextRevision ==
  ASSUME TypeOK, LedgerInv, RevisionInv, [Next]_vars
  PROVE  RevisionInv' /\ LedgerStep /\ Forward
  <1>1. TypeOK'
    BY NextTyped
  <1>2. LedgerStep
    BY NextSteps
  <1>3. Forward /\ RowStates'
    BY <1>2, StepForward, StepRowStates DEF RevisionInv
  <1>4. QueueForward /\ TicketInv'
    BY <1>1, <1>3, NextQueue DEF QueueStep, RevisionInv
  <1>5. KnownStep
    BY <1>1, <1>3, <1>4 DEF KnownStep
  <1>6. ASSUME UNCHANGED vars PROVE DeliveriesInv'
    BY <1>5, <1>6, KnownStands DEF vars
  <1>7. ASSUME NEW a \in Attempt, LeaderExits(a) \/ ChildExits(a) PROVE DeliveriesInv'
    BY <1>5, <1>7, KnownStands DEF LeaderExits, ChildExits
  <1>8. ASSUME Cancel \/ Reprioritize \/ RecoverDeferral \/ FlagTransport
        PROVE  DeliveriesInv'
    BY <1>5, <1>8, KnownStands DEF Cancel, Reprioritize, RecoverDeferral, FlagTransport
  <1>9. DeliveriesInv'
    BY <1>5, <1>6, <1>7, <1>8, StartupKnown, EnvironmentKnown, PreAdmissionKnown, AdmissionKnown,
       ExecutionKnown, SettlementKnown
    DEF Next
  <1> QED BY <1>2, <1>3, <1>4, <1>9 DEF RevisionInv

StoryInv == VerdictInv /\ DispatchInv

LEMMA InitRevision ==
  ASSUME Init PROVE RevisionInv /\ StoryInv
  <1>1. 1 \in Generation /\ 1 \in Ticket /\ 1 \in Nat
    BY JobDeliveryAssumption DEF Generation, Ticket
  <1>2. RowStates
    BY DEF Init, RowStates
  <1>3. TicketInv
    BY <1>1, JobDeliveryAssumption DEF Init, TicketInv, QueuedTicket, UnusedTicket, Ticket
  <1>4. ASSUME NEW w \in Worker PROVE DeliveryInv(delivery[w])
    <2>1. delivery[w] = [IdleDelivery EXCEPT !.step = "off"]
      BY DEF Init
    <2>2. /\ delivery[w].step = "off" /\ delivery[w].ticket = 0 /\ delivery[w].generation = 0
          /\ delivery[w].attempt = 0 /\ delivery[w].fence = 0 /\ delivery[w].notified = FALSE
      BY <2>1 DEF IdleDelivery
    <2>3. job.generation = 1 /\ serial.attempt = 0 /\ job.fence = 0
      BY DEF Init
    <2> QED BY <2>2, <2>3 DEF DeliveryInv, BoundsInv, WantInv, Carries, Working
  <1>5. VerdictInv
    BY DEF Init, VerdictInv, VerdictBacked, UnusedAttempt, Unfinished
  <1>6. DispatchInv
    BY <1>1 DEF Init, DispatchInv
  <1> QED BY <1>2, <1>3, <1>4, <1>5, <1>6 DEF RevisionInv, DeliveriesInv, StoryInv

LEMMA NextStory ==
  ASSUME TypeOK, LedgerInv, RevisionInv, StoryInv, [Next]_vars PROVE StoryInv'
  BY NextRevision, StepVerdict, StepDispatch DEF RevisionInv, StoryInv, VerdictInv

DeliveryStory == TypeOK /\ LedgerInv /\ RevisionInv /\ StoryInv

LEMMA StoryInvariant == Spec => []DeliveryStory
  <1>1. Init => DeliveryStory
    BY InitTyped, InitLedger, InitRevision DEF DeliveryStory
  <1>2. DeliveryStory /\ [Next]_vars => DeliveryStory'
    BY NextTyped, NextLedger, NextRevision, NextStory DEF DeliveryStory
  <1> QED BY <1>1, <1>2, PTL DEF Spec

-----------------------------------------------------------------------------
(* Every step maps to a step of the abstract life of a job, or to none.    *)

LEMMA StepRefines ==
  ASSUME TypeOK, LedgerInv, RowStates, LedgerStep
  PROVE  [Lifecycle!Next]_(Lifecycle!lifecycle)
  <1>0. /\ job.phase \in {"queued", "running", "stopping", "terminal"}
        /\ job.desired \in {"run", "cancel"}
    BY RowTypes
  <1>1. CASE Quiet \/ MarksStale
    BY <1>1 DEF Quiet, JobKept, MarksStale, Lifecycle!lifecycle
  <1>2. CASE Starts
    <2>1. PICK w \in Worker, ledger \in [Attempt -> AttemptRow] :
            StartAttempt(w, ledger) /\ job.phase \in {"queued", "running"}
      BY <1>2, StartsForms
    <2>2. Lifecycle!Admit
      BY <1>2, <2>1, StartForms DEF Starts, Lifecycle!Admit
    <2> QED BY <2>2 DEF Lifecycle!Next
  <1>3. ASSUME NEW o \in Outcome, OwnerEnds(o) PROVE [Lifecycle!Next]_(Lifecycle!lifecycle)
    <2>1. o \in Lifecycle!Verdict
      BY <1>3 DEF OwnerEnds, Outcome, Lifecycle!Verdict
    <2>2. /\ job.phase \in Busy /\ (o = "cancelled" => job.desired = "cancel")
          /\ o \in {"succeeded", "failed"} => job.desired = "run"
      BY <1>3 DEF OwnerEnds, HasOwner
    <2>3. o = "succeeded" => job.phase = "running"
      BY <1>0, <2>2 DEF RowStates, Busy
    <2>4. Lifecycle!Settle(o)
      BY <1>3, <2>2, <2>3, OwnerEndsForms DEF Lifecycle!Settle, Busy
    <2> QED BY <2>1, <2>4 DEF Lifecycle!Next
  <1>4. CASE OwnerReleases
    <2>1. job.phase = "running" /\ job.desired = "run"
      BY <1>4 DEF OwnerReleases, HasOwner, RowStates, Busy
    <2>2. Lifecycle!Release
      BY <1>4, <2>1, ReleaseForms DEF Lifecycle!Release
    <2> QED BY <2>2 DEF Lifecycle!Next
  <1>5. CASE Dismissed
    <2>1. CASE job'.outcome = "cancelled" /\ job'.desired = "cancel"
      <3>1. Lifecycle!Settle("cancelled")
        BY <1>5, <2>1, DismissedForms DEF Lifecycle!Settle
      <3> QED BY <3>1 DEF Lifecycle!Next, Lifecycle!Verdict
    <2>2. CASE job.phase = "queued" /\ job'.outcome = "failed" /\ job'.desired = job.desired
      <3>1. job.desired = "run"
        BY <2>2 DEF RowStates
      <3>2. Lifecycle!Settle("failed")
        BY <1>5, <2>2, <3>1, DismissedForms DEF Lifecycle!Settle
      <3> QED BY <3>2 DEF Lifecycle!Next, Lifecycle!Verdict
    <2> QED BY <1>5, <2>1, <2>2, DismissedForms
  <1>6. CASE CancelAccepted
    <2>1. job.phase \in {"queued", "running"} /\ job.desired = "run"
      BY <1>0, <1>6 DEF CancelAccepted, RowStates
    <2>2. Lifecycle!RequestCancel
      BY <1>6, <2>1, CancelForms DEF Lifecycle!RequestCancel
    <2> QED BY <2>2 DEF Lifecycle!Next
  <1>7. CASE Revised
    <2>1. job.phase = "queued"
      BY <1>7 DEF Revised
    <2>2. Lifecycle!Revise
      BY <1>7, <2>1, RevisedForms DEF Lifecycle!Revise
    <2> QED BY <2>2 DEF Lifecycle!Next
  <1> QED BY <1>1, <1>2, <1>3, <1>4, <1>5, <1>6, <1>7 DEF LedgerStep

\* The job row lives the life JobLifecycle promises: nothing is admitted, queued
\* again or reported as a success once cancellation was accepted, a job is
\* cancelled only because somebody asked for it, and a verdict is final.
THEOREM LifecycleRefinementHolds == Spec => LifecycleRefinement
  <1>1. Init => Lifecycle!Init
    BY DEF Init, Lifecycle!Init
  <1>2. DeliveryStory /\ [Next]_vars => [Lifecycle!Next]_(Lifecycle!lifecycle)
    BY NextRevision, StepRefines DEF DeliveryStory, RevisionInv
  <1> QED BY <1>1, <1>2, StoryInvariant, PTL DEF Spec, LifecycleRefinement, Lifecycle!Spec

\* A job succeeded exactly when its current attempt did, and a job that succeeded,
\* failed or is unsafe has no attempt still open, whoever wrote the verdict.
THEOREM VerdictBackedHolds == Spec => []VerdictBacked
  <1>1. DeliveryStory => VerdictBacked
    BY DEF DeliveryStory, StoryInv, VerdictInv
  <1> QED BY <1>1, StoryInvariant, PTL

-----------------------------------------------------------------------------
(* Without the monitor, an open job has an active dispatch.                *)

\* The current generation has one ticket, which job and dispatch agree on.
LinkInv ==
  /\ Current.ticket = job.ticket
  /\ \A t \in Ticket : tickets[t].generation = job.generation => t = job.ticket

OpenInv == LinkInv /\ (job.phase # "terminal" => Current.disposition = "active")

LinkKept ==
  /\ job'.ticket = job.ticket /\ job'.generation = job.generation
  /\ \A g \in Generation : dispatches'[g].ticket = dispatches[g].ticket
  /\ \A t \in Ticket : tickets'[t].generation = tickets[t].generation

\* What the transactions write to a job row, its ticket apart.
Rewritten ==
  \/ job' = job
  \/ \E o : job' = Settled(o) \/ job' = [Settled(o) EXCEPT !.fence = @ + 1]
            \/ job' = [Settled(o) EXCEPT !.desired = "cancel", !.fence = @ + 1]
  \/ \E p : job' = [job EXCEPT !.phase = p] \/ job' = [job EXCEPT !.desired = "cancel", !.phase = p]
  \/ \E p, q : job' = [job EXCEPT !.attention = p, !.defers = q]
  \/ \E w \in Worker : \E ledger : StartAttempt(w, ledger)

DispatchesRewritten == dispatches' = dispatches \/ \E g, d : dispatches' = [dispatches EXCEPT ![g].disposition = d]

TicketsRewritten == tickets' = tickets \/ \E t, s, h : tickets' = Handed(t, s, h)

LEMMA RewrittenKeepsLink ==
  ASSUME TypeOK, Rewritten, DispatchesRewritten, TicketsRewritten PROVE LinkKept
  <1>1. job'.ticket = job.ticket /\ job'.generation = job.generation
    <2>1. CASE job' = job
      BY <2>1
    <2>2. ASSUME NEW o, \/ job' = Settled(o) \/ job' = [Settled(o) EXCEPT !.fence = @ + 1]
                        \/ job' = [Settled(o) EXCEPT !.desired = "cancel", !.fence = @ + 1]
          PROVE  job'.ticket = job.ticket /\ job'.generation = job.generation
      BY <2>2 DEF Settled, TypeOK, JobRow
    <2>3. ASSUME NEW p, \/ job' = [job EXCEPT !.phase = p]
                        \/ job' = [job EXCEPT !.desired = "cancel", !.phase = p]
          PROVE  job'.ticket = job.ticket /\ job'.generation = job.generation
      BY <2>3 DEF TypeOK, JobRow
    <2>4. ASSUME NEW p, NEW q, job' = [job EXCEPT !.attention = p, !.defers = q]
          PROVE  job'.ticket = job.ticket /\ job'.generation = job.generation
      BY <2>4 DEF TypeOK, JobRow
    <2>5. ASSUME NEW w \in Worker, NEW ledger, StartAttempt(w, ledger)
          PROVE  job'.ticket = job.ticket /\ job'.generation = job.generation
      BY <2>5 DEF StartAttempt, TypeOK, JobRow
    <2> QED BY <2>1, <2>2, <2>3, <2>4, <2>5 DEF Rewritten
  <1>2. \A g \in Generation : dispatches'[g].ticket = dispatches[g].ticket
    <2>1. ASSUME NEW g, NEW d, dispatches' = [dispatches EXCEPT ![g].disposition = d]
          PROVE  \A h \in Generation : dispatches'[h].ticket = dispatches[h].ticket
      BY <2>1 DEF TypeOK, DispatchRow
    <2> QED BY <2>1 DEF DispatchesRewritten
  <1>3. \A t \in Ticket : tickets'[t].generation = tickets[t].generation
    <2>1. ASSUME NEW t, NEW s, NEW h, tickets' = Handed(t, s, h)
          PROVE  \A u \in Ticket : tickets'[u].generation = tickets[u].generation
      BY <2>1 DEF TypeOK, TicketRow, Handed
    <2> QED BY <2>1 DEF TicketsRewritten
  <1> QED BY <1>1, <1>2, <1>3 DEF LinkKept

LEMMA NextLink ==
  ASSUME TypeOK, [Next]_vars, "monitor" \notin Faults
  PROVE  LinkKept \/ Reprioritize
  <1>1. CASE UNCHANGED vars
    BY <1>1 DEF vars, LinkKept
  <1>2. ASSUME NEW w \in Worker, Startup(w) PROVE LinkKept
    <2>1. Rewritten /\ DispatchesRewritten /\ TicketsRewritten
      <3>1. CASE ReconcileOrphan(w)
        BY <3>1 DEF ReconcileOrphan, Terminal, BackToQueue, Ended, canonical, queue,
                    Rewritten, DispatchesRewritten, TicketsRewritten
      <3> QED BY <1>2, <3>1 DEF Startup, Register, Ready, SelectOrphan, canonical, queue,
                    Rewritten, DispatchesRewritten, TicketsRewritten
    <2> QED BY <2>1, RewrittenKeepsLink
  <1>3. ASSUME NEW w \in Worker, Environment(w) \/ Notify(w) PROVE LinkKept
    BY <1>3 DEF Environment, Crash, GracefulStop, RuntimeExpires, RuntimeLapses, Heartbeat, Notify,
                canonical, queue, LinkKept
  <1>4. ASSUME NEW w \in Worker, PreAdmission(w) PROVE LinkKept
    <2>1. CASE \E t \in Ticket : Pick(w, t) \/ Redeliver(w, t) \/ DeliverTwice(w, t)
      <3>1. PICK t \in Ticket : TakeTicket(w, t)
        BY <2>1 DEF Pick, Redeliver, DeliverTwice
      <3>2. tickets' = Handed(t, "picked", w) /\ job' = job /\ dispatches' = dispatches
        BY <3>1 DEF TakeTicket, canonical, Handed
      <3>3. Rewritten /\ DispatchesRewritten /\ TicketsRewritten
        BY <3>2 DEF Rewritten, DispatchesRewritten, TicketsRewritten
      <3> QED BY <3>3, RewrittenKeepsLink
    <2>2. CASE \/ Preflight(w) \/ AcquireGates(w) \/ GateCancelled(w) \/ GateTimeout(w)
               \/ GateConnectionLost(w) \/ GateSessionBroken(w) \/ DeferralMoot(w)
               \/ RecheckDeferral(w)
      BY <2>2 DEF Preflight, AcquireGates, GateCancelled, GateTimeout, GateConnectionLost,
                  GateSessionBroken, GiveUp, DeferralMoot, RecheckDeferral, canonical, queue, LinkKept
    <2>3. CASE WaitForGate(w) \/ Defer(w) \/ DeferralExhausted(w) \/ ApplyIntent(w)
      <3>1. Rewritten /\ DispatchesRewritten /\ TicketsRewritten
        BY <2>3 DEF WaitForGate, Defer, DeferralExhausted, ApplyIntent, Ended, queue,
                    Rewritten, DispatchesRewritten, TicketsRewritten
      <3> QED BY <3>1, RewrittenKeepsLink
    <2> QED BY <1>4, <2>1, <2>2, <2>3 DEF PreAdmission
  <1>5. ASSUME NEW w \in Worker, Admission(w) PROVE LinkKept
    <2>1. CASE AdmitAttempt(w) \/ SupersedeAttempt(w)
      <3>1. Rewritten /\ DispatchesRewritten /\ TicketsRewritten
        BY <2>1 DEF AdmitAttempt, SupersedeAttempt, Rewritten, DispatchesRewritten, TicketsRewritten
      <3> QED BY <3>1, RewrittenKeepsLink
    <2>2. CASE AdmitNothing(w) \/ CondemnAttempt(w)
      <3>1. Rewritten /\ DispatchesRewritten /\ TicketsRewritten
        BY <2>2 DEF AdmitNothing, CondemnAttempt, Terminal, Ended, canonical, queue,
                    Rewritten, DispatchesRewritten, TicketsRewritten
      <3> QED BY <3>1, RewrittenKeepsLink
    <2>3. CASE AdmitBusy(w) \/ ExamineAttempt(w) \/ CandidateGone(w) \/ SupersedeRefused(w)
      BY <2>3 DEF AdmitBusy, ExamineAttempt, CandidateGone, SupersedeRefused, canonical, queue,
                  LinkKept
    <2> QED BY <1>5, <2>1, <2>2, <2>3 DEF Admission
  <1>6. ASSUME NEW w \in Worker, Execution(w) PROVE LinkKept
    <2>1. Rewritten /\ DispatchesRewritten /\ TicketsRewritten
      BY <1>6 DEF Execution, LaunchChild, RecordIntent, Publish, PublishTorn, Return, Raise, Unwind,
                  DeathUnproven, canonical, queue,
                  Rewritten, DispatchesRewritten, TicketsRewritten
    <2> QED BY <2>1, RewrittenKeepsLink
  <1>7. ASSUME NEW w \in Worker, Settlement(w) PROVE LinkKept
    <2>1. CASE TellQueue(w)
      <3>1. Rewritten /\ DispatchesRewritten /\ TicketsRewritten
        BY <2>1 DEF TellQueue, Deleted, Requeued, Handed, canonical,
                    Rewritten, DispatchesRewritten, TicketsRewritten
      <3> QED BY <3>1, RewrittenKeepsLink
    <2>2. CASE Succeed(w) \/ SealCancelled(w) \/ RetryLater(w) \/ FailForGood(w)
      <3>1. \/ UNCHANGED canonical \/ \E o, d, ao : Terminal(w, o, d, ao)
            \/ \E ao : BackToQueue(w, ao)
        BY <2>2 DEF Succeed, SealCancelled, RetryLater, FailForGood, Fail
      <3>2. Rewritten /\ DispatchesRewritten
        BY <3>1 DEF Terminal, BackToQueue, Ended, canonical, Rewritten, DispatchesRewritten
      <3>3. TicketsRewritten
        BY <2>2 DEF Succeed, SealCancelled, RetryLater, FailForGood, queue, TicketsRewritten
      <3> QED BY <3>2, <3>3, RewrittenKeepsLink
    <2>3. CASE SuccessLost(w) \/ ReleaseFails(w)
      BY <2>3 DEF SuccessLost, ReleaseFails, canonical, queue, LinkKept
    <2> QED BY <1>7, <2>1, <2>2, <2>3 DEF Settlement
  <1>8. ASSUME NEW a \in Attempt, LeaderExits(a) \/ ChildExits(a) PROVE LinkKept
    BY <1>8 DEF LeaderExits, ChildExits, queue, LinkKept
  <1>9. CASE Cancel
    <2>1. Rewritten /\ DispatchesRewritten /\ TicketsRewritten
      BY <1>9 DEF Cancel, Deleted, Handed, Ended, Rewritten, DispatchesRewritten, TicketsRewritten
    <2> QED BY <2>1, RewrittenKeepsLink
  <1>10. ~RecoverDeferral /\ ~FlagTransport
    BY DEF RecoverDeferral, FlagTransport
  <1> QED BY <1>1, <1>2, <1>3, <1>4, <1>5, <1>6, <1>7, <1>8, <1>9, <1>10 DEF Next

LEMMA NextOpen ==
  ASSUME DeliveryStory, OpenInv, [Next]_vars, "monitor" \notin Faults PROVE OpenInv'
  <1>0. /\ TypeOK /\ RowStates /\ DispatchInv /\ TicketInv /\ LedgerStep
        /\ job.generation \in Generation /\ job.generation \in Nat
    BY NextRevision, RowTypes DEF DeliveryStory, RevisionInv, StoryInv
  <1>1. CASE Reprioritize
    <2> DEFINE g == job.generation + 1
               n == serial.ticket + 1
    <2>1. /\ g \in Generation /\ n \in Ticket /\ g # job.generation
          /\ job' = [job EXCEPT !.fence = @ + 1, !.generation = g, !.ticket = n]
          /\ tickets' = Enqueued(Deleted(job.ticket, "cancelled"), g)
          /\ dispatches' = [dispatches EXCEPT
               ![job.generation].disposition = "superseded",
               ![g] = [ticket |-> n, disposition |-> "active"]]
      BY <1>0, <1>1 DEF Reprioritize
    <2>2. job'.generation = g /\ job'.ticket = n
      BY <1>0, <2>1 DEF TypeOK, JobRow
    <2>3. dispatches'[g].ticket = n /\ dispatches'[g].disposition = "active"
      BY <1>0, <2>1 DEF TypeOK
    <2>4. \A t \in Ticket \ {n} : tickets'[t].generation = tickets[t].generation
      BY <1>0, <2>1 DEF Enqueued, Deleted, TypeOK, TicketRow
    <2>5. \A t \in Ticket : tickets[t].generation # g
      BY <1>0, TicketTypes DEF TicketInv
    <2> QED BY <2>2, <2>3, <2>4, <2>5 DEF OpenInv, LinkInv, Current
  <1>2. CASE LinkKept
    <2>1. LinkInv'
      BY <1>0, <1>2 DEF OpenInv, LinkInv, LinkKept, Current
    <2>2. ASSUME job'.phase # "terminal" PROVE dispatches'[job.generation].disposition = "active"
      <3>1. CASE Quiet
        BY <1>0, <2>2, <3>1 DEF Quiet, JobKept, DispositionsKept, OpenInv, Current
      <3>2. CASE MarksStale
        <4>1. PICK w \in Worker :
                delivery[w].step = "admitting" /\ ~AdmissionOver(w) /\ ~AdmissionMatches(w)
          BY <3>2 DEF MarksStale
        <4>2. DeliveryInv(delivery[w]) /\ delivery[w].step \in Carries
          BY <4>1 DEF DeliveryStory, RevisionInv, DeliveriesInv, Carries, Step
        <4>3. /\ delivery[w].ticket \in Ticket
              /\ delivery[w].generation = tickets[delivery[w].ticket].generation
              /\ delivery[w].generation \in Generation
          BY <1>0, <4>2 DEF DeliveryInv, BoundsInv, TicketInv
        <4>4. delivery[w].generation = job.generation
          BY <1>0, <4>1, <4>3 DEF AdmissionOver, DispatchInv
        <4>5. delivery[w].ticket = job.ticket /\ job.ticket = dispatches[job.generation].ticket
          BY <4>3, <4>4 DEF OpenInv, LinkInv, Current
        <4> QED BY <4>1, <4>4, <4>5 DEF AdmissionMatches
      <3>3. CASE Starts \/ OwnerReleases \/ CancelAccepted
        BY <3>3, <1>0
        DEF Starts, OwnerReleases, CancelAccepted, HasOwner, Busy, OpenInv, Current, RowStates
      <3>4. ASSUME NEW o \in Outcome, OwnerEnds(o) PROVE FALSE
        BY <1>0, <2>2, <3>4, OwnerEndsForms
      <3>5. CASE Dismissed
        BY <1>0, <2>2, <3>5, DismissedForms
      <3>6. ~Revised
        BY <1>0, <1>2, RevisedForms DEF LinkKept
      <3> QED BY <1>0, <3>1, <3>2, <3>3, <3>4, <3>5, <3>6 DEF LedgerStep
    <2> QED BY <1>2, <2>1, <2>2 DEF OpenInv, Current, LinkKept
  <1> QED BY <1>0, <1>1, <1>2, NextLink

\* Unless the monitor recreated a ticket, the job row, its attempts and its
\* dispatches tell one story: the only active dispatch is the current
\* generation's, and it is active exactly while the job is open.
THEOREM LedgersAgreeHolds ==
  ASSUME "monitor" \notin Faults
  PROVE  Spec => []LedgersAgree
  <1>1. Init => OpenInv
    <2>1. ASSUME Init PROVE OpenInv
      <3>1. 1 \in Generation /\ 1 \in Ticket /\ job.generation = 1 /\ job.ticket = 1
        BY <2>1, JobDeliveryAssumption DEF Init, Generation, Ticket
      <3>2. dispatches[1].ticket = 1 /\ dispatches[1].disposition = "active"
        BY <2>1, <3>1 DEF Init
      <3>3. \A t \in Ticket : tickets[t].generation = 1 => t = 1
        BY <2>1, <3>1 DEF Init, UnusedTicket
      <3> QED BY <3>1, <3>2, <3>3 DEF OpenInv, LinkInv, Current
    <2> QED BY <2>1
  <1>2. DeliveryStory /\ OpenInv /\ [Next]_vars => OpenInv'
    BY NextOpen
  <1>3. DeliveryStory /\ OpenInv => LedgersAgree
    BY RowTypes DEF DeliveryStory, StoryInv, VerdictInv, DispatchInv, OpenInv, Current, LedgersAgree,
           DispatchLedger
  <1> QED BY <1>1, <1>2, <1>3, StoryInvariant, PTL DEF Spec

-----------------------------------------------------------------------------
(* Which worker runs which attempt, and what its child and its file left.  *)

\* What a step leaves of an attempt row, its phase and outcome apart: a child
\* may lose its leader, and its tree may die.
RowStands(old, new) ==
  /\ new.runtime = old.runtime /\ new.identified = old.identified
  /\ new.intent = old.intent /\ new.publication = old.publication /\ new.effect = old.effect
  /\ \/ new.child = old.child
     \/ old.child \in {"live", "orphaned"} /\ new.child = "dead"
     \/ old.child = "live" /\ new.child = "orphaned"

AttemptsStand == \A a \in Attempt : RowStands(attempts[a], attempts'[a])

\* Steps that run no attempt and have examined none.
Resting == Step \ (Working \cup {"superseding", "reconciling"})

\* At most one delivery moves, and it rests then.
Rests ==
  \/ delivery' = delivery
  \/ \E w \in Worker : /\ \A v \in Worker \ {w} : delivery'[v] = delivery[v]
                       /\ delivery'[w].step \in Resting

LEMMA MoveForms ==
  ASSUME TypeOK, NEW w \in Worker, NEW s, NEW m
  PROVE  /\ Goto(w, s)[w].step = s /\ GotoAs(w, s, m)[w].step = s /\ GotoAs(w, s, m)[w].mode = m
         /\ Answer(w, m)[w].step = "reply" /\ Finish(w, m)[w].step = "releasing"
         /\ Goto(w, s)[w].attempt = delivery[w].attempt
         /\ GotoAs(w, s, m)[w].attempt = delivery[w].attempt
         /\ \A v \in Worker \ {w} :
              /\ Goto(w, s)[v] = delivery[v] /\ GotoAs(w, s, m)[v] = delivery[v]
              /\ Answer(w, m)[v] = delivery[v] /\ Finish(w, m)[v] = delivery[v]
  BY DEF TypeOK, DeliveryRow, Goto, GotoAs, Answer, Finish

LEMMA MoveRests ==
  ASSUME TypeOK, NEW w \in Worker,
         \/ \E s \in Resting : delivery' = Goto(w, s)
         \/ \E m : delivery' = Answer(w, m) \/ delivery' = Finish(w, m)
  PROVE  Rests
  <1>1. "reply" \in Resting /\ "releasing" \in Resting
    BY DEF Resting, Step, Working
  <1>2. ASSUME NEW s \in Resting, delivery' = Goto(w, s) PROVE Rests
    BY <1>2 DEF Rests, TypeOK, DeliveryRow, Goto
  <1>3. ASSUME NEW m, delivery' = Answer(w, m) PROVE Rests
    BY <1>1, <1>3, MoveForms DEF Rests
  <1>4. ASSUME NEW m, delivery' = Finish(w, m) PROVE Rests
    BY <1>1, <1>4, MoveForms DEF Rests
  <1> QED BY <1>2, <1>3, <1>4

LEMMA RowRests ==
  ASSUME TypeOK, NEW w \in Worker, NEW r, r.step \in Resting,
         delivery' = [delivery EXCEPT ![w] = r]
  PROVE  Rests
  BY DEF Rests, TypeOK

LEMMA IdleRests ==
  ASSUME TypeOK, NEW w \in Worker,
         \/ delivery' = [delivery EXCEPT ![w] = IdleDelivery]
         \/ delivery' = [delivery EXCEPT ![w] = [IdleDelivery EXCEPT !.step = "down"]]
  PROVE  Rests
  <1>1. /\ IdleDelivery.step \in Resting
        /\ [IdleDelivery EXCEPT !.step = "down"].step \in Resting
    BY DEF IdleDelivery, Resting, Step, Working
  <1> QED BY <1>1, RowRests

LEMMA RowsStand ==
  ASSUME TypeOK,
         \/ UNCHANGED canonical \/ attempts' = attempts
         \/ \E a, o : attempts' = Closed(a, o)
         \/ \E a : attempts' = TreeDead(a)
         \/ \E a : attempts' = [TreeDead(a) EXCEPT ![a].phase = "stopping"]
         \/ \E a : LeaderExits(a)
  PROVE  AttemptsStand
  <1>1. ASSUME NEW r \in AttemptRow, NEW o
        PROVE  /\ RowStands(r, r)
               /\ RowStands(r, [r EXCEPT !.phase = "finished", !.outcome = o])
               /\ RowStands(r, [r EXCEPT !.child = IF @ \in {"live", "orphaned"} THEN "dead" ELSE @])
    BY DEF AttemptRow, RowStands
  <1>2. ASSUME NEW r \in AttemptRow
        PROVE  RowStands(r, [[r EXCEPT !.child = IF @ \in {"live", "orphaned"} THEN "dead" ELSE @]
                               EXCEPT !.phase = "stopping"])
    BY DEF AttemptRow, RowStands
  <1>3. CASE attempts' = attempts \/ UNCHANGED canonical
    BY <1>1, <1>3 DEF AttemptsStand, TypeOK, canonical
  <1>4. ASSUME NEW a, NEW o, attempts' = Closed(a, o)
        PROVE  AttemptsStand
    BY <1>1, <1>4 DEF AttemptsStand, TypeOK, Closed
  <1>5. ASSUME NEW a, attempts' = TreeDead(a)
        PROVE  AttemptsStand
    BY <1>1, <1>5 DEF AttemptsStand, TypeOK, TreeDead
  <1>6. ASSUME NEW a, attempts' = [TreeDead(a) EXCEPT ![a].phase = "stopping"]
        PROVE  AttemptsStand
    BY <1>1, <1>2, <1>6 DEF AttemptsStand, TypeOK, TreeDead
  <1>7. ASSUME NEW a, LeaderExits(a)
        PROVE  AttemptsStand
    <2>1. \A r \in AttemptRow : r.child = "live" => RowStands(r, [r EXCEPT !.child = "orphaned"])
      BY DEF AttemptRow, RowStands
    <2> QED BY <1>1, <1>7, <2>1 DEF AttemptsStand, TypeOK, LeaderExits
  <1> QED BY <1>3, <1>4, <1>5, <1>6, <1>7

\* What an attempt's worker knows of the row it runs.
WorkRow(w, d, rows) ==
  d.step \in Working =>
    /\ rows[d.attempt].runtime = w
    /\ d.step \in {"returned", "sealing"} \/ (d.step = "failing" /\ d.mode = "transient") =>
         rows[d.attempt].child \notin {"live", "orphaned"}
    /\ d.step \in {"executing", "returned"} /\ rows[d.attempt].effect => rows[d.attempt].publication

\* Whatever replaced a file had recorded its intent, whatever identified a child
\* had started it, whatever started belongs to a worker.
WorkInv ==
  /\ \A w \in Worker : WorkRow(w, delivery[w], attempts)
  /\ \A a \in Attempt :
       /\ attempts[a].identified => attempts[a].child # "none"
       /\ attempts[a].effect => HasAtomicity /\ attempts[a].intent
       /\ a <= serial.attempt => attempts[a].runtime \in Worker

\* The steps that examine, start or run an attempt.
Works(w) ==
  \/ SelectOrphan(w) \/ ExamineAttempt(w) \/ AdmitAttempt(w) \/ SupersedeAttempt(w)
  \/ LaunchChild(w) \/ RecordIntent(w) \/ Publish(w) \/ PublishTorn(w)
  \/ Return(w) \/ Raise(w) \/ Unwind(w) \/ DeathUnproven(w) \/ SuccessLost(w)
  \/ Notify(w)

LEMMA RestingSteps ==
  /\ {"off", "starting", "idle", "picked", "gating", "waiting", "deferring", "deferred", "intent",
      "admitting", "recovering", "condemning", "releasing", "unadmitted", "reply", "down"}
       \subseteq Resting
  BY DEF Resting, Step, Working

LEMMA StartupRests ==
  ASSUME TypeOK, NEW w \in Worker, Startup(w) PROVE (AttemptsStand /\ Rests) \/ Works(w)
  <1>1. CASE Register(w) \/ Ready(w)
    BY <1>1, RowsStand, MoveRests, RestingSteps DEF Register, Ready
  <1>2. CASE ReconcileOrphan(w)
    <2>1. Rests
      BY <1>2, IdleRests DEF ReconcileOrphan
    <2>2. UNCHANGED canonical \/ \E a, o : attempts' = Closed(a, o)
      BY <1>2 DEF ReconcileOrphan, Terminal, BackToQueue
    <2> QED BY <2>1, <2>2, RowsStand
  <1> QED BY <1>1, <1>2 DEF Startup, Works

LEMMA EnvironmentRests ==
  ASSUME TypeOK, NEW w \in Worker, Environment(w) PROVE AttemptsStand /\ Rests
  <1>1. AttemptsStand
    BY RowsStand DEF Environment, Crash, GracefulStop, RuntimeExpires, RuntimeLapses, Heartbeat
  <1>2. CASE Crash(w)
    BY <1>1, <1>2, IdleRests DEF Crash
  <1>3. CASE GracefulStop(w)
    BY <1>1, <1>3, MoveRests, RestingSteps DEF GracefulStop
  <1>4. CASE RuntimeExpires(w) \/ RuntimeLapses(w) \/ Heartbeat(w)
    BY <1>1, <1>4 DEF RuntimeExpires, RuntimeLapses, Heartbeat, Rests
  <1> QED BY <1>1, <1>2, <1>3, <1>4 DEF Environment

LEMMA PreAdmissionRests ==
  ASSUME TypeOK, NEW w \in Worker, PreAdmission(w) PROVE AttemptsStand /\ Rests
  <1>1. attempts' = attempts
    BY DEF PreAdmission, Pick, Redeliver, DeliverTwice, TakeTicket, Preflight, WaitForGate,
        AcquireGates, GateCancelled, GateTimeout, GateConnectionLost, GateSessionBroken, GiveUp,
        Defer, DeferralExhausted, DeferralMoot, RecheckDeferral, ApplyIntent, canonical
  <1>2. CASE \E t \in Ticket : Pick(w, t) \/ Redeliver(w, t) \/ DeliverTwice(w, t)
    <2>1. PICK t \in Ticket : TakeTicket(w, t)
      BY <1>2 DEF Pick, Redeliver, DeliverTwice
    <2> DEFINE r == [IdleDelivery EXCEPT !.step = "picked", !.ticket = t,
                                         !.generation = tickets[t].generation]
    <2>2. delivery' = [delivery EXCEPT ![w] = r]
      BY <2>1 DEF TakeTicket
    <2>3. r.step \in Resting
      BY RestingSteps DEF IdleDelivery
    <2> QED BY <1>1, <2>2, <2>3, RowRests, RowsStand
  <1>3. CASE ~\E t \in Ticket : Pick(w, t) \/ Redeliver(w, t) \/ DeliverTwice(w, t)
    <2>1. \/ \E s \in {"gating", "waiting", "admitting", "intent", "deferring", "deferred"} :
               delivery' = Goto(w, s)
          \/ \E m : delivery' = Answer(w, m) \/ delivery' = Finish(w, m)
      BY <1>3 DEF PreAdmission, Preflight, WaitForGate, AcquireGates, GateCancelled, GateTimeout,
          GateConnectionLost, GateSessionBroken, GiveUp, Defer, DeferralExhausted, DeferralMoot,
          RecheckDeferral, ApplyIntent
    <2> QED BY <1>1, <2>1, MoveRests, RestingSteps, RowsStand
  <1> QED BY <1>2, <1>3

LEMMA AdmissionRests ==
  ASSUME TypeOK, NEW w \in Worker, Admission(w) PROVE (AttemptsStand /\ Rests) \/ Works(w)
  <1>1. CASE AdmitNothing(w) \/ CandidateGone(w) \/ CondemnAttempt(w) \/ SupersedeRefused(w)
    <2>1. delivery' = Goto(w, "unadmitted") \/ \E m : delivery' = Finish(w, m)
      BY <1>1 DEF AdmitNothing, CandidateGone, CondemnAttempt, SupersedeRefused
    <2>2. UNCHANGED canonical \/ attempts' = attempts \/ \E a, o : attempts' = Closed(a, o)
      BY <1>1 DEF AdmitNothing, CandidateGone, CondemnAttempt, SupersedeRefused, Terminal
    <2> QED BY <2>1, <2>2, MoveRests, RestingSteps, RowsStand
  <1>2. CASE AdmitBusy(w)
    <2>1. PICK a \in Attempt :
            \/ delivery' = Finish(w, "requeue")
            \/ delivery' = [delivery EXCEPT ![w] =
                              [delivery[w] EXCEPT !.step = "recovering", !.attempt = a]]
      BY <1>2 DEF AdmitBusy
    <2>2. [delivery[w] EXCEPT !.step = "recovering", !.attempt = a].step \in Resting
      BY RestingSteps DEF TypeOK, DeliveryRow
    <2>3. AttemptsStand
      BY <1>2, RowsStand DEF AdmitBusy
    <2>4. CASE delivery' = Finish(w, "requeue")
      BY <2>3, <2>4, MoveRests
    <2>5. CASE delivery' = [delivery EXCEPT ![w] =
                              [delivery[w] EXCEPT !.step = "recovering", !.attempt = a]]
      BY <2>2, <2>3, <2>5, RowRests
    <2> QED BY <2>1, <2>4, <2>5
  <1> QED BY <1>1, <1>2 DEF Admission, Works

LEMMA SettlementRests ==
  ASSUME TypeOK, NEW w \in Worker, Settlement(w) PROVE (AttemptsStand /\ Rests) \/ Works(w)
  <1>1. CASE TellQueue(w)
    BY <1>1, IdleRests, RowsStand DEF TellQueue
  <1>2. CASE Succeed(w) \/ SealCancelled(w) \/ RetryLater(w) \/ FailForGood(w) \/ ReleaseFails(w)
    <2>1. \E m : delivery' = Finish(w, m) \/ delivery' = Answer(w, m)
      BY <1>2 DEF Succeed, SealCancelled, RetryLater, FailForGood, ReleaseFails
    <2>2. UNCHANGED canonical \/ \E a, o : attempts' = Closed(a, o)
      BY <1>2 DEF Succeed, SealCancelled, RetryLater, FailForGood, ReleaseFails, Fail, Terminal,
                  BackToQueue
    <2> QED BY <2>1, <2>2, MoveRests, RowsStand
  <1> QED BY <1>1, <1>2 DEF Settlement, Works

LEMMA NextRests ==
  ASSUME TypeOK, [Next]_vars
  PROVE  (AttemptsStand /\ Rests) \/ \E w \in Worker : Works(w)
  <1>1. CASE UNCHANGED vars
    BY <1>1, RowsStand DEF vars, Rests
  <1>2. ASSUME NEW a \in Attempt, LeaderExits(a) \/ ChildExits(a) PROVE AttemptsStand /\ Rests
    BY <1>2, RowsStand DEF LeaderExits, ChildExits, Rests
  <1>3. CASE Cancel \/ Reprioritize \/ RecoverDeferral \/ FlagTransport
    BY <1>3, RowsStand DEF Cancel, Reprioritize, RecoverDeferral, FlagTransport, Rests
  <1>4. ASSUME NEW w \in Worker, Execution(w) \/ Notify(w) PROVE Works(w)
    BY <1>4 DEF Execution, Works
  <1> QED BY <1>1, <1>2, <1>3, <1>4, StartupRests, EnvironmentRests, PreAdmissionRests,
             AdmissionRests, SettlementRests DEF Next

-----------------------------------------------------------------------------
(* WorkInv is inductive.                                                   *)

\* The others run rows that stand, and w's own delivery is right about its row.
LEMMA WorkersKept ==
  ASSUME WorkInv, NEW w \in Worker, WorkRow(w, delivery'[w], attempts'),
         \A v \in Worker \ {w} :
           /\ delivery'[v] = delivery[v]
           /\ delivery[v].step \in Working =>
                RowStands(attempts[delivery[v].attempt], attempts'[delivery[v].attempt])
  PROVE  \A v \in Worker : WorkRow(v, delivery'[v], attempts')
  <1>1. ASSUME NEW v \in Worker \ {w} PROVE WorkRow(v, delivery'[v], attempts')
    BY <1>1 DEF WorkInv, WorkRow, RowStands
  <1> QED BY <1>1

LEMMA AttemptStands ==
  ASSUME WorkInv, AttemptsStand, kind' = kind, serial'.attempt = serial.attempt
  PROVE  \A a \in Attempt :
           /\ attempts'[a].identified => attempts'[a].child # "none"
           /\ attempts'[a].effect => HasAtomicity' /\ attempts'[a].intent
           /\ a <= serial'.attempt => attempts'[a].runtime \in Worker
  <1>1. HasAtomicity' <=> HasAtomicity
    BY DEF HasAtomicity
  <1> QED BY <1>1 DEF WorkInv, AttemptsStand, RowStands

LEMMA WorkKept ==
  ASSUME DeliveriesInv, WorkInv, AttemptsStand, kind' = kind, serial'.attempt = serial.attempt,
         NEW w \in Worker, WorkRow(w, delivery'[w], attempts'),
         \A v \in Worker \ {w} : delivery'[v] = delivery[v]
  PROVE  WorkInv'
  <1>1. \A v \in Worker \ {w} : delivery[v].step \in Working =>
          RowStands(attempts[delivery[v].attempt], attempts'[delivery[v].attempt])
    BY DEF DeliveriesInv, DeliveryInv, WantInv, AttemptsStand
  <1>2. \A v \in Worker : WorkRow(v, delivery'[v], attempts')
    BY <1>1, WorkersKept
  <1> QED BY <1>2, AttemptStands DEF WorkInv

LEMMA WorkRests ==
  ASSUME DeliveriesInv, WorkInv, AttemptsStand, Rests, kind' = kind, serial'.attempt = serial.attempt
  PROVE  WorkInv'
  <1>1. CASE delivery' = delivery
    <2>1. ASSUME NEW w \in Worker PROVE WorkRow(w, delivery'[w], attempts')
      <3>1. delivery[w].step \in Working =>
              RowStands(attempts[delivery[w].attempt], attempts'[delivery[w].attempt])
        BY DEF DeliveriesInv, DeliveryInv, WantInv, AttemptsStand
      <3> QED BY <1>1, <3>1 DEF WorkInv, WorkRow, RowStands
    <2> QED BY <2>1, AttemptStands DEF WorkInv
  <1>2. ASSUME NEW w \in Worker, delivery'[w].step \in Resting,
               \A v \in Worker \ {w} : delivery'[v] = delivery[v]
        PROVE  WorkInv'
    <2>1. WorkRow(w, delivery'[w], attempts')
      BY <1>2 DEF WorkRow, Resting
    <2> QED BY <1>2, <2>1, WorkKept
  <1> QED BY <1>1, <1>2 DEF Rests

\* A step that rewrites the row of the attempt it executes.
LEMMA WorkWritten ==
  ASSUME TypeOK, DeliveriesInv, WorkInv, kind' = kind, serial'.attempt = serial.attempt,
         NEW w \in Worker, Executing(w), NEW r,
         attempts' = [attempts EXCEPT ![delivery[w].attempt] = r],
         r.runtime = attempts[delivery[w].attempt].runtime,
         r.identified => r.child # "none", r.effect => HasAtomicity /\ r.intent,
         \A v \in Worker \ {w} : delivery'[v] = delivery[v],
         delivery'[w].attempt = delivery[w].attempt,
         \/ delivery'[w].step = "executing" /\ (r.effect => r.publication)
         \/ delivery'[w].step = "failing" /\ delivery'[w].mode # "transient"
  PROVE  WorkInv'
  <1> DEFINE a == delivery[w].attempt
  <1>1. a \in Attempt /\ attempts[a].runtime = w
    BY DEF DeliveriesInv, DeliveryInv, WantInv, WorkInv, WorkRow, Executing, Working
  <1>2. attempts'[a] = r /\ \A b \in Attempt \ {a} : attempts'[b] = attempts[b]
    BY <1>1 DEF TypeOK
  <1>3. WorkRow(w, delivery'[w], attempts')
    BY <1>1, <1>2 DEF WorkRow
  <1>4. ASSUME NEW v \in Worker \ {w}, delivery[v].step \in Working
        PROVE  RowStands(attempts[delivery[v].attempt], attempts'[delivery[v].attempt])
    <2>1. delivery[v].attempt \in Attempt /\ attempts[delivery[v].attempt].runtime = v
      BY <1>4 DEF DeliveriesInv, DeliveryInv, WantInv, WorkInv, WorkRow
    <2> QED BY <1>1, <1>2, <2>1 DEF RowStands
  <1>5. \A v \in Worker : WorkRow(v, delivery'[v], attempts')
    BY <1>3, <1>4, WorkersKept
  <1>6. ASSUME NEW b \in Attempt
        PROVE  /\ attempts'[b].identified => attempts'[b].child # "none"
               /\ attempts'[b].effect => HasAtomicity' /\ attempts'[b].intent
               /\ b <= serial'.attempt => attempts'[b].runtime \in Worker
    BY <1>1, <1>2 DEF WorkInv, HasAtomicity
  <1> QED BY <1>5, <1>6 DEF WorkInv

LEMMA WorkStarts ==
  ASSUME TypeOK, DeliveriesInv, WorkInv, kind' = kind, NEW w \in Worker,
         NEW ledger \in [Attempt -> AttemptRow], StartAttempt(w, ledger),
         \A b \in Attempt : RowStands(attempts[b], ledger[b])
  PROVE  WorkInv'
  <1> DEFINE n == serial.attempt + 1
  <1>1. /\ n \in Attempt /\ serial'.attempt = n /\ serial.attempt \in Nat
        /\ \A b \in Attempt \ {n} : attempts'[b] = ledger[b]
    BY StartForms, RowTypes
  <1>2. attempts'[n] = [UnusedAttempt EXCEPT !.phase = "running", !.fence = job.fence + 1,
                                             !.runtime = w]
    BY <1>1 DEF StartAttempt
  <1>3. attempts'[n].runtime = w /\ attempts'[n].effect = FALSE /\ attempts'[n].identified = FALSE
    BY <1>2 DEF UnusedAttempt
  <1>4. /\ delivery'[w].step = "executing" /\ delivery'[w].attempt = n
        /\ \A v \in Worker \ {w} : delivery'[v] = delivery[v]
    BY DEF StartAttempt, TypeOK, DeliveryRow
  <1>5. WorkRow(w, delivery'[w], attempts')
    BY <1>3, <1>4 DEF WorkRow
  <1>6. ASSUME NEW v \in Worker \ {w}, delivery[v].step \in Working
        PROVE  RowStands(attempts[delivery[v].attempt], attempts'[delivery[v].attempt])
    <2>1. delivery[v].attempt \in Attempt /\ delivery[v].attempt <= serial.attempt
      BY <1>6 DEF DeliveriesInv, DeliveryInv, BoundsInv, WantInv
    <2>2. delivery[v].attempt # n
      BY <1>1, <2>1 DEF Attempt
    <2> QED BY <1>1, <2>1, <2>2
  <1>7. \A v \in Worker : WorkRow(v, delivery'[v], attempts')
    BY <1>4, <1>5, <1>6, WorkersKept
  <1>8. ASSUME NEW b \in Attempt
        PROVE  /\ attempts'[b].identified => attempts'[b].child # "none"
               /\ attempts'[b].effect => HasAtomicity' /\ attempts'[b].intent
               /\ b <= serial'.attempt => attempts'[b].runtime \in Worker
    <2>1. CASE b = n
      BY <1>3, <2>1
    <2>2. CASE b # n
      <3>1. b <= n => b <= serial.attempt
        BY <1>1, <2>2 DEF Attempt
      <3>2. RowStands(attempts[b], attempts'[b])
        BY <1>1, <2>2
      <3> QED BY <1>1, <3>1, <3>2 DEF WorkInv, RowStands, HasAtomicity
    <2> QED BY <2>1, <2>2
  <1> QED BY <1>7, <1>8 DEF WorkInv

\* An assessment leaves the child alone, or signals one that lives.
LEMMA AssessedStands ==
  ASSUME TypeOK, WorkInv, NEW a \in Attempt, NEW w \in Worker, NEW v \in Assess(a, w),
         attempts' = [attempts EXCEPT ![a].child = v.child]
  PROVE  AttemptsStand
  <1>1. \/ v.child = attempts[a].child
        \/ attempts[a].child = "live" /\ v.child \in {"orphaned", "dead"}
    <2>1. /\ Assessment(Replayable, attempts[a].child).child = attempts[a].child
          /\ Assessment(Replayable, "dead").child = "dead"
          /\ \A c : Assessment("unsafe", c).child = c /\ Assessment("active", c).child = c
      BY DEF Assessment
    <2>2. CASE v \in SameHostAssessments(a)
      BY <2>1, <2>2 DEF SameHostAssessments
    <2>3. CASE v \notin SameHostAssessments(a)
      BY <2>1, <2>3 DEF Assess
    <2> QED BY <2>2, <2>3
  <1>3. \A r \in AttemptRow : [r EXCEPT !.child = v.child].child = v.child
                              /\ [r EXCEPT !.child = v.child].runtime = r.runtime
                              /\ [r EXCEPT !.child = v.child].identified = r.identified
                              /\ [r EXCEPT !.child = v.child].intent = r.intent
                              /\ [r EXCEPT !.child = v.child].publication = r.publication
                              /\ [r EXCEPT !.child = v.child].effect = r.effect
    BY DEF AttemptRow
  <1>4. /\ attempts[a] \in AttemptRow
        /\ attempts'[a] = [attempts[a] EXCEPT !.child = v.child]
        /\ \A b \in Attempt \ {a} : attempts'[b] = attempts[b]
    BY DEF TypeOK
  <1> QED BY <1>1, <1>3, <1>4 DEF AttemptsStand, RowStands

LEMMA StartsLedger ==
  ASSUME TypeOK, NEW w \in Worker, AdmitAttempt(w) \/ SupersedeAttempt(w)
  PROVE  \E ledger \in [Attempt -> AttemptRow] :
           /\ StartAttempt(w, ledger) /\ \A b \in Attempt : RowStands(attempts[b], ledger[b])
  <1>1. CASE AdmitAttempt(w)
    <2>1. attempts \in [Attempt -> AttemptRow] /\ StartAttempt(w, attempts)
      BY <1>1 DEF AdmitAttempt, TypeOK
    <2> QED BY <2>1 DEF RowStands
  <1>2. CASE SupersedeAttempt(w)
    <2> DEFINE ledger == Closed(delivery[w].attempt, "interrupted")
    <2>1. delivery[w].attempt \in Attempt /\ StartAttempt(w, ledger)
      BY <1>2 DEF SupersedeAttempt, Supersedable, Candidate, Unfinished
    <2>2. ledger \in [Attempt -> AttemptRow]
      BY <2>1, ClosedTyped DEF TypeOK, AttemptOutcome
    <2>3. \A r \in AttemptRow :
            RowStands(r, [r EXCEPT !.phase = "finished", !.outcome = "interrupted"])
      BY DEF AttemptRow, RowStands
    <2>4. ASSUME NEW b \in Attempt PROVE RowStands(attempts[b], ledger[b])
      <3>1. /\ attempts[b] \in AttemptRow
            /\ \/ ledger[b] = attempts[b]
               \/ ledger[b] = [attempts[b] EXCEPT !.phase = "finished", !.outcome = "interrupted"]
        BY <2>1 DEF Closed, TypeOK
      <3> HIDE DEF ledger
      <3>2. CASE ledger[b] = attempts[b]
        BY <3>2 DEF RowStands
      <3>3. CASE ledger[b] = [attempts[b] EXCEPT !.phase = "finished", !.outcome = "interrupted"]
        BY <2>3, <3>1, <3>3, Zenon
      <3> QED BY <3>1, <3>2, <3>3
    <2> HIDE DEF ledger
    <2> QED BY <2>1, <2>2, <2>4
  <1> QED BY <1>1, <1>2

LEMMA ExecutionWork ==
  ASSUME TypeOK, DeliveriesInv, WorkInv, kind' = kind, serial'.attempt = serial.attempt,
         NEW w \in Worker, Execution(w)
  PROVE  WorkInv'
  <1> DEFINE d == delivery[w]
             a == d.attempt
             row == attempts[a]
  <1>1. /\ Executing(w) /\ a \in Attempt /\ row \in AttemptRow /\ d \in DeliveryRow
        /\ row.runtime = w /\ (row.effect => row.publication)
        /\ row.identified => row.child # "none"
        /\ row.effect => HasAtomicity /\ row.intent
    BY DEF Execution, LaunchChild, RecordIntent, Publish, PublishTorn, MayPublish, Return, Raise, Unwind,
           DeathUnproven, DeliveriesInv, DeliveryInv, WantInv, WorkInv, WorkRow, Executing, Working,
           TypeOK
  <1>2. CASE LaunchChild(w)
    <2> DEFINE r == [row EXCEPT !.identified = TRUE, !.child = "live"]
    <2>1. attempts' = [attempts EXCEPT ![a] = r] /\ delivery' = delivery
      BY <1>2 DEF LaunchChild
    <2>2. /\ r.runtime = row.runtime /\ r.child = "live" /\ r.effect = row.effect
          /\ r.intent = row.intent /\ r.publication = row.publication
      BY <1>1 DEF AttemptRow
    <2>3. delivery'[w].step = "executing" /\ delivery'[w].attempt = a
      BY <1>1, <2>1 DEF Executing
    <2> HIDE DEF r
    <2> QED BY <1>1, <2>1, <2>2, <2>3, WorkWritten
  <1>3. CASE RecordIntent(w)
    <2> DEFINE r == [row EXCEPT !.intent = TRUE, !.publication = FALSE]
    <2>1. attempts' = [attempts EXCEPT ![a] = r] /\ delivery' = delivery /\ ~row.intent
      BY <1>3 DEF RecordIntent
    <2>2. /\ r.runtime = row.runtime /\ r.child = row.child /\ r.identified = row.identified
          /\ r.effect = row.effect
      BY <1>1 DEF AttemptRow
    <2>3. delivery'[w].step = "executing" /\ delivery'[w].attempt = a
      BY <1>1, <2>1 DEF Executing
    <2>4. ~r.effect
      BY <1>1, <2>1, <2>2
    <2> HIDE DEF r
    <2> QED BY <1>1, <2>1, <2>2, <2>3, <2>4, WorkWritten
  <1>4. CASE Publish(w)
    <2> DEFINE r == [row EXCEPT !.effect = TRUE, !.publication = TRUE]
    <2>1. attempts' = [attempts EXCEPT ![a] = r] /\ delivery' = delivery /\ row.intent /\ HasAtomicity
      BY <1>4 DEF Publish, MayPublish
    <2>2. /\ r.runtime = row.runtime /\ r.child = row.child /\ r.identified = row.identified
          /\ r.intent = row.intent /\ r.publication = TRUE
      BY <1>1 DEF AttemptRow
    <2>3. delivery'[w].step = "executing" /\ delivery'[w].attempt = a
      BY <1>1, <2>1 DEF Executing
    <2> HIDE DEF r
    <2> QED BY <1>1, <2>1, <2>2, <2>3, WorkWritten
  <1>5. CASE PublishTorn(w)
    <2> DEFINE r == [row EXCEPT !.effect = TRUE]
    <2>1. /\ attempts' = [attempts EXCEPT ![a] = r] /\ delivery' = GotoAs(w, "failing", "permanent")
          /\ row.intent /\ HasAtomicity
      BY <1>5 DEF PublishTorn, MayPublish
    <2>2. /\ r.runtime = row.runtime /\ r.child = row.child /\ r.identified = row.identified
          /\ r.intent = row.intent
      BY <1>1 DEF AttemptRow
    <2>3. /\ delivery'[w].step = "failing" /\ delivery'[w].mode = "permanent"
          /\ delivery'[w].attempt = a
          /\ \A v \in Worker \ {w} : delivery'[v] = delivery[v]
      BY <2>1, MoveForms
    <2> HIDE DEF r
    <2> QED BY <1>1, <2>1, <2>2, <2>3, WorkWritten
  <1>6. CASE Return(w) \/ Raise(w) \/ Unwind(w)
    <2>1. /\ AttemptsStand
          /\ \/ attempts' = TreeDead(a)
             \/ attempts' = [TreeDead(a) EXCEPT ![a].phase = "stopping"]
      BY <1>6, RowsStand DEF Return, Raise, Unwind
    <2>2. attempts'[a].child \notin {"live", "orphaned"}
      <3>1. /\ [row EXCEPT !.child = IF @ \in {"live", "orphaned"} THEN "dead" ELSE @].child
                  \notin {"live", "orphaned"}
            /\ [[row EXCEPT !.child = IF @ \in {"live", "orphaned"} THEN "dead" ELSE @]
                  EXCEPT !.phase = "stopping"].child \notin {"live", "orphaned"}
        BY <1>1 DEF AttemptRow
      <3> QED BY <1>1, <2>1, <3>1 DEF TreeDead, TypeOK
    <2>3. \/ delivery' = Goto(w, "returned")
          \/ \E s \in {"failing", "sealing"} : \E m : delivery' = GotoAs(w, s, m)
      BY <1>6 DEF Return, Raise, Unwind
    <2>4. /\ delivery'[w].step \in {"returned", "failing", "sealing"} /\ delivery'[w].attempt = a
          /\ \A v \in Worker \ {w} : delivery'[v] = delivery[v]
      <3>1. CASE delivery' = Goto(w, "returned")
        BY <3>1 DEF Goto, TypeOK, DeliveryRow
      <3> QED BY <2>3, <3>1, MoveForms
    <2>5. WorkRow(w, delivery'[w], attempts')
      BY <1>1, <2>1, <2>2, <2>4 DEF WorkRow, AttemptsStand, RowStands
    <2> QED BY <2>1, <2>4, <2>5, WorkKept
  <1>7. CASE DeathUnproven(w)
    <2>1. AttemptsStand
      BY <1>7, RowsStand DEF DeathUnproven
    <2>2. CASE delivery' = GotoAs(w, "failing", "unsafe")
      <3>1. /\ delivery'[w].step = "failing" /\ delivery'[w].mode = "unsafe"
            /\ delivery'[w].attempt = a
            /\ \A v \in Worker \ {w} : delivery'[v] = delivery[v]
        BY <2>2, MoveForms
      <3>2. WorkRow(w, delivery'[w], attempts')
        BY <1>1, <2>1, <3>1 DEF WorkRow, AttemptsStand, RowStands
      <3> QED BY <2>1, <3>1, <3>2, WorkKept
    <2>3. CASE delivery' = Finish(w, "hold")
      BY <2>1, <2>3, MoveRests, WorkRests
    <2> QED BY <1>7, <2>2, <2>3 DEF DeathUnproven
  <1> QED BY <1>2, <1>3, <1>4, <1>5, <1>6, <1>7 DEF Execution

LEMMA NextWork ==
  ASSUME DeliveryStory, RowsInv, WorkInv, [Next]_vars PROVE WorkInv'
  <1>0. TypeOK /\ DeliveriesInv /\ kind' = kind
    BY NextRows DEF DeliveryStory, RevisionInv
  <1>1. ASSUME NEW w \in Worker, AdmitAttempt(w) \/ SupersedeAttempt(w) PROVE WorkInv'
    BY <1>0, <1>1, StartsLedger, WorkStarts
  <1>2. ASSUME serial'.attempt = serial.attempt PROVE WorkInv'
    <2>1. CASE AttemptsStand /\ Rests
      BY <1>0, <1>2, <2>1, WorkRests
    <2>2. ASSUME NEW w \in Worker, SelectOrphan(w) \/ ExamineAttempt(w) PROVE WorkInv'
      <3> DEFINE a == IF SelectOrphan(w) THEN job.current ELSE delivery[w].attempt
      <3>1. a \in Attempt
        BY <2>2 DEF SelectOrphan, ExamineAttempt, Candidate, Unfinished
      <3>2. PICK v \in Assess(a, w) : attempts' = [attempts EXCEPT ![a].child = v.child]
        BY <2>2 DEF SelectOrphan, ExamineAttempt
      <3>3. AttemptsStand
        BY <1>0, <3>1, <3>2, AssessedStands
      <3>4. \A u \in Worker \ {w} : delivery'[u] = delivery[u]
        <4>1. CASE SelectOrphan(w)
          BY <1>0, <4>1 DEF SelectOrphan, TypeOK
        <4>2. CASE ExamineAttempt(w)
          BY <1>0, <4>2 DEF ExamineAttempt, Finish, GotoAs, TypeOK
        <4> QED BY <2>2, <4>1, <4>2
      <3>5. delivery'[w].step \notin Working
        <4>1. delivery[w] \in DeliveryRow
          BY <1>0 DEF TypeOK
        <4>2. CASE SelectOrphan(w)
          <5>1. PICK u \in Assess(job.current, w) : delivery' = [delivery EXCEPT ![w] =
                  [@ EXCEPT !.step = "reconciling", !.attempt = job.current,
                            !.fence = job.fence, !.generation = job.generation,
                            !.mode = IF u.verdict = "unsafe" THEN "unsafe"
                                     ELSE IF job.desired = "cancel" THEN "cancel"
                                     ELSE "interrupt"]]
            BY <4>2 DEF SelectOrphan
          <5>2. delivery'[w].step = "reconciling"
            BY <1>0, <4>1, <5>1 DEF TypeOK, DeliveryRow
          <5> QED BY <5>2 DEF Working
        <4>3. CASE ExamineAttempt(w)
          <5>1. delivery'[w].step \in {"releasing", "condemning", "superseding"}
            BY <1>0, <4>1, <4>3 DEF ExamineAttempt, Finish, GotoAs, TypeOK, DeliveryRow
          <5> QED BY <5>1 DEF Working
        <4> QED BY <2>2, <4>2, <4>3
      <3>6. WorkRow(w, delivery'[w], attempts')
        BY <3>5 DEF WorkRow
      <3> QED BY <1>0, <1>2, <3>3, <3>4, <3>6, WorkKept
    <2>3. ASSUME NEW w \in Worker, SuccessLost(w) PROVE WorkInv'
      <3>1. AttemptsStand /\ attempts' = attempts
        BY <1>0, <2>3, RowsStand DEF SuccessLost, canonical
      <3>2. CASE delivery' = GotoAs(w, "sealing", "lost")
        <4>1. /\ delivery'[w].step = "sealing" /\ delivery'[w].attempt = delivery[w].attempt
              /\ \A v \in Worker \ {w} : delivery'[v] = delivery[v]
          BY <1>0, <3>2, MoveForms
        <4>2. WorkRow(w, delivery[w], attempts) /\ delivery[w].step = "returned"
          BY <2>3 DEF SuccessLost, WorkInv
        <4>3. WorkRow(w, delivery'[w], attempts')
          BY <3>1, <4>1, <4>2 DEF WorkRow, Working
        <4> QED BY <1>0, <1>2, <3>1, <4>1, <4>3, WorkKept
      <3>3. CASE delivery' = Finish(w, "hold")
        BY <1>0, <1>2, <3>1, <3>3, MoveRests, WorkRests
      <3> QED BY <2>3, <3>2, <3>3 DEF SuccessLost
    <2>4. ASSUME NEW w \in Worker, Notify(w) PROVE WorkInv'
      <3>1. AttemptsStand /\ attempts' = attempts
        BY <1>0, <2>4, RowsStand DEF Notify, canonical
      <3>2. /\ delivery'[w].step = delivery[w].step /\ delivery'[w].attempt = delivery[w].attempt
            /\ delivery'[w].mode = delivery[w].mode
            /\ \A v \in Worker \ {w} : delivery'[v] = delivery[v]
        BY <1>0, <2>4 DEF Notify, TypeOK, DeliveryRow
      <3>3. WorkRow(w, delivery'[w], attempts')
        BY <3>1, <3>2 DEF WorkInv, WorkRow
      <3> QED BY <1>0, <1>2, <3>1, <3>2, <3>3, WorkKept
    <2>5. ASSUME NEW w \in Worker, Works(w) PROVE WorkInv'
      BY <1>0, <1>1, <1>2, <2>2, <2>3, <2>4, <2>5, ExecutionWork DEF Works, Execution
    <2> QED BY <1>0, <2>1, <2>5, NextRests
  <1> QED BY <1>0, <1>1, <1>2, OnlyAdmissionCounts

WorkStory == DeliveryStory /\ RowsInv /\ OnceInv /\ WorkInv

LEMMA WorkInvariant == Spec => []WorkStory
  <1>1. Init => WorkInv
    <2>1. ASSUME Init PROVE WorkInv
      <3>1. \A w \in Worker : delivery[w].step = "off"
        BY <2>1 DEF Init, IdleDelivery
      <3>2. \A a \in Attempt : /\ attempts[a].identified = FALSE /\ attempts[a].effect = FALSE
                               /\ ~ a <= serial.attempt
        BY <2>1 DEF Init, UnusedAttempt, Attempt
      <3> QED BY <3>1, <3>2 DEF WorkInv, WorkRow, Working
    <2> QED BY <2>1
  <1>2. DeliveryStory /\ RowsInv /\ WorkInv /\ [Next]_vars => WorkInv'
    BY NextWork
  <1> QED BY <1>1, <1>2, StoryInvariant, OnceInvariant, PTL DEF Spec, WorkStory

-----------------------------------------------------------------------------
(* A verdict of success or failure hides no publication without evidence.  *)

LEMMA OutcomeForms ==
  ASSUME TypeOK, NEW o
  PROVE  /\ Settled(o).outcome = o
         /\ [Settled(o) EXCEPT !.fence = @ + 1].outcome = o
         /\ [Settled(o) EXCEPT !.desired = "cancel", !.fence = @ + 1].outcome = o
         /\ [job EXCEPT !.phase = "queued"].outcome = job.outcome
         /\ [job EXCEPT !.phase = "stopping"].outcome = job.outcome
         /\ [job EXCEPT !.desired = "cancel", !.phase = "stopping"].outcome = job.outcome
         /\ \A p, q : [job EXCEPT !.attention = p, !.defers = q].outcome = job.outcome
  BY DEF TypeOK, JobRow, Settled

\* Who writes a verdict of success or failure, and what it looked at.
Judges(w) ==
  \/ job.phase = "queued"
  \/ delivery[w].step = "returned" /\ Owns(w, Busy, AnyWish)
  \/ delivery[w].step = "failing" /\ Owns(w, Busy, AnyWish) /\ ~Uncertain(w)

LEMMA OnlyJudgesConclude ==
  ASSUME TypeOK, [Next]_vars, job.outcome \notin {"succeeded", "failed"},
         job'.outcome \in {"succeeded", "failed"}
  PROVE  \E w \in Worker : Judges(w)
  <1>0. job' # job
    OBVIOUS
  <1>1. ASSUME NEW w \in Worker, Startup(w) \/ Environment(w) \/ Notify(w) PROVE FALSE
    <2>1. CASE ReconcileOrphan(w)
      BY <1>0, <2>1, OutcomeForms DEF ReconcileOrphan, Terminal, BackToQueue, canonical
    <2> QED BY <1>0, <1>1, <2>1
            DEF Startup, Register, Ready, SelectOrphan, Environment, Crash, GracefulStop,
                RuntimeExpires, RuntimeLapses, Heartbeat, Notify, canonical
  <1>2. ASSUME NEW w \in Worker, PreAdmission(w) PROVE Judges(w)
    <2>1. CASE WaitForGate(w) \/ Defer(w) \/ ApplyIntent(w)
      <3>1. job'.outcome \in {job.outcome, "cancelled"}
        <4>1. CASE WaitForGate(w)
          BY <4>1 DEF WaitForGate, TypeOK, JobRow
        <4>2. CASE Defer(w)
          BY <4>2 DEF Defer, TypeOK, JobRow
        <4>3. CASE ApplyIntent(w)
          BY <4>3, OutcomeForms DEF ApplyIntent
        <4> QED BY <2>1, <4>1, <4>2, <4>3
      <3> QED BY <3>1
    <2>2. CASE DeferralExhausted(w)
      BY <2>2 DEF DeferralExhausted, Deferrable, Judges
    <2> QED BY <1>0, <1>2, <2>1, <2>2
            DEF PreAdmission, Pick, Redeliver, DeliverTwice, TakeTicket, Preflight,
                AcquireGates, GateCancelled, GateTimeout, GateConnectionLost,
                GateSessionBroken, GiveUp, DeferralMoot, RecheckDeferral, canonical
  <1>3. ASSUME NEW w \in Worker, Admission(w) PROVE FALSE
    <2>1. CASE AdmitAttempt(w) \/ SupersedeAttempt(w)
      <3>1. \E ledger : StartAttempt(w, ledger)
        BY <2>1 DEF AdmitAttempt, SupersedeAttempt
      <3>2. job'.outcome = job.outcome
        BY <3>1 DEF StartAttempt, TypeOK, JobRow
      <3> QED BY <3>2
    <2>2. CASE CondemnAttempt(w)
      BY <1>0, <2>2, OutcomeForms DEF CondemnAttempt, Terminal, canonical
    <2> QED BY <1>0, <1>3, <2>1, <2>2
            DEF Admission, AdmitNothing, AdmitBusy, ExamineAttempt, CandidateGone,
                SupersedeRefused, canonical
  <1>4. ASSUME NEW w \in Worker, Execution(w) PROVE FALSE
    BY <1>0, <1>4, OutcomeForms
    DEF Execution, LaunchChild, RecordIntent, Publish, PublishTorn, Return, Raise, Unwind,
        DeathUnproven, canonical
  <1>5. ASSUME NEW w \in Worker, Settlement(w) PROVE Judges(w)
    <2>1. CASE Succeed(w)
      BY <2>1 DEF Succeed, Judges, Owns, Claims, AnyWish
    <2>2. CASE FailForGood(w)
      <3>1. ~(delivery[w].mode = "unsafe")
        BY <1>0, <2>2, OutcomeForms DEF FailForGood, Terminal, canonical
      <3>2. PICK o \in {"cancelled", "failed"} : Owns(w, Busy, FailDesires(w, o)) /\ Fail(w, o)
        BY <1>0, <2>2, <3>1 DEF FailForGood, canonical
      <3>3. ~Uncertain(w)
        BY <3>2, OutcomeForms DEF Fail, Terminal
      <3> QED BY <2>2, <3>2, <3>3 DEF FailForGood, Judges, Owns, Claims, FailDesires, AnyWish
    <2>3. CASE SealCancelled(w)
      <3>1. Fail(w, "cancelled")
        BY <1>0, <2>3 DEF SealCancelled, canonical
      <3>2. job' = Settled("unsafe") \/ job' = Settled("cancelled")
        BY <3>1 DEF Fail, Terminal
      <3> QED BY <3>2, OutcomeForms
    <2>4. CASE RetryLater(w)
      <3>1. BackToQueue(w, "retrying")
        BY <1>0, <2>4 DEF RetryLater, canonical
      <3> QED BY <3>1, OutcomeForms DEF BackToQueue
    <2> QED BY <1>0, <1>5, <2>1, <2>2, <2>3, <2>4
            DEF Settlement, SuccessLost, ReleaseFails, TellQueue, canonical
  <1>6. ~Cancel
    BY <1>0, OutcomeForms DEF Cancel
  <1>7. ~(Reprioritize \/ RecoverDeferral \/ FlagTransport)
    <2>1. CASE Reprioritize
      BY <2>1 DEF Reprioritize, TypeOK, JobRow
    <2>2. CASE RecoverDeferral \/ FlagTransport
      BY <2>2 DEF RecoverDeferral, FlagTransport, TypeOK, JobRow
    <2> QED BY <2>1, <2>2
  <1>8. \A a \in Attempt : ~(LeaderExits(a) \/ ChildExits(a))
    BY <1>0 DEF LeaderExits, ChildExits
  <1>9. ~UNCHANGED vars
    BY <1>0 DEF vars
  <1> QED BY <1>1, <1>2, <1>3, <1>4, <1>5, <1>6, <1>7, <1>8, <1>9 DEF Next

\* Only the current attempt of a publishing job can have replaced a file, and a
\* job that waits has no such attempt.
LEMMA OnlyCurrentHasEffect ==
  ASSUME WorkStory, NEW a \in Attempt, attempts[a].effect
  PROVE  a = job.current /\ job.phase # "queued" /\ HasAtomicity /\ attempts[a].intent
  <1>1. HasAtomicity /\ attempts[a].intent /\ UnsafeMutation
    BY DEF WorkStory, WorkInv, HasAtomicity, UnsafeMutation
  <1>2. a <= serial.attempt /\ serial.attempt = job.current
    BY DEF WorkStory, DeliveryStory, LedgerInv
  <1>3. a \in Nat \ {0} /\ serial.attempt \in Nat
    BY RowTypes, JobDeliveryAssumption DEF WorkStory, DeliveryStory, Attempt
  <1> QED BY <1>1, <1>2, <1>3 DEF WorkStory, OnceInv

LEMMA SettledStands ==
  ASSUME TypeOK, RowStates, job.phase = "terminal", [Next]_vars
  PROVE  AttemptsStand
  <1>1. ASSUME NEW w \in Worker, Works(w) PROVE AttemptsStand
    <2>0. job.outcome # "none" /\ job.phase \notin Busy
      BY DEF RowStates, Busy
    <2>1. ~(SelectOrphan(w) \/ ExamineAttempt(w) \/ AdmitAttempt(w) \/ SupersedeAttempt(w))
      BY <2>0 DEF SelectOrphan, ExamineAttempt, AdmitAttempt, SupersedeAttempt, Supersedable, Candidate
    <2>2. ~(LaunchChild(w) \/ RecordIntent(w) \/ Publish(w) \/ PublishTorn(w))
      BY <2>0 DEF LaunchChild, RecordIntent, Publish, PublishTorn, MayPublish, Owns, Claims
    <2>3. CASE Return(w) \/ Raise(w) \/ Unwind(w)
      BY <2>3, RowsStand DEF Return, Raise, Unwind
    <2>4. CASE DeathUnproven(w) \/ SuccessLost(w) \/ Notify(w)
      BY <2>4, RowsStand DEF DeathUnproven, SuccessLost, Notify
    <2> QED BY <1>1, <2>1, <2>2, <2>3, <2>4 DEF Works
  <1> QED BY <1>1, NextRests

LEMMA NextPublication ==
  ASSUME WorkStory, PublicationAccountedFor, [Next]_vars
  PROVE  PublicationAccountedFor'
  <1>0. TypeOK /\ RowStates /\ LedgerInv /\ LedgerStep
    BY NextRevision DEF WorkStory, DeliveryStory, RevisionInv
  <1>1. SUFFICES ASSUME job'.outcome \in {"succeeded", "failed"}
                 PROVE  \A a \in Attempt : attempts'[a].effect => attempts'[a].publication
    BY DEF PublicationAccountedFor
  <1>2. CASE job.outcome \in {"succeeded", "failed"}
    <2>1. AttemptsStand
      BY <1>0, <1>2, SettledStands DEF RowStates
    <2> QED BY <1>2, <2>1 DEF PublicationAccountedFor, AttemptsStand, RowStands
  <1>3. CASE job.outcome \notin {"succeeded", "failed"}
    <2>1. PICK w \in Worker : Judges(w)
      BY <1>0, <1>1, <1>3, OnlyJudgesConclude
    <2>2. ASSUME NEW a \in Attempt, attempts[a].effect PROVE attempts[a].publication
      <3>1. a = job.current /\ job.phase # "queued" /\ HasAtomicity /\ attempts[a].intent
        BY <2>2, OnlyCurrentHasEffect
      <3>2. CASE delivery[w].step = "returned" /\ Owns(w, Busy, AnyWish)
        BY <2>2, <3>1, <3>2 DEF Owns, Claims, WorkStory, WorkInv, WorkRow, Working
      <3>3. CASE delivery[w].step = "failing" /\ Owns(w, Busy, AnyWish) /\ ~Uncertain(w)
        BY <3>1, <3>3 DEF Owns, Claims, Uncertain
      <3> QED BY <2>1, <3>1, <3>2, <3>3 DEF Judges
    <2>3. AttemptsStand
      <3>1. ASSUME NEW o \in Outcome, OwnerEnds(o) PROVE AttemptsStand
        BY <1>0, <3>1, RowsStand DEF OwnerEnds
      <3>2. CASE Dismissed
        BY <1>0, <3>2, RowsStand DEF Dismissed
      <3>3. ~(Quiet \/ MarksStale \/ CancelAccepted \/ OwnerReleases \/ Revised)
        BY <1>0, <1>1, <1>3, CancelForms, ReleaseForms, RevisedForms
        DEF Quiet, JobKept, MarksStale
      <3>4. ~Starts
        <4>1. ASSUME Starts PROVE job'.outcome = job.outcome
          BY <1>0, <4>1, StartsForms, StartForms
        <4> QED BY <1>1, <1>3, <4>1
      <3> QED BY <1>0, <3>1, <3>2, <3>3, <3>4 DEF LedgerStep
    <2> QED BY <2>2, <2>3 DEF AttemptsStand, RowStands
  <1> QED BY <1>2, <1>3

\* A job reported as succeeded or failed hides no half-done publication: whatever
\* attempt replaced the destination sealed its evidence, through torn
\* publications, crashes, cancellations and stale deliveries.
THEOREM PublicationAccountedForHolds == Spec => []PublicationAccountedFor
  <1>1. Init => PublicationAccountedFor
    BY DEF Init, PublicationAccountedFor
  <1>2. WorkStory /\ PublicationAccountedFor /\ [Next]_vars => PublicationAccountedFor'
    BY NextPublication
  <1> QED BY <1>1, <1>2, WorkInvariant, PTL DEF Spec

-----------------------------------------------------------------------------
(* No replacement starts beside a live tree of the same host.              *)

Leaderless == {"orphaned", "dead"}

\* Whoever goes on after an orphan has seen that its leader is gone.
TreeRow(d, rows) ==
  d.step = "superseding" \/ (d.step = "reconciling" /\ d.mode \in {"interrupt", "cancel"}) =>
    d.attempt \in Attempt /\ rows[d.attempt].child \in Leaderless

LiveInv ==
  \A a \in Attempt : attempts[a].child = "live" =>
    a = job.current /\ (job.phase = "terminal" \/ Unfinished(a))

\* Descendants that outlived their leader belong to the attempt nobody has replaced, or
\* recovery ended it.
OrphanInv ==
  \A a \in Attempt : attempts[a].child = "orphaned" =>
    \/ a = job.current /\ (job.phase = "terminal" \/ Unfinished(a))
    \/ attempts[a].outcome = "interrupted"

TreeInv == LiveInv /\ OrphanInv /\ \A w \in Worker : TreeRow(delivery[w], attempts)

LEMMA TreeRowsKept ==
  ASSUME TypeOK, DeliveriesInv, TreeInv, NEW w \in Worker, TreeRow(delivery'[w], attempts'),
         \A v \in Worker \ {w} : delivery'[v] = delivery[v],
         \A a \in Attempt : a <= serial.attempt /\ attempts[a].child \in Leaderless =>
                            attempts'[a].child \in Leaderless
  PROVE  \A v \in Worker : TreeRow(delivery'[v], attempts')
  <1>1. ASSUME NEW v \in Worker \ {w} PROVE TreeRow(delivery'[v], attempts')
    <2>1. TreeRow(delivery[v], attempts) /\ delivery[v].attempt <= serial.attempt
      BY DEF TreeInv, DeliveriesInv, DeliveryInv, BoundsInv
    <2> QED BY <2>1 DEF TreeRow
  <1> QED BY <1>1

\* A live child stays the current attempt's.
LEMMA LiveKept ==
  ASSUME TypeOK, LedgerInv, RowStates, LiveInv, LedgerStep,
         (Starts \/ OwnerReleases) /\ job.current \in Attempt =>
           attempts[job.current].child # "live",
         \A a \in Attempt : attempts'[a].child = "live" => attempts[a].child = "live"
  PROVE  LiveInv'
  <1> SUFFICES ASSUME NEW a \in Attempt, attempts'[a].child = "live"
               PROVE  a = job'.current /\ (job'.phase = "terminal" \/ Unfinished(a)')
    BY DEF LiveInv
  <1>1. attempts[a].child = "live" /\ a = job.current /\ (job.phase = "terminal" \/ Unfinished(a))
    BY DEF LiveInv
  <1>2. ~Starts /\ ~OwnerReleases
    BY <1>1
  <1>3. CASE Quiet
    BY <1>1, <1>3 DEF Quiet, JobKept, AttemptsKept, Unfinished
  <1>4. CASE MarksStale
    BY <1>1, <1>4 DEF MarksStale, Unfinished
  <1>5. ASSUME NEW o \in Outcome, OwnerEnds(o)
        PROVE  a = job'.current /\ job'.phase = "terminal"
    BY <1>1, <1>5, OwnerEndsForms
  <1>6. CASE Dismissed
    BY <1>1, <1>6, DismissedForms
  <1>7. CASE CancelAccepted
    <2>1. attempts' = attempts /\ job.phase # "terminal" /\ job'.current = job.current
      BY <1>7, CancelForms DEF CancelAccepted
    <2> QED BY <1>1, <2>1 DEF Unfinished
  <1>8. CASE Revised
    <2>1. attempts' = attempts /\ job.phase # "terminal" /\ job'.current = job.current
      BY <1>8, RevisedForms DEF Revised
    <2> QED BY <1>1, <2>1 DEF Unfinished
  <1> QED BY <1>2, <1>3, <1>4, <1>5, <1>6, <1>7, <1>8 DEF LedgerStep

\* Descendants without their leader stay the current attempt's, or the attempt is
\* closed as interrupted.
LEMMA OrphanKept ==
  ASSUME TypeOK, LedgerInv, RowStates, LiveInv, OrphanInv, LedgerStep,
         OwnerReleases => \/ attempts[job.current].child \notin {"live", "orphaned"}
                          \/ attempts' = Closed(job.current, "interrupted"),
         \A a \in Attempt : attempts'[a].child = "orphaned" =>
                            attempts[a].child \in {"live", "orphaned"}
  PROVE  OrphanInv'
  <1> DEFINE Kept(a) == \/ a = job'.current /\ (job'.phase = "terminal" \/ Unfinished(a)')
                        \/ attempts'[a].outcome = "interrupted"
  <1> SUFFICES ASSUME NEW a \in Attempt, attempts'[a].child = "orphaned"
               PROVE  Kept(a)
    BY DEF OrphanInv
  <1>1. \/ a = job.current /\ (job.phase = "terminal" \/ Unfinished(a))
        \/ attempts[a].outcome = "interrupted" /\ ~Unfinished(a)
    <2>1. attempts[a].child \in {"live", "orphaned"}
      OBVIOUS
    <2> QED BY <2>1 DEF LiveInv, OrphanInv, LedgerInv
  <1>2. CASE Quiet
    BY <1>1, <1>2 DEF Quiet, JobKept, AttemptsKept, Unfinished
  <1>3. CASE MarksStale
    BY <1>1, <1>3 DEF MarksStale, Unfinished
  <1>4. CASE HasOwner /\ ~Unfinished(a) /\ attempts[a].outcome = "interrupted"
             /\ \E o : attempts' = Closed(job.current, o)
    <2>1. job.current \in Attempt /\ a # job.current
      BY <1>4 DEF HasOwner, Unfinished
    <2> QED BY <1>4, <2>1, ClosedForms
  <1>5. CASE Starts
    <2>1. ASSUME NEW w \in Worker, job.phase = "queued", StartAttempt(w, attempts)
          PROVE  Kept(a)
      <3>1. attempts \in [Attempt -> AttemptRow] /\ attempts[a].outcome = "interrupted"
        BY <1>1, <2>1 DEF LedgerInv, TypeOK
      <3>2. attempts'[job'.current].child = "none"
            /\ \A b \in Attempt \ {job'.current} : attempts'[b] = attempts[b]
        BY <2>1, <3>1, StartForms
      <3> QED BY <3>1, <3>2
    <2>2. ASSUME NEW w \in Worker, Unfinished(job.current),
                 StartAttempt(w, Closed(job.current, "interrupted"))
          PROVE  Kept(a)
      <3>1. job.current \in Attempt
        BY <2>2 DEF Unfinished
      <3>2. Closed(job.current, "interrupted") \in [Attempt -> AttemptRow]
        BY <3>1, ClosedTyped DEF TypeOK, AttemptOutcome
      <3>3. /\ attempts'[job'.current].child = "none"
            /\ \A b \in Attempt \ {job'.current} :
                 attempts'[b] = Closed(job.current, "interrupted")[b]
        BY <2>2, <3>2, StartForms
      <3>4. attempts'[a] = Closed(job.current, "interrupted")[a]
        BY <3>3
      <3>5. a # job.current => attempts[a].outcome = "interrupted"
        BY <1>1
      <3> QED BY <3>1, <3>4, <3>5, ClosedForms
    <2> QED BY <1>5, <2>1, <2>2 DEF Starts
  <1>6. CASE OwnerReleases
    <2>1. job.current \in Attempt /\ HasOwner
          /\ \E o : attempts' = Closed(job.current, o)
      BY <1>6 DEF OwnerReleases, HasOwner, Unfinished
    <2>2. CASE a = job.current
      <3>1. attempts' = Closed(job.current, "interrupted")
        BY <1>6, <2>2
      <3> QED BY <2>1, <2>2, <3>1, ClosedForms
    <2>3. CASE a # job.current
      BY <1>1, <1>4, <2>1, <2>3
    <2> QED BY <2>2, <2>3
  <1>7. ASSUME NEW o \in Outcome, OwnerEnds(o) PROVE Kept(a)
    <2>1. HasOwner /\ \E p : attempts' = Closed(job.current, p)
      BY <1>7 DEF OwnerEnds
    <2>2. job'.phase = "terminal" /\ job'.current = job.current
      BY <1>7, OwnerEndsForms
    <2> QED BY <1>1, <1>4, <2>1, <2>2
  <1>8. CASE Dismissed
    BY <1>1, <1>8, DismissedForms DEF Dismissed
  <1>9. CASE CancelAccepted
    <2>1. attempts' = attempts /\ job.phase # "terminal" /\ job'.current = job.current
      BY <1>9, CancelForms DEF CancelAccepted
    <2> QED BY <1>1, <2>1 DEF Unfinished
  <1>10. CASE Revised
    <2>1. attempts' = attempts /\ job.phase # "terminal" /\ job'.current = job.current
      BY <1>10, RevisedForms DEF Revised
    <2> QED BY <1>1, <2>1 DEF Unfinished
  <1> QED BY <1>2, <1>3, <1>5, <1>6, <1>7, <1>8, <1>9, <1>10 DEF LedgerStep

LEMMA DeadBeforeRelease ==
  ASSUME WorkStory, TreeInv, [Next]_vars, Starts \/ OwnerReleases
  PROVE  /\ job.current \in Attempt => attempts[job.current].child # "live"
         /\ OwnerReleases => \/ attempts[job.current].child \notin {"live", "orphaned"}
                             \/ attempts' = Closed(job.current, "interrupted")
  <1>0. TypeOK /\ LedgerInv /\ RowStates
    BY DEF WorkStory, DeliveryStory, RevisionInv
  <1>1. CASE Starts
    <2>1. serial'.attempt # serial.attempt
      <3>1. PICK w \in Worker, ledger \in [Attempt -> AttemptRow] : StartAttempt(w, ledger)
        BY <1>0, <1>1, StartsForms
      <3>2. serial'.attempt = serial.attempt + 1 /\ serial.attempt \in Nat
        BY <1>0, <3>1, StartForms, RowTypes
      <3> QED BY <3>2
    <2>2. PICK w \in Worker : AdmitAttempt(w) \/ SupersedeAttempt(w)
      BY <1>0, <2>1, OnlyAdmissionCounts
    <2>3. ASSUME AdmitAttempt(w), job.current \in Attempt
          PROVE  attempts[job.current].child # "live"
      <3>1. job.phase = "queued" /\ ~Unfinished(job.current)
        BY <1>0, <2>3 DEF AdmitAttempt, LedgerInv, Unfinished
      <3> QED BY <2>3, <3>1 DEF TreeInv, LiveInv
    <2>4. ASSUME SupersedeAttempt(w)
          PROVE  attempts[job.current].child # "live"
      BY <2>4 DEF SupersedeAttempt, Supersedable, Candidate, TreeInv, TreeRow, Leaderless
    <2>5. ~OwnerReleases
      <3>1. job'.phase = "running"
        BY <1>0, <1>1, StartsForms, StartForms
      <3> QED BY <1>0, <3>1, ReleaseForms
    <2> QED BY <2>2, <2>3, <2>4, <2>5
  <1>2. CASE OwnerReleases
    <2>1. job'.phase = "queued" /\ job.phase # "queued"
      BY <1>0, <1>2, ReleaseForms DEF OwnerReleases, HasOwner, Busy
    <2>2. PICK w \in Worker :
            \/ ReconcileOrphan(w) /\ delivery[w].mode = "interrupt" /\ Owns(w, Busy, {"run"})
            \/ RetryLater(w) /\ Owns(w, Busy, {"run"})
      BY <1>0, <2>1, OnlyReleaseRequeues
    <2>3. delivery[w].attempt = job.current
      BY <2>2 DEF Owns, Claims
    <2>4. CASE ReconcileOrphan(w) /\ delivery[w].mode = "interrupt" /\ Owns(w, Busy, {"run"})
      <3>1. attempts[job.current].child # "live"
        BY <2>3, <2>4 DEF ReconcileOrphan, TreeInv, TreeRow, Leaderless
      <3>2. attempts' = Closed(job.current, "interrupted")
        BY <2>3, <2>4 DEF ReconcileOrphan, BackToQueue
      <3> QED BY <3>1, <3>2
    <2>5. CASE RetryLater(w)
      BY <2>3, <2>5 DEF RetryLater, MayRetry, WorkStory, WorkInv, WorkRow, Working
    <2> QED BY <2>2, <2>4, <2>5
  <1> QED BY <1>1, <1>2

OneHost == \A v, w \in Worker : HostOf[v] = HostOf[w]

\* On one host, the leader of an orphan that may be replaced is gone.
LEMMA AssessedDead ==
  ASSUME WorkStory, OneHost, NEW w \in Worker, NEW a \in Attempt, a <= serial.attempt,
         NEW v \in Assess(a, w), v.verdict \notin {"unsafe", "active"}
  PROVE  v.child \in Leaderless
  <1>1. attempts[a].runtime \in Worker
    BY DEF WorkStory, WorkInv
  <1>2. HostOf[w] = HostOf[attempts[a].runtime]
    BY <1>1 DEF OneHost
  <1>3. /\ Assessment("active", attempts[a].child).verdict = "active"
        /\ \A c : Assessment("unsafe", c).verdict = "unsafe" /\ Assessment("unsafe", c).child = c
        /\ \A c : Assessment(Replayable, c).verdict = Replayable /\ Assessment(Replayable, c).child = c
    BY DEF Assessment
  <1>4. attempts[a].identified => attempts[a].child \in {"live", "orphaned", "dead"}
    <2>1. attempts[a].child \in Child
      BY DEF WorkStory, DeliveryStory, TypeOK, AttemptRow
    <2> QED BY <2>1 DEF WorkStory, WorkInv, Child
  <1>5. attempts[a].identified /\ v \in SameHostAssessments(a)
    BY <1>2, <1>3 DEF Assess
  <1>6. v.child \in {"dead", attempts[a].child} /\ (attempts[a].child = "live" => v.child = "dead")
    BY <1>3, <1>5 DEF SameHostAssessments
  <1> QED BY <1>4, <1>5, <1>6 DEF Leaderless

LEMMA TreeExamines ==
  ASSUME WorkStory, TreeInv, OneHost, NEW w \in Worker, SelectOrphan(w) \/ ExamineAttempt(w)
  PROVE  AttemptsStand /\ \A v \in Worker : TreeRow(delivery'[v], attempts')
  <1> DEFINE a == IF SelectOrphan(w) THEN job.current ELSE delivery[w].attempt
  <1>0. TypeOK /\ LedgerInv /\ DeliveriesInv /\ WorkInv /\ delivery[w] \in DeliveryRow
    BY DEF WorkStory, DeliveryStory, RevisionInv, TypeOK
  <1>1. a \in Attempt /\ a = job.current /\ a <= serial.attempt
    <2>1. Candidate(a)
      <3>1. CASE SelectOrphan(w)
        BY <3>1 DEF SelectOrphan
      <3>2. CASE ~SelectOrphan(w)
        BY <3>2 DEF ExamineAttempt
      <3> QED BY <3>1, <3>2
    <2> HIDE DEF a
    <2> QED BY <1>0, <2>1, RowTypes DEF Candidate, Unfinished, LedgerInv
  <1>2. PICK u \in Assess(a, w) :
          /\ attempts' = [attempts EXCEPT ![a].child = u.child]
          /\ \/ /\ SelectOrphan(w)
                /\ delivery' = [delivery EXCEPT ![w] =
                     [delivery[w] EXCEPT !.step = "reconciling", !.attempt = job.current,
                               !.fence = job.fence, !.generation = job.generation,
                               !.mode = IF u.verdict = "unsafe" THEN "unsafe"
                                        ELSE IF job.desired = "cancel" THEN "cancel"
                                        ELSE "interrupt"]]
             \/ /\ ~SelectOrphan(w) /\ ExamineAttempt(w)
                /\ delivery' =
                     IF u.verdict = "active" THEN Finish(w, "requeue")
                     ELSE [delivery EXCEPT ![w] =
                             [delivery[w] EXCEPT !.fence = job.fence,
                                       !.step = IF u.verdict = "unsafe" THEN "condemning"
                                                                        ELSE "superseding"]]
    <2>1. CASE SelectOrphan(w)
      BY <2>1 DEF SelectOrphan
    <2>2. CASE ~SelectOrphan(w)
      BY <2>2 DEF ExamineAttempt
    <2> QED BY <2>1, <2>2
  <1> HIDE DEF a
  <1>3. AttemptsStand
    BY <1>0, <1>1, <1>2, AssessedStands
  <1>4. attempts'[a].child = u.child
    BY <1>0, <1>1, <1>2 DEF TypeOK, AttemptRow
  <1>5. u.verdict = "active" => Fresh(a)
    BY DEF Assess, SameHostAssessments, Assessment, Replayable
  <1>6. TreeRow(delivery'[w], attempts')
    <2>1. CASE SelectOrphan(w)
      <3>1. /\ delivery'[w].attempt = a
            /\ u.verdict = "unsafe" => delivery'[w].mode = "unsafe"
            /\ delivery'[w].step = "reconciling"
        <4>1. delivery'[w] =
                [delivery[w] EXCEPT !.step = "reconciling", !.attempt = job.current,
                          !.fence = job.fence, !.generation = job.generation,
                          !.mode = IF u.verdict = "unsafe" THEN "unsafe"
                                   ELSE IF job.desired = "cancel" THEN "cancel"
                                   ELSE "interrupt"]
          BY <1>0, <1>2, <2>1 DEF TypeOK
        <4> QED BY <1>0, <1>1, <4>1 DEF DeliveryRow
      <3>2. u.verdict # "active"
        BY <1>1, <1>5, <2>1 DEF SelectOrphan
      <3> QED BY <1>1, <1>4, <3>1, <3>2, AssessedDead DEF TreeRow
    <2>2. CASE ~SelectOrphan(w)
      <3>1. /\ delivery'[w].step = "superseding" =>
                 u.verdict \notin {"unsafe", "active"} /\ delivery'[w].attempt = delivery[w].attempt
            /\ delivery'[w].step # "reconciling"
        <4>1. \/ u.verdict = "active" /\ delivery' = Finish(w, "requeue")
              \/ /\ u.verdict # "active"
                 /\ delivery'[w] =
                      [delivery[w] EXCEPT !.fence = job.fence,
                                !.step = IF u.verdict = "unsafe" THEN "condemning"
                                                                 ELSE "superseding"]
          BY <1>0, <1>2, <2>2 DEF TypeOK
        <4>2. CASE delivery' = Finish(w, "requeue")
          BY <1>0, <4>2, MoveForms
        <4>3. CASE ~(delivery' = Finish(w, "requeue"))
          BY <1>0, <4>1, <4>3 DEF DeliveryRow
        <4> QED BY <4>2, <4>3
      <3>2. a = delivery[w].attempt
        BY <2>2 DEF a
      <3> QED BY <1>1, <1>4, <3>1, <3>2, AssessedDead DEF TreeRow
    <2> QED BY <2>1, <2>2
  <1>7. \A v \in Worker \ {w} : delivery'[v] = delivery[v]
    BY <1>0, <1>2 DEF TypeOK, Finish, GotoAs
  <1>8. \A b \in Attempt : attempts[b].child \in Leaderless => attempts'[b].child \in Leaderless
    BY <1>3 DEF AttemptsStand, RowStands, Leaderless
  <1>9. \A v \in Worker : TreeRow(delivery'[v], attempts')
    BY <1>0, <1>6, <1>7, <1>8, TreeRowsKept
  <1> QED BY <1>3, <1>9

\* Whatever else works on an attempt revives no leader, and moves on to neither
\* supersede nor reconcile.
LEMMA TreeWorks ==
  ASSUME WorkStory, TreeInv, NEW w \in Worker, Works(w),
         ~SelectOrphan(w), ~ExamineAttempt(w)
  PROVE  /\ \A v \in Worker : TreeRow(delivery'[v], attempts')
         /\ \A a \in Attempt : attempts'[a].child = "live" =>
              attempts[a].child = "live" \/ (LaunchChild(w) /\ a = delivery[w].attempt)
         /\ \A a \in Attempt : attempts'[a].child = "orphaned" =>
              attempts[a].child \in {"live", "orphaned"}
  <1> DEFINE d == delivery[w]
  <1>0. TypeOK /\ DeliveriesInv /\ WorkInv /\ d \in DeliveryRow
    BY DEF WorkStory, DeliveryStory, RevisionInv, TypeOK
  <1>1. /\ \A a \in Attempt : a <= serial.attempt /\ attempts[a].child \in Leaderless =>
                              attempts'[a].child \in Leaderless
        /\ \A a \in Attempt : attempts'[a].child = "live" =>
              attempts[a].child = "live" \/ (LaunchChild(w) /\ a = d.attempt)
        /\ \A a \in Attempt : attempts'[a].child = "orphaned" =>
              attempts[a].child \in {"live", "orphaned"}
    <2>1. CASE AttemptsStand
      BY <2>1 DEF AttemptsStand, RowStands, Leaderless
    <2>2. CASE AdmitAttempt(w) \/ SupersedeAttempt(w)
      <3>1. PICK ledger \in [Attempt -> AttemptRow] :
              StartAttempt(w, ledger) /\ \A b \in Attempt : RowStands(attempts[b], ledger[b])
        BY <1>0, <2>2, StartsLedger
      <3>2. /\ attempts'[job'.current].child = "none" /\ job'.current = serial.attempt + 1
            /\ \A b \in Attempt \ {job'.current} : attempts'[b] = ledger[b]
            /\ serial.attempt \in Nat
        BY <1>0, <3>1, StartForms, RowTypes
      <3>3. \A b \in Attempt : b <= serial.attempt => b # job'.current
        BY <3>2 DEF Attempt
      <3>4. ASSUME NEW b \in Attempt \ {job'.current} PROVE RowStands(attempts[b], attempts'[b])
        BY <3>1, <3>2, <3>4
      <3> QED BY <3>2, <3>3, <3>4 DEF RowStands, Leaderless
    <2>3. CASE LaunchChild(w)
      <3>1. attempts[d.attempt].child = "none" /\ d.attempt \in Attempt
        BY <2>3 DEF LaunchChild, Owns, Unfinished
      <3>2. \A b \in Attempt \ {d.attempt} : attempts'[b] = attempts[b]
        BY <1>0, <2>3 DEF LaunchChild, TypeOK
      <3>3. attempts'[d.attempt].child = "live"
        BY <1>0, <2>3, <3>1 DEF LaunchChild, TypeOK, AttemptRow
      <3> QED BY <2>3, <3>1, <3>2, <3>3 DEF Leaderless
    <2>4. CASE RecordIntent(w) \/ Publish(w) \/ PublishTorn(w)
      <3>1. \A r \in AttemptRow :
              /\ [r EXCEPT !.intent = TRUE, !.publication = FALSE].child = r.child
              /\ [r EXCEPT !.effect = TRUE, !.publication = TRUE].child = r.child
              /\ [r EXCEPT !.effect = TRUE].child = r.child
        BY DEF AttemptRow
      <3>2. \A b \in Attempt : attempts'[b].child = attempts[b].child
        <4>1. CASE RecordIntent(w)
          BY <1>0, <3>1, <4>1 DEF RecordIntent, TypeOK
        <4>2. CASE Publish(w)
          BY <1>0, <3>1, <4>2 DEF Publish, TypeOK
        <4>3. CASE PublishTorn(w)
          BY <1>0, <3>1, <4>3 DEF PublishTorn, TypeOK
        <4> QED BY <2>4, <4>1, <4>2, <4>3
      <3> QED BY <3>2
    <2>5. CASE Return(w) \/ Raise(w) \/ Unwind(w)
      BY <1>0, <2>1, <2>5, RowsStand DEF Return, Raise, Unwind
    <2>6. CASE DeathUnproven(w) \/ SuccessLost(w) \/ Notify(w)
      BY <1>0, <2>1, <2>6, RowsStand DEF DeathUnproven, SuccessLost, Notify
    <2> QED BY <2>2, <2>3, <2>4, <2>5, <2>6 DEF Works
  <1>2. \A v \in Worker \ {w} : delivery'[v] = delivery[v]
    BY <1>0 DEF Works, AdmitAttempt, SupersedeAttempt, StartAttempt, LaunchChild, RecordIntent,
         Publish, PublishTorn, Return, Raise, Unwind, DeathUnproven, SuccessLost, Notify,
         Goto, GotoAs, Finish, TypeOK
  <1>3. TreeRow(delivery'[w], attempts')
    <2>1. CASE Notify(w)
      <3>1. /\ delivery'[w].step = d.step /\ delivery'[w].mode = d.mode
            /\ delivery'[w].attempt = d.attempt /\ attempts' = attempts
        BY <1>0, <2>1 DEF Notify, canonical, TypeOK, DeliveryRow
      <3> QED BY <3>1 DEF TreeInv, TreeRow
    <2>2. CASE ~Notify(w)
      <3>1. delivery'[w].step \in Working \cup {"releasing"}
        <4>1. CASE AdmitAttempt(w) \/ SupersedeAttempt(w)
          BY <1>0, <4>1 DEF AdmitAttempt, SupersedeAttempt, StartAttempt, TypeOK, DeliveryRow, Working
        <4>2. CASE LaunchChild(w) \/ RecordIntent(w) \/ Publish(w)
          BY <4>2 DEF LaunchChild, RecordIntent, Publish, MayPublish, Executing, Working
        <4>3. CASE PublishTorn(w) \/ Raise(w) \/ Unwind(w) \/ DeathUnproven(w) \/ SuccessLost(w)
          <5>1. \/ \E s \in {"failing", "sealing"} : \E m : delivery' = GotoAs(w, s, m)
                \/ \E m : delivery' = Finish(w, m)
            BY <4>3 DEF PublishTorn, Raise, Unwind, DeathUnproven, SuccessLost
          <5> QED BY <1>0, <5>1, MoveForms DEF Working
        <4>4. CASE Return(w)
          BY <1>0, <4>4 DEF Return, Goto, TypeOK, DeliveryRow, Working
        <4> QED BY <2>2, <4>1, <4>2, <4>3, <4>4 DEF Works
      <3> QED BY <3>1 DEF TreeRow, Working
    <2> QED BY <2>1, <2>2
  <1>4. \A v \in Worker : TreeRow(delivery'[v], attempts')
    BY <1>0, <1>1, <1>2, <1>3, TreeRowsKept
  <1> QED BY <1>1, <1>4

LEMMA NextTree ==
  ASSUME WorkStory, TreeInv, OneHost, [Next]_vars PROVE TreeInv'
  <1>0. TypeOK /\ LedgerInv /\ RowStates /\ DeliveriesInv /\ LiveInv /\ OrphanInv /\ LedgerStep
    BY NextRevision DEF WorkStory, DeliveryStory, RevisionInv, TreeInv
  <1>1. /\ (Starts \/ OwnerReleases) /\ job.current \in Attempt =>
             attempts[job.current].child # "live"
        /\ OwnerReleases => \/ attempts[job.current].child \notin {"live", "orphaned"}
                            \/ attempts' = Closed(job.current, "interrupted")
    BY DeadBeforeRelease
  <1>2. CASE AttemptsStand /\ Rests
    <2>1. \A a \in Attempt :
            /\ attempts'[a].child = "live" => attempts[a].child = "live"
            /\ attempts'[a].child = "orphaned" => attempts[a].child \in {"live", "orphaned"}
            /\ attempts[a].child \in Leaderless => attempts'[a].child \in Leaderless
      BY <1>2 DEF AttemptsStand, RowStands, Leaderless
    <2>2. LiveInv' /\ OrphanInv'
      BY <1>0, <1>1, <2>1, LiveKept, OrphanKept
    <2>3. \A v \in Worker : TreeRow(delivery'[v], attempts')
      <3>1. CASE delivery' = delivery
        BY <2>1, <3>1 DEF TreeInv, TreeRow
      <3>2. ASSUME NEW w \in Worker, delivery'[w].step \in Resting,
                   \A v \in Worker \ {w} : delivery'[v] = delivery[v]
            PROVE  \A v \in Worker : TreeRow(delivery'[v], attempts')
        <4>1. TreeRow(delivery'[w], attempts')
          BY <3>2 DEF TreeRow, Resting
        <4> QED BY <1>0, <2>1, <3>2, <4>1, TreeRowsKept
      <3> QED BY <1>2, <3>1, <3>2 DEF Rests
    <2> QED BY <2>2, <2>3 DEF TreeInv
  <1>3. ASSUME NEW w \in Worker, SelectOrphan(w) \/ ExamineAttempt(w) PROVE TreeInv'
    <2>1. AttemptsStand /\ \A v \in Worker : TreeRow(delivery'[v], attempts')
      BY <1>3, TreeExamines
    <2>2. \A a \in Attempt :
            /\ attempts'[a].child = "live" => attempts[a].child = "live"
            /\ attempts'[a].child = "orphaned" => attempts[a].child \in {"live", "orphaned"}
      BY <2>1 DEF AttemptsStand, RowStands
    <2>3. LiveInv' /\ OrphanInv'
      BY <1>0, <1>1, <2>2, LiveKept, OrphanKept
    <2> QED BY <2>1, <2>3 DEF TreeInv
  <1>4. ASSUME NEW w \in Worker, Works(w), ~SelectOrphan(w), ~ExamineAttempt(w) PROVE TreeInv'
    <2>1. /\ \A v \in Worker : TreeRow(delivery'[v], attempts')
          /\ \A a \in Attempt : attempts'[a].child = "live" =>
               attempts[a].child = "live" \/ (LaunchChild(w) /\ a = delivery[w].attempt)
          /\ \A a \in Attempt : attempts'[a].child = "orphaned" =>
               attempts[a].child \in {"live", "orphaned"}
      BY <1>4, TreeWorks
    <2>3. OrphanInv'
      BY <1>0, <1>1, <2>1, OrphanKept
    <2>2. LiveInv'
      <3>1. CASE LaunchChild(w)
        <4>1. /\ job' = job /\ delivery[w].attempt = job.current
              /\ \A a \in Attempt : Unfinished(a) => Unfinished(a)'
              /\ Unfinished(delivery[w].attempt)
          BY <1>0, <3>1, AttemptQuiet DEF LaunchChild, Owns, Claims, Unfinished, TypeOK
        <4> QED BY <2>1, <4>1, <1>0 DEF LiveInv
      <3>2. CASE ~LaunchChild(w)
        BY <1>0, <1>1, <2>1, <3>2, LiveKept
      <3> QED BY <3>1, <3>2
    <2> QED BY <2>1, <2>2, <2>3 DEF TreeInv
  <1> QED BY <1>0, <1>2, <1>3, <1>4, NextRests

\* A replacement never starts on one host beside the child of the attempt it replaces,
\* through crashes, recoveries, retries and unproven deaths, and descendants that
\* outlive their leader run beside one only after recovery ended the attempt.
THEOREM ReplayAfterTreeDeathHolds ==
  ASSUME \A v, w \in Worker : HostOf[v] = HostOf[w]
  PROVE  Spec => []ReplayAfterTreeDeath
  <1>1. OneHost
    BY DEF OneHost
  <1>2. Init => TreeInv
    <2>1. ASSUME Init PROVE TreeInv
      <3>1. /\ \A w \in Worker : delivery[w].step = "off"
            /\ \A a \in Attempt : attempts[a].child = "none"
        BY <2>1 DEF Init, IdleDelivery, UnusedAttempt
      <3> QED BY <3>1 DEF TreeInv, LiveInv, OrphanInv, TreeRow
    <2> QED BY <2>1
  <1>3. WorkStory /\ TreeInv /\ [Next]_vars => TreeInv'
    BY <1>1, NextTree
  <1>4. WorkStory /\ TreeInv => ReplayAfterTreeDeath
    <2> SUFFICES ASSUME WorkStory, TreeInv, NEW a \in Attempt, NEW b \in Attempt,
                        a < b, Started(b)
                 PROVE  /\ attempts[a].child # "live"
                        /\ attempts[a].child = "orphaned" => attempts[a].outcome = "interrupted"
      BY DEF ReplayAfterTreeDeath
    <2>1. b <= serial.attempt /\ job.current = serial.attempt
      BY DEF WorkStory, DeliveryStory, LedgerInv
    <2>2. a \in Nat /\ b \in Nat
      BY DEF Attempt
    <2>3. a # job.current
      BY <2>1, <2>2
    <2> QED BY <2>3 DEF TreeInv, LiveInv, OrphanInv
  <1> QED BY <1>2, <1>3, <1>4, WorkInvariant, PTL DEF Spec
=============================================================================
