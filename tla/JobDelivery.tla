----------------------------- MODULE JobDelivery -----------------------------
(***************************************************************************)
(* One durable job of the Marquee job platform and everything that moves   *)
(* it: the canonical `jobs` row, its dispatch and attempt ledgers, the     *)
(* PgQueuer tickets that carry it, the worker incarnations that deliver    *)
(* it, startup orphan reconciliation, user control and the transport       *)
(* intent monitor.                                                         *)
(*                                                                         *)
(* Each action is one database transaction, one PgQueuer reply or one step *)
(* of the environment.  What lies between two transactions of a delivery   *)
(* is a step value of its own, so every interleaving is explored.          *)
(***************************************************************************)
EXTENDS Naturals, FiniteSets

CONSTANTS
  Worker,         \* worker process incarnations; each hosts one delivery
  NoWorker,       \* "no incarnation": an unpicked ticket, an unused attempt
  Host,           \* host boot identities
  HostOf,         \* the host every incarnation runs on
  Kinds,          \* the kinds of definition the job may have
  RetryLimit,     \* retry_policy.max_attempts of a read-only definition
  DeferLimit,     \* length of the admission deferral delay table
  MaxAttempt,     \* bound: attempts the ledger may hold
  MaxGeneration,  \* bound: dispatch generations
  MaxTicket,      \* bound: PgQueuer tickets ever enqueued
  MaxLapse,       \* bound: heartbeats missed by an incarnation that is alive
  MaxGiveUp,      \* bound: times a delivery gives up waiting for its gates
  Faults          \* what the environment of this run may do

AllKinds  == {"read_only", "poster_mutation", "maintenance"}
AllFaults == {"crash", "stop", "lapse", "gate_timeout", "connection_lost",
              "session_lost", "transient", "unproven_death", "orphaned_child",
              "torn_publication", "cancel", "reprioritize", "monitor"}

ASSUME JobDeliveryAssumption ==
  /\ NoWorker \notin Worker
  /\ HostOf \in [Worker -> Host]
  /\ Kinds \subseteq AllKinds /\ Faults \subseteq AllFaults
  /\ RetryLimit \in Nat \ {0} /\ DeferLimit \in Nat
  /\ MaxAttempt \in Nat \ {0} /\ MaxGeneration \in Nat \ {0} /\ MaxTicket \in Nat \ {0}
  /\ MaxLapse \in Nat /\ MaxGiveUp \in Nat

Attempt    == 1 .. MaxAttempt
Generation == 1 .. MaxGeneration
Ticket     == 1 .. MaxTicket

VARIABLES
  kind,        \* the job's definition: effect safety and error contract
  job,         \* the jobs row
  dispatches,  \* job_dispatches by generation
  attempts,    \* job_attempts by number, with the process tree and file they own
  tickets,     \* PgQueuer rows by id
  serial,      \* how many attempts and tickets exist
  delivery,    \* what each incarnation is doing
  runtime,     \* runtime_instances: liveness evidence of each incarnation
  spent        \* bookkeeping: heartbeats missed, gate waits given up

vars == <<kind, job, dispatches, attempts, tickets, serial, delivery, runtime, spent>>

-----------------------------------------------------------------------------
(* Types. *)

Outcome == {"none", "succeeded", "failed", "cancelled", "unsafe"}

JobRow ==
  [phase : {"queued", "running", "stopping", "terminal"}, outcome : Outcome,
   desired : {"run", "cancel"}, fence : Nat, generation : Generation,
   ticket : Ticket, current : 0 .. MaxAttempt,
   attention : {"none", "safety_wait", "pending", "deferred", "link"},
   defers : Nat]

DispatchRow ==
  [ticket : 0 .. MaxTicket,
   disposition : {"none", "active", "superseded", "stale",
                  "succeeded", "failed", "cancelled"}]

\* The process tree of a contained child: "orphaned" is a tree whose leader is gone
\* and which lives on in its process group or cgroup.
Child == {"none", "live", "orphaned", "dead"}

AttemptRow ==
  [phase : {"none", "running", "stopping", "finished"},
   outcome : Outcome \cup {"interrupted", "retrying"},
   fence : Nat, runtime : Worker \cup {NoWorker}, identified : BOOLEAN,
   intent : BOOLEAN, publication : BOOLEAN,
   child : Child, effect : BOOLEAN]

TicketRow ==
  [status : {"absent", "queued", "picked", "failed", "cancelled"},
   generation : 0 .. MaxGeneration, holder : Worker \cup {NoWorker}]

Step ==
  {"off", "starting", "reconciling", "idle", "picked", "gating", "waiting",
   "deferring", "deferred", "intent", "admitting", "recovering", "condemning",
   "superseding", "executing", "returned", "failing", "sealing", "releasing",
   "unadmitted", "reply", "down"}

Mode ==
  {"none", "unsafe", "cancel", "interrupt", "transient", "permanent",
   "cancelled", "interrupted", "lost", "ack", "requeue", "hold", "leave"}

DeliveryRow ==
  [step : Step, mode : Mode, ticket : 0 .. MaxTicket, generation : 0 .. MaxGeneration,
   attempt : 0 .. MaxAttempt, fence : Nat, notified : BOOLEAN]

TypeOK ==
  /\ kind \in AllKinds
  /\ job \in JobRow
  /\ dispatches \in [Generation -> DispatchRow]
  /\ attempts \in [Attempt -> AttemptRow]
  /\ tickets \in [Ticket -> TicketRow]
  /\ serial \in [attempt : 0 .. MaxAttempt, ticket : Ticket]
  /\ delivery \in [Worker -> DeliveryRow]
  /\ runtime \in [Worker -> {"absent", "fresh", "expired", "stopped"}]
  /\ spent \in [lapses : 0 .. MaxLapse, giveUps : 0 .. MaxGiveUp]

-----------------------------------------------------------------------------
(* The job's definition. *)

UnsafeMutation == kind # "read_only"
HasAtomicity   == kind = "poster_mutation"

\* Variant: the retry limit forgets that a mutation is not replay-safe.
MaxAttemptsOfAny == RetryLimit

\* retry_policy.max_attempts of the job's definition.
MaxAttempts == IF UnsafeMutation THEN 1 ELSE RetryLimit

-----------------------------------------------------------------------------
(* The initial state: the job and its first ticket are enqueued in one     *)
(* transaction, no worker has started.                                     *)

IdleDelivery ==
  [step |-> "idle", mode |-> "none", ticket |-> 0, generation |-> 0,
   attempt |-> 0, fence |-> 0, notified |-> FALSE]

UnusedAttempt ==
  [phase |-> "none", outcome |-> "none", fence |-> 0, runtime |-> NoWorker,
   identified |-> FALSE, intent |-> FALSE, publication |-> FALSE,
   child |-> "none", effect |-> FALSE]

QueuedTicket(g) == [status |-> "queued", generation |-> g, holder |-> NoWorker]
UnusedTicket    == [status |-> "absent", generation |-> 0, holder |-> NoWorker]

Init ==
  /\ kind \in Kinds
  /\ job = [phase |-> "queued", outcome |-> "none", desired |-> "run", fence |-> 0,
            generation |-> 1, ticket |-> 1, current |-> 0,
            attention |-> "none", defers |-> 0]
  /\ dispatches = [g \in Generation |->
                     IF g = 1 THEN [ticket |-> 1, disposition |-> "active"]
                              ELSE [ticket |-> 0, disposition |-> "none"]]
  /\ attempts = [a \in Attempt |-> UnusedAttempt]
  /\ tickets = [t \in Ticket |-> IF t = 1 THEN QueuedTicket(1) ELSE UnusedTicket]
  /\ serial = [attempt |-> 0, ticket |-> 1]
  /\ delivery = [w \in Worker |-> [IdleDelivery EXCEPT !.step = "off"]]
  /\ runtime = [w \in Worker |-> "absent"]
  /\ spent = [lapses |-> 0, giveUps |-> 0]

-----------------------------------------------------------------------------
(* State formulae shared by the transactions. *)

Unfinished(a) == a \in Attempt /\ attempts[a].phase \in {"running", "stopping"}

Current == dispatches[job.generation]
Linked  == Current.disposition = "active" /\ Current.ticket = job.ticket

\* A worker process that can still take a step.
Up(w) == delivery[w].step \notin {"off", "down"}

\* The compare-and-swap every fenced write starts with.
Claims(w, phases, desireds) ==
  LET d == delivery[w] IN
  /\ job.current = d.attempt /\ job.fence = d.fence /\ job.generation = d.generation
  /\ job.phase \in phases /\ job.desired \in desireds /\ job.outcome = "none"

\* Variant: a delivery owns whatever its dispatch generation runs.
OwnsByGeneration(w, phases, desireds) ==
  /\ job.generation = delivery[w].generation /\ delivery[w].attempt \in Attempt
  /\ job.phase \in phases /\ job.desired \in desireds /\ job.outcome = "none"

\* A claim whose attempt and dispatch rows also match; when they do not, the
\* transaction raises and rolls back.
Owns(w, phases, desireds) ==
  /\ Claims(w, phases, desireds)
  /\ Unfinished(delivery[w].attempt) /\ Current.disposition = "active"

Busy == {"running", "stopping"}
AnyWish == {"run", "cancel"}

\* The database answer to "must this pre-admission delivery give up?"
AdmissionCancelled(w) ==
  \/ delivery[w].notified
  \/ delivery[w].generation # job.generation
  \/ job.phase = "terminal" \/ job.desired # "run"

-----------------------------------------------------------------------------
(* State changes shared by the transactions. *)

Goto(w, s)       == [delivery EXCEPT ![w].step = s]
GotoAs(w, s, m)  == [delivery EXCEPT ![w].step = s, ![w].mode = m]
Answer(w, reply) == GotoAs(w, "reply", reply)

\* An answer on the way through `finally: gates.release()`.
Finish(w, reply) == GotoAs(w, "releasing", reply)

Settled(outcome) == [job EXCEPT !.phase = "terminal", !.outcome = outcome,
                                !.attention = "none", !.defers = 0]

Closed(a, outcome) == [attempts EXCEPT ![a].phase = "finished", ![a].outcome = outcome]

Ended(disposition) == [dispatches EXCEPT ![job.generation].disposition = disposition]

\* FencedWriter._terminal: job, attempt and dispatch end in one transaction.
Terminal(w, outcome, disposition, attemptOutcome) ==
  /\ job' = Settled(outcome)
  /\ attempts' = Closed(delivery[w].attempt, attemptOutcome)
  /\ dispatches' = Ended(disposition)

\* Variant: the attempt stays unfinished.
BackToQueueOpen(w, attemptOutcome) ==
  /\ job' = [job EXCEPT !.phase = "queued"]
  /\ UNCHANGED <<attempts, dispatches>>

\* FencedWriter.retry and interrupt: the attempt ends, the job is queued again
\* under the same fence and the same ticket.
BackToQueue(w, attemptOutcome) ==
  /\ job' = [job EXCEPT !.phase = "queued"]
  /\ attempts' = Closed(delivery[w].attempt, attemptOutcome)
  /\ UNCHANGED dispatches

\* _start_attempt: raise the fence and admit the next attempt of this worker.
StartAttempt(w, ledger) ==
  LET n == serial.attempt + 1 IN
  /\ serial.attempt < MaxAttempt
  /\ job' = [job EXCEPT !.phase = "running", !.fence = @ + 1, !.current = n,
                        !.attention = "none", !.defers = 0]
  /\ attempts' = [ledger EXCEPT ![n] = [UnusedAttempt EXCEPT
                    !.phase = "running", !.fence = job.fence + 1, !.runtime = w]]
  /\ serial' = [serial EXCEPT !.attempt = n]
  /\ delivery' = [delivery EXCEPT ![w].step = "executing", ![w].attempt = n,
                                  ![w].fence = job.fence + 1]

\* Variant: nobody proves the tree dead.
TreeLeftAlone(a) == attempts

\* The child's process tree is gone, if there was one.
TreeDead(a) ==
  [attempts EXCEPT ![a].child = IF @ \in {"live", "orphaned"} THEN "dead" ELSE @]

\* Variant: a ticket that should wait again stays on hold.
RequeuedOnHold(t) == [tickets EXCEPT ![t].status = "failed", ![t].holder = NoWorker]

Requeued(t) == [tickets EXCEPT ![t].status = "queued", ![t].holder = NoWorker]
Deleted(t, why) == [tickets EXCEPT ![t].status = why, ![t].holder = NoWorker]

Enqueued(rows, g) == [rows EXCEPT ![serial.ticket + 1] = QueuedTicket(g)]

canonical == <<job, dispatches, attempts>>
queue     == <<tickets, serial>>

-----------------------------------------------------------------------------
(* Orphan assessment: what assess_candidate may conclude about attempt a,  *)
(* asked on worker w, and what becomes of the child it signals.            *)
(*                                                                         *)
(* An attempt row always carries host_boot_id, so an attempt that never    *)
(* recorded a child has a partial identity.                                *)

Fresh(a) == attempts[a].runtime # NoWorker /\ runtime[attempts[a].runtime] = "fresh"

Replayable == IF UnsafeMutation THEN "unsafe" ELSE "recoverable"

Assessment(verdict, child) == [verdict |-> verdict, child |-> child]

\* terminate_verified_orphan: a leader that is there is signalled until its whole tree
\* is gone, or this is not proved; one that is gone is taken for the whole tree.
SameHostAssessments(a) ==
  LET child == attempts[a].child IN
  {Assessment(Replayable, IF child = "live" THEN "dead" ELSE child)}
    \cup {Assessment("unsafe", c) :
            c \in IF "unproven_death" \notin Faults THEN {}
                  ELSE IF child = "live" THEN {"live", "orphaned", "dead"} ELSE {child}}

Assess(a, w) ==
  CASE Fresh(a) -> {Assessment("active", attempts[a].child)}
    [] ~Fresh(a) /\ ~attempts[a].identified ->
         {Assessment("unsafe", attempts[a].child)}
    [] ~Fresh(a) /\ attempts[a].identified /\ HostOf[w] = HostOf[attempts[a].runtime] ->
         SameHostAssessments(a)
    [] OTHER -> {Assessment(Replayable, attempts[a].child)}

\* candidate_for_attempt: the attempt is still the job's unfinished current one.
Candidate(a) == job.phase \in Busy /\ job.current = a /\ Unfinished(a)

-----------------------------------------------------------------------------
(* Worker incarnations: registration, startup reconciliation, heartbeats,  *)
(* crash and graceful stop.                                                *)

Register(w) ==
  /\ delivery[w].step = "off"
  /\ runtime' = [runtime EXCEPT ![w] = "fresh"]
  /\ delivery' = Goto(w, "starting")
  /\ UNCHANGED <<kind, canonical, queue, spent>>

Ready(w) ==
  /\ delivery[w].step = "starting"
  /\ ~(Candidate(job.current) /\ ~Fresh(job.current))
  /\ delivery' = Goto(w, "idle")
  /\ UNCHANGED <<kind, canonical, queue, runtime, spent>>

\* _bounded_candidates and assess_candidate of a starting worker.
SelectOrphan(w) ==
  /\ delivery[w].step = "starting"
  /\ Candidate(job.current) /\ ~Fresh(job.current)
  /\ \E v \in Assess(job.current, w) :
       /\ attempts' = [attempts EXCEPT ![job.current].child = v.child]
       /\ delivery' = [delivery EXCEPT ![w] =
            [@ EXCEPT !.step = "reconciling", !.attempt = job.current,
                      !.fence = job.fence, !.generation = job.generation,
                      !.mode = IF v.verdict = "unsafe" THEN "unsafe"
                               ELSE IF job.desired = "cancel" THEN "cancel"
                               ELSE "interrupt"]]
  /\ UNCHANGED <<kind, job, dispatches, queue, runtime, spent>>

\* The second half of reconcile_candidate: one fenced write, then ready.
ReconcileOrphan(w) ==
  LET Applies ==
        CASE delivery[w].mode = "unsafe" -> Owns(w, Busy, AnyWish)
          [] delivery[w].mode = "cancel" -> Owns(w, Busy, {"cancel"})
          [] OTHER -> Owns(w, Busy, {"run"})
  IN
  /\ delivery[w].step = "reconciling"
  /\ \/ /\ Applies /\ delivery[w].mode = "unsafe"
        /\ Terminal(w, "unsafe", "failed", "interrupted")
     \/ /\ Applies /\ delivery[w].mode = "cancel"
        /\ job' = [Settled("cancelled") EXCEPT !.fence = @ + 1]
        /\ attempts' = Closed(delivery[w].attempt, "cancelled")
        /\ dispatches' = Ended("cancelled")
     \/ /\ Applies /\ delivery[w].mode = "interrupt"
        /\ BackToQueue(w, "interrupted")
     \/ ~Applies /\ UNCHANGED canonical
  /\ delivery' = [delivery EXCEPT ![w] = IdleDelivery]
  /\ UNCHANGED <<kind, queue, runtime, spent>>

\* Some other incarnation is alive or may still be started.
Replaceable(w) == \E v \in Worker \ {w} : delivery[v].step # "down"

\* The process dies with everything it knew.
Crash(w) ==
  /\ "crash" \in Faults /\ Up(w) /\ Replaceable(w)
  /\ delivery' = [delivery EXCEPT ![w] = [IdleDelivery EXCEPT !.step = "down"]]
  /\ UNCHANGED <<kind, canonical, queue, runtime, spent>>

\* SIGTERM drains the running delivery, then the incarnation stops its row.
GracefulStop(w) ==
  /\ "stop" \in Faults /\ delivery[w].step = "idle" /\ Replaceable(w)
  /\ delivery' = Goto(w, "down")
  /\ runtime' = [runtime EXCEPT ![w] = "stopped"]
  /\ UNCHANGED <<kind, canonical, queue, spent>>

RuntimeExpires(w) ==
  /\ runtime[w] = "fresh" /\ delivery[w].step = "down"
  /\ runtime' = [runtime EXCEPT ![w] = "expired"]
  /\ UNCHANGED <<kind, canonical, queue, delivery, spent>>

\* A stalled process misses its heartbeats and is still alive.
RuntimeLapses(w) ==
  /\ "lapse" \in Faults /\ spent.lapses < MaxLapse
  /\ runtime[w] = "fresh" /\ Up(w)
  /\ runtime' = [runtime EXCEPT ![w] = "expired"]
  /\ spent' = [spent EXCEPT !.lapses = @ + 1]
  /\ UNCHANGED <<kind, canonical, queue, delivery>>

Heartbeat(w) ==
  /\ runtime[w] = "expired" /\ Up(w)
  /\ runtime' = [runtime EXCEPT ![w] = "fresh"]
  /\ UNCHANGED <<kind, canonical, queue, delivery, spent>>

-----------------------------------------------------------------------------
(* Delivery before admission.                                              *)

\* PgQueuer hands a ticket to one worker.
TakeTicket(w, t) ==
  /\ tickets' = [tickets EXCEPT ![t].status = "picked", ![t].holder = w]
  /\ delivery' = [delivery EXCEPT ![w] =
       [IdleDelivery EXCEPT !.step = "picked", !.ticket = t,
                            !.generation = tickets[t].generation]]
  /\ UNCHANGED <<kind, canonical, serial, runtime>>

Pick(w, t) ==
  /\ delivery[w].step = "idle"
  /\ tickets[t].status = "queued"
  /\ TakeTicket(w, t)
  /\ UNCHANGED spent

\* The ticket heartbeat of a dead worker ran out: the ticket is delivered again.
Redeliver(w, t) ==
  /\ delivery[w].step = "idle"
  /\ tickets[t].status = "picked" /\ delivery[tickets[t].holder].step = "down"
  /\ TakeTicket(w, t)
  /\ UNCHANGED spent

\* The ticket heartbeat of a live worker ran out: two deliveries at once.
DeliverTwice(w, t) ==
  /\ "lapse" \in Faults /\ spent.lapses < MaxLapse
  /\ delivery[w].step = "idle"
  /\ tickets[t].status = "picked" /\ Up(tickets[t].holder)
  /\ TakeTicket(w, t)
  /\ spent' = [spent EXCEPT !.lapses = @ + 1]

\* _preflight: hold an unsafe outcome, acknowledge what is settled or stale.
Preflight(w) ==
  LET d == delivery[w]
      row == dispatches[d.generation]
      over == job.phase = "terminal" \/ row.disposition # "active"
      held == job.outcome = "unsafe" /\ row.disposition = "failed" /\ d.ticket = row.ticket
      matches == d.generation = job.generation /\ d.ticket = job.ticket /\ d.ticket = row.ticket
  IN
  /\ d.step = "picked"
  /\ delivery' = IF over /\ held THEN Answer(w, "hold")
                 ELSE IF over \/ ~matches THEN Answer(w, "ack")
                 ELSE Goto(w, "gating")
  /\ UNCHANGED <<kind, canonical, queue, runtime, spent>>

\* A gate is busy: _publish_wait tells the user once per gate.
WaitForGate(w) ==
  /\ delivery[w].step = "gating"
  /\ ~AdmissionCancelled(w)
  /\ job' = IF job.phase = "queued"
            THEN [job EXCEPT !.attention = "safety_wait", !.defers = 0] ELSE job
  /\ delivery' = Goto(w, "waiting")
  /\ UNCHANGED <<kind, dispatches, attempts, queue, runtime, spent>>

AcquireGates(w) ==
  /\ delivery[w].step \in {"gating", "waiting"}
  /\ ~AdmissionCancelled(w)
  /\ delivery' = Goto(w, "admitting")
  /\ UNCHANGED <<kind, canonical, queue, runtime, spent>>

GateCancelled(w) ==
  /\ delivery[w].step \in {"gating", "waiting"}
  /\ AdmissionCancelled(w)
  /\ delivery' = Goto(w, "intent")
  /\ UNCHANGED <<kind, canonical, queue, runtime, spent>>

GiveUp(w) ==
  /\ spent.giveUps < MaxGiveUp
  /\ spent' = [spent EXCEPT !.giveUps = @ + 1]
  /\ delivery' = Goto(w, "deferring")
  /\ UNCHANGED <<kind, canonical, queue, runtime>>

\* The deadline is read after a failed try, and before the wait is published.
GateTimeout(w) ==
  /\ "gate_timeout" \in Faults /\ delivery[w].step \in {"gating", "waiting"}
  /\ GiveUp(w)

GateConnectionLost(w) ==
  /\ "connection_lost" \in Faults /\ delivery[w].step \in {"gating", "waiting"}
  /\ GiveUp(w)

\* The gate session broke while it was idle or held gates already: InterfaceError
\* is not transport loss to acquire, and PgQueuer holds the ticket of the failure.
GateSessionBroken(w) ==
  /\ "session_lost" \in Faults /\ delivery[w].step \in {"gating", "waiting"}
  /\ delivery' = Answer(w, "hold")
  /\ UNCHANGED <<kind, canonical, queue, runtime, spent>>

\* _defer_pre_admission still speaks for the queued job it was admitted for.
Deferrable(w) ==
  /\ job.phase = "queued" /\ job.desired = "run"
  /\ job.generation = delivery[w].generation /\ job.ticket = delivery[w].ticket
  /\ Linked

PreviousDefers == IF job.attention = "pending" THEN job.defers ELSE 0

Defer(w) ==
  /\ delivery[w].step = "deferring" /\ Deferrable(w)
  /\ PreviousDefers < DeferLimit
  /\ job' = [job EXCEPT !.attention = "pending", !.defers = PreviousDefers + 1]
  /\ delivery' = Goto(w, "deferred")
  /\ UNCHANGED <<kind, dispatches, attempts, queue, runtime, spent>>

DeferralExhausted(w) ==
  /\ delivery[w].step = "deferring" /\ Deferrable(w)
  /\ PreviousDefers >= DeferLimit
  /\ job' = Settled("failed")
  /\ dispatches' = Ended("failed")
  /\ delivery' = Answer(w, "hold")
  /\ UNCHANGED <<kind, attempts, queue, runtime, spent>>

DeferralMoot(w) ==
  /\ delivery[w].step = "deferring" /\ ~Deferrable(w)
  /\ delivery' = Goto(w, "intent")
  /\ UNCHANGED <<kind, canonical, queue, runtime, spent>>

\* The re-check between the durable deferral and RetryRequested.
RecheckDeferral(w) ==
  /\ delivery[w].step = "deferred"
  /\ delivery' = IF AdmissionCancelled(w) THEN Goto(w, "intent") ELSE Answer(w, "requeue")
  /\ UNCHANGED <<kind, canonical, queue, runtime, spent>>

\* _apply_pre_admission_intent, then the delivery returns.  When the delivery
\* was notified its ticket row is gone, so CancelledError and a plain return
\* leave the queue alike.
ApplyIntent(w) ==
  /\ delivery[w].step \in {"intent", "unadmitted"}
  /\ IF job.phase # "terminal" /\ job.generation = delivery[w].generation
        /\ job.desired = "cancel"
     THEN job' = Settled("cancelled") /\ dispatches' = Ended("cancelled")
     ELSE UNCHANGED <<job, dispatches>>
  /\ delivery' = IF delivery[w].step = "intent" THEN Answer(w, "ack") ELSE Finish(w, "ack")
  /\ UNCHANGED <<kind, attempts, queue, runtime, spent>>

-----------------------------------------------------------------------------
(* Admission.                                                              *)

AdmissionMatches(w) ==
  LET d == delivery[w] IN
  /\ d.generation = job.generation /\ d.ticket = job.ticket
  /\ d.ticket = dispatches[d.generation].ticket

AdmissionOver(w) ==
  job.phase = "terminal" \/ dispatches[delivery[w].generation].disposition # "active"

Admissible(w) ==
  /\ delivery[w].step = "admitting"
  /\ ~AdmissionOver(w) /\ AdmissionMatches(w) /\ job.desired = "run"

\* Nothing to admit: settled, replaced, or no longer wanted.
AdmitNothing(w) ==
  /\ delivery[w].step = "admitting"
  /\ AdmissionOver(w) \/ ~AdmissionMatches(w) \/ job.desired # "run"
  /\ dispatches' = IF ~AdmissionOver(w) /\ ~AdmissionMatches(w)
                   THEN [dispatches EXCEPT ![delivery[w].generation].disposition = "stale"]
                   ELSE dispatches
  /\ delivery' = Goto(w, "unadmitted")
  /\ UNCHANGED <<kind, job, attempts, queue, runtime, spent>>

AdmitAttempt(w) ==
  /\ Admissible(w) /\ job.phase = "queued"
  /\ StartAttempt(w, attempts)
  /\ UNCHANGED <<kind, dispatches, tickets, runtime, spent>>

\* Another incarnation runs the job: back off while it is fresh, otherwise
\* examine the attempt it left.
AdmitBusy(w) ==
  /\ Admissible(w) /\ job.phase = "running"
  /\ \E a \in Attempt :
       /\ Unfinished(a)
       /\ \A b \in Attempt : Unfinished(b) => b <= a
       /\ delivery' = IF Fresh(a) THEN Finish(w, "requeue")
                      ELSE [delivery EXCEPT ![w].step = "recovering", ![w].attempt = a]
  /\ UNCHANGED <<kind, canonical, queue, runtime, spent>>

\* candidate_for_attempt and assess_candidate of a delivery.
ExamineAttempt(w) ==
  LET a == delivery[w].attempt IN
  /\ delivery[w].step = "recovering" /\ Candidate(a)
  /\ \E v \in Assess(a, w) :
       /\ attempts' = [attempts EXCEPT ![a].child = v.child]
       /\ delivery' =
            IF v.verdict = "active" THEN Finish(w, "requeue")
            ELSE [delivery EXCEPT ![w] =
                    [@ EXCEPT !.fence = job.fence,
                              !.step = IF v.verdict = "unsafe" THEN "condemning"
                                                               ELSE "superseding"]]
  /\ UNCHANGED <<kind, job, dispatches, queue, runtime, spent>>

CandidateGone(w) ==
  /\ delivery[w].step = "recovering" /\ ~Candidate(delivery[w].attempt)
  /\ delivery' = Finish(w, "requeue")
  /\ UNCHANGED <<kind, canonical, queue, runtime, spent>>

\* The unsafe verdict: a fenced unsafe outcome, held for the operator.
CondemnAttempt(w) ==
  /\ delivery[w].step = "condemning"
  /\ IF Owns(w, Busy, AnyWish) THEN Terminal(w, "unsafe", "failed", "interrupted")
                           ELSE UNCHANGED canonical
  /\ delivery' = Finish(w, IF Claims(w, Busy, AnyWish) THEN "hold" ELSE "requeue")
  /\ UNCHANGED <<kind, queue, runtime, spent>>

\* Variant: freshness is not read again under the row locks.
SupersedableUnchecked(w) ==
  LET a == delivery[w].attempt IN
  /\ Candidate(a) /\ job.fence = delivery[w].fence /\ attempts[a].fence = job.fence
  /\ job.desired = "run" /\ job.outcome = "none"
  /\ Current.disposition = "active" /\ Current.ticket = delivery[w].ticket
  /\ ~UnsafeMutation

Supersedable(w) ==
  LET a == delivery[w].attempt IN
  /\ Candidate(a) /\ job.fence = delivery[w].fence /\ attempts[a].fence = job.fence
  /\ job.desired = "run" /\ job.outcome = "none"
  /\ Current.disposition = "active" /\ Current.ticket = delivery[w].ticket
  /\ ~Fresh(a) /\ ~UnsafeMutation

\* _take_over_attempt: close the stale attempt and admit its replacement.
SupersedeAttempt(w) ==
  /\ delivery[w].step = "superseding" /\ Supersedable(w)
  /\ StartAttempt(w, Closed(delivery[w].attempt, "interrupted"))
  /\ UNCHANGED <<kind, dispatches, tickets, runtime, spent>>

SupersedeRefused(w) ==
  /\ delivery[w].step = "superseding" /\ ~Supersedable(w)
  /\ delivery' = Finish(w, "requeue")
  /\ UNCHANGED <<kind, canonical, queue, runtime, spent>>

-----------------------------------------------------------------------------
(* Execution.  Handlers are nondeterministic: they may launch an owned     *)
(* child, publish, return, raise or notice the cancellation at any time.   *)

Executing(w) == delivery[w].step = "executing"

\* The child crosses its start barrier only after its identity is durable.
LaunchChild(w) ==
  LET a == delivery[w].attempt IN
  /\ Executing(w) /\ ~UnsafeMutation
  /\ attempts[a].child = "none" /\ Owns(w, {"running"}, {"run"})
  /\ attempts' = [attempts EXCEPT ![a].identified = TRUE, ![a].child = "live"]
  /\ UNCHANGED <<kind, job, dispatches, queue, delivery, runtime, spent>>

\* The leader ends before its descendants do.
LeaderExits(a) ==
  /\ "orphaned_child" \in Faults
  /\ attempts[a].child = "live"
  /\ attempts' = [attempts EXCEPT ![a].child = "orphaned"]
  /\ UNCHANGED <<kind, job, dispatches, queue, delivery, runtime, spent>>

ChildExits(a) ==
  /\ attempts[a].child \in {"live", "orphaned"}
  /\ attempts' = TreeDead(a)
  /\ UNCHANGED <<kind, job, dispatches, queue, delivery, runtime, spent>>

\* record_publish_intent, before any destination is touched.
RecordIntent(w) ==
  LET a == delivery[w].attempt IN
  /\ Executing(w) /\ HasAtomicity /\ Owns(w, {"running"}, {"run"})
  /\ ~attempts[a].intent
  /\ attempts' = [attempts EXCEPT ![a].intent = TRUE, ![a].publication = FALSE]
  /\ UNCHANGED <<kind, job, dispatches, queue, delivery, runtime, spent>>

\* Variant: ownership is not read again at the moment of publication.
MayPublishUnowned(w) ==
  /\ Executing(w) /\ HasAtomicity
  /\ attempts[delivery[w].attempt].intent /\ ~attempts[delivery[w].attempt].publication

MayPublish(w) ==
  /\ Executing(w) /\ HasAtomicity /\ Owns(w, {"running"}, {"run"})
  /\ attempts[delivery[w].attempt].intent /\ ~attempts[delivery[w].attempt].publication

\* publish_atomic: replace the file and seal the evidence under the row lock.
Publish(w) ==
  LET a == delivery[w].attempt IN
  /\ MayPublish(w)
  /\ attempts' = [attempts EXCEPT ![a].effect = TRUE, ![a].publication = TRUE]
  /\ UNCHANGED <<kind, job, dispatches, queue, delivery, runtime, spent>>

\* The file was replaced and the transaction that seals the evidence is lost.
PublishTorn(w) ==
  LET a == delivery[w].attempt IN
  /\ "torn_publication" \in Faults /\ MayPublish(w)
  /\ attempts' = [attempts EXCEPT ![a].effect = TRUE]
  /\ delivery' = GotoAs(w, "failing", "permanent")
  /\ UNCHANGED <<kind, job, dispatches, queue, runtime, spent>>

\* The handler returned and the launcher proved every child tree dead.
Return(w) ==
  /\ Executing(w)
  /\ attempts' = TreeDead(delivery[w].attempt)
  /\ delivery' = Goto(w, "returned")
  /\ UNCHANGED <<kind, job, dispatches, queue, runtime, spent>>

\* Classes of exception a handler can leave with.
FailureClass(w) ==
  {"permanent", "unsafe"}
    \cup (IF "transient" \in Faults THEN {"transient"} ELSE {})
    \cup (IF delivery[w].notified \/ ~Owns(w, Busy, AnyWish) THEN {"cancelled"} ELSE {})

Raise(w) ==
  /\ Executing(w)
  /\ attempts' = TreeDead(delivery[w].attempt)
  /\ \E class \in FailureClass(w) : delivery' = GotoAs(w, "failing", class)
  /\ UNCHANGED <<kind, job, dispatches, queue, runtime, spent>>

\* CancelledError: writer.stopping(), then the launcher's shutdown.
Unwind(w) ==
  LET a == delivery[w].attempt
      stops == Owns(w, {"running"}, AnyWish)
      dead == TreeDead(a) IN
  /\ Executing(w) /\ delivery[w].notified
  /\ job' = IF stops THEN [job EXCEPT !.phase = "stopping"] ELSE job
  /\ attempts' = IF stops THEN [dead EXCEPT ![a].phase = "stopping"] ELSE dead
  /\ delivery' = GotoAs(w, "sealing", "interrupted")
  /\ UNCHANGED <<kind, dispatches, queue, runtime, spent>>

\* The launcher cannot prove the child tree dead.  A failing handler condemns
\* the attempt; a returning or an unwinding one escapes with the exception.
DeathUnproven(w) ==
  /\ "unproven_death" \in Faults /\ Executing(w)
  /\ attempts[delivery[w].attempt].child \in {"live", "orphaned"}
  /\ \/ delivery' = GotoAs(w, "failing", "unsafe")
     \/ delivery' = Finish(w, "hold")
  /\ UNCHANGED <<kind, canonical, queue, runtime, spent>>

-----------------------------------------------------------------------------
(* Settlement.                                                             *)

\* Variant: the publication state is not looked at.
UncertainNever(w) == FALSE

\* writer.fail: publication without evidence turns the outcome to unsafe.
Uncertain(w) ==
  LET a == attempts[delivery[w].attempt] IN HasAtomicity /\ a.intent /\ ~a.publication

Fail(w, outcome) ==
  IF Uncertain(w) THEN Terminal(w, "unsafe", "failed", "interrupted")
                  ELSE Terminal(w, outcome, outcome, outcome)

\* Variant: a failure is written over an accepted cancellation.
FailDesiresAny(w, outcome) == AnyWish

FailDesires(w, outcome) ==
  IF outcome = "cancelled" \/ Uncertain(w) THEN AnyWish ELSE {"run"}

\* Success is written only while nobody asked to cancel.
Succeed(w) ==
  /\ delivery[w].step = "returned" /\ Owns(w, Busy, {"run"})
  /\ Terminal(w, "succeeded", "succeeded", "succeeded")
  /\ delivery' = Finish(w, "ack")
  /\ UNCHANGED <<kind, queue, runtime, spent>>

\* The success write lost: to a cancellation, which this delivery then seals,
\* or to another owner, for which the ticket is held.
SuccessLost(w) ==
  /\ delivery[w].step = "returned" /\ ~Owns(w, Busy, {"run"})
  /\ delivery' = IF Claims(w, Busy, {"cancel"}) THEN GotoAs(w, "sealing", "lost")
                                                ELSE Finish(w, "hold")
  /\ UNCHANGED <<kind, canonical, queue, runtime, spent>>

SealCancelled(w) ==
  LET applies == Owns(w, Busy, FailDesires(w, "cancelled")) IN
  /\ delivery[w].step = "sealing"
  /\ IF applies THEN Fail(w, "cancelled") ELSE UNCHANGED canonical
  /\ delivery' = Finish(w, IF delivery[w].mode = "interrupted" THEN "leave"
                           ELSE IF applies THEN "ack" ELSE "hold")
  /\ UNCHANGED <<kind, queue, runtime, spent>>

MayRetry(w) ==
  /\ delivery[w].step = "failing" /\ delivery[w].mode = "transient"
  /\ delivery[w].attempt < MaxAttempts

RetryLater(w) ==
  LET applies == Owns(w, Busy, {"run"}) IN
  /\ MayRetry(w)
  /\ IF applies THEN BackToQueue(w, "retrying") ELSE UNCHANGED canonical
  /\ delivery' = Finish(w, IF applies THEN "requeue" ELSE "hold")
  /\ UNCHANGED <<kind, queue, runtime, spent>>

\* Every other failure ends the job, if this delivery still owns it, and holds
\* the ticket.
FailForGood(w) ==
  LET outcome == IF delivery[w].mode = "cancelled" THEN "cancelled" ELSE "failed" IN
  /\ delivery[w].step = "failing" /\ ~MayRetry(w)
  /\ CASE delivery[w].mode = "unsafe" /\ Owns(w, Busy, AnyWish) ->
            Terminal(w, "unsafe", "failed", "interrupted")
       [] delivery[w].mode # "unsafe" /\ Owns(w, Busy, FailDesires(w, outcome)) ->
            Fail(w, outcome)
       [] OTHER -> UNCHANGED canonical
  /\ delivery' = Finish(w, "hold")
  /\ UNCHANGED <<kind, queue, runtime, spent>>

\* The gate session was lost while the delivery held it: the release raises and
\* its exception replaces whatever the delivery meant to answer.
ReleaseFails(w) ==
  /\ "session_lost" \in Faults /\ delivery[w].step = "releasing"
  /\ delivery' = Answer(w, "hold")
  /\ UNCHANGED <<kind, canonical, queue, runtime, spent>>

\* PgQueuer's own transaction after the callback: by ticket id, whoever holds
\* the row now, and without effect when the row is gone.
TellQueue(w) ==
  LET t == delivery[w].ticket
      reply == delivery[w].mode
      present == tickets[t].status \in {"queued", "picked", "failed"} IN
  /\ delivery[w].step \in {"releasing", "reply"}
  /\ tickets' =
       CASE present /\ reply = "ack"     -> Deleted(t, "absent")
         [] present /\ reply = "requeue" -> Requeued(t)
         [] present /\ reply = "hold"    -> Deleted(t, "failed")
         [] OTHER -> tickets
  /\ delivery' = [delivery EXCEPT ![w] = IdleDelivery]
  /\ UNCHANGED <<kind, canonical, serial, runtime, spent>>

-----------------------------------------------------------------------------
(* Control: the user cancels or changes the priority.                      *)

Cancel ==
  LET status == tickets[job.ticket].status IN
  /\ "cancel" \in Faults
  /\ job.phase # "terminal" /\ job.desired = "run" /\ Current.ticket = job.ticket
  /\ status \in {"queued", "picked"}
  /\ tickets' = Deleted(job.ticket, "cancelled")
  /\ IF status = "queued"
     THEN /\ job' = [Settled("cancelled") EXCEPT !.desired = "cancel", !.fence = @ + 1]
          /\ dispatches' = Ended("cancelled")
     ELSE /\ job' = [job EXCEPT !.desired = "cancel", !.phase = "stopping"]
          /\ UNCHANGED dispatches
  /\ UNCHANGED <<kind, attempts, serial, delivery, runtime, spent>>

\* The deletion of a live row is announced to the workers that hold it.
Notify(w) ==
  /\ Up(w) /\ delivery[w].ticket \in Ticket /\ ~delivery[w].notified
  /\ tickets[delivery[w].ticket].status = "cancelled"
  /\ delivery' = [delivery EXCEPT ![w].notified = TRUE]
  /\ UNCHANGED <<kind, canonical, queue, runtime, spent>>

\* A new generation replaces a ticket nobody has picked.
Reprioritize ==
  LET g == job.generation + 1
      t == serial.ticket + 1 IN
  /\ "reprioritize" \in Faults /\ g \in Generation /\ t \in Ticket
  /\ job.phase = "queued" /\ Current.ticket = job.ticket
  /\ tickets[job.ticket].status = "queued"
  /\ job' = [job EXCEPT !.fence = @ + 1, !.generation = g, !.ticket = t]
  /\ dispatches' = [dispatches EXCEPT
       ![job.generation].disposition = "superseded",
       ![g] = [ticket |-> t, disposition |-> "active"]]
  /\ tickets' = Enqueued(Deleted(job.ticket, "cancelled"), g)
  /\ serial' = [serial EXCEPT !.ticket = t]
  /\ UNCHANGED <<kind, attempts, delivery, runtime, spent>>

-----------------------------------------------------------------------------
(* The transport intent monitor of the scheduler process.                  *)

PendingDeferral ==
  job.phase = "queued" /\ job.desired = "run" /\ job.attention = "pending"

\* A durable deferral is confirmed, or its ticket is revived or recreated.
RecoverDeferral ==
  LET status == tickets[job.ticket].status
      gone == status \in {"absent", "cancelled"} IN
  /\ "monitor" \in Faults /\ PendingDeferral /\ Linked
  /\ gone => serial.ticket + 1 \in Ticket
  /\ job' = [job EXCEPT !.attention = "deferred", !.defers = 0,
                        !.ticket = IF gone THEN serial.ticket + 1 ELSE @]
  /\ dispatches' = IF gone
                   THEN [dispatches EXCEPT ![job.generation].ticket = serial.ticket + 1]
                   ELSE dispatches
  /\ tickets' = IF gone THEN Enqueued(tickets, job.generation)
                ELSE IF status = "queued" THEN tickets ELSE Requeued(job.ticket)
  /\ serial' = IF gone THEN [serial EXCEPT !.ticket = @ + 1] ELSE serial
  /\ UNCHANGED <<kind, attempts, delivery, runtime, spent>>

\* A broken link between the job and its ticket is flagged, not repaired.
FlagTransport ==
  /\ "monitor" \in Faults /\ job.phase # "terminal"
  /\ IF PendingDeferral THEN ~Linked
     ELSE ~Linked \/ tickets[job.ticket].status \in {"absent", "cancelled"}
  /\ job' = [job EXCEPT !.attention = "link", !.defers = 0]
  /\ UNCHANGED <<kind, dispatches, attempts, queue, delivery, runtime, spent>>

-----------------------------------------------------------------------------
(* The next-state relation, by actor.                                      *)

Startup(w) == Register(w) \/ Ready(w) \/ SelectOrphan(w) \/ ReconcileOrphan(w)

Environment(w) ==
  \/ Crash(w) \/ GracefulStop(w)
  \/ RuntimeExpires(w) \/ RuntimeLapses(w) \/ Heartbeat(w)

PreAdmission(w) ==
  \/ \E t \in Ticket : Pick(w, t) \/ Redeliver(w, t) \/ DeliverTwice(w, t)
  \/ Preflight(w) \/ WaitForGate(w) \/ AcquireGates(w) \/ GateCancelled(w)
  \/ GateTimeout(w) \/ GateConnectionLost(w) \/ GateSessionBroken(w)
  \/ Defer(w) \/ DeferralExhausted(w) \/ DeferralMoot(w) \/ RecheckDeferral(w)
  \/ ApplyIntent(w)

Admission(w) ==
  \/ AdmitNothing(w) \/ AdmitAttempt(w) \/ AdmitBusy(w)
  \/ ExamineAttempt(w) \/ CandidateGone(w) \/ CondemnAttempt(w)
  \/ SupersedeAttempt(w) \/ SupersedeRefused(w)

Execution(w) ==
  \/ LaunchChild(w) \/ RecordIntent(w) \/ Publish(w) \/ PublishTorn(w)
  \/ Return(w) \/ Raise(w) \/ Unwind(w) \/ DeathUnproven(w)

Settlement(w) ==
  \/ Succeed(w) \/ SuccessLost(w) \/ SealCancelled(w)
  \/ RetryLater(w) \/ FailForGood(w) \/ ReleaseFails(w) \/ TellQueue(w)

Next ==
  \/ \E w \in Worker :
       \/ Startup(w) \/ Environment(w) \/ PreAdmission(w) \/ Admission(w)
       \/ Execution(w) \/ Settlement(w) \/ Notify(w)
  \/ \E a \in Attempt : LeaderExits(a) \/ ChildExits(a)
  \/ Cancel \/ Reprioritize \/ RecoverDeferral \/ FlagTransport

Spec == Init /\ [][Next]_vars

-----------------------------------------------------------------------------
(* Fairness.  An incarnation that is up keeps taking its steps, a dead one *)
(* is noticed, the supervisor starts the next one, and a gate that other   *)
(* jobs hold is free again and again at the moment this delivery tries it. *)

Progress(w) ==
  \/ Startup(w) \/ GateCancelled(w) \/ Preflight(w)
  \/ Defer(w) \/ DeferralExhausted(w) \/ DeferralMoot(w) \/ RecheckDeferral(w)
  \/ ApplyIntent(w) \/ Admission(w) \/ Settlement(w)
  \/ Return(w) \/ Raise(w) \/ Unwind(w)

Delivers(w) == \E t \in Ticket : Pick(w, t) \/ Redeliver(w, t)

Fairness ==
  /\ \A w \in Worker :
       /\ WF_vars(Progress(w)) /\ WF_vars(Delivers(w)) /\ WF_vars(RuntimeExpires(w))
       /\ SF_vars(AcquireGates(w))
  /\ WF_vars(RecoverDeferral) /\ WF_vars(FlagTransport)

FairSpec == Spec /\ Fairness

-----------------------------------------------------------------------------
(* Safety.                                                                 *)

Started(a) == attempts[a].phase # "none"

\* The attempt ledger agrees with the job row: at most one attempt is
\* unfinished, a running job points at it under the job's own fence, a queued
\* job has none, and fences grow with attempt numbers, so that an older
\* delivery can never pass for a newer one (delivery.py, fenced_writer.py).
AttemptLedger ==
  /\ \A a, b \in Attempt : Unfinished(a) /\ Unfinished(b) => a = b
  /\ job.phase = "running" => Unfinished(job.current) /\ attempts[job.current].fence = job.fence
  /\ job.phase = "queued" => \A a \in Attempt : ~Unfinished(a)
  /\ \A a, b \in Attempt : a < b /\ Started(b) =>
       Started(a) /\ attempts[a].fence < attempts[b].fence

\* The dispatch ledger agrees with the job row: the only active dispatch is the
\* current generation's, and it is active exactly while the job is open
\* (delivery.py, control.py and pgqueuer_gateway.py end it in the transaction
\* that ends or replaces what it carries).
DispatchLedger ==
  \A g \in Generation :
    dispatches[g].disposition = "active" <=> (g = job.generation /\ job.phase # "terminal")

\* A mutation that is not replay-safe is attempted at most once, through every
\* crash, redelivery, duplicate and recovery (manifest.py max_attempts,
\* orphan_reconciliation.py, _take_over_attempt).
MutationNeverReplayed == UnsafeMutation => serial.attempt <= 1

\* A job reported as succeeded or failed hides no half-done publication: if an
\* attempt replaced the destination, its evidence is sealed (fenced_writer.fail).
PublicationAccountedFor ==
  job.outcome \in {"succeeded", "failed"} =>
    \A a \in Attempt : attempts[a].effect => attempts[a].publication

\* A job succeeded exactly when its current attempt did, no other attempt has
\* that outcome, and a job that succeeded, failed or is unsafe has no attempt
\* still open: a stale delivery cannot settle a job somebody else runs now
\* (FencedWriter._claim_job, _terminal).
VerdictBacked ==
  /\ \A a \in Attempt : attempts[a].outcome = "succeeded" =>
       job.outcome = "succeeded" /\ a = job.current
  /\ job.outcome = "succeeded" => attempts[job.current].outcome = "succeeded"
  /\ job.outcome \in {"succeeded", "failed", "unsafe"} => \A a \in Attempt : ~Unfinished(a)

\* Job row, attempts and dispatches tell one story, whoever ended or replaced
\* what they carried.
LedgersAgree == DispatchLedger /\ VerdictBacked

\* On one host a replacement never starts beside the child of the attempt it replaces,
\* whichever delivery or start-up ended that attempt; nor beside what that child left
\* behind, unless it was recovery that ended the attempt: it asks for the leader only,
\* and takes descendants that outlived their leader for dead
\* (process_launcher.shutdown before retry, terminate_verified_orphan).
ReplayAfterTreeDeath ==
  \A a, b \in Attempt :
    /\ a < b /\ Started(b)
    /\ HostOf[attempts[a].runtime] = HostOf[attempts[b].runtime]
    => /\ attempts[a].child # "live"
       /\ attempts[a].child = "orphaned" => attempts[a].outcome = "interrupted"

\* A destination is replaced only by the current attempt of a job that is
\* running and still wanted: never after cancellation was accepted, never
\* after the job settled, never by a superseded attempt (publish_atomic).
EffectWhileWanted ==
  [][\A a \in Attempt : attempts'[a].effect # attempts[a].effect =>
       /\ a = job.current /\ Unfinished(a) /\ attempts[a].fence = job.fence
       /\ job.phase = "running" /\ job.desired = "run"]_vars

\* A restarted or duplicated runtime does not claim work another incarnation
\* still holds: no attempt is admitted while the unfinished one belongs to an
\* incarnation with fresh heartbeats, even when it was examined earlier and
\* found stale (runtime_instances.py, _admit_delivery, _take_over_attempt).
HeldWorkIsNotClaimed ==
  [][\A a \in Attempt : Unfinished(a) /\ Fresh(a) => serial'.attempt = serial.attempt]_vars

\* The job row lives the life JobLifecycle promises.
Lifecycle == INSTANCE JobLifecycle WITH
  phase <- job.phase, outcome <- job.outcome,
  cancelled <- (job.desired = "cancel"), fence <- job.fence

LifecycleRefinement == Lifecycle!Spec

-----------------------------------------------------------------------------
(* Liveness.                                                               *)

\* The job is open and no ticket carries it any more.
TicketLost == job.phase # "terminal" /\ Linked /\ tickets[job.ticket].status = "absent"

\* Every job reaches a verdict, through crashes, drained workers, transient
\* failures, bounded retries, gate contention and deferrals whose retry was
\* lost, as long as no gate session breaks under a delivery and nobody cancels;
\* the one way out is the early acknowledgement that
\* SealedBeforeAcknowledged is about (deliver_job, recover_admission_deferral,
\* reconcile_candidate).
SettledOrTicketLost == <>(job.phase = "terminal" \/ TicketLost)

-----------------------------------------------------------------------------
(* What a doc or a comment says and the code does not do.                  *)

\* "Gate, admit, execute, seal canonically, then allow PgQueuer acknowledgement"
\* (deliver_job): a ticket is acknowledged only when its job is settled.
SealedBeforeAcknowledged == ~TicketLost

=============================================================================
