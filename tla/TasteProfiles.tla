---------------------------- MODULE TasteProfiles ----------------------------
(***************************************************************************)
(* How preference evidence becomes the taste profile of the movie library: *)
(* evidence is frozen into a revision, the coordinator row of the library  *)
(* remembers the revision it wants and the one build in flight, a job      *)
(* trains the profile and swaps it in by generation.  Every transaction    *)
(* that touches the coordinator holds its advisory lock, so each of them   *)
(* is one action, except scheduling, which reads the publication when it   *)
(* gets the lock and decides later.  The activation takes another lock.    *)
(***************************************************************************)
EXTENDS Naturals, FiniteSets

CONSTANTS
  Exemplar,     \* positive exemplars, each of one preference event
  SubjectOf,    \* the movie each of them is about
  None,         \* no digest and no exemplar
  Required,     \* positive subjects a profile needs (50 in the code)
  Threshold,    \* changes of evidence that make a rebuild due (10)
  MaxAttempt,   \* attempts of a job (3)
  MaxJob,       \* bound: rebuild jobs
  MaxCall,      \* bound: rebuilds, seedings, cancels and retries asked for by hand
  MaxFault      \* bound: failures, crashes and silent workers

ASSUME TasteProfilesAssumption ==
  /\ None \notin Exemplar /\ \A r \in SUBSET Exemplar : r # None
  /\ IsFiniteSet(Exemplar)
  /\ Required \in Nat /\ Threshold \in Nat /\ MaxAttempt \in Nat
  /\ MaxJob \in Nat /\ MaxCall \in Nat /\ MaxFault \in Nat

VARIABLES
  evidence,   \* status of each exemplar
  active,     \* the publication: generation, revision of its artifact
  desired,    \* coordinator: the revision wanted
  inflight,   \* coordinator: the build in flight, 0 for none
  builds,     \* the build row of each job, if it has one
  jobs,       \* the taste_rebuild jobs with their requests
  handlers,   \* attempts whose handler executes somewhere
  plan,       \* the scheduling transaction that holds the coordinator
  calls,      \* bound
  faults      \* bound

vars == <<evidence, active, desired, inflight, builds, jobs, handlers, plan, calls, faults>>

Job == 1..MaxJob

InFlightState == {"queued", "running"}
EndState      == {"succeeded", "superseded", "failed", "cancelled"}

\* A revision is named by the exemplars it froze: its digest covers them all.
Revision == SUBSET Exemplar

Live(ev) == {e \in Exemplar : ev[e] = "active"}
Enough(exemplars) == Cardinality({SubjectOf[e] : e \in exemplars}) >= Required
Difference(r, s) == (r \ s) \cup (s \ r)

Closed   == [open |-> FALSE]
NoJob    == [phase |-> "unborn", rev |-> None, gen |-> 0, cancel |-> FALSE, attempt |-> 0]
NoBuild  == [state |-> "none", of |-> 0]
Queued(rev, gen) ==
  [phase |-> "queued", rev |-> rev, gen |-> gen, cancel |-> FALSE, attempt |-> 0]

Coordinated(i) == builds[i].state # "none"
InFlight(bs, i) == bs[i].state \in InFlightState

\* What an ended job keeps; its attempts and its stop request matter no more.
Left(job, phase) ==
  IF phase = "queued" THEN [job EXCEPT !.phase = phase]
  ELSE [job EXCEPT !.phase = phase, !.cancel = FALSE, !.attempt = 0]

\* The id the next job row gets.
Fresh(js) == {n \in Job : js[n].phase = "unborn" /\ \A m \in Job : m < n => js[m].phase # "unborn"}

\* owns_current_attempt
Owns(h) == jobs[h.job].phase = "running" /\ jobs[h.job].attempt = h.attempt

Move(h, at, verdict) ==
  handlers' = (handlers \ {h}) \cup {[h EXCEPT !.at = at, !.verdict = verdict]}

Call  == calls < MaxCall /\ calls' = calls + 1
Fault == faults < MaxFault /\ faults' = faults + 1

Init ==
  /\ evidence = [e \in Exemplar |-> "pending"]
  /\ active = [gen |-> 0, rev |-> None]
  /\ desired = None /\ inflight = 0
  /\ builds = [i \in Job |-> NoBuild] /\ jobs = [i \in Job |-> NoJob]
  /\ handlers = {} /\ plan = Closed /\ calls = 0 /\ faults = 0

-----------------------------------------------------------------------------
(* Reconciling the coordinator. *)

\* Whether revision r is due beside publication p: always beside none, and
\* beside one of no revision.
Due(r, p, force, threshold) ==
  IF p.gen = 0 \/ p.rev = None THEN TRUE
  ELSE force \/ (p.rev # r /\ Cardinality(Difference(r, p.rev)) >= threshold)

\* Variant: only a build in flight counts as having been tried.
PriorUnfinished(bs, js, rev, gen) ==
  {i \in Job : InFlight(bs, i) /\ js[i].rev = rev /\ js[i].gen = gen}

\* The builds of a revision against a generation.  The code reads the latest,
\* but submits beside none of them: a failed one is left to the user's retry.
Prior(bs, js, rev, gen) ==
  {i \in Job : bs[i].state # "none" /\ js[i].rev = rev /\ js[i].gen = gen}

\* Variant: the build whose job has ended stays as it is.
FreedNot(bs, infl) == bs

\* A build whose job ended without saying so is marked failed.
Freed(bs, infl) ==
  IF infl # 0 /\ InFlight(bs, infl) THEN [bs EXCEPT ![infl].state = "failed"] ELSE bs

Busy(bs, js, infl) ==
  infl # 0 /\ InFlight(bs, infl) /\ js[infl].phase \in {"queued", "running"}

\* _reconcile_locked_profile_coordinator, on the rows as the transaction has them.
Reconcile(rev, bs, js, infl, p, force, threshold) ==
  LET freed == Freed(bs, infl)
      prior == Prior(freed, js, rev, p.gen)
      due   == Due(rev, p, force, threshold)
  IN  \/ /\ Busy(bs, js, infl)
         /\ builds' = bs /\ jobs' = js /\ inflight' = infl
      \/ /\ ~Busy(bs, js, infl)
         /\ ~due \/ prior # {}
         /\ builds' = freed /\ jobs' = js
         /\ inflight' = IF due /\ \E i \in prior : InFlight(freed, i)
                        THEN CHOOSE i \in prior : InFlight(freed, i) ELSE 0
      \/ /\ ~Busy(bs, js, infl)
         /\ due /\ prior = {}
         /\ \E n \in Fresh(js) :
              /\ builds' = [freed EXCEPT ![n] = [state |-> "queued", of |-> 0]]
              /\ jobs' = [js EXCEPT ![n] = Queued(rev, p.gen)]
              /\ inflight' = n

\* Variant: only a superseded build is followed by another.
FollowedWhenSuperseded(verdict, rev) == verdict = "superseded"

\* What was missed by a build, however little it is, is built after it.
Followed(verdict, rev) == verdict = "superseded" \/ desired # rev

\* record_profile_build_terminal, for the rows js of a caller that writes jobs too.
Close(i, verdict, js) ==
  LET bs   == [builds EXCEPT ![i].state = verdict]
      infl == IF inflight = i THEN 0 ELSE inflight
      successor == desired # None /\ Followed(verdict, js[i].rev)
  IN  \/ /\ ~InFlight(builds, i)
         /\ jobs' = js /\ UNCHANGED <<builds, inflight>>
      \/ /\ InFlight(builds, i) /\ ~successor
         /\ builds' = bs /\ jobs' = js /\ inflight' = infl
      \/ /\ InFlight(builds, i) /\ successor
         /\ Reconcile(desired, bs, js, infl, active, verdict = "superseded", 1)

-----------------------------------------------------------------------------
(* Evidence, and the transactions that schedule builds for it. *)

\* Activating an exemplar revokes the active one of the same subject.
After(kind, e) ==
  CASE kind = "activate" ->
         [x \in Exemplar |-> IF x = e THEN "active"
                             ELSE IF evidence[x] = "active" /\ SubjectOf[x] = SubjectOf[e]
                                  THEN "revoked" ELSE evidence[x]]
    [] kind = "undo" -> [evidence EXCEPT ![e] = "revoked"]
    [] OTHER -> evidence

Possible(kind, e) ==
  CASE kind = "activate" -> evidence[e] = "pending"
    [] kind = "undo" -> evidence[e] = "active"
    [] OTHER -> TRUE

\* The rows the scheduling transaction changed stay locked until it ends.
RowLocked(e) == plan.open /\ plan.kind # "none" /\ SubjectOf[plan.e] = SubjectOf[e]

\* Evidence changes and nothing is scheduled: too few subjects are left, or the
\* repair of pending deployments activated it.
ChangeQuietly(kind, e) ==
  /\ Possible(kind, e) /\ ~RowLocked(e)
  /\ Enough(Live(After(kind, e))) => kind = "activate"
  /\ evidence' = After(kind, e)
  /\ UNCHANGED <<active, desired, inflight, builds, jobs, handlers, plan, calls, faults>>

\* The scheduling transaction gets the lock and reads the publication.
Open(kind, e, force, initial) ==
  /\ ~plan.open
  /\ plan' = [open |-> TRUE, kind |-> kind, e |-> e, seen |-> active,
              force |-> force, initial |-> initial]
  /\ UNCHANGED <<evidence, active, desired, inflight, builds, jobs, handlers, faults>>

\* Feedback, its undo and a deployment change evidence and schedule at once.
BeginSchedule(kind, e) ==
  /\ Possible(kind, e) /\ Enough(Live(After(kind, e)))
  /\ Open(kind, e, FALSE, FALSE)
  /\ UNCHANGED calls

\* The end of the onboarding asks for a first profile, the retrain button for
\* one in any case, the undo of a choice that was not evidence yet for one if it is due.
Ask(force, initial) ==
  /\ Call /\ ~(force /\ initial)
  /\ Enough(Live(evidence))
  /\ Open("none", None, force, initial)

\* schedule_profile_builds under the lock.  The session keeps the publication it
\* loaded; one that did not exist is looked up again.
EndSchedule ==
  /\ plan.open
  /\ plan' = Closed
  /\ evidence' = After(plan.kind, plan.e)
  /\ \/ /\ plan.initial /\ plan.seen.gen > 0
        /\ UNCHANGED <<desired, inflight, builds, jobs>>
     \/ /\ ~(plan.initial /\ plan.seen.gen > 0)
        /\ desired' = Live(evidence')
        /\ Reconcile(Live(evidence'), builds, jobs, inflight,
                     IF plan.seen.gen = 0 THEN active ELSE plan.seen, plan.force, Threshold)
  /\ UNCHANGED <<active, handlers, calls, faults>>

\* The seeding bundle trains from curated posters, beside the coordinator: the
\* route read the generation g a while ago.
Seed(g) ==
  /\ Call
  /\ \E n \in Fresh(jobs) : jobs' = [jobs EXCEPT ![n] = Queued(None, g)]
  /\ UNCHANGED <<evidence, active, desired, inflight, builds, handlers, plan, faults>>

-----------------------------------------------------------------------------
(* The handler of one attempt. *)

\* mark_profile_build_running accepts the coordinator's own build only.
MayRun(i) == inflight = i /\ InFlight(builds, i)

MarkRunning(h) ==
  /\ h.at = "mark" /\ ~plan.open
  /\ \/ /\ MayRun(h.job)
        /\ builds' = [builds EXCEPT ![h.job].state = "running"]
        /\ Move(h, "stage", "none")
     \/ /\ ~MayRun(h.job)
        /\ UNCHANGED builds
        /\ Move(h, "record", "failed")
  /\ UNCHANGED <<evidence, active, desired, inflight, jobs, plan, calls, faults>>

\* The way of an exception: only a coordinated build has a row to close.
Raise(h, verdict) == Move(h, IF Coordinated(h.job) THEN "record" ELSE "return", verdict)

\* The revision must still be what was frozen.
Stage(h) ==
  /\ h.at = "stage"
  /\ LET rev == jobs[h.job].rev
     IN  IF rev = None \/ (rev \subseteq Live(evidence) /\ Enough(rev))
         THEN Move(h, "publish", "none") ELSE Raise(h, "failed")
  /\ UNCHANGED <<evidence, active, desired, inflight, builds, jobs, plan, calls, faults>>

\* The runner has trained.  activate_immutable_artifact: compare the generation and swap the pointer.
Activate(h) ==
  /\ h.at = "publish" /\ Owns(h)
  /\ \/ /\ active.gen = jobs[h.job].gen
        /\ active' = [gen |-> active.gen + 1, rev |-> jobs[h.job].rev]
        /\ Raise(h, "succeeded")
     \/ /\ active.gen # jobs[h.job].gen
        /\ UNCHANGED active
        /\ Raise(h, "superseded")
  /\ UNCHANGED <<evidence, desired, inflight, builds, jobs, plan, calls, faults>>

\* Training may fail or be stopped, and the attempt may have been overtaken: that
\* is asked before the artifact is registered and again in the activation.
PublicationFails(h) ==
  /\ h.at = "publish"
  /\ \/ Fault /\ Raise(h, "failed")
     \/ jobs[h.job].cancel /\ Raise(h, "cancelled") /\ UNCHANGED faults
     \/ ~Owns(h) /\ Raise(h, "failed") /\ UNCHANGED faults
  /\ UNCHANGED <<evidence, active, desired, inflight, builds, jobs, plan, calls>>

Record(h) ==
  /\ h.at = "record" /\ ~plan.open
  /\ Close(h.job, h.verdict, jobs)
  /\ Move(h, "return", h.verdict)
  /\ UNCHANGED <<evidence, active, desired, plan, calls, faults>>

\* Variant: the failure to record a result is not an error.
SayAgainNot(h) == Move(h, "return", h.verdict)

\* A handler that could not record its result records a failure; one that could
\* not even do that gives up.
SayAgain(h) ==
  IF h.verdict \in {"succeeded", "superseded"}
  THEN Move(h, "record", "failed") ELSE Move(h, "return", "failed")

RecordFails(h) ==
  /\ h.at = "record" /\ Fault
  /\ SayAgain(h)
  /\ UNCHANGED <<evidence, active, desired, inflight, builds, jobs, plan, calls>>

-----------------------------------------------------------------------------
(* What delivery and the user do to the jobs. *)

Admit(i) ==
  /\ jobs[i].phase = "queued" /\ jobs[i].attempt < MaxAttempt
  /\ jobs' = [jobs EXCEPT ![i].phase = "running", ![i].attempt = @ + 1]
  /\ handlers' = handlers \cup
       {[job |-> i, attempt |-> jobs[i].attempt + 1, verdict |-> "none",
         at |-> IF Coordinated(i) THEN "mark" ELSE "stage"]}
  /\ UNCHANGED <<evidence, active, desired, inflight, builds, plan, calls, faults>>

\* The phases an owned attempt may leave its job in.
Outcomes(h) ==
  CASE h.verdict \in {"succeeded", "superseded"} -> {"done"}
    [] h.verdict = "cancelled" -> {"cancelled"}
    [] OTHER -> {"failed"} \cup
         IF ~jobs[h.job].cancel /\ h.attempt < MaxAttempt THEN {"queued"} ELSE {}

\* The fenced end of an attempt: final, or an automatic retry.
Return(h) ==
  /\ h.at = "return"
  /\ handlers' = handlers \ {h}
  /\ \/ Owns(h) /\ \E phase \in Outcomes(h) : jobs' = [jobs EXCEPT ![h.job] = Left(@, phase)]
     \/ ~Owns(h) /\ UNCHANGED jobs
  /\ UNCHANGED <<evidence, active, desired, inflight, builds, plan, calls, faults>>

Crash(h) ==
  /\ Fault
  /\ handlers' = handlers \ {h}
  /\ UNCHANGED <<evidence, active, desired, inflight, builds, jobs, plan, calls>>

\* The attempt is taken from a dead worker, or from one that only fell silent.
Interrupt(i) ==
  /\ jobs[i].phase = "running"
  /\ \/ ~(\E h \in handlers : h.job = i /\ Owns(h)) /\ UNCHANGED faults
     \/ (\E h \in handlers : h.job = i /\ Owns(h)) /\ Fault
  /\ jobs' = [jobs EXCEPT ![i] = Left(@,
       IF @.cancel THEN "cancelled" ELSE IF @.attempt < MaxAttempt THEN "queued" ELSE "failed")]
  /\ UNCHANGED <<evidence, active, desired, inflight, builds, handlers, plan, calls>>

CancelRunning(i) ==
  /\ Call
  /\ jobs[i].phase = "running" /\ ~jobs[i].cancel
  /\ jobs' = [jobs EXCEPT ![i].cancel = TRUE]
  /\ UNCHANGED <<evidence, active, desired, inflight, builds, handlers, plan, faults>>

\* Queued work ends with the request, and its build with it.
CancelQueued(i) ==
  /\ Call
  /\ jobs[i].phase = "queued" /\ ~plan.open
  /\ Close(i, "cancelled", [jobs EXCEPT ![i] = Left(@, "cancelled")])
  /\ UNCHANGED <<evidence, active, desired, handlers, plan, faults>>

\* assert_profile_build_retryable
Retryable(i) ==
  /\ builds[i].state \in {"failed", "cancelled"}
  /\ inflight = 0
  /\ desired = jobs[i].rev /\ active.gen = jobs[i].gen

\* control.retry of a coordinated build.  The retry of a seeding job makes a job
\* whose request its handler refuses; it changes nothing here.
Retry(i) ==
  /\ Call
  /\ jobs[i].phase \in {"failed", "cancelled"} /\ ~plan.open
  /\ Retryable(i)
  /\ \E n \in Fresh(jobs) :
       /\ jobs' = [jobs EXCEPT ![n] = Queued(jobs[i].rev, jobs[i].gen)]
       /\ builds' = [builds EXCEPT ![n] = [state |-> "queued", of |-> i]]
       /\ inflight' = n
  /\ UNCHANGED <<evidence, active, desired, handlers, plan, faults>>

Next ==
  \/ \E kind \in {"activate", "undo"}, e \in Exemplar :
       ChangeQuietly(kind, e) \/ BeginSchedule(kind, e)
  \/ \E force, initial \in BOOLEAN : Ask(force, initial)
  \/ EndSchedule
  \/ \E g \in 0..active.gen : Seed(g)
  \/ \E h \in handlers :
       \/ MarkRunning(h) \/ Stage(h) \/ Activate(h) \/ PublicationFails(h)
       \/ Record(h) \/ RecordFails(h) \/ Return(h) \/ Crash(h)
  \/ \E i \in Job :
       \/ Admit(i) \/ Interrupt(i) \/ CancelRunning(i) \/ CancelQueued(i) \/ Retry(i)

Spec == Init /\ [][Next]_vars

-----------------------------------------------------------------------------
(* Properties. *)

Publication == [gen : Nat, rev : {None} \cup Revision]

BuildRow == [state : {"none"} \cup InFlightState \cup EndState, of : 0..MaxJob]

JobRow == [phase : {"unborn", "queued", "running", "done", "failed", "cancelled"},
           rev : {None} \cup Revision, gen : Nat, cancel : BOOLEAN, attempt : 0..MaxAttempt]

Handler == [job : Job, attempt : 1..MaxAttempt,
            at : {"mark", "stage", "publish", "record", "return"},
            verdict : {"none"} \cup EndState]

Plan == [open : {TRUE}, kind : {"none", "activate", "undo"}, e : {None} \cup Exemplar,
         seen : Publication, force : BOOLEAN, initial : BOOLEAN]

TypeOK ==
  /\ evidence \in [Exemplar -> {"pending", "active", "revoked"}]
  /\ active \in Publication
  /\ desired \in {None} \cup Revision
  /\ inflight \in 0..MaxJob
  /\ builds \in [Job -> BuildRow]
  /\ jobs \in [Job -> JobRow]
  /\ handlers \subseteq Handler
  /\ plan \in {Closed} \cup Plan

(* The coordinator and the build rows agree about the one build in flight,  *)
(* through failures, cancellations, retries and successors: no insert ever  *)
(* meets the unique index, and no build is in flight that the coordinator   *)
(* does not wait for.  (The type invariant is conjoined.)                   *)
OneBuildInFlight ==
  /\ TypeOK
  /\ \A i \in Job : InFlight(builds, i) <=> inflight = i

(* A revision is tried once against a generation; every further build of it *)
(* is the user's retry of one that failed or was cancelled.                 *)
OneAutomaticBuild ==
  \A i, k \in Job :
    /\ Coordinated(i) /\ builds[i].of # 0 =>
         /\ builds[builds[i].of].state \in {"failed", "cancelled"}
         /\ jobs[builds[i].of].rev = jobs[i].rev /\ jobs[builds[i].of].gen = jobs[i].gen
    /\ (/\ Coordinated(i) /\ Coordinated(k) /\ i # k
        /\ jobs[i].rev = jobs[k].rev /\ jobs[i].gen = jobs[k].gen)
       => builds[i].of # 0 \/ builds[k].of # 0

(* Evidence that was scheduled is not forgotten, whatever it arrived during: *)
(* with nothing in flight, the desired revision is the profile's, or differs *)
(* from it by less than makes a rebuild due, or a build of it, or of the       *)
(* profile itself, is shown as failed.  (A profile of the seeding bundle stands until the  *)
(* next evidence.)                                                           *)
EvidenceIsAnswered ==
  ~plan.open /\ inflight = 0 /\ desired # None =>
    \/ active.gen > 0 /\ active.rev = None
    \/ desired = active.rev
    \/ active.gen > 0 /\ Cardinality(Difference(desired, active.rev)) < Threshold
    \/ \E i \in Job : builds[i].state \in {"failed", "cancelled"}
                      /\ jobs[i].rev \in {desired, active.rev}

(* A job that ended by itself has told the coordinator: only one that died, *)
(* or whose record failed, leaves its build in flight for the next schedule *)
(* to find.                                                                 *)
DoneIsRecorded ==
  \A i \in Job : jobs[i].phase = "done" => ~InFlight(builds, i)
=============================================================================
