--------------------------- MODULE PosterAnalysis ---------------------------
(***************************************************************************)
(* One poster analysis job, of one subject or of a group: its attempts run *)
(* the contained pipeline, show the progress of each member and project    *)
(* one run per member in a transaction before the one that ends the job.   *)
(* A worker that seems dead is replaced and may still be alive; its        *)
(* handler asks whether it owns the job and writes a moment later.  Queue, *)
(* tickets and the verdicts on lost workers are JobDelivery's.             *)
(***************************************************************************)
EXTENDS Naturals, FiniteSets

CONSTANTS
  Member,       \* subjects: movies, or series and seasons
  MaxAttempt,   \* bound: attempts of the job
  MaxFault      \* bound: crashes, lapses and database errors

VARIABLES
  kind,       \* poster_pipeline or poster_pipeline_group
  members,    \* what the request names
  job,        \* jobs row; failed is failed_subject_keys of its result
  runs,       \* pipeline_runs of the job
  items,      \* job_work_items by member; by = 0 is no row
  summary,    \* work_item_summary: how many members have which status
  handler,    \* the handler of each attempt and its work item tracker
  ender,      \* history: the attempt that wrote the verdict, 0 if none did
  faults      \* bound

vars == <<kind, members, job, runs, items, summary, handler, ender, faults>>
shown == <<items, summary>>
constant == <<kind, members>>

Attempt == 1..MaxAttempt
Group   == kind = "group"

\* What becomes of a member, and what its work item shows on the way.
Verdict == {"succeeded", "no_change", "review_required", "failed"}
Closed  == Verdict \cup {"cancelled"}
Status  == Closed \cup {"pending", "running"}

NoItem == [by |-> 0, status |-> "pending"]
Counts(status) ==
  [s \in Status |-> Cardinality({m \in members : status[m] = s})]

Open     == {"running", "stopping"}
Finished == {"succeeded", "no_change", "partially_succeeded"}

\* told: the tracker knows the verdicts; unsure: its projection was not followed by its end.
Idle == [at |-> "none", tracker |-> FALSE, flush |-> "idle", dirty |-> FALSE, told |-> FALSE,
         verdict |-> [m \in Member |-> "succeeded"], unsure |-> FALSE]

Places == {"none", "starting", "initializing", "analysing", "projecting", "inserting",
           "telling", "reconciling", "returned", "failing", "retrying", "sealing",
           "cleaning", "closing", "done", "dead"}

TypeOK ==
  /\ kind \in {"single", "group"} /\ members \in SUBSET Member
  /\ job \in [phase : {"queued", "terminal"} \cup Open, wish : {"run", "cancel"},
              outcome : {"none", "failed", "cancelled"} \cup Finished,
              attempt : 0..MaxAttempt, failed : SUBSET Member]
  /\ runs \subseteq [member : Member, by : Attempt, failed : BOOLEAN]
  /\ items \in [Member -> [by : 0..MaxAttempt, status : Status]]
  /\ handler \in [Attempt ->
       [at : Places, tracker : BOOLEAN,
        flush : {"idle", "due", "checked"}, dirty : BOOLEAN, told : BOOLEAN,
        verdict : [Member -> Verdict], unsure : BOOLEAN]]
  /\ ender \in 0..MaxAttempt
  /\ faults \in 0..MaxFault

Init ==
  /\ \/ kind = "group" /\ members = Member
     \/ kind = "single" /\ \E m \in Member : members = {m}
  /\ job = [phase |-> "queued", wish |-> "run", outcome |-> "none", attempt |-> 0,
            failed |-> {}]
  /\ runs = {}
  /\ items = [m \in Member |-> NoItem] /\ summary = Counts([m \in Member |-> "none"])
  /\ handler = [a \in Attempt |-> Idle]
  /\ ender = 0 /\ faults = 0

-----------------------------------------------------------------------------
At(a, places) == handler[a].at \in places
Goto(a, at)   == handler' = [handler EXCEPT ![a].at = at]
Fault == faults < MaxFault /\ faults' = faults + 1
Calm  == faults' = faults

\* A handler that runs in some process, this side of its return.
Executing(a) == At(a, {"starting", "initializing", "analysing", "projecting",
                       "inserting", "telling", "reconciling"})

\* owns_current_attempt: a plain SELECT.
Owns(a) == job.attempt = a /\ job.phase \in Open
\* The fenced compare-and-swap of the writer.
Claims(a, wishes) == Owns(a) /\ job.wish \in wishes /\ job.outcome = "none"

EndBy(a, outcome, failed) ==
  /\ job' = [job EXCEPT !.phase = "terminal", !.outcome = outcome, !.failed = failed]
  /\ ender' = a

-----------------------------------------------------------------------------
(* The life of the job, as delivery, control and reconciliation lead it. *)

Admit ==
  /\ job.phase = "queued" /\ job.attempt < MaxAttempt
  /\ job' = [job EXCEPT !.phase = "running", !.attempt = @ + 1]
  /\ handler' = [handler EXCEPT ![job.attempt + 1].at =
                   IF Group THEN "starting" ELSE "analysing"]
  /\ UNCHANGED <<constant, runs, shown, ender, faults>>

Cancel ==
  /\ job.phase # "terminal" /\ job.wish = "run"
  /\ job' = IF job.phase = "queued"
            THEN [job EXCEPT !.wish = "cancel", !.phase = "terminal", !.outcome = "cancelled"]
            ELSE [job EXCEPT !.wish = "cancel", !.phase = "stopping"]
  /\ UNCHANGED <<constant, runs, shown, handler, ender, faults>>

\* The worker dies, or the delivery breaks off without a verdict.
Crash(a) ==
  /\ ~At(a, {"none", "done", "dead"}) /\ Fault /\ Goto(a, "dead")
  /\ UNCHANGED <<constant, job, runs, shown, ender>>

\* The attempt of a dead, an idle or (a fault) a stalled worker is interrupted, or
\* its cancellation is recovered: without the clean-up, whose work it cannot know.
TakeOver(a) ==
  /\ Owns(a)
  /\ IF At(a, {"done", "dead"}) THEN Calm ELSE Fault
  /\ job' = IF job.wish = "run" THEN [job EXCEPT !.phase = "queued"]
            ELSE [job EXCEPT !.phase = "terminal", !.outcome = "cancelled"]
  /\ UNCHANGED <<constant, runs, shown, handler, ender>>

-----------------------------------------------------------------------------
(* The work item tracker: it must never fail the analysis. *)

StartTracker(a) ==
  /\ At(a, {"starting"})
  /\ Goto(a, IF Owns(a) THEN "initializing" ELSE "analysing")
  /\ UNCHANGED <<constant, job, runs, shown, ender, faults>>

\* The rows of every earlier attempt make room, under the lock of the job row;
\* then the first stage puts all members to work and schedules a flush.
InitializeItems(a) ==
  /\ At(a, {"initializing"})
  /\ items' = [m \in Member |-> IF m \in members THEN [by |-> a, status |-> "pending"]
                                ELSE NoItem]
  /\ summary' = Counts([m \in Member |-> "pending"])
  /\ handler' = [handler EXCEPT ![a].at = "analysing", ![a].tracker = TRUE,
                                ![a].dirty = TRUE, ![a].flush = "due"]
  /\ UNCHANGED <<constant, job, runs, ender, faults>>

InitializeFails(a) ==
  /\ At(a, {"initializing"}) /\ Fault /\ Goto(a, "analysing")
  /\ UNCHANGED <<constant, job, runs, shown, ender>>

\* A frame of the runner.
Observe(a) ==
  /\ At(a, {"analysing"}) /\ handler[a].tracker /\ handler[a].flush = "idle"
  /\ handler' = [handler EXCEPT ![a].dirty = TRUE, ![a].flush = "due"]
  /\ UNCHANGED <<constant, job, runs, shown, ender, faults>>

Flushing(a, flush) ==
  handler[a].tracker /\ handler[a].flush = flush /\ ~At(a, {"dead"})

\* The handler awaits the flush that follows its projection, whatever it brings.
Awaited(h) == IF h.at = "reconciling" THEN [h EXCEPT !.at = "returned"] ELSE h

FlushCheck(a) ==
  /\ Flushing(a, "due")
  /\ handler' = [handler EXCEPT ![a] =
       IF Owns(a) THEN [@ EXCEPT !.flush = "checked"]
       ELSE Awaited([@ EXCEPT !.tracker = FALSE, !.flush = "idle"])]
  /\ UNCHANGED <<constant, job, runs, shown, ender, faults>>

\* What the tracker holds in memory for each member.
Seen(a) == [m \in Member |-> IF handler[a].told THEN handler[a].verdict[m] ELSE "running"]

\* Variant: the rows of the members, whoever made them.
RowsOfAnyone(a) == \A m \in members : items[m].by # 0

\* Are the rows still those this attempt made?
RowsFound(a) == \A m \in members : items[m].by = a

FlushWrite(a) ==
  /\ Flushing(a, "checked")
  /\ LET flushed == Awaited([handler[a] EXCEPT !.flush = "idle", !.dirty = FALSE])
     IN IF RowsFound(a)
        THEN /\ items' = [m \in Member |-> IF m \in members
                                           THEN [items[m] EXCEPT !.status = Seen(a)[m]]
                                           ELSE items[m]]
             /\ summary' = Counts(Seen(a))
             /\ handler' = [handler EXCEPT ![a] = flushed]
        ELSE /\ handler' = [handler EXCEPT ![a] = [flushed EXCEPT !.tracker = FALSE]]
             /\ UNCHANGED shown
  /\ UNCHANGED <<constant, job, runs, ender, faults>>

\* A scheduled flush is not tried again by itself, one that the handler awaits is.
FlushFails(a) ==
  /\ Flushing(a, "checked") /\ Fault
  /\ handler' = [handler EXCEPT ![a] = Awaited(
       [@ EXCEPT !.flush = IF At(a, {"reconciling"}) THEN "due" ELSE "idle"])]
  /\ UNCHANGED <<constant, job, runs, shown, ender>>

\* The handler leaves the analysis for a place: close takes back the flush that is
\* scheduled and makes it; if it fails it is scheduled once more.
Close(a, left) ==
  \/ Calm /\ handler' = [handler EXCEPT ![a] = [left EXCEPT !.flush = "idle"]]
  \/ /\ left.tracker /\ left.dirty /\ Fault
     /\ handler' = [handler EXCEPT ![a] = [left EXCEPT !.flush = "due"]]

\* terminalize_work_items, after a verdict: the open rows of the attempt.
CloseItems(a, status) ==
  LET late(m)  == items[m].by = a /\ items[m].status \notin Closed
      closed   == [m \in Member |-> IF late(m) THEN [items[m] EXCEPT !.status = status]
                                    ELSE items[m]]
  IN IF \E m \in members : late(m)
     THEN items' = closed /\ summary' = Counts([m \in Member |-> closed[m].status])
     ELSE UNCHANGED shown

-----------------------------------------------------------------------------
(* The handler. *)

\* The runner's conversation is over and its results are registered as evidence.
RunnerSucceeds(a) ==
  /\ At(a, {"analysing"})
  /\ \E v \in [members -> IF Group THEN Verdict ELSE Verdict \ {"failed"}] :
       Close(a, [handler[a] EXCEPT !.at = "projecting",
         !.verdict = [m \in Member |-> IF m \in members THEN v[m] ELSE "succeeded"]])
  /\ UNCHANGED <<constant, job, runs, shown, ender>>

\* An exception ends the handler; the retry policy goes by its kind.
Raised(a, transient) ==
  [handler[a] EXCEPT !.at = IF transient THEN "retrying" ELSE "failing"]
Raise(a) == handler' = [handler EXCEPT ![a] = Raised(a, FALSE)]

\* At an await: an open transaction rolls back, with it the flush that the handler
\* awaits, but not one that is scheduled.
Leave(a, left) ==
  \E flush \in IF At(a, {"reconciling"}) THEN {"idle", "due"} ELSE {left.flush} :
    handler' = [handler EXCEPT ![a] = [left EXCEPT !.flush = flush]]

\* Before the runner is started nothing closes the tracker.
RunnerFails(a) ==
  /\ At(a, {"analysing"})
  /\ \E transient \in BOOLEAN :
       Close(a, Raised(a, transient)) \/ (Calm /\ Leave(a, Raised(a, transient)))
  /\ UNCHANGED <<constant, job, runs, shown, ender>>

\* The execution time-out of the definition outside the analysis, perhaps between the
\* projection and the return.
TimesOut(a) ==
  /\ Executing(a) /\ ~At(a, {"analysing"}) /\ Fault
  /\ Leave(a, [Raised(a, TRUE) EXCEPT !.unsure = At(a, {"telling", "reconciling"})])
  /\ UNCHANGED <<constant, job, runs, shown, ender>>

ProjectCheck(a) ==
  /\ At(a, {"projecting"})
  /\ IF Owns(a) THEN Goto(a, "inserting") ELSE Raise(a)
  /\ UNCHANGED <<constant, job, runs, shown, ender, faults>>

Projection(a) ==
  {[member |-> m, by |-> a, failed |-> handler[a].verdict[m] = "failed"] : m \in members}

\* Variant: without the constraint.
ProjectedNever == FALSE

\* uq_pipeline_runs_job_subject.
Projected == \E r \in runs : r.member \in members

\* All members or none.
Project(a) ==
  /\ At(a, {"inserting"}) /\ ~Projected
  /\ runs' = runs \cup Projection(a)
  /\ Goto(a, IF handler[a].tracker THEN "telling" ELSE "returned")
  /\ UNCHANGED <<constant, job, shown, ender, faults>>

ProjectRefused(a) ==
  /\ At(a, {"inserting"}) /\ Projected /\ Raise(a)
  /\ UNCHANGED <<constant, job, runs, shown, ender, faults>>

\* The connection is lost after the commit and before its answer.
ProjectUnsure(a) ==
  /\ At(a, {"inserting"}) /\ ~Projected /\ Fault
  /\ runs' = runs \cup Projection(a)
  /\ \E transient \in BOOLEAN :
       handler' = [handler EXCEPT ![a] = [Raised(a, transient) EXCEPT !.unsure = TRUE]]
  /\ UNCHANGED <<constant, job, shown, ender>>

\* reconcile: the tracker learns what became of the members, when no flush is under
\* way, and is flushed.
Reconcile(a) ==
  /\ At(a, {"telling"}) /\ handler[a].flush # "checked"
  /\ handler' = [handler EXCEPT ![a] =
       IF handler[a].tracker THEN [@ EXCEPT !.at = "reconciling", !.told = TRUE,
                                            !.dirty = TRUE, !.flush = "due"]
       ELSE [@ EXCEPT !.at = "returned"]]
  /\ UNCHANGED <<constant, job, runs, shown, ender, faults>>

\* The cancellation arrives as CancelledError.
Unwind(a) ==
  /\ Executing(a) /\ job.wish = "cancel"
  /\ LET left == [handler[a] EXCEPT !.at = "sealing"]
     IN (At(a, {"analysing"}) /\ Close(a, left)) \/ (Calm /\ Leave(a, left))
  /\ UNCHANGED <<constant, job, runs, shown, ender>>

-----------------------------------------------------------------------------
(* The verdict. *)

Aggregate(v) ==
  CASE \E m \in members : v[m] \in {"failed", "review_required"} -> "partially_succeeded"
    [] \A m \in members : v[m] = "no_change" -> "no_change"
    [] OTHER -> "succeeded"

FailedMembers(a) == {m \in members : handler[a].verdict[m] = "failed"}

Succeed(a) ==
  /\ At(a, {"returned"}) /\ Claims(a, {"run"})
  /\ EndBy(a, Aggregate(handler[a].verdict), FailedMembers(a)) /\ Goto(a, "done")
  /\ UNCHANGED <<constant, runs, shown, faults>>

SuccessLost(a) ==
  /\ At(a, {"returned"}) /\ ~Claims(a, {"run"})
  /\ Goto(a, IF Claims(a, {"cancel"}) THEN "sealing" ELSE "done")
  /\ UNCHANGED <<constant, job, runs, shown, ender, faults>>

\* The error is classified: a transient one goes back to the queue as long as the
\* retry policy has attempts left (three; here the bound).  Neither handler raises
\* an error of unknown safety.
Fail(a) ==
  /\ At(a, {"failing", "retrying"})
  /\ IF ~Claims(a, {"run"}) THEN Goto(a, "done") /\ UNCHANGED <<job, ender>>
     ELSE IF At(a, {"retrying"}) /\ a < MaxAttempt
     THEN job' = [job EXCEPT !.phase = "queued"] /\ Goto(a, "done") /\ UNCHANGED ender
     ELSE EndBy(a, "failed", {}) /\ Goto(a, IF Group THEN "closing" ELSE "done")
  /\ UNCHANGED <<constant, runs, shown, faults>>

Seal(a) ==
  /\ At(a, {"sealing"})
  /\ IF Claims(a, {"run", "cancel"})
     THEN EndBy(a, "cancelled", {}) /\ Goto(a, IF Group THEN "cleaning" ELSE "done")
     ELSE Goto(a, "done") /\ UNCHANGED <<job, ender>>
  /\ UNCHANGED <<constant, runs, shown, faults>>

\* Variant: none.
UnpublishedNone(a) == {}

\* Which runs a cancelled attempt may remove.
Unpublished(a) == IF job.outcome = "cancelled" THEN {r \in runs : r.by = a} ELSE {}

\* The runs, then (unless that failed) the work items.
Cleanup(a) ==
  /\ At(a, {"cleaning"})
  /\ runs' = runs \ Unpublished(a) /\ Goto(a, "closing")
  /\ UNCHANGED <<constant, job, shown, ender, faults>>

CleanupFails(a) ==
  /\ At(a, {"cleaning"}) /\ Fault
  /\ handler' = [handler EXCEPT ![a].at = "done", ![a].unsure = TRUE]
  /\ UNCHANGED <<constant, job, runs, shown, ender>>

CloseWork(a) ==
  /\ At(a, {"closing"}) /\ Goto(a, "done")
  /\ CloseItems(a, job.outcome)
  /\ UNCHANGED <<constant, job, runs, ender, faults>>

CloseWorkFails(a) ==
  /\ At(a, {"closing"}) /\ Fault /\ Goto(a, "done")
  /\ UNCHANGED <<constant, job, runs, shown, ender>>

-----------------------------------------------------------------------------
(* The user's retry of a group, in one transaction. *)

\* resolve_retry_capability.
RetryOffered ==
  job.phase = "terminal" /\ Group
  /\ \/ job.outcome \in {"failed", "cancelled"}
     \/ job.outcome = "partially_succeeded" /\ job.failed # {}

\* retryable_group_members: whom a retry would analyse again; nobody if it is refused.
RetryMembers ==
  IF job.outcome = "partially_succeeded"
  THEN IF {r.member : r \in runs} = members /\ Cardinality(runs) = Cardinality(members)
       THEN {r.member : r \in {q \in runs : q.failed}} ELSE {}
  ELSE IF runs = {} THEN members ELSE {}

-----------------------------------------------------------------------------
Track(a) ==
  StartTracker(a) \/ InitializeItems(a) \/ InitializeFails(a) \/ Observe(a)
  \/ FlushCheck(a) \/ FlushWrite(a) \/ FlushFails(a)

Analyse(a) ==
  RunnerSucceeds(a) \/ RunnerFails(a) \/ TimesOut(a) \/ ProjectCheck(a) \/ Project(a)
  \/ ProjectRefused(a) \/ ProjectUnsure(a) \/ Reconcile(a) \/ Unwind(a)

Settle(a) ==
  Succeed(a) \/ SuccessLost(a) \/ Fail(a) \/ Seal(a)
  \/ Cleanup(a) \/ CleanupFails(a) \/ CloseWork(a) \/ CloseWorkFails(a)

Next ==
  \/ Admit \/ Cancel
  \/ \E a \in Attempt : Crash(a) \/ TakeOver(a) \/ Track(a) \/ Analyse(a) \/ Settle(a)

Spec == Init /\ [][Next]_vars

-----------------------------------------------------------------------------
(* Safety. *)

\* The runs of a job are one attempt's projection, whole, also when a stale attempt
\* and its successor project at once or a cancellation removes them; and a job that
\* finished did so with its own attempt's runs, failed where its result says so.
VerdictIsProjected ==
  /\ runs # {} => \E a \in Attempt : runs = Projection(a)
  /\ job.outcome \in Finished =>
       /\ runs = Projection(ender)
       /\ job.failed = {r.member : r \in {q \in runs : q.failed}}

\* A retry that is offered is accepted, for whom it is meant.  What may refuse it is
\* the projection of an attempt that did not end the job itself, whose clean-up is
\* still to come or failed, or that failed after it, its commit not answered or its
\* time over.
Stranded(a) == ender # a \/ At(a, {"cleaning", "dead"}) \/ handler[a].unsure

RetryIsServed ==
  RetryOffered =>
    \/ RetryMembers # {} /\ (job.outcome = "partially_succeeded" => RetryMembers = job.failed)
    \/ job.outcome # "partially_succeeded" /\ \A r \in runs : Stranded(r.by)

\* The work items are one attempt's, the summary counts what they show, and after a
\* job has finished they show its result: unless a superseded attempt replaced them
\* or the last flush did not reach the database.
ItemsTellTheResult ==
  /\ \A m, n \in members : items[m].by = items[n].by
  /\ (\A m \in members : items[m].by # 0) =>
        summary = Counts([m \in Member |-> items[m].status])
  /\ job.outcome \in Finished /\ Group /\ handler[ender].tracker /\ ~handler[ender].dirty =>
       \A m \in members :
         items[m].by = ender => items[m].status = handler[ender].verdict[m]

=============================================================================
