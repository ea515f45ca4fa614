---------------------------- MODULE JobSubmission ----------------------------
(***************************************************************************)
(* How work enters the queue: single jobs, fixed batches, retried batches  *)
(* and scheduled occurrences, each submitted in one transaction of its     *)
(* caller.  Advisory locks serialize equal idempotency keys and equal      *)
(* overlap scopes; they and the row locks of SELECT ... FOR UPDATE are     *)
(* held until the transaction ends.  A step between two lock requests is   *)
(* an action of its own.  Transactions are READ COMMITTED: a query sees    *)
(* what is committed when it runs, and the session's own inserts.          *)
(***************************************************************************)
EXTENDS Naturals, Sequences, FiniteSets, Functions

CONSTANTS
  Submitter,    \* sessions of routes and handlers
  Scheduler,    \* the sessions of scheduler callbacks, a subset of Submitter
  Single,       \* direct requests: records [kind, subject, body, key]
  Bulk,         \* batch requests: records [kind, children, key]
  Minute,       \* the minutes PgQueuer may deliver a schedule for
  Missing,      \* subjects whose poster discovery may find missing
  Settings,     \* the schedule configuration
  MaxJob,       \* bound: rows of the jobs table
  MaxCall,      \* bound: submissions begun
  MaxVersion    \* bound: configuration revisions

\* The job types of the manifest: parents of a batch, jobs whose effect is an
\* unsafe mutation, and jobs whose effect may be repeated.
BatchKind  == {"poster_heal", "poster_deploy_reset", "poster_backup_all",
               "poster_pipeline_batch", "poster_pipeline_tv_batch"}
UnsafeKind == {"poster_deploy", "poster_restore", "poster_reset", "poster_backup_subject",
               "poster_maintenance", "pipeline_cache_clear", "backup_create",
               "job_retention_purge", "system_metrics_purge"}
WorkKind   == UnsafeKind \cup
  {"system_noop", "library_sync", "radarr_upgrade", "poster_rescan", "poster_pipeline",
   "poster_pipeline_group", "ranking_residual_train", "taste_rebuild", "taste_map", "taste_enrich"}

\* overlap_policy.mode of a job type.  (A batch parent is not resolved at all.)
Policy(kind) ==
  CASE kind = "system_noop" -> "allow"
    [] kind \in UnsafeKind -> "reject_conflict"
    [] OTHER -> "coalesce_equivalent"

\* The key of a child: a digest of its parent's key and of its subject or source.
ChildKey(parentKey, of) == <<"child", parentKey, of>>

\* A batch names each of its subjects once, a row of the library or a chunk.  The
\* key of a request is none of those the program makes for itself, which are
\* longer tuples, nor that of the lock of the heal.
ASSUME JobSubmissionAssumption ==
  /\ Scheduler \subseteq Submitter
  /\ MaxJob \in Nat /\ MaxCall \in Nat /\ MaxVersion \in Nat \ {0}
  /\ IsFiniteSet(Missing)
  /\ \A r \in Single \cup Bulk : Len(r.key) = 1 /\ r.key[1] \notin {"heal", "schedule"}
  /\ \A r \in Single : r.kind \in WorkKind
  /\ \A b \in Bulk :
       /\ b.kind \in BatchKind /\ b.children \in Seq(Range(b.children))
       /\ \A i \in DOMAIN b.children :
            /\ b.children[i].kind \in WorkKind
            /\ b.children[i].key = ChildKey(b.key, b.children[i].subject)
            /\ \A k \in DOMAIN b.children \ {i} : b.children[k].subject # b.children[i].subject
  /\ Settings \in [sync : Nat, heal : Nat, healEnabled : BOOLEAN, master : BOOLEAN]

VARIABLES
  jobs,      \* committed rows
  fate,      \* what became of each row: "active", "done", "failed"
  tx,        \* the transaction of each session
  version,   \* the configuration version the process serves
  calls      \* submissions begun (bound)

vars == <<jobs, fate, tx, version, calls>>

Id == 1..MaxJob

-----------------------------------------------------------------------------
(* Schedules. *)

\* The production catalog: policy, interval, produced kind and subject.
Catalog == {"library-sync", "poster-heal", "evidence-retention"}

Interval(schedule) == IF schedule = "poster-heal" THEN Settings.heal ELSE Settings.sync

Configured(schedule) ==
  CASE schedule = "library-sync" -> Settings.sync > 0
    [] schedule = "poster-heal" -> Settings.healEnabled /\ Settings.heal > 0
    [] OTHER -> TRUE

EffectivelyEnabled(schedule) == Settings.master /\ Configured(schedule)

WindowHour == 3
None == "none"

\* The occurrence a delivered minute stands for: its interval's bucket, or the
\* hour of its daily window, or none.
NormalizeDue(schedule, minute) ==
  IF schedule = "evidence-retention"
  THEN IF (minute \div 60) % 24 = WindowHour THEN {minute - (minute % 60)} ELSE {}
  ELSE IF Interval(schedule) < 1 THEN {} ELSE {minute - (minute % Interval(schedule))}

Produced(schedule) == IF schedule = "library-sync" THEN "library_sync" ELSE "job_retention_purge"

\* The subjects _resolve_subject knows among the maintenance scopes; the other
\* subjects of these requests are rows of the library.
Scopes == {"library-sync", "backup-create", "poster-maintenance", "pipeline-cache",
           "job-retention", "system-metrics"}

ScopeKind == {"library_sync", "backup_create", "poster_maintenance", "pipeline_cache_clear",
              "job_retention_purge", "system_metrics_purge"}

Resolvable(kind, subject) == kind \in ScopeKind => subject \in Scopes

-----------------------------------------------------------------------------
(* Rows, requests and locks. *)

\* Keys are tuples: of a request, of a child (ChildKey), of a scheduled
\* occurrence, of a user's retry.
Row(id, intent, parent, total, retry) ==
  [id |-> id, kind |-> intent.kind, subject |-> intent.subject, body |-> intent.body,
   key |-> intent.key, parent |-> parent, version |-> version, total |-> total, retry |-> retry]

Intent(kind, subject, body, key) ==
  [kind |-> kind, subject |-> subject, body |-> body, key |-> key]

NoIntent == Intent(None, None, None, <<>>)

Idle == [step |-> "idle", locks |-> {}, want |-> {}, rows |-> {}, todo |-> <<>>,
         batch |-> NoIntent, parent |-> 0, new |-> {}, reused |-> {}, active |-> {}]

NewRows == UNION {tx[s].new : s \in Submitter}
NewId   == CHOOSE i \in Id : \A j \in jobs \cup NewRows : j.id # i
Room    == \E i \in Id : \A j \in jobs \cup NewRows : j.id # i

Seen(s) == jobs \cup tx[s].new

Children(id, rows) == {j \in rows : j.parent = id}

\* The rows a query returns, in an order of its own.
Listings(rows) == {list \in [1..Cardinality(rows) -> rows] : IsInjective(list)}

\* A job is over when it ended; a parent when the children it was given are.
Over(j) == IF j.kind \in BatchKind
           THEN \A c \in Children(j.id, jobs) : fate[c.id] # "active" \/ c.retry
           ELSE fate[j.id] # "active"

LockFree(s, lock) == \A u \in Submitter \ {s} : lock \notin tx[u].locks
RowFree(s, id)    == \A u \in Submitter \ {s} : id \notin tx[u].rows

\* Variant: a scope that is shared between batches.
OverlapScopeShared(intent, parent) == <<"active", intent.kind, intent.subject>>

\* The lock of an active-overlap scope: all overlapping types include the parent.
OverlapScope(intent, parent) == <<"active", intent.kind, intent.subject, parent>>

Current(s) == Head(tx[s].todo)
Ready(s, step) == tx[s].step = step /\ tx[s].want = {}

Set(s, t) == tx' = [tx EXCEPT ![s] = t]

-----------------------------------------------------------------------------
Init ==
  /\ jobs = {}
  /\ fate = [i \in Id |-> "active"]
  /\ tx = [s \in Submitter |-> Idle]
  /\ version = 1
  /\ calls = 0

Count == calls < MaxCall /\ calls' = calls + 1

\* Variant: the idempotency key is not locked.
KeyLocksNone(key) == {}

KeyLocks(key) == {key}

\* submit_job for one request.
BeginSingle(s, r) ==
  /\ tx[s].step = "idle" /\ Count
  /\ Set(s, [Idle EXCEPT !.step = "lookup", !.want = KeyLocks(r.key), !.todo = <<r>>])
  /\ UNCHANGED <<jobs, fate, version>>

\* The transaction of a batch: the parent's key first.
Batch(kind, key, children) ==
  [Idle EXCEPT !.step = "parent", !.want = KeyLocks(key), !.todo = children,
               !.batch = Intent(kind, "batch", None, key)]

\* create_fixed_batch for the subjects of a request, in the request's order.
BeginBatch(s, r) ==
  /\ tx[s].step = "idle" /\ Count
  /\ Set(s, Batch(r.kind, r.key, r.children))
  /\ UNCHANGED <<jobs, fate, version>>

\* control.retry of an ended batch: a batch of its failed children.
BeginRetryBatch(s, p) ==
  LET failed == {c \in Children(p.id, jobs) : fate[c.id] = "failed"}
      key    == <<"retry", p.id>>
  IN  /\ tx[s].step = "idle" /\ p.kind \in BatchKind /\ Over(p) /\ failed # {}
      /\ RowFree(s, p.id) /\ Count
      /\ \E list \in Listings(failed) :
           Set(s, [Batch(p.kind, key,
                         [i \in DOMAIN list |->
                            Intent(list[i].kind, list[i].subject, list[i].body,
                                   ChildKey(key, list[i].id))])
                   EXCEPT !.rows = {p.id}])
      /\ UNCHANGED <<jobs, fate, version>>

\* A scheduler callback whose occurrence is due and enabled.
BeginScheduled(s, schedule, minute) ==
  /\ tx[s].step = "idle" /\ EffectivelyEnabled(schedule) /\ Count
  /\ \E due \in NormalizeDue(schedule, minute) :
       LET key == <<"schedule", schedule, due>>
       IN  IF schedule = "poster-heal"
           THEN Set(s, [Idle EXCEPT !.step = "heal", !.want = {<<"heal">>},
                                    !.batch = Intent("poster_heal", "batch", None, key)])
           ELSE Set(s, [Idle EXCEPT
                          !.step = "lookup", !.want = KeyLocks(key),
                          !.todo = <<Intent(Produced(schedule), schedule, None, key)>>])
  /\ UNCHANGED <<jobs, fate, version>>

\* pg_advisory_xact_lock grants the next lock; a session may hold it already.
TakeLock(s) ==
  /\ \E lock \in tx[s].want :
       LockFree(s, lock) /\ Set(s, [tx[s] EXCEPT !.locks = @ \cup {lock}, !.want = {}])
  /\ UNCHANGED <<jobs, fate, version, calls>>

\* The caller's transaction ends without a trace, and its caller gets an error.
RollBack(s) == Set(s, Idle) /\ UNCHANGED <<jobs, fate, version, calls>>

-----------------------------------------------------------------------------
(* One intent: find it, find equivalent work, or create it. *)

WithKey(s, key) == {j \in Seen(s) : j.key = key}

\* The next intent; a batch locks no more keys (they derive from the parent's).
Advance(t) == IF Len(t.todo) = 1 THEN [t EXCEPT !.todo = <<>>, !.step = "commit"]
              ELSE [t EXCEPT !.todo = Tail(@), !.step = "lookup"]

Reuse(s, j) ==
  /\ Set(s, Advance([tx[s] EXCEPT !.reused = @ \cup {j}]))
  /\ UNCHANGED <<jobs, fate, version, calls>>

Create(s, intent, rows) ==
  /\ Resolvable(intent.kind, intent.subject)
  /\ Room
  /\ Set(s, Advance([tx[s] EXCEPT
              !.new = @ \cup {Row(NewId, intent, tx[s].parent, 0, FALSE)}, !.rows = @ \cup rows]))
  /\ UNCHANGED <<jobs, fate, version, calls>>

\* _resolve_subject raises after the row's locks are taken.
Unresolved(s, intent) == ~Resolvable(intent.kind, intent.subject) /\ RollBack(s)

SameIntent(s, j, intent) ==
  /\ j.kind = intent.kind /\ j.subject = intent.subject /\ j.body = intent.body
  /\ j.parent = tx[s].parent

\* The key exists: the same request again, or another one under its key.
Repeat(s) ==
  /\ Ready(s, "lookup")
  /\ \E j \in WithKey(s, Current(s).key) :
       IF SameIntent(s, j, Current(s)) THEN Reuse(s, j) ELSE RollBack(s)

\* The key is new.  A type that allows overlap is created at once.
CreateAllowed(s) ==
  /\ Ready(s, "lookup") /\ WithKey(s, Current(s).key) = {}
  /\ Policy(Current(s).kind) = "allow"
  /\ Create(s, Current(s), {})

AskScope(s) ==
  /\ Ready(s, "lookup") /\ WithKey(s, Current(s).key) = {}
  /\ Policy(Current(s).kind) # "allow"
  /\ Set(s, [tx[s] EXCEPT !.step = "overlap",
                          !.want = {OverlapScope(Current(s), tx[s].parent)}])
  /\ UNCHANGED <<jobs, fate, version, calls>>

\* Variant: children of other batches are looked at too.
OverlapsAnyParent(s, intent) ==
  {j \in Seen(s) : j.kind = intent.kind /\ j.subject = intent.subject /\ ~Over(j)}

\* The active rows of the scope; a request without a parent sees every parent's.
Overlaps(s, intent) ==
  {j \in Seen(s) :
     /\ j.kind = intent.kind /\ j.subject = intent.subject /\ ~Over(j)
     /\ tx[s].parent # 0 => j.parent = tx[s].parent}

Equivalent(s, intent) ==
  {j \in Overlaps(s, intent) : j.body = intent.body /\ j.version = version}

Oldest(rows) == CHOOSE j \in rows : \A k \in rows : j.id <= k.id

\* SELECT ... FOR UPDATE locks every active row it returns.
LockedRows(rows) == {j.id : j \in rows}

Readable(s) == \A j \in Overlaps(s, Current(s)) : RowFree(s, j.id)

\* The scope is locked, and its active rows are: the oldest equivalent one is
\* the answer.
Coalesce(s) ==
  /\ Ready(s, "overlap") /\ Readable(s) /\ Equivalent(s, Current(s)) # {}
  /\ LET j == Oldest(Equivalent(s, Current(s)))
     IN  Set(s, Advance([tx[s] EXCEPT !.reused = @ \cup {j}, !.active = @ \cup {j},
                                      !.rows = @ \cup LockedRows(Overlaps(s, Current(s)))]))
  /\ UNCHANGED <<jobs, fate, version, calls>>

Conflict(s) ==
  /\ Ready(s, "overlap") /\ Readable(s) /\ Equivalent(s, Current(s)) = {}
  /\ Overlaps(s, Current(s)) # {} /\ Policy(Current(s).kind) = "reject_conflict"
  /\ RollBack(s)

CreateNew(s) ==
  /\ Ready(s, "overlap") /\ Readable(s) /\ Equivalent(s, Current(s)) = {}
  /\ Overlaps(s, Current(s)) = {} \/ Policy(Current(s).kind) # "reject_conflict"
  /\ \/ Create(s, Current(s), LockedRows(Overlaps(s, Current(s))))
     \/ Unresolved(s, Current(s))

-----------------------------------------------------------------------------
(* Batches. *)

\* _existing_fixed_batch: the parent and each of its children are as requested.
SameBatch(p, kind, intents) ==
  /\ p.kind = kind /\ p.total = Len(intents)
  /\ Cardinality(Children(p.id, jobs)) = p.total
  /\ \A i \in DOMAIN intents : \E c \in Children(p.id, jobs) :
       /\ c.key = intents[i].key /\ c.kind = intents[i].kind
       /\ c.subject = intents[i].subject /\ c.body = intents[i].body

\* The answer is one parent; `found` if it was found as active work.
Finish(s, p, found) ==
  /\ Set(s, [tx[s] EXCEPT !.reused = {p}, !.active = found, !.step = "commit", !.todo = <<>>,
                          !.rows = @ \cup LockedRows(found)])
  /\ UNCHANGED <<jobs, fate, version, calls>>

\* Under the parent's key: the same batch again, a mismatch, or a new parent.
RepeatBatch(s) ==
  /\ Ready(s, "parent")
  /\ \E p \in WithKey(s, tx[s].batch.key) :
       IF SameBatch(p, tx[s].batch.kind, tx[s].todo) THEN Finish(s, p, {}) ELSE RollBack(s)

CreateParent(s) ==
  /\ Ready(s, "parent") /\ WithKey(s, tx[s].batch.key) = {} /\ Room
  /\ LET id == NewId
         n  == Len(tx[s].todo)
     IN  Set(s, [tx[s] EXCEPT !.parent = id, !.new = {Row(id, tx[s].batch, 0, n, FALSE)},
                              !.step = IF n = 0 THEN "commit" ELSE "lookup"])
  /\ UNCHANGED <<jobs, fate, version, calls>>

\* Variant: only the occurrence is looked for.
ActiveHealsIgnored(s) == {}

ActiveHeals(s) == {j \in Seen(s) : j.kind = "poster_heal" /\ ~Over(j)}

\* Under the heal lock: the occurrence exists, another heal is active, or a
\* batch over the subjects discovery finds is created.
HealAnswered(s) ==
  /\ Ready(s, "heal")
  /\ \/ \E j \in WithKey(s, tx[s].batch.key) : Finish(s, j, {})
     \/ /\ WithKey(s, tx[s].batch.key) = {}
        /\ \E j \in ActiveHeals(s) : j = Oldest(ActiveHeals(s)) /\ RowFree(s, j.id)
                                     /\ Finish(s, j, {j})

HealDiscovers(s) ==
  /\ Ready(s, "heal") /\ WithKey(s, tx[s].batch.key) = {} /\ ActiveHeals(s) = {}
  /\ \E found \in SUBSET Missing :
       \E list \in Listings(found) :
         LET key == tx[s].batch.key
         IN  Set(s, [tx[s] EXCEPT
                       !.step = "parent", !.want = KeyLocks(key),
                       !.todo = [i \in DOMAIN list |->
                                   Intent("poster_restore", list[i], None,
                                          ChildKey(key, list[i]))]])
  /\ UNCHANGED <<jobs, fate, version, calls>>

\* submit_jobs and create_fixed_batch look at what they got before they return:
\* one hierarchy, one configuration.
Consistent(s) ==
  LET members == {j \in tx[s].reused \cup tx[s].new : j.kind \notin BatchKind}
  IN  tx[s].parent # 0 =>
        /\ Cardinality({j.parent : j \in members}) <= 1
        /\ \A j \in members, p \in tx[s].new : p.kind \in BatchKind => j.version = p.version

Commit(s) ==
  /\ tx[s].step = "commit" /\ Consistent(s)
  /\ jobs' = jobs \cup tx[s].new
  /\ Set(s, Idle)
  /\ UNCHANGED <<fate, version, calls>>

Inconsistent(s) == tx[s].step = "commit" /\ ~Consistent(s) /\ RollBack(s)

-----------------------------------------------------------------------------
(* The rest of the system. *)

\* A job ends; its transaction locks the row and the parent's, and projects the
\* parent, which refuses a child set of another size.
End(j, how) ==
  /\ j.kind \notin BatchKind /\ fate[j.id] = "active"
  /\ \A p \in jobs : j.parent = p.id => Cardinality(Children(p.id, jobs)) = p.total
  /\ \A s \in Submitter : {j.id, j.parent} \cap tx[s].rows = {}
  /\ fate' = [fate EXCEPT ![j.id] = how]
  /\ UNCHANGED <<jobs, tx, version, calls>>

\* control.retry of one job: a successor in the same place, without asking for
\* the overlap scope.  (Bound: one successor of each job.)
RetryByUser(j) ==
  LET key == <<"retry", j.id>>
  IN  /\ j.kind \notin BatchKind /\ fate[j.id] = "failed" /\ Room
      /\ \A k \in jobs : k.key # key
      /\ \A s \in Submitter : {j.id, j.parent} \cap tx[s].rows = {}
      /\ Count
      /\ jobs' = jobs \cup {Row(NewId, Intent(j.kind, j.subject, j.body, key), j.parent, 0, TRUE)}
      /\ UNCHANGED <<fate, tx, version>>

Reconfigure ==
  /\ version < MaxVersion
  /\ version' = version + 1
  /\ UNCHANGED <<jobs, fate, tx, calls>>

SubmitterStep(s) ==
  \/ (\E r \in Single : BeginSingle(s, r))
  \/ (\E r \in Bulk : BeginBatch(s, r))
  \/ (\E p \in jobs : BeginRetryBatch(s, p))
  \/ TakeLock(s) \/ Repeat(s) \/ CreateAllowed(s) \/ AskScope(s)
  \/ Coalesce(s) \/ Conflict(s) \/ CreateNew(s)
  \/ RepeatBatch(s) \/ CreateParent(s) \/ HealAnswered(s) \/ HealDiscovers(s)
  \/ Commit(s) \/ Inconsistent(s)

Next ==
  \/ \E s \in Submitter : SubmitterStep(s)
  \/ \E s \in Scheduler, schedule \in Catalog, m \in Minute : BeginScheduled(s, schedule, m)
  \/ \E j \in jobs : RetryByUser(j) \/ \E how \in {"done", "failed"} : End(j, how)
  \/ Reconfigure

Spec == Init /\ [][Next]_vars

-----------------------------------------------------------------------------
(* What must hold. *)

RowType == [id : Id, kind : BatchKind \cup WorkKind, parent : Id \cup {0}, version : 1..MaxVersion,
            total : Nat, retry : BOOLEAN]

TypeOK ==
  /\ \A j \in jobs \cup NewRows :
       [id |-> j.id, kind |-> j.kind, parent |-> j.parent, version |-> j.version,
        total |-> j.total, retry |-> j.retry] \in RowType
  /\ fate \in [Id -> {"active", "done", "failed"}]
  /\ \A s \in Submitter :
       /\ tx[s].step \in {"idle", "lookup", "overlap", "parent", "heal", "commit"}
       /\ tx[s].step = "idle" => tx[s] = Idle
       /\ tx[s].step = "commit" => tx[s].todo = <<>> /\ tx[s].new \cup tx[s].reused # {}
       /\ tx[s].rows \subseteq Id /\ tx[s].new \cap jobs = {}
  /\ version \in 1..MaxVersion /\ calls \in 0..MaxCall

All == jobs \cup NewRows
Scheduled(j) == j.key[1] = "schedule"

\* Work a request is about to be answered with, because it is active and
\* equivalent, does not end before the answer is committed.
AnswerStillActive == \A s \in Submitter : \A j \in tx[s].active : ~Over(j)

\* However submissions interleave, nothing is accepted twice: an idempotency key
\* has one row (so that a repeated request meets the stored job and never the
\* table's constraint), an overlap scope has one active unsafe mutation and one
\* active job of equal meaning, and one scheduled heal is active.  A user's
\* retry takes no scope and is exempt.  Nor is a request answered with work that
\* is over.
UniqueWork ==
  /\ AnswerStillActive
  /\ \A j \in All : \A k \in All \ {j} :
      /\ j.id # k.id /\ j.key # k.key
      /\ (~Over(j) /\ ~Over(k) /\ ~j.retry /\ ~k.retry /\ j.kind = k.kind) =>
           /\ (j.subject = k.subject /\ j.parent = k.parent) =>
                CASE j.kind \in BatchKind \/ Policy(j.kind) = "allow" -> TRUE
                  [] Policy(j.kind) = "reject_conflict" -> FALSE
                  [] OTHER -> j.body # k.body \/ j.version # k.version
           /\ j.kind = "poster_heal" => ~(Scheduled(j) /\ Scheduled(k))

\* A committed batch has the children it counts, under one configuration, though
\* equivalent work of others is active and the configuration moves meanwhile.
BatchIsWhole ==
  TypeOK /\ \A p \in jobs : p.kind \in BatchKind =>
    LET own == {c \in Children(p.id, jobs) : ~c.retry}
    IN  Cardinality(own) = p.total /\ \A c \in own : c.version = p.version

\* What a session waits for: a lock, or the rows of its scope.
WaitsFor(s, u) ==
  /\ s # u
  /\ \/ tx[s].want \cap tx[u].locks # {}
     \/ Ready(s, "overlap") /\ \E j \in Overlaps(s, Current(s)) : j.id \in tx[u].rows

\* No circle of submissions waits for each other, whatever order a bulk request
\* lists its children in: in every group somebody waits for nobody of the group,
\* and PostgreSQL never has to abort one of them.
NoCircularSubmission ==
  \A group \in SUBSET Submitter : group # {} =>
    \E s \in group : \A u \in group : ~WaitsFor(s, u)

=============================================================================
