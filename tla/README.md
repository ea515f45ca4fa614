# Marquee in TLA+

Marquee is a self-hosted poster manager: a FastAPI service over PostgreSQL, a
pool of worker processes that run durable jobs taken from PgQueuer, a scheduler,
and a Svelte web client that follows the jobs live. This directory holds TLA+
specifications of the parts of it whose correctness depends on the order in
which several actors act, the TLC runs that check them, and TLAPS proofs of
their main theorems.

Contents: [the system](#the-system) ·
[the modules and the code](#the-modules-and-the-code) ·
[what the runs check](#what-the-runs-check) ·
[bounds](#bounds-and-why-they-are-enough) ·
[fairness](#fairness) · [what is proved](#what-is-proved) ·
[where code and docs disagree](#where-code-and-docs-disagree) ·
[observed behaviours](#observed-behaviours) ·
[what is not modelled](#what-is-not-modelled) · [plan](#plan)

To repeat everything:

    tlc -workers 2 -config <Run>.cfg <Module>     (run and module as in the table below)
    tlapm <Module>Proofs.tla                      (each of the eight proof modules)

## The system

Paths are relative to `src/`. The job platform (`marquee/core/jobs/`) is the core;
the rest of the program hands it work, gives it its configuration, or shows and
keeps what it leaves behind.

### Components, their state and their operations

**Job delivery** (`delivery.py`, `policies.py`). State: the `jobs` row (phase,
outcome, desired state, *fence*, dispatch generation, ticket, current attempt,
attention), the ledgers `job_dispatches` and `job_attempts`, and, in the worker,
the delivery's own context (ticket, generation, attempt, fence). Operations:
preflight, gate acquisition with a published wait, deferral with a bounded
number of delays, admission, takeover of an attempt somebody left, handler
execution, terminal write, reply to PgQueuer (acknowledge, retry, hold).
Hard: a dozen transactions per delivery, each of which may find that the row has
moved; crashes between any two. Correct when the ledgers always agree with the
row, a fence is never reused, and every accepted job ends.

**Fenced lifecycle writes** (`fenced_writer.py`). Every write of a running
attempt is a compare-and-swap on (job, attempt, fence, generation) and on the
accepted phases and wishes. Hard: success racing cancellation, failure after a
half-done publication. Correct when a stale owner changes nothing and no
terminal row changes.

**Atomic publication** (`publication.py`). Intent, replacement of the file,
evidence. Hard: a crash or an error between any two. Correct when a job reported
as succeeded or failed has evidence for every effect, and no effect happens for
an unwanted job.

**PgQueuer gateway and transport** (`pgqueuer_gateway.py`, `pgqueuer_worker.py`,
and the library itself, modelled from its use). State: ticket rows. Operations:
enqueue, pick, heartbeat, redelivery, hold on failure, retry, cancel, reprioritize.
Hard: at-least-once delivery, also to two live workers at once.

**User control** (`control.py`): cancel, retry, change priority, any time.

**Orphan reconciliation** (`orphan_reconciliation.py`, `process_identity.py`) and
**runtime instances, supervision** (`runtime_instances.py`, `supervisor.py`).
State: heartbeats of worker incarnations, identities of child processes.
Operations: register, heartbeat, stop; at start-up, assess the attempts of dead
incarnations, kill a verified leftover tree, write the verdict. Hard: a live
process that merely missed its heartbeats; identities that cannot be verified;
another host. Correct when work somebody still holds is never claimed and a
mutation is never replayed.

**Child processes** (`process_launcher.py`): an owned process tree per attempt
whose death must be proved before the attempt ends.

**Transport intent monitor** (`transport_intent_monitor.py`): puts a deferred
ticket back, flags a job whose ticket is gone.

**Safety gates** (`safety_gates.py`). State: PostgreSQL advisory locks of a session
of the delivery's own, and the delivery's idea of them. Operations: poll in canonical
order until acquired, cancelled or expired; release in reverse. Hard: hold-and-wait over
several gates, lost sessions, half-done acquisitions. Correct when executions
exclude each other as their policies say, no lock is forgotten, and nobody waits
in a circle.

**Job event log** (`event_service.py`) and **live event stream**
(`event_stream.py`, the SSE route of `marquee/api/routes/jobs.py`). State: the
`job_events` table, the tailer's cursor and LISTEN connection, one bounded queue per
client. Operations: append inside any transaction, notify, repair, fan out,
subscribe with replay, reset. Hard: ids drawn in another order than committed,
lost notifications, subscription racing fan-out, slow clients, restarts. Correct
when a client reads every row once, in order, without a gap.

**Activity store of the web client** (`frontend/src/lib/activity/`). State: an
EventSource, a cursor, projections. Hard: the browser's own reconnection.

**Batches** (`batches.py`). State: a parent job that has no ticket, its `job_batches`
row with the counts, the children. Operations: create fixed or growing, append, seal,
project after every start and end of a child, cancel all, reprioritize all, retry.
Hard: READ COMMITTED transactions that lock the same three kinds of row in different
orders. Correct when the parent's verdict is the aggregate of all its children and
comes as soon as the last has ended.

**Submission and schedules** (`submission.py`, `schedules.py`, `job_enqueue.py`
and the routes that submit). State: `jobs` rows with idempotency and overlap keys.
Operations: submit one, submit many, create a batch, retry a batch, produce a scheduled
occurrence. Hard: two submissions of the same work at once, lock order in bulk requests,
an answer about a job that is just ending. Correct when nothing is accepted twice and
everything accepted is whole.

**Configuration** (`configuration.py`, `configuration_cache.py`, `routes/settings.py`).
State: revisions and the row that points at the current one; in each process a provider
with a cached revision. Operations: update by compare-and-swap, NOTIFY, reload on hint,
on a timer, by a route. Hard: lost notifications, overlapping reloads. Correct when a
cache never goes back and always catches up.

**Managed secrets** (`managed_secrets.py`, `routes/settings.py`). State: one encrypted
credential per service with a generation, the address in the configuration, the API's
client, each process's cache. Operations: test a pair, replace, clear, rotate the key.
Correct when address and credential that are used together were tested together.

**Poster mutations** (`handlers_poster_mutations.py`, with `publication.py`, the rescan and
the library sync that write the same row). State: the poster file, its row in the library,
the backups. Operations: deploy, restore, reset, backup. Hard: several effects behind one
attempt that is never replayed, outside programs that change the file, observers that
write the row under no gate. Correct when nothing a job replaces is lost, the row follows the
file, and the job tells the truth.

**ML publication** (`ml_publication.py`, `taste_preferences.py`, `handlers_taste.py`).
State: preference evidence, the coordinator row of each library, builds, the active
artifact by generation. Operations: record and revoke evidence, schedule, train, activate,
record the end, retry, cancel. Hard: evidence that arrives while a profile trains; builds
that lose the generation swap. Correct when one build is in flight, nothing is built twice
by itself, and no evidence is forgotten.

**Logs and artifacts** (`log_capture.py`, `artifact_service.py`,
`handlers_maintenance.py`). State: a row and a file for each attempt log and each
physical artifact. Operations: create, write, seal, recover, register, download, expire,
purge. Hard: row and file are never changed in one step; sealing, recovery and two
kinds of sweep overlap. Correct when what is served has its file, what is deleted leaves
none, and a sealed log is complete.

**Poster analysis and work items** (`poster_pipeline_job.py`, `poster_pipeline_group.py`,
`work_items.py`). State: one `pipeline_runs` row per analysed subject, one `job_work_items` row
per member of a group and a summary of them in the job row, the tracker in the handler's memory.
Operations: analyse, project, tell and flush, clean up after a cancellation, close after a verdict,
retry. Hard: the projection commits before the verdict, by a check that may be stale; flushes are
scheduled and fail quietly. Correct when the runs of a job are one attempt's, a retry that is
offered is accepted, and the items show the result.

The remaining components (image analysis, taste model,
presentation, migrations, pages) keep no protocol state worth a model; `PROJECT.json`
lists them all with the reason.

### How they interact

    API/scheduler --submit--> jobs row + dispatch + ticket       (one transaction)
    PgQueuer --ticket--> delivery --polls--> safety gates
    delivery --admits--> attempt --runs--> handler --owns--> child process tree
    handler --publication--> destination files     (fenced by the attempt)
    handler --projection--> library row            (another transaction, under the gate)
    handler --activation--> active ML artifact     (generation compare-and-swap)
    attempt --writes--> log and artifact: file first, row after
    delivery --terminal write--> jobs row, attempt, dispatch, batch parent  (one transaction)
    delivery --reply--> PgQueuer        (another transaction, after the gates)
    user --cancel/priority--> jobs row + ticket --notification--> delivery
    new incarnation --reconciles--> attempts and logs of the dead ones
    retention job --expires--> log and artifact files, then rows, then jobs
    monitor --recovers/flags--> jobs row + ticket
    settings route --commit + NOTIFY--> providers of every process
    every transaction --append--> job_events --NOTIFY--> tailer --> browsers

The three facts most of the hard behaviour follows from: the job row and its
PgQueuer ticket are settled in *different* transactions; a file and the row that describes
it are never changed in one step; and a worker that looks dead may be alive.

## The modules and the code

| module | models | its promise |
| --- | --- | --- |
| `JobLifecycle` | the life of one `jobs` row, abstractly | the specification `JobDelivery` implements |
| `JobDelivery` | one job and all that moves it: deliveries, ledgers, tickets, incarnations, reconciliation, control, monitor | ledgers, fences, publication, settlement |
| `SafetyGates` | the polling of advisory locks | exclusion, no forgotten lock, no circular wait |
| `JobEvents` | event log, tailer, SSE route, browser store | order, no gap, eventual arrival |
| `JobBatches` | a batch, its children, a producer and a user at the row locks | the parent's verdict |
| `JobSubmission` | single, bulk and scheduled submission at the advisory locks | nothing twice, nothing half |
| `Configuration` | revisions and the providers that cache them | caches go forward and catch up |
| `Credentials` | address and credential of one integration | pairs are tested pairs |
| `PosterArtwork` | one poster file, its row and its backups | nothing lost, row follows file |
| `PosterAnalysis` | one analysis job: attempts, projection, work items, clean-up, retry | one attempt's runs, a retry that works |
| `TasteProfiles` | evidence, coordinator, builds, publication | one build at a time, no evidence forgotten |
| `JobEvidence` | one attempt log and one artifact | row and file agree where it matters |
| `Settings` | `Configuration` beside `Credentials` (`Pairs`) | the promises of both |
| `Posters` | `PosterArtwork` beside `PosterAnalysis` (`Analysis`) | the promises of both |
| `Queue` | `JobSubmission` beside `SafetyGates` (`Gates`): the way of a job into its handler | the promises of both |
| `MC...` | small instances for TLC | |
| `...Proofs` | theorems and TLAPS proofs | |

`PROJECT.json` maps each definition to the lines it stands for. The modules meet in what
they assume of each other: `JobDelivery` takes the gates as one step, `PosterArtwork` takes
from `JobDelivery` that a mutation has one attempt and from `SafetyGates` that the gate of
a file has one holder, `JobBatches` takes a child as `JobLifecycle` describes it, `TasteProfiles`
and `PosterAnalysis` take attempts, retries and takeovers from `JobDelivery`, `JobEvidence` takes the end of an
attempt from it.

### JobDelivery

One job; `Worker` is a set of worker incarnations (a restarted process is another
incarnation), each delivering one ticket at a time on the host `HostOf` gives it.

| variable | code |
| --- | --- |
| `kind` | the definition's effect safety: read-only (retried), poster mutation (publishes, never replayed), maintenance (never replayed) |
| `job` | the `jobs` row; `attention` and `defers` are `job.attention` and the count it carries |
| `dispatches`, `attempts` | the ledgers; an attempt also carries the facts of the world it owns: whether its child tree lives and whether its destination was replaced |
| `tickets` | PgQueuer rows |
| `delivery[w]` | the program counter between two transactions of `deliver_job`, and its context |
| `runtime[w]` | the evidence of `runtime_instances`: fresh, expired or stopped heartbeats |
| `serial`, `spent` | allocation counters and the counters behind the bounds |

An action is one database transaction, one reply, or one step of the world. The
sequence of one delivery:

    Pick/Redeliver/DeliverTwice -> Preflight -> WaitForGate* -> AcquireGates
      -> AdmitAttempt | AdmitBusy -> ExamineAttempt -> SupersedeAttempt | CondemnAttempt
      -> LaunchChild, RecordIntent, Publish (handler) -> Return | Raise | Unwind
      -> Succeed | SuccessLost -> SealCancelled | RetryLater | FailForGood
      -> TellQueue | ReleaseFails

with `Crash`, `Cancel`, `Reprioritize`, `Notify`, a stalled heartbeat, the
reconciliation of another incarnation and the monitor between any two of them.
`Owns` is the fenced compare-and-swap; where the code's claim matches but a ledger
row does not, the transaction raises and rolls back, which is why `Claims` and
`Owns` are two operators. `Assess` is the outcome of `assess_candidate`:
process identities are never spelled out, an attempt has a recorded identity or
has not, and death can be proved or cannot. A child's tree is "live", "orphaned" (its leader has
exited, descendants go on: `LeaderExits`) or "dead". The launcher waits for the whole tree
(`TreeDead`); recovery asks for the leader alone, so to it an orphaned tree is dead (`Assess`).

Abstractions: a handler is nondeterministic between admission and return. The
outcomes a handler may return by itself (succeeded, partially succeeded, no change,
superseded) are one outcome "succeeded": they are written by the same fenced write
under the same conditions, end the attempt as succeeded and acknowledge the ticket.
`terminal_decision.py` could also map a returned "failed", "cancelled" or "unsafe", which
no registered handler returns. The gates are one step
that may succeed, wait, expire or break (`SafetyGates` has the inside); event
rows, progress and log text are left out. One job suffices: jobs meet only at the
gates (`SafetyGates`), in the batch of their parent (`JobBatches`), at their keys
(`JobSubmission`) and at the queue's capacity. Three simplifications of the fenced
writes: `Owns` asks for an active dispatch also where the code compares only job and
attempt (as long as the monitor recreates no ticket, `DispatchLedger` says it is active then); `RetryLater` has no branch for an intent
without publication, since no definition that publishes may be retried; and an attempt records one intent
(`RecordIntent`), where each further publication of a handler would clear the evidence and begin again
(`PosterArtwork` has two).

### JobLifecycle

The abstract job: `phase`, `outcome`, `cancelled`, `fence`. Admission raises the
fence; once cancellation is accepted nothing is admitted, nothing goes back to the
queue and the job cannot succeed; a terminal row never changes.
`JobDelivery!LifecycleRefinement` is the refinement, checked as a property.

### SafetyGates

`locks[d]` is what the database holds for the present session of delivery `d`,
`leftover[d]` what it still holds for sessions it has not yet noticed are dead,
`run[d].held` what the handle believes. The three differ after a lost session and
after a query that was cut off between taking the lock and answering. `Begin` chooses
a policy; `Requirements` translates `requirements_for_policy`; `Before`
is the canonical order (media file 10, media write 20, maintenance 40). The deadline is
read only after a refusal, as in the code; `cancelled` is asked in a session of
its own and its answer may be old. The GPU gate is not in the model: no registered
definition asks for it. Left out: validation of malformed requirements, hash
collisions of advisory keys (two identities with the same key would only exclude
more).

### JobEvents

`AppendEvent` draws the id when the writer flushes; `Commit` makes the row visible.
`overtaken` is a history variable: ids that were still uncommitted when a larger id
committed. `tailer.step` follows `_run` and `_repair` from await to await;
`lock` is `_fanout_lock`, visible only while a subscription holds it across its
second query. `client[b]` is the server's `EventClient`, `browser[b]` the store:
`url` and `lastId` are the two cursors a request may carry, `cursor` the store's own,
`heard` the rows it has seen in frames or in the snapshots after a reset. Two history variables
say what a browser is owed: `since`, the head at the first subscription after it began to watch, and
`unseen`, the rows committed since then when it subscribes once more without a cursor
(`Measure`): the code starts it at the head again. External facts, modelled from the
code's use: an EventSource reconnects after a broken stream with
`Last-Event-ID` and its old URL, and gives up on any answer but 200; asyncpg raises
`InterfaceError` on a closed connection, which is neither `OSError`,
`RuntimeError` nor `PostgresError`.
Left out: the half-open server side of a browser's earlier connection (it is
unsubscribed before the next subscription of the same browser; the two would only
use separate queues), the store's polling repairs (`#repairAll` re-reads
the jobs it knows that are not over; `#onStreamOpen` takes no snapshot) and its discovery of jobs it
does not track. `Heard` takes what a reset makes the store read as one step: rows count as heard when it is
told to re-read, although `#discover` and `#repair` return at once while an earlier request of theirs is
in flight, whose answer may be a moment older. `Purge` removes any rows but the newest, which is more than the
retention job can remove.

### JobBatches

| variable | code |
| --- | --- |
| `parent` | the parent's `jobs` row |
| `batch` | its `job_batches` row: sealed, `created_total`, `terminal_total` |
| `children`, `tickets` | the children's `jobs` rows and PgQueuer tickets |
| `tx` | the transaction each session has open: its rows, its place, what it has loaded |
| `spent` | the counters behind the bounds |

The sessions are one for each child (whoever starts, ends, retries or requeues it), one of
a user and one of the producer of a growing batch. They run at READ COMMITTED: a
transaction sees what is committed when it asks, waits at a row somebody else holds, and
every lock request is an action of its own because the transactions take the parent, the
projection and the children in *different* orders. A circle of waits is possible and is
broken by PostgreSQL (`DeadlockAbort`). The ORM's identity map matters: a second
`SELECT ... FOR UPDATE` of a row locks it but returns the object loaded before, so a
transaction decides on `tx`'s copy. A child is abstract between its start and its end, of which
`Endings` names the kinds. One that was told to stop ends cancelled or, where death or publication is
unproved, unsafe; or its delivery raises and finds that neither retry nor failure may be written over a
cancellation (`EndUnsettled`). Such a child is `Abandoned`: "stopping", without a ticket, until a
worker restarts and recovers its attempt (`RecoverCancelled`).
The retry of a batch is modelled only in what it would select (`Retryable`); the successor
it creates is `JobSubmission`'s.

### JobSubmission

`jobs` holds the committed rows, `fate` what became of each, `tx[s]` the transaction of a
session: the locks it holds and wants, the requests it still has to resolve, the rows it has
inserted and the active work it is about to name in its answer. `version` is the
configuration revision the process serves. An action is one lock request or one commit:
advisory transaction locks for the idempotency key, then for the overlap scope, then the
row locks of the active jobs of that scope, then the insert, all released by the commit.
`Bulk` requests take the scopes of their children in the order the request lists them.
`Catalog`, `Configured` and `NormalizeDue` translate the schedule definitions; a delivered
minute becomes an occurrence key. Keys are tuples, where the code has digests and formatted
strings: a request brings `<<k>>`, a child's is made of its parent's key and its own subject (`ChildKey`), a
scheduled occurrence has `<<"schedule", name, due>>`, a retried batch `<<"retry", id>>`, and they differ when what
they are made of does. The keys of children are not locked one by one: who has locked their parent's is
the only one that asks for them. The job types and their overlap policies are those of the
manifest (`BatchKind`, `UnsafeKind`, `WorkKind`). What a query returns comes in any order (`Listings`).

`Queue` extends `JobSubmission` and instantiates `SafetyGates`: the locks of the one serialise what
enters the queue, those of the other what leaves it. They share neither state nor lock
keys. Each has a run of its own, `MCJobSubmission` and `MCSafetyGates`, in which the other stays as
it is.

### Configuration and Credentials

`Configuration`: `version` is the current revision, `request[r]` an update from the moment
its client read a version to its answer, `cache[p]` the provider of a process: the version it
serves, whether it listens, the hinted repairs that wait for its lock, the revisions
that reloads have read but not yet installed. `Read` and `Install` are two steps since `await`
stands between them.

`Credentials`: `db` holds address, credential, generation and revision; `claim[r]` a request
with the versions it saw, the pair it tested and the locks it holds; `secrets`, `client` and
`envelope` are what each process, the API's client and the last contained job were given.
A generation also stands for the encryption: a rotation draws a new one and leaves the
credential. `Settings` extends the one and instantiates the other, and `MCSettings` puts both in one
state space: a behaviour is one of the one or of the other (`part`), they share nothing but the
number of a revision.

### PosterArtwork

`file` is what is at the destination and which write put it there (inode and time of change
make two writes of equal bytes differ; two absences do not), `row` the columns of the library
that describe it, `backups` the bytes stored under each checksum's key, `gate` the holder of the
file's gate, `job[j]` canonical row, place in the handler, evidence and settlement of one job,
`rescan` and `sync` what an observer has seen and not yet written. A job's steps:

    Load -> Observe -> Stage -> [IntendBackup -> PublishBackup -> StoreBackup]
      -> Intend -> Publish -> Replace -> Own -> Project -> Finish

with, between any two, a cancellation, a crash, a lost gate session, an outside program that
replaces or removes the file, a torn publication, a recovery that takes a live runtime for
dead, and the two observers. `PublishBackup` and `Publish` are the claim of `publish_atomic` and the last look
at the destination (`publication.py:162`, `197`), `StoreBackup` and `Replace` the rename or the
deletion that follows (`169`, `199`) with the commit of the evidence. Between look and rename the row of the
job is locked (`Locked`): no cancellation and no recovery can be written, but a crash, the
loss of the gate and another program can come. `last` is history: who wrote the file and the row last, whether
no gate has been lost since, and whether no backup of other bytes was overwritten; so is `seen`, what the
job's last look found.

### PosterAnalysis

`kind` and `members` are what the request names, `job` the row, `runs` the `pipeline_runs` of
the job, `items` and `summary` the `job_work_items` and their count, `ender` the attempt that
wrote the verdict (history). `handler[a]` is the process of attempt `a`: its place, whether it has a
tracker, whether a flush is due or past its check (`flush`), whether the tracker
has something to write (`dirty`) and knows the verdicts (`told`), and `verdict`, what it found for
each member. A handler's steps:

    Admit -> StartTracker -> InitializeItems -> [Observe, FlushCheck, FlushWrite]*
      -> RunnerSucceeds -> ProjectCheck -> Project -> Reconcile -> Succeed
      | RunnerFails, TimesOut, ProjectRefused -> Fail -> CloseWork
      | Unwind -> Seal -> Cleanup -> CloseWork

with `Crash`, `TakeOver` (the reconciliation of another incarnation, of a dead worker or of one
that only seems so), `Cancel` and a database error between any two. `ProjectCheck` and
`Project` are two steps since `owns_current_attempt` is a plain `SELECT`; so are `FlushCheck` and
`FlushWrite`. The runner's conversation (`RunnerSucceeds`) is one step: only its result matters
here. Left out: tickets and deferral (`JobDelivery`), the overall progress, the
measurements inside a stage. `Posters` extends `PosterArtwork` and instantiates this module; `MCPosters`
puts both into one state space (`part`).

### TasteProfiles

`evidence` is the status of each exemplar, `active` generation and revision of the published
artifact, `desired` and `inflight` the coordinator, `builds` and `jobs` the rows of each
rebuild, `handlers` the attempts that execute somewhere (an attempt taken for dead may still
run), `plan` the one transaction that holds the coordinator's advisory lock between its read of the
publication and its decision. All other transactions on the coordinator are one action each,
since they hold its lock from beginning to end. The activation takes another lock and
compares generations. Left out: same-movie replacement of evidence (the exemplars of the
run are of different movies), negative evidence and duplicate content, the namespaces of TV and of the
seeding bundle's files, the columns that only describe a revision's state.

### JobEvidence

`process[p]` is the place of each process: `Author` opens a log, runs the handler, ends the
attempt and seals; the `Starter`s start beside it and recover what they find
(`recover_abandoned_attempt_logs`). `register` is the artifact's registration in the author;
`artifact` and `log` are the rows, `object` and `file` the files, `sweep[c]` the place of the nightly
purge and of the operator's command. Row and file are never changed in one action.

    log:       CreateFile -> InsertLog -> WriteLine* -> EndAttempt -> CloseCapture
                 -> Inspect -> Pack -> Copy -> Replace -> Digest -> Record
    artifact:  Reserve -> Place -> PublishArtifact | RegisterFails | Unwind
    sweep:     claim -> unlink -> prove -> record, and the job row last

`Pack` asks whether the file is a gzip already, `Copy` opens it a second time by its name; what
another process has put there in between is packed once more (`file.nested`), and such a file has no
lines that can be read.
Five history variables name what a property must know: `floor` (lines on file when the attempt
ended), `overlapped` (recovery claimed a log that was still written), `shared` (recovery claimed a log that
another process was sealing), `stray` (a copy was
placed after its row had expired), `unproved` (a file was removed but the proof of its
removal failed and it was taken for kept). Evidence may come of age at any time,
because a review reset brings the expiry of an artifact forward (`BringForward`); logs and
the job come of age only after the author and the recoveries are done, as their year
allows. Left out: a registration inside a caller's own transaction, redaction, truncation,
rotation, virtual artifacts, workspaces.

## What the runs check

Passing runs:

| run | module | distinct states | what it shows |
| --- | --- | --- | --- |
| `JobDeliverySafety` | `MCJobDelivery` | 967 thousand | the ledgers agree, mutations are attempted once, effects are accounted for and wanted, no claim of held work, verdicts belong to their attempts, replacement after the death of the tree, refinement of `JobLifecycle` |
| `JobDeliveryLiveness` | `MCJobDelivery` | 282 thousand | every job settles, unless its ticket was acknowledged too early |
| `JobEvents` | `MCJobEvents` | 397 thousand | seamless hand-over in order, nothing skipped, every row arrives |
| `SafetyGates` | `MCSafetyGates` | 212 thousand | exclusion, no forgotten lock, no circular wait, admission ends |
| `JobBatches` | `MCJobBatches` | 451 thousand | the parent's verdict is backed, counts are exact, cancel reaches all, the last end reaches the parent, a cancelled batch ends unless a child is abandoned |
| `JobSubmission` | `MCJobSubmission` | 1.36 million | nothing accepted twice, batches whole, answers still true, no deadlock among submissions |
| `Settings` | `MCSettings` | 214 thousand | caches go forward and converge, answers show their update, pairs are tested pairs |
| `Posters` | `MCPosters` | 1.46 million | mutations: nothing lost that was there at the last look, the row follows the file, settled jobs tell the truth; analyses: one attempt's runs, a retry that is offered is accepted, items tell the result |
| `TasteProfiles` | `MCTasteProfiles` | 1.28 million | one build in flight, one automatic build, evidence answered, ends recorded |
| `JobEvidence` | `MCJobEvidence` | 2.70 million | what is served has its file, what is removed is gone, a sealed log is complete |

Two further runs find a disagreement between code and docs,
[below](#where-code-and-docs-disagree). Each property of a passing run has a mutant in
`PROJECT.json`: a small plausible bug in one definition, under which TLC finds
that property violated. The mutated forms stand in the modules next to the
definitions they replace ("Variant", "Mutant").

Each action, and each disjunct of the next-state relations, fires in some passing
run. `CHECK_DEADLOCK FALSE` is stated where the system may stop: a settled job whose
tickets are gone, an ended batch, a state at a bound. `SafetyGates` and `JobEvidence`
never stop and are checked for deadlock. Each module has one type invariant; where it is
not an invariant of a run by itself it is conjoined with another
(`SeamlessHandOver`, `ParentVerdictBacked`, `BatchIsWhole`, `PairsAreTested`, `OutcomeTellsTruth`,
`OneBuildInFlight`, `VerdictIsProjected`). All are proved, as theorems
`TypeCorrect` or with the property or the inductive invariant that contains them.

### The properties

`JobDelivery` -
`AttemptLedger`: at most one unfinished attempt, and the row, its fence and the ledger agree.
`LedgersAgree`: the dispatch ledger, the tickets and the row, which different transactions
write, agree; and a verdict is the one of the current attempt and closes every other.
`MutationNeverReplayed`: at most one attempt of an unsafe definition, through crash,
redelivery, duplicate delivery and recovery.
`PublicationAccountedFor`: "succeeded" and "failed" hide no half-done publication.
`ReplayAfterTreeDeath`: on one host no replacement runs beside the child of the attempt it replaces;
nor beside descendants of that child, unless recovery ended the attempt, which asks for the leader only
([observed behaviours](#observed-behaviours)).
`EffectWhileWanted`: at the instant of the replacement the job is running, wanted and
this attempt's own.
`HeldWorkIsNotClaimed`: admission never passes over an attempt with fresh heartbeats,
even if it was examined when they were stale.
`LifecycleRefinement`: the job row behaves like `JobLifecycle`.
`SettledOrTicketLost`: liveness, see below.

`JobEvents` - `SeamlessHandOver` (replay and fan-out leave no gap; with `FramesInOrder`: no
duplicates, no reordering in the queue of a client), `NothingInOrderSkipped` (a
cursor never passes a row unheard, if the row committed in id order),
`EveryRowArrives` (liveness, also when a NOTIFY is lost). All three speak of what a browser is `Due`: the rows
after its first subscription, except those it lost between two subscriptions without a cursor
(`unseen`). Further escapes of the liveness are a stream that was refused or left, and a tailer that died.

`SafetyGates` - `Exclusion`, `NoLockForgotten`, `NoCircularWait`, `AdmissionEnds`.
`TimesOutOnlyWhenBusy` is proved only.

`JobBatches` - `ParentVerdictBacked`: a terminal parent is sealed, its children have ended, its
outcome is their aggregate, and where that outcome offers a retry there is a child to retry.
It includes `CreatedTotalExact`: the count the projection compares with is exact, or every later
end of a child would be refused. `CancelReachesEveryChild`, also those appended or started
meanwhile. `LastEndReachesParent`: of two last ends that race, one sees the other.
`CancelSettles` (liveness): a cancelled batch ends, unless one of its children is `Abandoned` or was retried
by itself.

`JobSubmission` - `UniqueWork`: one row per idempotency key, one active job per scope as
its overlap policy says, one active scheduled heal; with `AnswerStillActive`, work a request coalesces
with does not end before the answer commits. `BatchIsWhole`: a committed batch has the
children it counts, all under its own configuration. `NoCircularSubmission`: no group of submissions
waits for itself, even if two bulk requests name their subjects in opposite orders.

`Settings` - `CacheNeverGoesBack`, `UpdateIsServed` (the answer to an update shows that
update), `CachesConverge` (liveness, also without a listener), `PairsAreTested` (neither the
tables nor the API's client ever pair one request's address with another's credential).

`Posters`, of `PosterArtwork` - `NothingIsLost`: what a job replaces or deletes is among the backups at that
instant, whatever others did to the file between look, backup and the publication's last check. Two exceptions are
named in it: what another program writes between that check and the rename or deletion (`file` is no
longer what the job has `seen`), and a backup that a mutation without its gate overwrote in
the same gap (`last.kept`).
`ProjectedInOrder`: while gates last the row follows the file in the order of
publication, not of submission. `OutcomeTellsTruth`: what a settled job says of its publication is so.

`Posters`, of `PosterAnalysis` - `VerdictIsProjected`: the runs of a job are one attempt's projection,
whole, and a finished job's are those of the attempt that ended it, failed where its result says so.
`RetryIsServed`: a retry that is offered is accepted, for the members it is meant for; the
exceptions are named (`Stranded`, [observed behaviours](#observed-behaviours)).
`ItemsTellTheResult`: items are one attempt's, the summary counts them, and after success they show
the result, unless a superseded attempt replaced them or the last flush was lost.

`TasteProfiles` - `OneBuildInFlight`: the coordinator waits for a build exactly if it is in
flight. `OneAutomaticBuild`: a revision is built once by itself against a generation.
`EvidenceIsAnswered`: with nothing in flight, the desired revision is published, not yet due, or
shown as failed. `DoneIsRecorded`: a job that ended by itself has told the coordinator.

`JobEvidence` - `AvailableIsServed`: an artifact a download would serve has its file.
`RemovedIsGone`: an expired row has no file left and the job row goes only after its evidence.
`SealedKeepsTheLog`: a sealed log holds every line that was on file when the attempt ended,
whoever sealed it; its row counts the lines unless recovery took it from a live author (`overlapped`); and it can be
read, and has the checksum of the row, unless two processes were sealing it at once (`shared`).

## Bounds, and why they are enough

Every bound is a constant and occurs in the guard of the action it bounds.

- `JobDeliverySafety`: two interchangeable incarnations (symmetry is sound: the run has no
  liveness property, and both run on one host), three attempts, two generations, two
  tickets (nothing in this run recreates one, so each generation has its own), two
  missed heartbeats. Two incarnations give every pairwise race (owner against
  recoverer, duplicate deliveries); three attempts are more than the retry limit of
  two, so a takeover after a retry is possible; two generations let a stale ticket
  meet a newer dispatch. For most properties the proofs make up for the small instance; two
  of them are false beyond it, and the [theorems](#what-is-proved) say so in their assumptions:
  with three incarnations on *two* hosts `ReplayAfterTreeDeath` fails, and with three
  incarnations *and* the transport monitor `LedgersAgree` does
  ([observed behaviours](#observed-behaviours)).
  Both kinds of definition that differ in safety are covered; maintenance differs
  from a poster mutation only by publishing nothing.
- `JobDeliveryLiveness`: two incarnations on *two hosts* (so that recovery across hosts is
  exercised), all three kinds, two generations. `Faults` of this run leaves out `cancel`, `session_lost`,
  `lapse` and `unproven_death`: with any of these TLC finds a job that stays unsettled until somebody
  acts ([observed behaviours](#observed-behaviours)), so the run says nothing of a cancelled job or of the
  held ticket of a requeued one. The bound
  `MaxGiveUp` on gate waits is two, one more than `DeferLimit`, so the budget
  can be exhausted.
- `JobEvents`: two writers (the least that commit out of order), one browser, three
  events, queue of two, replay limit and batch of one, so that overflow, reset, full batch
  and gap all happen; any two disruptions. Browsers do not share state except
  the fan-out lock, whose holder another browser would only delay.
- `SafetyGates`: two deliveries, two files, one permit, three policies, one fault. A
  conflict is between two sessions; longer circles are excluded by proof.
- `JobBatches`: two children, both modes, two user commands, one automatic retry each. Two
  children are the least whose last ends race; a third would wait at the same rows. The
  three endings are one a retry selects, one it does not, and one that is written over a cancellation;
  cancellation, deferral and dead letters add theirs.
- `JobSubmission`: two sessions, one of which may be the scheduler; requests that repeat a key, repeat a
  body under another key, and contradict each other; two batches over the same two subjects
  in opposite orders; two minutes that are one interval of the library sync and two of the heal,
  one of them inside the daily window. Four rows, three calls and two configuration versions are enough
  for a conflict and its repetition; a user's retry is limited to one successor per job.
- `Settings`: two processes (the API and another), two concurrent requests, three revisions so that two
  overlapping reloads can be stale in either order, two generations, one fault. The
  credentials start empty: those of the environment are imported before routes are served. A
  route's reload never sees an invalid revision, which the update validated.
- `Posters`: in `PosterArtwork` two jobs, two images, and any two of outside changes, faults, cancellations and
  observations. A race is between two writers of the file, or one and an observer, or one and an
  outside program; the gate admits one job at a time, so a third would queue. Of the two exceptions of
  `NothingIsLost` the first is reached (without it TLC finds the loss); the second needs three such
  events and is there for the theorem. Symmetry is sound (no
  liveness). In `PosterAnalysis` two members (one can fail
  where the other does not), two attempts (a stale one and its successor) and one fault, which
  is what it takes to take over a live attempt, to break a flush, or to crash.
- `TasteProfiles`: two exemplars, profiles of at least one, two changes make a rebuild due (50 and 10 in the
  code), two attempts, three rebuilds, one request by hand, one fault. One exemplar is then a
  change too small to rebuild for, two are enough, so both branches of the decision occur.
  What an ended job remembers of attempts and stop requests is forgotten in the state, nothing reads it.
- `JobEvidence`: one attempt, one artifact, one log of at most one line, two starters, two sweepers, one fault.
  A crash is for safety the same as never moving again, which every process may do
  without a fault, so the one fault is left for what a crash alone cannot do: an error
  after which the code goes on. Sweeps begin once something is of age, since they select
  nothing before.
- The two violation runs use the smallest instance that shows the behaviour.

## Fairness

`JobDelivery!Fairness`: an incarnation that is up continues (weak fairness of each of its
steps, an asyncio task whose awaits return), a delivery that PgQueuer could make is made,
a dead incarnation's heartbeat expires, the monitor's timer runs. `Crash` may
hit only while another incarnation lives or can be started: this is the
supervisor, which starts a replacement. Gate acquisition is strongly
fair: other jobs take and free the gates again and again, and the delivery polls. Nothing
forces a handler to publish or to launch a child, nothing forces a fault or
a user.

`JobEvents!Fairness`: the tailer task and the routes continue; steps that take the fan-out
lock are strongly fair since `asyncio.Lock` wakes its waiters in order; the repair timer
fires. Nothing forces commits, browsers opening or disruptions.

`SafetyGates!Fairness`: a polling delivery continues, a delivery that is done
releases, deadlines pass. Handlers need not end and the database need not reap a lost
session: `AdmissionEnds` holds because of the deadline, not because of luck.

`JobBatches!Fairness`: a session with an open transaction goes on, the handler of a running child
returns, PostgreSQL aborts one of a circle (`deadlock_timeout`). Nothing forces a child
to start or a user to act. That each delivery returns does not say that it settles: one of a child that
was told to stop may end by `EndUnsettled`, and no restart of the worker is assumed that would
recover it.

`Configuration!Fairness`: the event loop of each process runs, so its repair timer fires and its
reloads end. No notification need arrive and no listener need live.

`PosterArtwork`, `PosterAnalysis`, `TasteProfiles`, `JobSubmission`, `Credentials` and `JobEvidence` state
safety only and assume no fairness.

## What is proved

TLAPS checks these theorems for all values of the constants that satisfy the named
assumptions of the modules: any number of incarnations, hosts, attempts, tickets,
deliveries, files, processes, submitters, requests, batches of any size, jobs, images, exemplars,
sweepers and faults.

| module | theorem | statement |
| --- | --- | --- |
| `JobDeliveryProofs` | `TypeCorrect` | `Spec => []TypeOK` |
| | `AttemptLedgerHolds`, `MutationNeverReplayedHolds`, `PublicationAccountedForHolds` | `Spec => []` each of the properties of these names |
| | `VerdictBackedHolds` | `VerdictBacked`, the half of `LedgersAgree` about verdicts, without any assumption |
| | `LedgersAgreeHolds` | `LedgersAgree`, if `"monitor" \notin Faults` |
| | `ReplayAfterTreeDeathHolds` | `ReplayAfterTreeDeath`, if all incarnations are on one host |
| | `HeldWorkIsNotClaimedHolds`, `EffectWhileWantedHolds` | the two action properties |
| | `LifecycleRefinementHolds` | `JobDelivery` implements `JobLifecycle` |
| `JobEventsProofs` | `SeamlessHandOverHolds`, `NothingInOrderSkippedHolds` | `SeamlessHandOver`, `NothingInOrderSkipped` |
| `QueueProofs` | `UniqueWorkHolds`, `BatchIsWholeHolds`, `NoCircularSubmissionHolds` | `Spec => []` each of `UniqueWork`, `BatchIsWhole`, `NoCircularSubmission` |
| | `TypeCorrect` | `Gates!Spec => []Gates!TypeOK` |
| | `ExclusionHolds`, `LocksAreReturned`, `WaitsAreAcyclic` | `Gates!Spec => []` each of `Exclusion`, `NoLockForgotten`, `NoCircularWait` |
| | `TimeoutsAreHonest` | `Gates!Spec => Gates!TimesOutOnlyWhenBusy` |
| `JobBatchesProofs` | `CancelReachesEveryChildHolds`, `LastEndReachesParentHolds` | `CancelReachesEveryChild`, `LastEndReachesParent` |
| | `ParentVerdictBackedHolds` | `ParentVerdictBacked`, if `"superseded" \notin Endings` |
| `SettingsProofs` | `TypeCorrect`, `NeverGoesBack`, `UpdateServed` | `TypeOK`, `CacheNeverGoesBack`, `UpdateIsServed` |
| | `PairsAreTestedHolds` | `PairsAreTested` |
| `PostersProofs` | `TypeCorrect`, `NothingReplacedIsLost` | `TypeOK`, `NothingIsLost` |
| | `ProjectedInOrderHolds`, `OutcomeTellsTruthHolds` | `ProjectedInOrder`, `OutcomeTellsTruth` |
| | `VerdictIsProjectedHolds`, `RetryIsServedHolds`, `ItemsTellTheResultHolds` | the three properties of analyses |
| `TasteProfilesProofs` | `OneBuildInFlightHolds`, `OneAutomaticBuildHolds` | `OneBuildInFlight`, `OneAutomaticBuild` |
| | `EvidenceIsAnsweredHolds`, `DoneIsRecordedHolds` | `EvidenceIsAnswered`, `DoneIsRecorded` |
| `JobEvidenceProofs` | `TypeCorrect`, `ServedHasItsFile`, `RemovedForGood` | `TypeOK`, `AvailableIsServed`, `RemovedIsGone` |
| | `SealedLogIsKept` | `SealedKeepsTheLog` |

These are all the safety properties the passing runs check.

Assumptions that a theorem has beyond those the modules name. These three leave something out, and
are needed: the property is false without them, as the run of a larger instance shows
([observed behaviours](#observed-behaviours)).

- `"monitor" \notin Faults`: the dispatch ledger agrees as long as the transport monitor recreates no
  ticket. `JobDeliverySafety` runs without it for the same reason; `VerdictBacked` does
  not need it.
- one host: proof of death is what a host knows of its own processes.
- `"superseded" \notin Endings`: no child of a batch ends superseded. Only the ML handlers
  answer so, and none of their jobs is in a batch.

`JobSubmissionAssumption` says of what is submitted only what the code makes of it: the key
a request brings is none of those the program makes for itself, single jobs and children
have the job types of the manifest, a batch names each subject once and its children have the keys the
batch makes for them.

The others only say that parameters are what they are called:
`AnalysisBounds` (a finite set of members, at least one attempt) and `PairBounds` (users submit
addresses and credentials).

**JobDelivery.** `AttemptLedger` is not inductive: that a fresh attempt gets a number and
a fence above all others needs that the current attempt is the last one ever
started and that no fence is above the job's. `LedgerInv` adds both. Most steps
start and finish no attempt (`LedgerFrame`), so `LedgerFramed` settles them at
once; the rest close the current attempt (`LedgerClosed`), start one (`LedgerStarts`)
or settle the job (`TerminalLedger`). The action properties follow from it: only
admission changes the attempt counter (`OnlyAdmissionCounts`) and only publication
changes an effect (`OnlyPublicationHasEffect`). `MutationNeverReplayed`
needs two more invariants: `RowsInv`, that a delivery executing or failing has an attempt
and that reconciliation of a non-replayable orphan is always "unsafe"; and `OnceInv`, that
such a job never waits in the queue again after its attempt, because every requeueing
step is replayable (`OnlyReplayableRequeues`).

The refinement and the ledgers share one classification: whoever moves, a step does one of eight
things to the rows (`LedgerStep`): nothing, mark a stale dispatch, start an attempt, end or
release the owner's, dismiss the job, accept a cancellation, revise the job. That every action is one of them
needs what a delivery knows of the rows it goes by (`RevisionInv`: it is never ahead of the job, it is told to
stop only where the job is unwanted or lost). Each of the eight is a step of `JobLifecycle` or a
stutter, and keeps `VerdictInv` and `DispatchInv`; `OpenInv` adds the tickets. `PublicationAccountedFor`
rests on `WorkInv` (a delivery's attempt is its own row, an effect has its intent, a handler that returned
with an effect has its publication), `ReplayAfterTreeDeath` on `TreeInv` (only the current
attempt's tree may live while the job is open, and whoever goes on after an orphan has seen its
leader gone; what that leaves of an orphaned tree belongs to an attempt recovery has interrupted).

**JobEvents.** `Served` states for one browser and the client that serves it what has been offered, queued and
heard; `Follows` that the tailer's batch has no gap above its cursor, `Drawn` that a row nobody
overtook is above all rows committed before it. The hand-over then is arithmetic on three
cursors: what the replay read is below `high`, and the fan-out lock keeps the tailer from
passing `high` before the client follows. A browser that has no cursor yet has passed no row, so it may be told anew where it
starts. The steps are proved over rows (`ServedAs`), so that an
action only has to say which rows it changes. Least and greatest ids, and that a finite set of ids is sorted by
a sequence, are proved from the well-ordering of the naturals (`LeastNatural`, `SortExists`).

**JobSubmission.** A transaction looks for a row, finds none, and inserts one later; the locks it has
meanwhile are why it still is the only one, and none of the three properties is inductive without them.
`IInv` says of one transaction (`Local`) that its locks come in the order heal, key, scopes
(`Locked`); that each key it asks for, or has inserted, is one it has locked or is made of the key of
its batch, which it has locked (`Owns`); and that a parent's children are inserted or still to come, with
different subjects (`Family`). `Outside` says what it knows of the rows others commit: the key it is about to insert
is in none, the work it is about to name is not over, no scheduled heal is open while it makes one. `Apart`: no two
transactions have locked, or inserted, the same. `Table` and `Distinct` are what the rows
promise, committed or not.

A child's key determines the parent's (`KeyShapes`), so two transactions with the same key would have
locked the same (`HeldApart`); what one of them inserts is new among the rows it sees and therefore among all
(`KeyIsNew`). The scope of active work is locked by who inserts it, and a child's scope carries its parent.
Each action has a lemma (`BeginSingleKeeps` to `ReconfigureKeeps`); most only say what one
transaction becomes (`OneStep`, `QuietStep`). For `NoCircularSubmission`, whoever is waited for and waits has
come further in the order heal, key, scope, rows (`WaitsClimb`): two batches never ask for one scope and a
single request asks for only one (`ScopeIsLast`), and rows are waited for only in transactions
that just have to commit (`RowWait`). So no chain has six members, and no group waits for itself.

**SafetyGates.** `Exclusion` speaks of executions and the database of locks; `GatesInv` joins
what the database admits (`Compatible`), what a live handle lists
(`HandleOf`), what a policy requires (`RequiredBy`) and what canonical order adds
(`Ordered`: all that is held precedes all that is wanted). `WaitsGoUp` shows
that along a chain of waiting deliveries the wanted kinds increase, 10, 20, 40, so
that no chain has four members and no group waits for itself (`NoLongChain`, `WaitsEnd`).

**JobBatches.** A transaction decides on copies. `Sessions` says what a copy is worth: a child's row
is current because its lock is held; the batch row is current for the producer, and for others never
claims more than the committed one (`Seen`); a child that a cancel has not paged has ended, is a
successor, or is absent (`Paging`). `Story` is what the committed rows mean; an abandoned child is a stopping one to it. `ProjectedStory` shows once that a
commit that projects keeps it, whoever commits.

**Configuration.** What a reload has read may be older than what is current, and yet a cache
never goes back: the lock of a provider lets one reload at a time hold a row (`OneReload`), so that
what is held lies between what is served and what is committed (`HeldInRange`), and the revision a
route answers for is at most what it reads (`UpdateInRange`).

**Credentials.** A request tests a pair first and stores half of it later. `Undecided`: as long as version
and generation are those the request saw, the tables complete its half to the pair it tested;
`Holding`: the locks it has keep version and generation from changing; no two requests hold one
lock. What a route read for the client is tested as well, even if it is old by then.

**PosterArtwork.** The publication compares the identity of the destination with the one the job
saw, the backup compares bytes with a checksum, and the two meet at different times. The invariant
`KeptInv` says what a job that has got so far knows: no two writes have the same identity, so while the
destination still has the identity it saw, the staged copy has the destination's bytes, and past the
backup so has the store. At `Replace` it speaks of `seen`, what the last look found: only a file that is still that one has its
bytes in the store.

`OrderInv` gives each job's record its course (`Handled`), what its evidence is worth (`Recorded`: an
intent without publication hides a write, none without intent does) and what settlement may have said of it
(`Told`: who settles a job leaves with it, or read the evidence when the handler was gone, or
condemned a live one; between look and rename the row is locked, so the job is still running). These are statements about one record and proved over records. `Ordered` adds what the
gate is for: while none is lost only its holder is under way, so that the job between publication and
projection is the last that wrote the file. `QuietKeeps` settles every step that neither writes nor projects.

**PosterAnalysis.** A job may have several handlers at once, all but one obsolete. `Handles` says of each what
it has left (`Leaves`): runs in the table belong to one attempt (`Projecting`), and its handler is past the
projection, unsure of it, ended the job or dead. From this follows which attempt a verdict belongs to
(`Ended`) and where a retry would meet runs that nobody removes.

**TasteProfiles.** The coordinator's column and the build rows are changed in many transactions
(activation, failure, cancellation, retry, repair by the next schedule), all of which go
through the same two operators, `Reconcile` and `Close`. `Sound` is what these keep: one build in flight,
linked builds of the same revision, no build of a job not yet born; `Said` is that a handler that
is about to record has a result. For the evidence `Story` adds what became of a build: one that ended well has seen the
publication move on (`Beaten`), and what a transaction read before it was replaced has a
successor whose build is in flight or shown as failed (`Overtaken`). `Forward` collects what no transaction on
the rows undoes, so that each operator is taken once.

**JobEvidence.** `IInv` relates each place in a sweep or in the clean-up to what the row and the file
can still be: who has proved a removal may record it (`Removing`, `Cleaning`), what has come of age
has no registration left that could bring it back (`OfAge`), a registration under way has a pending
row (`Registering`), and the promises themselves, with what makes them last (`Gone`). A file that an overlapping sweeper removed makes the other's proof true as well, and
this is why the overlap does no harm. `Kept` does the same for the log: where its lines are at each
place of the sealing, for every process that may be sealing it; `Alone` adds that unless the sealing was `shared` only one
process is at the file, so that what it tested is what it opens.

**Model-checked only.** Liveness, because the prover reasons about neither fairness nor ENABLED:
`SettledOrTicketLost`, `EveryRowArrives`, `AdmissionEnds`, `CancelSettles`, `CachesConverge`. Out of
reach in general: RECURSIVE operators and induction over data; no module uses
either.

## Where code and docs disagree

Each of these runs checks one sentence of the repository and TLC shows a behaviour
of the code that contradicts it. `PROJECT.json` quotes the sentence and its line.

| run | behaviour |
| --- | --- |
| `EarlyAcknowledgement` | the redelivered ticket of a running job times out at its gates and is acknowledged, so nothing carries the job any more |
| `LateCommit` | a row committed behind the tailer's cursor is read by nobody |

## Observed behaviours

Met while modelling, and contained in the models: either a property names them as an
escape or a run leaves out the event that begins them. None has a run of its own.

*Delivery and streams.*
Publishing a gate wait erases the deferral count, so a budget can start anew.
A handler that fails after an accepted cancellation, or whose retry was under way, leaves the job "stopping":
`retry` and `fail` want a job that is still wanted (`fenced_writer.py:136`, `257`), the held ticket is
gone with the cancellation, and only a worker that restarts recovers the attempt; a batch with such a child does
not end (`Abandoned`). A job cancelled before redelivery hides the half-done publication of its crashed
attempt. A broken gate session turns the reply into a held ticket under a queued job that
nobody flags; so does a start-up that interrupts the attempt of a live incarnation whose heartbeat lapsed, when that
delivery then fails and is refused (`delivery.py:1181`). An attempt whose tree could not be proved dead leaves its job
running under a held ticket until an incarnation starts.
Recovery asks for the leader of a process tree only: `terminate_verified_orphan`
(`orphan_reconciliation.py:284`, "positively confirm group death") returns what
`verify_process_identity` says as soon as the leader's pid is gone, and reconciliation as well as takeover go
on while descendants of it may still be at work. Where the monitor has issued a new ticket for a job whose admission was given up
(`recover_admission_deferral`), a late delivery of the old ticket marks the live dispatch "stale"
(`delivery.py:676`). A recovery on another host takes an attempt for dead without proof of its
tree, and an incarnation of the first host may then start the next attempt beside that tree. A listener that closes between two batches ends the tailer task. A stream
dropped before its first frame, or an API restarted then, makes the browser reconnect without a cursor; the
subscription starts at the head of that moment (`event_stream.py:208`) and the rows in between are lost to it. A reopened
stream repeats its old cursor beside a newer `Last-Event-ID`, is refused, and stays closed.

*Batches and submission.*
A child that spends its deferral budget ends without telling its parent (`exhausted`). The retry of
an ordinary child joins the parent uncounted, after which `project_batch` refuses. Children that
succeeded and children that were superseded add up to "partially succeeded" (`batches.py:631`), which
offers a retry that selects none of them (`_retryable_batch_child`, `batches.py:982`); today no
child of a batch ends superseded. The retention
schedule names the maintenance scope "evidence-retention" (`schedules.py:461`), which
`_resolve_subject` does not know (`submission.py:438`), so its occurrences are refused.

*Configuration.*
A worker fills `managed_secret_provider` once, when it starts (`pgqueuer_worker.py:102`);
`design/consolidated-settings.md:200` has every job boundary refresh it. Contained jobs get a
replaced credential only after a restart.

*Posters.*
Heal cannot repair a first deployment, which had nothing to back up
(`design/library.md:99`, `handlers_poster_mutations.py:675`), and sync and rescan clear `poster_path`
so that heal never selects the row. After a crash between publication and projection a second
deployment ends "no change" and does not repair the row. Under an outside race a backup key may
hold other bytes than its name says. Bytes that another program writes between the last
identity check of a publication and its rename or deletion (`publication.py:162` to `169`, `197` to `199`) are
replaced without a backup. A stale observation of rescan overwrites a newer
projection. Without the gate two absences look alike, so projections may swap. The recovery of a
live handler can say "nothing published" while it publishes. A cancellation after the publication
is logged as if before it. A reset that crashed after its deletion makes later resets raise.

*Analyses.*
A crash or an expired execution time between projection and verdict leaves the runs of an attempt
that did not end the job: `uq_pipeline_runs_job_subject` refuses its successor, the job fails, and the
retry it offers is refused. The recovery of a cancelled attempt does no clean-up, with the same result;
nor does a single analysis, which keeps its run. An attempt that is obsolete may still project after its
`SELECT` (`fenced_writer.py:43`, `orphan_reconciliation.py:202` exclude it). A stale tracker that
starts late replaces the items of its successor, whose own flushes then write nothing: they stay
open after its success. A late flush can open the items of a failed job again.

*Taste profiles.*
A superseded or duplicate attempt, or a crash after the activation, records a build as failed or
superseded though its artifact is active. Automatic retries of a failed coordinated build never
run. A crashed job leaves its build in flight until the next schedule. The retry of a seeding or
TV rebuild always fails, since the retry adds a `profile_build_id`. A schedule decides on the
publication it read before. Evidence revoked after staging is published until the successor.
`allow_terminal_successor` has no effect. Transactions take their locks in different orders, and
PostgreSQL breaks the circle.

*Logs and artifacts.*
`_attempt_writer_is_dead` takes an attempt without a child process for gone, so that recovery may claim the
log of a live author: its last lines are lost, and two recoveries may leave a row with the
checksum of another file. When two processes seal one log, the second may find it unpacked
(`log_capture.py:254`), see the first replace it (`271`) and then open and pack it again (`260`): a gzip of a
gzip is recorded as "sealed", and its lines cannot be read. A sweep that dies leaves a row "expiring", which no sweep claims again; with
it, or with a pending or failed artifact, every purge that selects the job raises. The copying thread of an
unwound handler can place a file after its row has expired. An error after the removal, in
`expire_attempt_artifacts`, returns the row to "available" without its file. The expiry of a
`product_backup` artifact deletes the backup of the poster after its year. A worker that starts
may delete the workspace of a stalled attempt that is alive.

## What is not modelled

- Database errors other than lost sessions and those the modules name as faults: a transaction
  commits, finds its guard false, or the process dies before it. An error inside the terminal write of a finished
  handler leaves the job like a crash does, with the worker alive.
- The supervisor's budget of fast failures: the model assumes that an incarnation is
  eventually replaced. The limits on runtime instances.
- `enqueue_many` (one `enqueue` per job) and `set_paused` (no caller).
- Poster mutations: the choice of candidates, heal's grace period, the write permit (in
  `SafetyGates`), publications of directories.
- Taste profiles: the training itself, the three other families of artifacts that publish with the
  same swap, the acknowledgements of consumers that reload.
- Evidence: redaction, truncation, virtual artifacts, the report of `reconcile_artifacts`,
  workspaces.
- Analyses: the protocol of the runner (one process, sequential, over its own pipes), the staging of
  profiles and inputs, measurements within a stage; the overall progress of a job, written under
  its fence, shown and never decided on.
- Image analysis (`pipeline/`, the largest part of the code) and the taste model: floating-point
  scores and thresholds over pixels and embeddings, which TLC does not compute.
- Library sync, HTTP clients, presentation, readiness, migrations, routing, pages: projections and
  input/output without protocol state; what sync writes into a poster row is in `PosterArtwork`.

## Plan

Written: all modules of the table above, in the order `JobLifecycle`, `JobDelivery`, `JobEvents`,
`SafetyGates`, `JobBatches`, `JobSubmission`, `Configuration`, `Credentials`, `PosterArtwork`,
`TasteProfiles`, `JobEvidence`, `PosterAnalysis`, the compositions `Settings`, `Posters` and `Queue`, and the proof
modules. What is left, most important first:

1. `PosterArtwork` as a refinement of the single effect of `JobDelivery`.
2. Lemmas for liveness that are safety: that a delivery which polls is never left without a deadline,
   that a row above a tailer's cursor is always behind a pending wake or the repair timer.
3. The respawn budget of the supervisor; the progress sequences; the other families of
   ML artifacts.
