---------------------------- MODULE PosterArtwork ----------------------------
(***************************************************************************)
(* The poster of one movie, series or season: the file beside the media,   *)
(* the row of the library that describes it, the backups of what was       *)
(* replaced, and who changes them.  Deploy, restore, reset and backup jobs *)
(* take the gate of the poster file, back up what they find, publish and   *)
(* then project the change into the row; the rescan job and the library    *)
(* sync write the row from what they saw, under no gate; operators and     *)
(* other programs change the file when they like.  Queue, tickets and      *)
(* retries are JobDelivery's: a poster mutation has one attempt.           *)
(***************************************************************************)
EXTENDS Naturals

CONSTANTS
  Image,       \* the bytes of a poster; a checksum identifies them
  none,        \* no bytes, no job
  Job,         \* poster_* jobs of the subject that are ever submitted
  MaxUpset     \* bound: outside changes, faults, cancellations and observations
               \* of rescan and sync, all together

ASSUME NoneIsNothing  == none \notin Image /\ none \notin Job
ASSUME JobsAreNotNumbers == Job \cap Nat = {}
ASSUME BoundIsNumber == MaxUpset \in Nat

VARIABLES
  file,     \* the bytes at the destination and who put them there
  row,      \* poster_path is set?, poster_sha256, poster_local_backup_path
  backups,  \* the bytes stored under each checksum's backup key
  gate,     \* the job that holds the gate of the poster file
  job,      \* the jobs, the worker that executes each, its attempt's evidence
  rescan,   \* the rescan's observation, between its look and its write
  sync,     \* the library sync's, likewise
  spent,    \* how much of the bound is used
  last      \* history: who wrote the file last, the row last; was no gate lost,
            \* no stored backup overwritten by other bytes?

vars == <<file, row, backups, gate, job, rescan, sync, spent, last>>

-----------------------------------------------------------------------------
Op      == {"deploy", "restore", "reset", "backup"}
CopyOp  == {"deploy", "restore"}
Writer  == Job \cup 0..MaxUpset
Bytes   == Image \cup {none}
File    == [image : Bytes, by : Writer]

\* A FileSignature has the inode and the time of the change beside the checksum,
\* so that two writes never look the same; two absences always do.
Absent  == [image |-> none, by |-> 0]

At == {"idle", "load", "observe", "stage", "intendBackup", "publishBackup", "storeBackup",
       "intend", "publish", "replace", "own", "project", "finish", "raised", "cancelled",
       "gone"}

Phase   == {"absent", "queued", "running", "stopping", "terminal"}
Target  == {"backup", "destination"}
Result  == {"none", "succeeded", "no_change"}
Outcome == Result \cup {"failed", "cancelled", "unsafe"}
Report  == {"none", "nothing", "uncertain", "published"}

\* The canonical row; the handler's place and what it remembers; the evidence of the
\* attempt and, as history, what it really wrote and what the check of the destination
\* saw; what settlement and recovery say.
JobRow ==
  [op : Op, image : Bytes, phase : Phase, desired : {"run", "cancel"},
   at : At, path : BOOLEAN, before : File, staged : Bytes, seen : File, result : Result,
   intent : BOOLEAN, publication : Target \cup {"none"}, touched : SUBSET Target,
   projected : BOOLEAN, outcome : Outcome, report : Report, read : Report,
   condemned : BOOLEAN]

TypeOK ==
  /\ file \in File
  /\ row \in [path : BOOLEAN, sha : Bytes, backup : Bytes]
  /\ backups \in [Image -> Bytes]
  /\ gate \in Job \cup {none}
  /\ job \in [Job -> JobRow]
  /\ rescan \in [looked : BOOLEAN, image : Bytes]
  /\ sync \in [looked : BOOLEAN, found : BOOLEAN, path : BOOLEAN]
  /\ spent \in 0..MaxUpset
  /\ last \in [file : Job \cup {none}, row : Job \cup {none}, gated : BOOLEAN,
               kept : BOOLEAN]

NoJob ==
  [op |-> "backup", image |-> none, phase |-> "absent", desired |-> "run", at |-> "idle",
   path |-> FALSE, before |-> Absent, staged |-> none, seen |-> Absent, intent |-> FALSE,
   publication |-> "none", touched |-> {}, projected |-> FALSE, result |-> "none",
   outcome |-> "none", report |-> "none", read |-> "none", condemned |-> FALSE]

NoSync == [looked |-> FALSE, found |-> FALSE, path |-> FALSE]

NoRow == [path |-> FALSE, sha |-> none, backup |-> none]

\* A subject without a poster, one with a poster of the operator's, or one whose
\* poster was deployed over an earlier one.
Init ==
  /\ \E i, k \in Image :
       \/ file = Absent /\ row = NoRow /\ backups = [x \in Image |-> none]
       \/ /\ file = [image |-> i, by |-> 0]
          /\ row = NoRow
          /\ backups = [x \in Image |-> none]
       \/ /\ i # k
          /\ file = [image |-> i, by |-> 0]
          /\ row = [path |-> TRUE, sha |-> i, backup |-> k]
          /\ backups = [x \in Image |-> IF x = k THEN k ELSE none]
  /\ gate = none
  /\ job = [j \in Job |-> NoJob]
  /\ rescan = [looked |-> FALSE, image |-> none]
  /\ sync = NoSync
  /\ spent = 0
  /\ last = [file |-> none, row |-> none, gated |-> TRUE, kept |-> TRUE]

-----------------------------------------------------------------------------
(* What the fenced writer lets an attempt do. *)

\* owns_current_attempt: a plain read, which does not look at the desired state.
Owns(j) == job[j].phase \in {"running", "stopping"}

\* _claim_job of record_publish_intent and publish_atomic.
MayPublish(j) == job[j].phase = "running" /\ job[j].desired = "run"

\* _publication_state, as the reports of fail and unsafe put it.
Evidence(j) ==
  IF job[j].publication # "none" THEN "published"
  ELSE IF job[j].intent THEN "uncertain" ELSE "nothing"

\* The file identity check at the publication boundary.
Unchanged(j) == file = job[j].before

Stored(i) == \E k \in Image : backups[k] = i

\* publish_atomic holds the lock of the job's row from its claim to its commit: whoever
\* else writes the row waits, and the claim stays true.
Locked(j) == job[j].at \in {"storeBackup", "replace"}

\* The worker of j goes on at step s.
Goto(j, s) == job' = [job EXCEPT ![j].at = s]

\* The job's row and its attempt's, sealed with an outcome and a report.
Sealed(j, outcome, report) ==
  [job[j] EXCEPT !.phase = "terminal", !.outcome = outcome, !.report = report]

\* The worker of j is done, with or without an effect on its row: its gate is free.
Leave(j, sealed) ==
  /\ job' = [job EXCEPT ![j] = [sealed EXCEPT !.at = "gone"]]
  /\ gate' = IF gate = j THEN none ELSE gate

\* Something that need not happen does; the bound lets it.
Upset == spent < MaxUpset /\ spent' = spent + 1

-----------------------------------------------------------------------------
(* Submission, admission and control. *)

Active(j) == job[j].phase \in {"queued", "running", "stopping"}

\* Only the heal scan asks for a restore, of a poster the row has and the disk has
\* not, and a user who retries a heal whose restore failed.
Discovered(op) ==
  op = "restore" => \/ row.path /\ file.image = none
                    \/ \E k \in Job : job[k].op = "restore" /\ job[k].outcome \in {"failed", "cancelled"}

\* By a user or by a parent that fans out.  An active job of the type and subject is
\* joined if the request is the same, and refuses another.
Submit(j, op, i) ==
  /\ job[j].phase = "absent"
  /\ \A k \in Job : Active(k) => job[k].op # op
  /\ (i # none) <=> (op = "deploy")
  /\ Discovered(op)
  /\ job' = [job EXCEPT ![j].op = op, ![j].image = i, ![j].phase = "queued"]
  /\ UNCHANGED <<file, row, backups, gate, rescan, sync, spent, last>>

GateFree(j) == gate = none

\* The gate of the poster file first, then admission.
Start(j) ==
  /\ job[j].phase = "queued" /\ job[j].at = "idle"
  /\ GateFree(j)
  /\ gate' = j
  /\ job' = [job EXCEPT ![j].phase = "running", ![j].at = "load"]
  /\ UNCHANGED <<file, row, backups, rescan, sync, spent, last>>

Cancel(j) ==
  /\ ~Locked(j) /\ Upset
  /\ \/ /\ job[j].phase = "queued"
        /\ job' = [job EXCEPT ![j] = [Sealed(j, "cancelled", "none") EXCEPT
                                        !.desired = "cancel", !.at = "gone"]]
     \/ /\ job[j].phase = "running"
        /\ job' = [job EXCEPT ![j].desired = "cancel", ![j].phase = "stopping"]
  /\ UNCHANGED <<file, row, backups, gate, rescan, sync, last>>

-----------------------------------------------------------------------------
(* The handlers: _execute_copy, execute_poster_reset, execute_poster_backup_subject. *)

\* The candidate a restore finds: the backup the row names; nothing in the
\* program writes the cache it would try next.
Candidate(j) ==
  IF job[j].op = "deploy" THEN job[j].image
  ELSE IF row.backup = none THEN none ELSE backups[row.backup]

\* A restore's candidate must have the checksum the row has, when it has one.
Acceptable(j) ==
  /\ Candidate(j) # none
  /\ job[j].op = "restore" /\ row.sha # none => Candidate(j) = row.sha

Load(j) ==
  /\ job[j].at = "load"
  /\ IF job[j].op \in CopyOp /\ ~Acceptable(j)
     THEN Goto(j, "raised")
     ELSE job' = [job EXCEPT ![j].at = "observe", ![j].path = row.path,
                             ![j].image = IF job[j].op \in CopyOp THEN Candidate(j) ELSE none]
  /\ UNCHANGED <<file, row, backups, gate, rescan, sync, spent, last>>

\* Nothing to do: the bytes are there already, or there are none.
NothingToDo(j) ==
  CASE job[j].op \in CopyOp  -> file.image = job[j].image
    [] job[j].op = "reset"   -> file.image = none /\ ~job[j].path
    [] job[j].op = "backup"  -> file.image = none

\* The destination as it is now, and _persist_before.
Observe(j) ==
  /\ job[j].at = "observe"
  /\ IF ~Owns(j) \/ (job[j].op = "reset" /\ file.image = none /\ job[j].path)
     THEN Goto(j, "raised")
     ELSE job' = [job EXCEPT
            ![j].before = file,
            ![j].result = IF NothingToDo(j) THEN "no_change" ELSE "none",
            ![j].at = IF NothingToDo(j) THEN "own"
                      ELSE IF file.image = none THEN "intend" ELSE "stage"]
  /\ UNCHANGED <<file, row, backups, gate, rescan, sync, spent, last>>

\* Where a job goes once what it replaces is backed up.
Kept(j, changed) ==
  IF job[j].op = "backup"
  THEN [job[j] EXCEPT !.at = "own", !.result = IF changed THEN "succeeded" ELSE "no_change"]
  ELSE [job[j] EXCEPT !.at = "intend"]

\* _create_backup: bytes under the checksum's key are reused or conflict; else
\* the destination is copied as it is by now.
Stage(j) ==
  /\ job[j].at = "stage"
  /\ LET stored == backups[job[j].before.image]
     IN  IF stored = job[j].before.image
         THEN job' = [job EXCEPT ![j] = Kept(j, FALSE)]
         ELSE IF stored # none \/ file.image = none
         THEN Goto(j, "raised")
         ELSE job' = [job EXCEPT ![j].at = "intendBackup", ![j].staged = file.image]
  /\ UNCHANGED <<file, row, backups, gate, rescan, sync, spent, last>>

\* Variant: the evidence of the backup's publication stays.
WithIntentBeside(j, s) ==
  [job[j] EXCEPT !.at = s, !.intent = TRUE]

\* record_publish_intent forgets the evidence of an earlier publication.
WithIntent(j, s) ==
  [job[j] EXCEPT !.at = s, !.intent = TRUE, !.publication = "none"]

IntendBackup(j) ==
  /\ job[j].at = "intendBackup"
  /\ IF MayPublish(j) /\ backups[job[j].before.image] = none
     THEN job' = [job EXCEPT ![j] = WithIntent(j, "publishBackup")]
     ELSE Goto(j, "raised")
  /\ UNCHANGED <<file, row, backups, gate, rescan, sync, spent, last>>

\* publish_atomic commits the evidence of the effect with it, or fails after it.
Evident(new, j, target, torn) ==
  IF torn THEN [job[j] EXCEPT !.at = "raised", !.touched = @ \cup {target}]
          ELSE [new EXCEPT !.publication = target, !.touched = @ \cup {target}]

Tear(torn) == IF torn THEN Upset ELSE UNCHANGED spent

\* The claim, and the absence of a backup under the key.
PublishBackup(j) ==
  /\ job[j].at = "publishBackup"
  /\ Goto(j, IF MayPublish(j) /\ backups[job[j].before.image] = none
             THEN "storeBackup" ELSE "raised")
  /\ UNCHANGED <<file, row, backups, gate, rescan, sync, spent, last>>

\* The rename, which replaces whatever has come under the key since.
StoreBackup(j) ==
  /\ job[j].at = "storeBackup"
  /\ LET key == job[j].before.image
     IN  /\ backups' = [backups EXCEPT ![key] = job[j].staged]
         /\ last' = IF backups[key] \in {none, job[j].staged} THEN last
                    ELSE [last EXCEPT !.kept = FALSE]
  /\ \E torn \in BOOLEAN :
       /\ Tear(torn)
       /\ job' = [job EXCEPT ![j] = Evident(Kept(j, TRUE), j, "backup", torn)]
  /\ UNCHANGED <<file, row, gate, rescan, sync>>

\* The preconditions, the coordinator's look at the destination, the intent.
Intend(j) ==
  /\ job[j].at = "intend"
  /\ IF MayPublish(j) /\ Unchanged(j)
     THEN job' = [job EXCEPT ![j] = WithIntent(j, "publish")]
     ELSE Goto(j, "raised")
  /\ UNCHANGED <<file, row, backups, gate, rescan, sync, spent, last>>

\* Variant: the destination was looked at before, that is enough.
MayReplaceUnseen(j) == MayPublish(j)

\* The claim and the identity of the destination.
MayReplace(j) == MayPublish(j) /\ Unchanged(j)

Publish(j) ==
  /\ job[j].at = "publish"
  /\ IF MayReplace(j)
     THEN job' = [job EXCEPT ![j].at = "replace", ![j].seen = file]
     ELSE Goto(j, "raised")
  /\ UNCHANGED <<file, row, backups, gate, rescan, sync, spent, last>>

\* A deletion fails if there is nothing to delete.
Deleted(j) == job[j].op = "reset" /\ file.image = none

\* The rename or the deletion, of whatever is at the destination by now.
Replace(j) ==
  /\ job[j].at = "replace"
  /\ \/ Deleted(j) /\ Goto(j, "raised") /\ UNCHANGED <<file, spent, last>>
     \/ /\ ~Deleted(j)
        /\ file' = IF job[j].op = "reset" THEN Absent ELSE [image |-> job[j].image, by |-> j]
        /\ last' = [last EXCEPT !.file = j]
        /\ \E torn \in BOOLEAN :
             /\ Tear(torn)
             /\ job' = [job EXCEPT ![j] = Evident(
                  [job[j] EXCEPT !.at = "own", !.result = "succeeded"], j, "destination", torn)]
  /\ UNCHANGED <<row, backups, gate, rescan, sync>>

\* _persist_final begins: the fence, read without a lock.  A reset looks first
\* that the poster is gone.
Own(j) ==
  /\ job[j].at = "own"
  /\ Goto(j, IF /\ Owns(j)
                /\ (job[j].op = "reset" /\ job[j].result = "succeeded") => file.image = none
             THEN "project" ELSE "raised")
  /\ UNCHANGED <<file, row, backups, gate, rescan, sync, spent, last>>

\* Variant: the checksum stays.
ClearedPath(keep) == [path |-> FALSE, sha |-> row.sha, backup |-> keep]

\* The row of a subject whose poster was reset.
Cleared(keep) == [path |-> FALSE, sha |-> none, backup |-> keep]

\* It commits: the row, if the file changed; the key of the backup, if one was kept.
Projection(j) ==
  LET keep == IF job[j].before.image # none /\ ~(job[j].op # "backup" /\ job[j].result = "no_change")
              THEN job[j].before.image ELSE row.backup
  IN  IF job[j].result = "no_change" \/ job[j].op = "backup"
      THEN [row EXCEPT !.backup = keep]
      ELSE IF job[j].op = "reset" THEN Cleared(keep)
      ELSE [path |-> TRUE, sha |-> job[j].image, backup |-> keep]

Project(j) ==
  /\ job[j].at = "project"
  /\ row' = Projection(j)
  /\ job' = [job EXCEPT ![j].at = "finish", ![j].projected = TRUE]
  /\ last' = IF job[j].op # "backup" /\ job[j].result = "succeeded"
             THEN [last EXCEPT !.row = j] ELSE last
  /\ UNCHANGED <<file, backups, gate, rescan, sync, spent>>

-----------------------------------------------------------------------------
(* How the delivery settles a job. *)

\* fail: an intent whose publication is not recorded is unsafe whatever is desired.
Failed(j, cancelled) ==
  IF Evidence(j) = "uncertain" /\ Owns(j) THEN Sealed(j, "unsafe", "uncertain")
  ELSE IF cancelled /\ Owns(j) THEN Sealed(j, "cancelled", Evidence(j))
  ELSE IF Owns(j) /\ job[j].desired = "run" THEN Sealed(j, "failed", Evidence(j))
  ELSE job[j]

\* succeed; a cancellation that won before it is sealed instead.
Finish(j) ==
  /\ job[j].at = "finish"
  /\ Leave(j, IF Owns(j) /\ job[j].desired = "run" THEN Sealed(j, job[j].result, Evidence(j))
              ELSE Failed(j, TRUE))
  /\ UNCHANGED <<file, row, backups, rescan, sync, spent, last>>

Fail(j) ==
  /\ job[j].at = "raised"
  /\ Leave(j, Failed(j, FALSE))
  /\ UNCHANGED <<file, row, backups, rescan, sync, spent, last>>

Executing(j) == job[j].at \notin {"idle", "raised", "cancelled", "gone"}

\* The cancellation reaches the handler wherever it is.
Interrupt(j) ==
  /\ Executing(j) /\ job[j].desired = "cancel"
  /\ Goto(j, "cancelled")
  /\ UNCHANGED <<file, row, backups, gate, rescan, sync, spent, last>>

FailCancelled(j) ==
  /\ job[j].at = "cancelled"
  /\ Leave(j, Failed(j, TRUE))
  /\ UNCHANGED <<file, row, backups, rescan, sync, spent, last>>

\* Recovery takes the runtime for dead; the handler may be going on all the same.
\* It reads the evidence in one transaction and seals the job in a later one.
Assess(j) ==
  /\ Owns(j) /\ job[j].read = "none"
  /\ IF job[j].at = "gone" THEN UNCHANGED spent ELSE Upset
  /\ job' = [job EXCEPT ![j].read = Evidence(j), ![j].condemned = job[j].at # "gone"]
  /\ UNCHANGED <<file, row, backups, gate, rescan, sync, last>>

Recover(j) ==
  /\ Owns(j) /\ job[j].read # "none" /\ ~Locked(j)
  /\ job' = [job EXCEPT ![j] = Sealed(j, "unsafe", job[j].read)]
  /\ UNCHANGED <<file, row, backups, gate, rescan, sync, spent, last>>

-----------------------------------------------------------------------------
(* Faults. *)

Crash(j) ==
  /\ job[j].at \notin {"idle", "gone"}
  /\ Leave(j, job[j])
  /\ UNCHANGED <<file, row, backups, rescan, sync, last>>

\* The database session that holds the gate is lost; the handler goes on.
LoseGate(j) ==
  /\ gate = j
  /\ gate' = none
  /\ last' = [last EXCEPT !.gated = FALSE]
  /\ UNCHANGED <<file, row, backups, job, rescan, sync>>

\* What a deploy does after its projection fails: taste exemplar, pinned artifact.
LoseEffects(j) ==
  /\ job[j].at = "finish" /\ job[j].op = "deploy"
  /\ Goto(j, "raised")
  /\ UNCHANGED <<file, row, backups, gate, rescan, sync, last>>

Fault(j) ==
  /\ Upset
  /\ Crash(j) \/ LoseGate(j) \/ LoseEffects(j)

-----------------------------------------------------------------------------
(* Whoever else writes the file or the row. *)

\* An operator or another program replaces or deletes the poster.
Outside ==
  /\ Upset
  /\ \/ \E i \in Image : file' = [image |-> i, by |-> spent + 1]
     \/ file.image # none /\ file' = Absent
  /\ last' = [last EXCEPT !.file = none]
  /\ UNCHANGED <<row, backups, gate, job, rescan, sync>>

\* execute_poster_rescan: all observations first, one transaction at the end.
RescanLook ==
  /\ ~rescan.looked /\ Upset
  /\ rescan' = [looked |-> TRUE, image |-> file.image]
  /\ UNCHANGED <<file, row, backups, gate, job, sync, last>>

\* The row is written by an observer, and if this changes it no job wrote it last.
Note(observed) ==
  /\ row' = observed
  /\ last' = IF observed = row THEN last ELSE [last EXCEPT !.row = none]

RescanWrite ==
  /\ rescan.looked
  /\ rescan' = [looked |-> FALSE, image |-> none]
  /\ Note([row EXCEPT !.path = rescan.image # none, !.sha = rescan.image])
  /\ UNCHANGED <<file, backups, gate, job, sync, spent>>

\* _check_existing_poster looks at the recorded path, then at the expected one; the
\* row is written if that differs from what was loaded.
SyncLook ==
  /\ ~sync.looked /\ Upset
  /\ sync' = [looked |-> TRUE, found |-> file.image # none, path |-> row.path]
  /\ UNCHANGED <<file, row, backups, gate, job, rescan, last>>

SyncWrite ==
  /\ sync.looked
  /\ sync' = NoSync
  /\ Note(IF sync.found = sync.path THEN row ELSE [row EXCEPT !.path = sync.found])
  /\ UNCHANGED <<file, backups, gate, job, rescan, spent>>

-----------------------------------------------------------------------------
Next ==
  \/ \E j \in Job, op \in Op, i \in Bytes : Submit(j, op, i)
  \/ \E j \in Job : Start(j) \/ Cancel(j)
  \/ \E j \in Job : Load(j) \/ Observe(j) \/ Stage(j) \/ IntendBackup(j) \/ PublishBackup(j)
  \/ \E j \in Job : StoreBackup(j) \/ Intend(j) \/ Publish(j) \/ Replace(j) \/ Own(j) \/ Project(j)
  \/ \E j \in Job : Finish(j) \/ Fail(j) \/ Interrupt(j) \/ FailCancelled(j)
  \/ \E j \in Job : Assess(j) \/ Recover(j) \/ Fault(j)
  \/ Outside \/ RescanLook \/ RescanWrite \/ SyncLook \/ SyncWrite

Spec == Init /\ [][Next]_vars

-----------------------------------------------------------------------------
(* Properties. *)

\* What a job replaces or removes is in the backups by then, whatever happened to the
\* file between the backup and the publication's last check.  The exceptions: bytes that
\* another program writes between that check and the rename or deletion are gone, and a
\* backup is gone that a mutation without its gate overwrote in the same gap.
NothingIsLost ==
  [][file' # file /\ file.image # none /\ last'.file \in Job
       => \/ Stored(file.image)
          \/ file # job[last'.file].seen
          \/ ~last.kept]_vars

RowAgrees == row.path = (file.image # none) /\ row.sha = file.image

\* While no gate is lost the row follows the file: if a job wrote the file last and
\* has projected it, and no observer has written the row since, they agree, in
\* whatever order jobs were submitted, cancelled, condemned or ended by a crash.
ProjectedInOrder ==
  (last.gated /\ last.row \in Job /\ last.file \in Job /\ job[last.file].projected)
    => RowAgrees

\* What a settled job says of itself is so: a success was published and projected, an
\* unchanged one wrote nothing, a record without publication hides none and one with a
\* publication names the last of them.  A handler that goes on after recovery took its
\* runtime for dead is the exception.
OutcomeTellsTruth ==
  TypeOK /\ \A j \in Job : job[j].phase = "terminal" =>
    /\ job[j].outcome = "succeeded" =>
         job[j].projected /\ (IF job[j].op = "backup" THEN "backup" ELSE "destination") \in job[j].touched
    /\ job[j].outcome = "no_change" => job[j].touched = {}
    /\ ~job[j].condemned =>
         /\ job[j].report = "nothing" => job[j].touched = {}
         /\ job[j].report = "published" =>
              /\ job[j].publication \in job[j].touched
              /\ "destination" \in job[j].touched => job[j].publication = "destination"
=============================================================================
