----------------------------- MODULE JobEvidence -----------------------------
(***************************************************************************)
(* What an attempt leaves behind: a log and an artifact.  The attempt's    *)
(* own process writes both and seals the log after it ended the attempt; a *)
(* process that starts on the same host seals what it finds abandoned; the *)
(* sweep of the retention job and the operator's command delete what has   *)
(* expired, and the job row goes last.  A file and its row are never       *)
(* changed in one step.                                                    *)
(***************************************************************************)
EXTENDS Naturals

CONSTANTS
  Process,      \* the process of the attempt and those that start beside it
  Author,       \* the former
  Sweeper,      \* those that expire evidence
  Purger,       \* the retention job, which also deletes the job row
  MaxLine,      \* bound: lines of the log
  MaxFault      \* bound: failures and crashes

ASSUME JobEvidenceAssumption ==
  Author \in Process /\ Purger \in Sweeper /\ MaxLine \in Nat /\ MaxFault \in Nat

VARIABLES
  job,        \* ended, cancelled, past the cutoff of the purge, purged
  process,    \* program counter of each process, and what its sealing has read
  register,   \* the registration of the artifact in the author
  artifact,   \* row: status and whether expires_at has passed
  object,     \* whether the artifact's file is in its place
  log,        \* row: status, line count, checksum (the lines it covers), due as above
  file,       \* the log's file: packed, and whether what was packed was packed before
  sweep,      \* program counter of each sweeper, whether it purges
  floor,      \* history: lines on file when the attempt ended
  overlapped, \* history: recovery claimed a log that was still written to
  shared,     \* history: recovery claimed a log that somebody was sealing
  stray,      \* history: a copy was placed after its row had been expired
  unproved,   \* history: an error after the removal of a file was taken for a file kept
  faults      \* bound

vars == <<job, process, register, artifact, object, log, file, sweep, floor,
          overlapped, shared, stray, unproved, faults>>
evidence == <<register, artifact, object>>
history  == <<floor, overlapped, shared, stray, unproved>>

Starter == Process \ {Author}

Fault == faults < MaxFault /\ faults' = faults + 1
Calm  == faults' = faults

\* What a process does next; a process keeps what its sealing has read.
At(p, at)   == process[p].at = at
Goto(p, at) == process' = [process EXCEPT ![p].at = at]

\* Done with sealing: what was read on the way is forgotten.
Leave(p) == process' = [process EXCEPT ![p] =
  [at |-> IF p = Author THEN "clean" ELSE "down", lines |-> 0, copy |-> 0, again |-> FALSE]]

Left == At(Author, "done") \/ At(Author, "gone")

Init ==
  /\ job = [ended |-> FALSE, cancelled |-> FALSE, old |-> FALSE, purged |-> FALSE]
  /\ process = [p \in Process |-> [at |-> IF p = Author THEN "create" ELSE "down",
                                   lines |-> 0, copy |-> 0, again |-> FALSE]]
  /\ register = "idle" /\ object = FALSE
  /\ artifact = [status |-> "none", due |-> FALSE, was |-> "none"]
  /\ log = [status |-> "none", lines |-> 0, sum |-> 0, due |-> FALSE]
  /\ file = [there |-> FALSE, packed |-> FALSE, nested |-> FALSE, lines |-> 0]
  /\ sweep = [c \in Sweeper |-> [at |-> "idle", purge |-> FALSE, gone |-> FALSE]]
  /\ floor = 0 /\ overlapped = FALSE /\ shared = FALSE /\ stray = FALSE /\ unproved = FALSE
  /\ faults = 0

-----------------------------------------------------------------------------
(* The attempt: its log is opened, its handler writes and registers. *)

\* The file comes before the row; an error deletes it and the attempt goes on
\* without a log.
CreateFile ==
  /\ At(Author, "create") /\ Goto(Author, "insert")
  /\ file' = [file EXCEPT !.there = TRUE]
  /\ UNCHANGED <<job, evidence, log, sweep, history, faults>>

InsertLog ==
  /\ At(Author, "insert") /\ Goto(Author, "handle")
  /\ \/ ~job.ended /\ log' = [log EXCEPT !.status = "open"] /\ Calm /\ UNCHANGED file
     \/ job.ended /\ Calm /\ file' = [file EXCEPT !.there = FALSE] /\ UNCHANGED log
     \/ Fault /\ file' = [file EXCEPT !.there = FALSE] /\ UNCHANGED log
  /\ UNCHANGED <<job, evidence, sweep, history>>

\* A line goes to the inode the author has open, which recovery may have
\* replaced.
WriteLine ==
  /\ process[Author].at \in {"handle", "end", "close"}
  /\ log.status # "none" /\ process[Author].lines < MaxLine
  /\ process' = [process EXCEPT ![Author].lines = @ + 1]
  /\ file' = IF file.packed THEN file ELSE [file EXCEPT !.lines = @ + 1]
  /\ UNCHANGED <<job, evidence, log, sweep, history, faults>>

Reserve ==
  /\ At(Author, "handle") /\ register = "idle" /\ artifact.status = "none"
  /\ register' = "copying" /\ artifact' = [artifact EXCEPT !.status = "pending"]
  /\ UNCHANGED <<job, process, object, log, file, sweep, history, faults>>

\* The copy is renamed into its place by a thread.
Place ==
  /\ register = "copying" /\ register' = "placed" /\ object' = TRUE
  /\ UNCHANGED <<job, process, artifact, log, file, sweep, history, faults>>

\* Variant: the row is published while the file is being copied.
PublishFirst ==
  /\ register = "copying" /\ register' = register
  /\ artifact.status = "pending" /\ artifact' = [artifact EXCEPT !.status = "available"]
  /\ UNCHANGED <<job, process, object, log, file, sweep, history, faults>>

PublishArtifact ==
  /\ register = "placed" /\ register' = "idle"
  /\ artifact.status = "pending" /\ artifact' = [artifact EXCEPT !.status = "available"]
  /\ UNCHANGED <<job, process, object, log, file, sweep, history, faults>>

\* Whatever was raised, a row that is still pending becomes failed.
RegisterFails ==
  /\ register \in {"copying", "placed"} /\ register' = "idle" /\ Fault
  /\ artifact' = IF artifact.status = "pending" THEN [artifact EXCEPT !.status = "failed"]
                 ELSE artifact
  /\ UNCHANGED <<job, process, object, log, file, sweep, history>>

Return ==
  /\ At(Author, "handle") /\ register = "idle" /\ Goto(Author, "end")
  /\ UNCHANGED <<job, evidence, log, file, sweep, history, faults>>

\* A timeout or a cancellation unwinds the handler; the row of an unfinished
\* registration stays pending and the thread that places its copy runs on.
Unwind ==
  /\ At(Author, "handle") /\ Goto(Author, "end")
  /\ register' = IF register = "copying" THEN "adrift" ELSE "idle"
  /\ UNCHANGED <<job, artifact, object, log, file, sweep, history, faults>>

PlaceAdrift ==
  /\ register = "adrift" /\ register' = "idle"
  /\ \/ object' = TRUE /\ stray' = (stray \/ artifact.status \in {"expiring", "expired"})
     \/ UNCHANGED <<object, stray>>
  /\ UNCHANGED <<job, process, artifact, log, file, sweep, floor, overlapped, shared, unproved,
                 faults>>

\* The terminal write, whose error still seals the log.  When another process
\* has ended the attempt, some paths seal and some leave the log as it is.
EndAttempt ==
  /\ At(Author, "end")
  /\ \/ /\ ~job.ended /\ floor' = file.lines /\ Calm
        /\ \E cancelled \in BOOLEAN :
             job' = [job EXCEPT !.ended = TRUE, !.cancelled = cancelled]
        /\ Goto(Author, IF log.status = "none" THEN "clean" ELSE "close")
     \/ /\ IF job.ended THEN Calm ELSE Fault
        /\ UNCHANGED <<job, floor>>
        /\ \/ log.status # "none" /\ Goto(Author, "close")
           \/ (log.status = "none" \/ job.ended) /\ Leave(Author)
  /\ UNCHANGED <<evidence, log, file, sweep, overlapped, shared, stray, unproved>>

-----------------------------------------------------------------------------
(* Sealing: by the author, or by a process that starts. *)

\* The capture is drained and closed; an error, or a row that is no longer
\* open, leaves the row to recovery.
CloseCapture ==
  /\ At(Author, "close")
  /\ \/ /\ log.status = "open" /\ Calm /\ Goto(Author, "pack")
        /\ log' = [log EXCEPT !.lines = process[Author].lines]
     \/ log.status # "open" /\ Calm /\ Leave(Author) /\ UNCHANGED log
     \/ /\ Fault /\ Leave(Author)
        /\ log' = IF log.status = "open"
                  THEN [log EXCEPT !.status = "failed", !.lines = process[Author].lines]
                  ELSE log
  /\ UNCHANGED <<job, evidence, file, sweep, history>>

\* A process that starts may first end the attempt of a silent or dead author.
Reconcile(p) ==
  /\ p \in Starter /\ At(p, "down") /\ Goto(p, "claim")
  /\ \/ UNCHANGED <<job, floor>>
     \/ ~job.ended /\ job' = [job EXCEPT !.ended = TRUE] /\ floor' = file.lines
  /\ UNCHANGED <<evidence, log, file, sweep, overlapped, shared, stray, unproved, faults>>

\* The author may still add a line.
Writing == process[Author].at \in {"handle", "end", "close"}

\* The steps of sealing that touch the file.
Touching == {"inspect", "pack", "copy", "replace", "digest", "record"}

\* Variant: logs of running attempts are claimed as well.
ClaimAnyLog(p) ==
  /\ p \in Starter /\ At(p, "claim")
  /\ \/ /\ log.status \in {"open", "failed", "recovering"}
        /\ log' = [log EXCEPT !.status = "recovering"] /\ Goto(p, "inspect")
        /\ UNCHANGED <<overlapped, shared>>
     \/ Leave(p) /\ UNCHANGED <<log, overlapped, shared>>
  /\ UNCHANGED <<job, evidence, file, sweep, floor, stray, unproved, faults>>

\* The writer counts as gone when the attempt has ended and no child process
\* of it is known to live; in doubt the log is left for another start.
ClaimLog(p) ==
  /\ p \in Starter /\ At(p, "claim")
  /\ \/ /\ job.ended /\ log.status \in {"open", "failed", "recovering"}
        /\ log' = [log EXCEPT !.status = "recovering"] /\ Goto(p, "inspect")
        /\ overlapped' = (overlapped \/ Writing)
        /\ shared' = (shared \/ \E q \in Process \ {p} : process[q].at \in Touching)
     \/ Leave(p) /\ UNCHANGED <<log, overlapped, shared>>
  /\ UNCHANGED <<job, evidence, file, sweep, floor, stray, unproved, faults>>

\* The lines are counted; a file that was packed twice has none that can be
\* read, and the row is left failed.
Inspect(p) ==
  /\ At(p, "inspect")
  /\ \/ /\ log.status = "recovering" /\ ~file.nested /\ UNCHANGED log
        /\ process' = [process EXCEPT ![p].at = "pack", ![p].lines = file.lines]
     \/ log.status # "recovering" /\ Leave(p) /\ UNCHANGED log
     \/ /\ log.status = "recovering" /\ file.nested /\ Leave(p)
        /\ log' = [log EXCEPT !.status = "failed"]
  /\ UNCHANGED <<job, evidence, file, sweep, history, faults>>

\* A log that is packed already is only read; another is opened once more, by
\* its name, and copied.
Pack(p) ==
  /\ At(p, "pack") /\ file.there
  /\ IF file.packed
     THEN process' = [process EXCEPT ![p].at = "record", ![p].copy = file.lines]
     ELSE Goto(p, "copy")
  /\ UNCHANGED <<job, evidence, log, file, sweep, history, faults>>

\* What is opened now may be what another process put there since.
Copy(p) ==
  /\ At(p, "copy") /\ file.there
  /\ process' = [process EXCEPT ![p].at = "replace", ![p].copy = file.lines,
                                ![p].again = file.packed]
  /\ UNCHANGED <<job, evidence, log, file, sweep, history, faults>>

Replace(p) ==
  /\ At(p, "replace") /\ Goto(p, "digest")
  /\ file' = [there |-> TRUE, packed |-> TRUE, nested |-> process[p].again,
              lines |-> process[p].copy]
  /\ UNCHANGED <<job, evidence, log, sweep, history, faults>>

Digest(p) ==
  /\ At(p, "digest") /\ file.there
  /\ process' = [process EXCEPT ![p].at = "record", ![p].copy = file.lines]
  /\ UNCHANGED <<job, evidence, log, file, sweep, history, faults>>

\* The row is sealed by whoever still finds it as it left it.
Record(p) ==
  /\ At(p, "record") /\ Leave(p)
  /\ log' = IF log.status \in (IF p = Author THEN {"open", "failed"} ELSE {"recovering"})
            THEN [log EXCEPT !.status = "sealed", !.sum = process[p].copy,
                             !.lines = IF p = Author THEN @ ELSE process[p].lines]
            ELSE log
  /\ UNCHANGED <<job, evidence, file, sweep, history, faults>>

SealFails(p) ==
  /\ process[p].at \in Touching /\ Fault /\ Leave(p)
  /\ log' = IF log.status = (IF p = Author THEN "open" ELSE "recovering")
            THEN [log EXCEPT !.status = "failed"] ELSE log
  /\ UNCHANGED <<job, evidence, file, sweep, history>>

Crash(p) ==
  /\ process[p].at \notin {"down", "done", "gone"} /\ Fault
  /\ process' = [process EXCEPT ![p] =
       [at |-> IF p = Author THEN "gone" ELSE "down", lines |-> 0, copy |-> 0, again |-> FALSE]]
  /\ register' = IF p = Author THEN "idle" ELSE register
  /\ UNCHANGED <<job, artifact, object, log, file, sweep, history>>

-----------------------------------------------------------------------------
(* Cleaning up behind a cancelled attempt, by its own process. *)

Clean ==
  /\ At(Author, "clean")
  /\ \/ /\ job.cancelled /\ artifact.status \in {"pending", "available", "failed", "expiring"}
        /\ artifact' = [artifact EXCEPT !.status = "expiring", !.was = artifact.status]
        /\ Goto(Author, "unlink")
     \/ /\ ~job.cancelled \/ artifact.status \in {"none", "expired"}
        /\ Goto(Author, "done") /\ UNCHANGED artifact
  /\ UNCHANGED <<job, register, object, log, file, sweep, history, faults>>

\* The removal is proved by an open that must fail; any other error of it
\* counts as a file that was kept.
CleanUnlink ==
  /\ At(Author, "unlink")
  /\ \/ object' = FALSE /\ Goto(Author, "unlinked") /\ Calm /\ UNCHANGED unproved
     \/ Fault /\ Goto(Author, "kept") /\ UNCHANGED <<object, unproved>>
     \/ object /\ object' = FALSE /\ unproved' = TRUE /\ Fault /\ Goto(Author, "kept")
  /\ UNCHANGED <<job, register, artifact, log, file, sweep, floor, overlapped, shared, stray>>

\* A row whose file could not be removed goes back to what it was.
CleanSettle ==
  /\ process[Author].at \in {"unlinked", "kept"} /\ Goto(Author, "done")
  /\ artifact' = [artifact EXCEPT
       !.status = IF At(Author, "unlinked") THEN "expired"
                  ELSE IF artifact.was = "expiring" THEN "available" ELSE artifact.was,
       !.was = "none"]
  /\ UNCHANGED <<job, register, object, log, file, sweep, history, faults>>

-----------------------------------------------------------------------------
(* Retention: evidence by evidence, then the job row. *)

\* An artifact comes of age with time, or when a review is reset: the route
\* asks neither whether its job has ended nor, once it has read the row as
\* available, whether its attempt is cleaning up.
BringForward ==
  /\ ~artifact.due
  /\ artifact.status = "available" \/ (artifact.status = "expiring" /\ artifact.was = "available")
  /\ artifact' = [artifact EXCEPT !.due = TRUE]
  /\ UNCHANGED <<job, process, register, object, log, file, sweep, history, faults>>

\* Thirty days and more: nobody is still in the middle of the attempt or of
\* its recovery.
TimePasses ==
  /\ Left /\ register = "idle"
  /\ \A p \in Starter : At(p, "down")
  /\ \/ /\ log.status = "sealed" /\ ~log.due
        /\ log' = [log EXCEPT !.due = TRUE] /\ UNCHANGED job
     \/ /\ job.ended /\ ~job.old
        /\ job' = [job EXCEPT !.old = TRUE] /\ UNCHANGED log
  /\ UNCHANGED <<process, evidence, file, sweep, history, faults>>

Sweeps(c, at) == sweep' = [sweep EXCEPT ![c].at = at, ![c].gone = FALSE]

\* The jobs that may go: no evidence that is served, none whose end is open.
Purgeable ==
  /\ job.old /\ ~job.purged
  /\ artifact.status = "available" => artifact.due
  /\ log.status # "none" => log.due

\* Before anything has come of age a sweep finds nothing.
Begin(c) ==
  /\ sweep[c].at = "idle" /\ ~job.purged /\ (job.old \/ artifact.due \/ log.due)
  /\ \E purge \in BOOLEAN :
       /\ purge => c = Purger /\ Purgeable
       /\ sweep' = [sweep EXCEPT ![c] = [at |-> "artifact", purge |-> purge, gone |-> FALSE]]
  /\ UNCHANGED <<job, process, evidence, log, file, history, faults>>

ClaimExpired(c) ==
  /\ sweep[c].at = "artifact"
  /\ \/ /\ artifact.status = "available" /\ artifact.due
        /\ artifact' = [artifact EXCEPT !.status = "expiring"] /\ Sweeps(c, "unlink")
     \/ /\ ~(artifact.status = "available" /\ artifact.due)
        /\ Sweeps(c, "log") /\ UNCHANGED artifact
  /\ UNCHANGED <<job, process, register, object, log, file, history, faults>>

Unlink(c) ==
  /\ sweep[c].at = "unlink"
  /\ \/ object' = FALSE /\ Calm /\ sweep' = [sweep EXCEPT ![c].at = "settle", ![c].gone = TRUE]
     \/ Fault /\ UNCHANGED object /\ sweep' = [sweep EXCEPT ![c].at = "settle", ![c].gone = FALSE]
  /\ UNCHANGED <<job, process, register, artifact, log, file, history>>

\* Expired once its file is gone; after any error available again.
Settle(c) ==
  /\ sweep[c].at = "settle" /\ Sweeps(c, "log")
  /\ \E expired \in BOOLEAN :
       /\ expired => sweep[c].gone
       /\ IF sweep[c].gone /\ ~expired THEN Fault ELSE Calm
       /\ artifact' = IF artifact.status # "expiring" THEN artifact
                      ELSE [artifact EXCEPT !.status = IF expired THEN "expired" ELSE "available"]
  /\ UNCHANGED <<job, process, register, object, log, file, history>>

(* The same for the log, whose row goes back to being sealed. *)

Onward(c) == IF sweep[c].purge THEN "check" ELSE "idle"

ClaimSealed(c) ==
  /\ sweep[c].at = "log"
  /\ \/ /\ log.status = "sealed" /\ log.due
        /\ log' = [log EXCEPT !.status = "expiring"] /\ Sweeps(c, "unlinkLog")
     \/ /\ ~(log.status = "sealed" /\ log.due)
        /\ Sweeps(c, Onward(c)) /\ UNCHANGED log
  /\ UNCHANGED <<job, process, evidence, file, history, faults>>

UnlinkLog(c) ==
  /\ sweep[c].at = "unlinkLog"
  /\ \/ /\ file' = [file EXCEPT !.there = FALSE] /\ Calm
        /\ sweep' = [sweep EXCEPT ![c].at = "settleLog", ![c].gone = TRUE]
     \/ /\ Fault /\ UNCHANGED file
        /\ sweep' = [sweep EXCEPT ![c].at = "settleLog", ![c].gone = FALSE]
  /\ UNCHANGED <<job, process, evidence, log, history>>

SettleLog(c) ==
  /\ sweep[c].at = "settleLog" /\ Sweeps(c, Onward(c))
  /\ \E expired \in BOOLEAN :
       /\ expired => sweep[c].gone
       /\ IF sweep[c].gone /\ ~expired THEN Fault ELSE Calm
       /\ log' = IF log.status # "expiring" THEN log
                 ELSE [log EXCEPT !.status = IF expired THEN "expired" ELSE "sealed"]
  /\ UNCHANGED <<job, process, evidence, file, history>>

\* Variant: evidence that somebody is removing does not hold the row back.
BlockedIfServed == artifact.status = "available" \/ log.status = "sealed"

Blocked ==
  \/ artifact.status \notin {"none", "expired"}
  \/ log.status \notin {"none", "expired"}

CheckBlockers(c) ==
  /\ sweep[c].at = "check" /\ Sweeps(c, IF Blocked THEN "idle" ELSE "delete")
  /\ UNCHANGED <<job, process, evidence, log, file, history, faults>>

\* Deleting the job deletes its rows; a purge that was cancelled or has lost
\* its attempt ends before.
DeleteJob(c) ==
  /\ sweep[c].at = "delete" /\ Sweeps(c, "idle")
  /\ \/ job' = [job EXCEPT !.purged = TRUE]
     \/ UNCHANGED job
  /\ UNCHANGED <<process, evidence, log, file, history, faults>>

SweepDies(c) ==
  /\ sweep[c].at # "idle" /\ Fault /\ Sweeps(c, "idle")
  /\ UNCHANGED <<job, process, evidence, log, file, history>>

-----------------------------------------------------------------------------

AuthorStep ==
  \/ CreateFile \/ InsertLog \/ WriteLine \/ Return \/ Unwind \/ EndAttempt \/ CloseCapture
  \/ Reserve \/ Place \/ PublishArtifact \/ RegisterFails \/ PlaceAdrift
  \/ Clean \/ CleanUnlink \/ CleanSettle

SealStep(p) ==
  \/ Reconcile(p) \/ ClaimLog(p) \/ Inspect(p) \/ Pack(p) \/ Copy(p) \/ Replace(p) \/ Digest(p)
  \/ Record(p) \/ SealFails(p) \/ Crash(p)

SweepStep(c) ==
  \/ Begin(c) \/ ClaimExpired(c) \/ Unlink(c) \/ Settle(c)
  \/ ClaimSealed(c) \/ UnlinkLog(c) \/ SettleLog(c)
  \/ CheckBlockers(c) \/ DeleteJob(c) \/ SweepDies(c)

Next ==
  \/ AuthorStep \/ BringForward \/ TimePasses
  \/ \E p \in Process : SealStep(p)
  \/ \E c \in Sweeper : SweepStep(c)

Spec == Init /\ [][Next]_vars

-----------------------------------------------------------------------------

\* An artifact that a download would serve has its file: a row is published
\* after its copy is in place, and neither an expiry nor a clean-up that fails
\* half way makes a row available whose file it removed, unless the row is due
\* and answered with 410 anyway.  Named escape: the file is gone but the proof
\* of it failed (register_physical_artifact, expire_artifacts,
\* expire_attempt_artifacts).
AvailableIsServed ==
  artifact.status = "available" /\ ~artifact.due => object \/ unproved

\* A row that says "expired" has no file, and neither has evidence whose rows
\* went with their job: whoever deletes a row has proved that its file is
\* gone, although sweeps, clean-up and recovery overlap and die.  Named
\* escape: the copying thread of an unwound handler (expire_artifacts,
\* expire_logs, execute_job_retention_purge).
RemovedIsGone ==
  /\ artifact.status = "expired" => ~object \/ stray
  /\ log.status = "expired" => ~file.there
  /\ job.purged => /\ artifact.status \in {"none", "expired"}
                    /\ log.status \in {"none", "expired"}

\* A sealed log is packed and holds every line that was on file when its
\* attempt ended, whoever sealed it and how often sealing was begun; its row
\* counts those lines, unless recovery took it from an author that still wrote;
\* and it can be read and has the checksum of the row, unless two processes were
\* sealing it at the same time: the second may then pack what the first packed
\* (AttemptLogFiles.seal, recover_abandoned_attempt_logs).
SealedKeepsTheLog ==
  log.status = "sealed" /\ ~log.due =>
    /\ file.there /\ file.packed /\ file.lines >= floor
    /\ overlapped \/ log.lines = file.lines
    /\ shared \/ ~file.nested
    /\ overlapped \/ shared \/ log.sum = file.lines

Program ==
  [at : {"create", "insert", "handle", "end", "close", "pack", "copy", "replace", "digest",
         "record", "clean", "unlink", "unlinked", "kept", "done", "gone",
         "down", "claim", "inspect"},
   lines : Nat, copy : Nat, again : BOOLEAN]

SweepProgram ==
  [at : {"idle", "artifact", "unlink", "settle", "log", "unlinkLog", "settleLog",
         "check", "delete"},
   purge : BOOLEAN, gone : BOOLEAN]

JobRow == [ended : BOOLEAN, cancelled : BOOLEAN, old : BOOLEAN, purged : BOOLEAN]

JobArtifact ==
  [status : {"none", "pending", "available", "failed", "expiring", "expired"},
   due : BOOLEAN, was : {"none", "pending", "available", "failed", "expiring"}]

JobLog ==
  [status : {"none", "open", "failed", "recovering", "sealed", "expiring", "expired"},
   lines : Nat, sum : Nat, due : BOOLEAN]

LogFile == [there : BOOLEAN, packed : BOOLEAN, nested : BOOLEAN, lines : Nat]

TypeOK ==
  /\ job \in JobRow /\ process \in [Process -> Program]
  /\ register \in {"idle", "copying", "placed", "adrift"} /\ object \in BOOLEAN
  /\ artifact \in JobArtifact /\ log \in JobLog /\ file \in LogFile
  /\ sweep \in [Sweeper -> SweepProgram]
  /\ floor \in Nat /\ overlapped \in BOOLEAN /\ shared \in BOOLEAN
  /\ stray \in BOOLEAN /\ unproved \in BOOLEAN /\ faults \in 0..MaxFault
=============================================================================
