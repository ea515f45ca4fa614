-------------------------- MODULE JobEvidenceProofs --------------------------
(***************************************************************************)
(* Theorems about JobEvidence, for any number of processes and sweepers:   *)
(* what is served has its file, what is gone from the rows is gone from    *)
(* the disk, and a sealed log has lost no line.                            *)
(***************************************************************************)
EXTENDS JobEvidence, TLAPS

USE JobEvidenceAssumption DEF JobEvidenceAssumption

-----------------------------------------------------------------------------
(* Types. *)

LEMMA InitType == Init => TypeOK
<1> SUFFICES ASSUME Init PROVE TypeOK  OBVIOUS
<1>1. job \in JobRow /\ artifact \in JobArtifact /\ log \in JobLog /\ file \in LogFile
  BY DEF Init, JobRow, JobArtifact, JobLog, LogFile
<1>2. process \in [Process -> Program]
  <2>1. \A at \in {"create", "down"} :
          [at |-> at, lines |-> 0, copy |-> 0, again |-> FALSE] \in Program
    BY DEF Program
  <2> QED  BY <2>1 DEF Init
<1>3. sweep \in [Sweeper -> SweepProgram]
  <2>1. [at |-> "idle", purge |-> FALSE, gone |-> FALSE] \in SweepProgram  BY DEF SweepProgram
  <2> QED  BY <2>1 DEF Init
<1>4. register \in {"idle", "copying", "placed", "adrift"}  BY DEF Init
<1>5. /\ object \in BOOLEAN /\ overlapped \in BOOLEAN /\ shared \in BOOLEAN
        /\ stray \in BOOLEAN /\ unproved \in BOOLEAN
  BY ZenonT(40) DEF Init
<1>6. floor \in Nat /\ faults \in 0..MaxFault  BY DEF Init
<1> QED  BY <1>1, <1>2, <1>3, <1>4, <1>5, <1>6 DEF TypeOK

LEMMA RowsOf == TypeOK => /\ \A p \in Process : process[p] \in Program
                          /\ \A c \in Sweeper : sweep[c] \in SweepProgram
BY DEF TypeOK

LEMMA NumbersOf ==
  ASSUME TypeOK, NEW p \in Process
  PROVE  process[p].lines \in Nat /\ process[p].copy \in Nat /\ process[p].lines + 1 \in Nat
<1>1. process[p] \in Program  BY RowsOf
<1> QED  BY <1>1 DEF Program

LEMMA GotoType ==
  ASSUME TypeOK, NEW p \in Process, NEW at, Goto(p, at),
         at \in {"create", "insert", "handle", "end", "close", "pack", "copy", "replace",
                 "digest", "record", "clean", "unlink", "unlinked", "kept", "done", "gone",
                 "down", "claim", "inspect"}
  PROVE  process' \in [Process -> Program] /\ process'[p].at = at
<1>1. process[p] \in Program  BY RowsOf
<1>2. [process[p] EXCEPT !.at = at] \in Program /\ [process[p] EXCEPT !.at = at].at = at
  BY ZenonT(40), <1>1 DEF Program
<1> QED  BY <1>2 DEF Goto, TypeOK

LEMMA LeaveType ==
  ASSUME TypeOK, NEW p \in Process, Leave(p)
  PROVE  process' \in [Process -> Program]
<1>1. \A at \in {"clean", "down"} :
        [at |-> at, lines |-> 0, copy |-> 0, again |-> FALSE] \in Program
  BY DEF Program
<1> QED  BY <1>1 DEF Leave, TypeOK

LEMMA ArtifactType ==
  ASSUME TypeOK
  PROVE  /\ \A s \in {"pending", "available", "failed", "expiring", "expired"} :
              [artifact EXCEPT !.status = s] \in JobArtifact
         /\ [artifact EXCEPT !.due = TRUE] \in JobArtifact
         /\ artifact.status # "expired" =>
              [artifact EXCEPT !.status = "expiring", !.was = artifact.status] \in JobArtifact
         /\ \A s \in {"none", "pending", "available", "failed", "expired"} :
              [artifact EXCEPT !.status = s, !.was = "none"] \in JobArtifact
BY ZenonT(40) DEF TypeOK, JobArtifact

LEMMA LogType ==
  ASSUME TypeOK
  PROVE  /\ \A s \in {"open", "failed", "recovering", "sealed", "expiring", "expired"} :
              [log EXCEPT !.status = s] \in JobLog
         /\ [log EXCEPT !.due = TRUE] \in JobLog
         /\ \A n \in Nat : [log EXCEPT !.lines = n] \in JobLog
         /\ \A n \in Nat : [log EXCEPT !.status = "failed", !.lines = n] \in JobLog
         /\ \A n, k \in Nat : [log EXCEPT !.status = "sealed", !.sum = n, !.lines = k] \in JobLog
BY ZenonT(40) DEF TypeOK, JobLog

LEMMA FileType ==
  ASSUME TypeOK
  PROVE  /\ file.there \in BOOLEAN /\ file.packed \in BOOLEAN /\ file.nested \in BOOLEAN
         /\ file.lines \in Nat
         /\ \A b \in BOOLEAN : [file EXCEPT !.there = b] \in LogFile
         /\ [file EXCEPT !.lines = file.lines + 1] \in LogFile
         /\ \A n \in Nat, b \in BOOLEAN :
              [there |-> TRUE, packed |-> TRUE, nested |-> b, lines |-> n] \in LogFile
<1>1. file \in LogFile  BY DEF TypeOK
<1>2. /\ file.there \in BOOLEAN /\ file.packed \in BOOLEAN /\ file.nested \in BOOLEAN
      /\ file.lines \in Nat
  BY <1>1 DEF LogFile
<1>3. file.lines + 1 \in Nat  BY <1>2
<1>4. \A b \in BOOLEAN : [file EXCEPT !.there = b] \in LogFile  BY ZenonT(40), <1>1 DEF LogFile
<1>5. \A n \in Nat : [file EXCEPT !.lines = n] \in LogFile  BY ZenonT(40), <1>1 DEF LogFile
<1>6. \A n \in Nat, b \in BOOLEAN :
        [there |-> TRUE, packed |-> TRUE, nested |-> b, lines |-> n] \in LogFile
  BY DEF LogFile
<1> QED  BY <1>2, <1>3, <1>4, <1>5, <1>6

LEMMA JobType ==
  ASSUME TypeOK
  PROVE  /\ [job EXCEPT !.ended = TRUE] \in JobRow
         /\ \A b \in BOOLEAN : [job EXCEPT !.ended = TRUE, !.cancelled = b] \in JobRow
         /\ [job EXCEPT !.old = TRUE] \in JobRow /\ [job EXCEPT !.purged = TRUE] \in JobRow
BY ZenonT(40) DEF TypeOK, JobRow

LEMMA FaultType ==
  ASSUME TypeOK, Fault \/ Calm
  PROVE  faults' \in 0..MaxFault
BY DEF TypeOK, Fault, Calm

LEMMA SweepsType ==
  ASSUME TypeOK, NEW c \in Sweeper,
         NEW at \in {"idle", "artifact", "unlink", "settle", "log", "unlinkLog", "settleLog",
                     "check", "delete"},
         NEW b \in BOOLEAN
  PROVE  /\ [sweep EXCEPT ![c].at = at, ![c].gone = b] \in [Sweeper -> SweepProgram]
         /\ [sweep EXCEPT ![c] = [at |-> at, purge |-> b, gone |-> FALSE]]
              \in [Sweeper -> SweepProgram]
<1>1. sweep[c] \in SweepProgram  BY RowsOf
<1>2. [sweep[c] EXCEPT !.at = at, !.gone = b] \in SweepProgram
  BY ZenonT(40), <1>1 DEF SweepProgram
<1>3. [at |-> at, purge |-> b, gone |-> FALSE] \in SweepProgram  BY DEF SweepProgram
<1> QED  BY <1>2, <1>3 DEF TypeOK

LEMMA AuthorType == ASSUME TypeOK, AuthorStep PROVE TypeOK'
<1> USE ArtifactType, LogType, FileType, JobType, FaultType DEF history, evidence
<1>1. CASE CreateFile
  <2>1. process' \in [Process -> Program]  BY <1>1, GotoType DEF CreateFile
  <2> QED  BY <1>1, <2>1 DEF CreateFile, TypeOK
<1>2. CASE InsertLog
  <2>1. process' \in [Process -> Program]  BY <1>2, GotoType DEF InsertLog
  <2>2. log' \in JobLog /\ file' \in LogFile  BY <1>2 DEF InsertLog, TypeOK
  <2>3. faults' \in 0..MaxFault  BY <1>2 DEF InsertLog
  <2> QED  BY <1>2, <2>1, <2>2, <2>3 DEF InsertLog, TypeOK
<1>3. CASE WriteLine
  <2>1. process[Author] \in Program  BY RowsOf
  <2>2. process[Author].lines + 1 \in Nat  BY NumbersOf
  <2>3. [process[Author] EXCEPT !.lines = process[Author].lines + 1] \in Program
    BY ZenonT(40), <2>1, <2>2 DEF Program
  <2> QED  BY <1>3, <2>3 DEF WriteLine, TypeOK
<1>4. CASE Return \/ Unwind  BY <1>4, GotoType DEF Return, Unwind, TypeOK
<1>5. CASE EndAttempt
  <2>1. process' \in [Process -> Program]  BY <1>5, GotoType, LeaveType DEF EndAttempt
  <2> QED  BY <1>5, <2>1 DEF EndAttempt, TypeOK
<1>6. CASE CloseCapture
  <2>1. process[Author].lines \in Nat  BY NumbersOf
  <2>2. process' \in [Process -> Program]  BY <1>6, GotoType, LeaveType DEF CloseCapture
  <2> QED  BY <1>6, <2>1, <2>2 DEF CloseCapture, TypeOK
<1>7. CASE Reserve \/ Place \/ PublishArtifact
  BY <1>7 DEF Reserve, Place, PublishArtifact, TypeOK
<1>8. CASE RegisterFails \/ PlaceAdrift  BY <1>8 DEF RegisterFails, PlaceAdrift, TypeOK
<1>9. CASE Clean  BY <1>9, GotoType DEF Clean, TypeOK
<1>10. CASE CleanUnlink  BY <1>10, GotoType DEF CleanUnlink, TypeOK
<1>11. CASE CleanSettle
  <2>1. artifact.was \in {"none", "pending", "available", "failed", "expiring"}
    BY DEF TypeOK, JobArtifact
  <2>2. artifact' \in JobArtifact  BY <1>11, <2>1 DEF CleanSettle
  <2>3. process' \in [Process -> Program]  BY <1>11, GotoType DEF CleanSettle
  <2> QED  BY <1>11, <2>2, <2>3 DEF CleanSettle, TypeOK
<1> QED  BY <1>1, <1>2, <1>3, <1>4, <1>5, <1>6, <1>7, <1>8, <1>9, <1>10, <1>11 DEF AuthorStep

LEMMA SealType == ASSUME TypeOK, NEW p \in Process, SealStep(p) PROVE TypeOK'
<1> USE ArtifactType, LogType, FileType, JobType, FaultType DEF history, evidence
<1>0. process[p] \in Program /\ process[p].lines \in Nat /\ process[p].copy \in Nat
  BY RowsOf, NumbersOf
<1>1. CASE Reconcile(p)  BY <1>1, GotoType DEF Reconcile, TypeOK
<1>2. CASE ClaimLog(p)
  <2>1. process' \in [Process -> Program]  BY <1>2, GotoType, LeaveType DEF ClaimLog
  <2>2. shared' \in BOOLEAN /\ overlapped' \in BOOLEAN
    BY <1>2 DEF ClaimLog, Writing, TypeOK
  <2> QED  BY <1>2, <2>1, <2>2 DEF ClaimLog, TypeOK
<1>3. CASE Inspect(p)
  <2>1. \A n \in Nat : [process[p] EXCEPT !.at = "pack", !.lines = n] \in Program
    BY ZenonT(40), <1>0 DEF Program
  <2>2. process' \in [Process -> Program]
    <3>1. CASE Leave(p)  BY <3>1, LeaveType
    <3>2. CASE process' = [process EXCEPT ![p].at = "pack", ![p].lines = file.lines]
      BY <3>2, <2>1 DEF TypeOK
    <3> QED  BY <1>3, <3>1, <3>2 DEF Inspect
  <2>3. log' \in JobLog  BY <1>3 DEF Inspect, TypeOK
  <2> QED  BY <1>3, <2>2, <2>3 DEF Inspect, TypeOK
<1>4. CASE Pack(p) \/ Copy(p) \/ Digest(p)
  <2>1. \A n \in Nat : [process[p] EXCEPT !.at = "record", !.copy = n] \in Program
    BY ZenonT(40), <1>0 DEF Program
  <2>2. \A n \in Nat, b \in BOOLEAN :
          [process[p] EXCEPT !.at = "replace", !.copy = n, !.again = b] \in Program
    BY ZenonT(40), <1>0 DEF Program
  <2>3. CASE process' = [process EXCEPT ![p].at = "record", ![p].copy = file.lines]
    BY <1>4, <2>1, <2>3 DEF Pack, Copy, Digest, TypeOK
  <2>4. CASE Goto(p, "copy")
    <3>1. process' \in [Process -> Program]  BY <2>4, GotoType
    <3> QED  BY <1>4, <3>1 DEF Pack, Copy, Digest, TypeOK
  <2>5. CASE process' = [process EXCEPT ![p].at = "replace", ![p].copy = file.lines,
                                        ![p].again = file.packed]
    BY <1>4, <2>2, <2>5 DEF Pack, Copy, Digest, TypeOK
  <2> QED  BY <1>4, <2>3, <2>4, <2>5 DEF Pack, Copy, Digest
<1>5. CASE Replace(p)
  <2>1. process[p].again \in BOOLEAN  BY <1>0 DEF Program
  <2>2. file' \in LogFile  BY <1>5, <1>0, <2>1 DEF Replace
  <2>3. process' \in [Process -> Program]  BY <1>5, GotoType DEF Replace
  <2> QED  BY <1>5, <2>2, <2>3 DEF Replace, TypeOK
<1>6. CASE Record(p)
  <2>1. process' \in [Process -> Program]  BY <1>6, LeaveType DEF Record
  <2>2. log.lines \in Nat  BY DEF TypeOK, JobLog
  <2>3. log' \in JobLog  BY <1>6, <1>0, <2>2 DEF Record, TypeOK
  <2> QED  BY <1>6, <2>1, <2>3 DEF Record, TypeOK
<1>7. CASE SealFails(p)  BY <1>7, LeaveType DEF SealFails, TypeOK
<1>8. CASE Crash(p)
  <2>1. \A s \in {"gone", "down"} :
          [at |-> s, lines |-> 0, copy |-> 0, again |-> FALSE] \in Program
    BY DEF Program
  <2>2. process' \in [Process -> Program]  BY <1>8, <2>1 DEF Crash, TypeOK
  <2> QED  BY <1>8, <2>2 DEF Crash, TypeOK
<1> QED  BY <1>1, <1>2, <1>3, <1>4, <1>5, <1>6, <1>7, <1>8 DEF SealStep

LEMMA SweepType == ASSUME TypeOK, NEW c \in Sweeper, SweepStep(c) PROVE TypeOK'
<1> USE DEF history, evidence
<1>0. sweep' \in [Sweeper -> SweepProgram]
  <2>1. CASE Begin(c)
    <3>1. PICK b \in BOOLEAN :
            sweep' = [sweep EXCEPT ![c] = [at |-> "artifact", purge |-> b, gone |-> FALSE]]
      BY <2>1 DEF Begin
    <3> QED  BY <3>1, SweepsType
  <2>2. ASSUME NEW at \in {"idle", "artifact", "unlink", "settle", "log", "unlinkLog",
                           "settleLog", "check", "delete"}, Sweeps(c, at)
        PROVE  sweep' \in [Sweeper -> SweepProgram]
    BY <2>2, SweepsType DEF Sweeps
  <2>3. CASE ClaimExpired(c) \/ Settle(c) \/ CheckBlockers(c) \/ DeleteJob(c) \/ SweepDies(c)
    BY <2>2, <2>3 DEF ClaimExpired, Settle, CheckBlockers, DeleteJob, SweepDies
  <2>4. CASE ClaimSealed(c) \/ SettleLog(c)
    <3>1. Onward(c) \in {"check", "idle"}  BY DEF Onward
    <3> QED  BY <2>2, <2>4, <3>1 DEF ClaimSealed, SettleLog
  <2>5. ASSUME NEW at \in {"settle", "settleLog"}, NEW gone \in {TRUE, FALSE},
               sweep' = [sweep EXCEPT ![c].at = at, ![c].gone = gone]
        PROVE  sweep' \in [Sweeper -> SweepProgram]
    BY <2>5, SweepsType
  <2>6. CASE Unlink(c) \/ UnlinkLog(c)  BY ZenonT(40), <2>5, <2>6 DEF Unlink, UnlinkLog
  <2> QED  BY <2>1, <2>3, <2>4, <2>6 DEF SweepStep
<1> USE ArtifactType, LogType, FileType, JobType, FaultType
<1>1. CASE Begin(c)  BY <1>0, <1>1 DEF Begin, TypeOK
<1>2. CASE ClaimExpired(c)  BY <1>0, <1>2 DEF ClaimExpired, TypeOK
<1>3. CASE Unlink(c)  BY <1>0, <1>3 DEF Unlink, TypeOK
<1>4. CASE UnlinkLog(c)  BY <1>0, <1>4 DEF UnlinkLog, TypeOK
<1>5. CASE Settle(c)  BY <1>0, <1>5 DEF Settle, TypeOK
<1>6. CASE ClaimSealed(c)  BY <1>0, <1>6 DEF ClaimSealed, TypeOK
<1>7. CASE SettleLog(c)  BY <1>0, <1>7 DEF SettleLog, TypeOK
<1>8. CASE CheckBlockers(c)  BY <1>0, <1>8 DEF CheckBlockers, TypeOK
<1>9. CASE DeleteJob(c) \/ SweepDies(c)  BY <1>0, <1>9 DEF DeleteJob, SweepDies, TypeOK
<1> QED  BY <1>1, <1>2, <1>3, <1>4, <1>5, <1>6, <1>7, <1>8, <1>9 DEF SweepStep

LEMMA NextType == ASSUME TypeOK, [Next]_vars PROVE TypeOK'
<1>1. CASE TimePasses
  BY <1>1, LogType, JobType DEF TimePasses, TypeOK, history, evidence
<1>2. CASE BringForward  BY <1>2, ArtifactType DEF BringForward, TypeOK, history, evidence
<1>3. CASE UNCHANGED vars  BY <1>3 DEF vars, TypeOK
<1> QED  BY <1>1, <1>2, <1>3, AuthorType, SealType, SweepType DEF Next

\* The rows, the files and the programs of all processes have their types.
THEOREM TypeCorrect == Spec => []TypeOK
BY InitType, NextType, PTL DEF Spec

-----------------------------------------------------------------------------
(* What a step changes, field by field. *)

LEMMA MovesOne ==
  ASSUME TypeOK, NEW p \in Process
  PROVE  /\ \A at : Goto(p, at) =>
              \A q \in Process : process'[q].at = IF q = p THEN at ELSE process[q].at
         /\ Leave(p) =>
              \A q \in Process : process'[q].at = IF q # p THEN process[q].at
                                                ELSE IF p = Author THEN "clean" ELSE "down"
<1>1. process \in [Process -> Program]  BY DEF TypeOK
<1>2. \A q \in Process : process[q] \in Program  BY RowsOf
<1>3. ASSUME NEW at, Goto(p, at), NEW q \in Process
      PROVE  process'[q].at = IF q = p THEN at ELSE process[q].at
  BY <1>1, <1>2, <1>3 DEF Goto, Program
<1> QED  BY <1>1, <1>3 DEF Leave

LEMMA ArtifactFields ==
  ASSUME TypeOK
  PROVE  /\ \A s : /\ [artifact EXCEPT !.status = s].status = s
                   /\ [artifact EXCEPT !.status = s].due = artifact.due
                   /\ [artifact EXCEPT !.status = s].was = artifact.was
         /\ \A s : /\ [artifact EXCEPT !.due = s].status = artifact.status
                   /\ [artifact EXCEPT !.due = s].due = s
                   /\ [artifact EXCEPT !.due = s].was = artifact.was
         /\ \A s : /\ [artifact EXCEPT !.status = s, !.was = "none"].status = s
                   /\ [artifact EXCEPT !.status = s, !.was = "none"].due = artifact.due
         /\ \A s : /\ [artifact EXCEPT !.status = "expiring", !.was = s].status = "expiring"
                   /\ [artifact EXCEPT !.status = "expiring", !.was = s].due = artifact.due
                   /\ [artifact EXCEPT !.status = "expiring", !.was = s].was = s
BY DEF TypeOK, JobArtifact

LEMMA LogFields ==
  ASSUME TypeOK
  PROVE  /\ \A s : /\ [log EXCEPT !.status = s].status = s
                   /\ [log EXCEPT !.status = s].due = log.due
         /\ \A s : /\ [log EXCEPT !.due = s].status = log.status
                   /\ [log EXCEPT !.due = s].due = s
         /\ \A n : /\ [log EXCEPT !.lines = n].status = log.status
                   /\ [log EXCEPT !.lines = n].due = log.due
         /\ \A s, n : /\ [log EXCEPT !.status = s, !.lines = n].status = s
                      /\ [log EXCEPT !.status = s, !.lines = n].due = log.due
         /\ \A s, n, k :
              /\ [log EXCEPT !.status = s, !.sum = n, !.lines = k].status = s
              /\ [log EXCEPT !.status = s, !.sum = n, !.lines = k].due = log.due
BY DEF TypeOK, JobLog

LEMMA OtherFields ==
  ASSUME TypeOK, NEW s
  PROVE  /\ [file EXCEPT !.there = s].there = s
         /\ [file EXCEPT !.lines = s].there = file.there
         /\ [job EXCEPT !.ended = TRUE, !.cancelled = s].old = job.old
         /\ [job EXCEPT !.ended = TRUE, !.cancelled = s].purged = job.purged
         /\ [job EXCEPT !.ended = s].old = job.old /\ [job EXCEPT !.ended = s].purged = job.purged
         /\ [job EXCEPT !.old = s].old = s /\ [job EXCEPT !.old = s].purged = job.purged
         /\ [job EXCEPT !.purged = s].old = job.old /\ [job EXCEPT !.purged = s].purged = s
BY DEF TypeOK, LogFile, JobRow

-----------------------------------------------------------------------------
(* The inductive invariant. *)

\* While a registration is under way its row is pending; a published row has
\* no registration left.
Registering ==
  /\ register \in {"copying", "placed"} =>
       /\ At(Author, "handle") /\ artifact.status = "pending"
       /\ register = "placed" => object
  /\ "available" \in {artifact.status, artifact.was} => register = "idle"
  /\ artifact.status = "none" => artifact.was = "none"

\* What has come of age: the registration is over, the log is left alone by the
\* attempt and by recovery.
OfAge ==
  /\ artifact.due => register = "idle" /\ artifact.status \in {"available", "expiring", "expired"}
  /\ log.due => /\ Left /\ log.status \in {"sealed", "expiring", "expired"}
                /\ \A p \in Process : process[p].at \notin Touching
  /\ job.old => Left

\* What a sweeper knows of the evidence it is removing.
Removing(c) ==
  /\ sweep[c].purge /\ sweep[c].at # "idle" => Left
  /\ sweep[c].at \in {"check", "delete"} => sweep[c].purge
  /\ sweep[c].at \in {"unlink", "settle"} => artifact.due
  /\ sweep[c].at \in {"unlinkLog", "settleLog"} => log.due
  /\ sweep[c].at = "settle" /\ sweep[c].gone => ~object
  /\ sweep[c].at = "settleLog" /\ sweep[c].gone => ~file.there
  /\ sweep[c].at = "delete" => /\ artifact.status \in {"none", "expired"}
                               /\ log.status \in {"none", "expired"}

\* What the author knows when it cleans up: an artifact of age may be taken from
\* it by a sweep, any other is its own.
Cleaning ==
  /\ artifact.status = "expiring" =>
       artifact.due \/ process[Author].at \in {"unlink", "unlinked", "kept", "gone"}
  /\ process[Author].at \in {"unlink", "unlinked", "kept"} =>
       IF artifact.due THEN artifact.was \in {"available", "expiring"}
       ELSE artifact.status = "expiring" /\ artifact.was # "expiring"
  /\ process[Author].at \in {"unlink", "kept"} /\ artifact.was = "available" /\ ~artifact.due
       => object \/ unproved
  /\ At(Author, "unlinked") => ~object \/ stray

\* The promises, with what makes them last.
Gone ==
  /\ artifact.status = "available" /\ ~artifact.due => object \/ unproved
  /\ artifact.status = "expired" => ~object \/ stray
  /\ log.status = "expired" => ~file.there /\ log.due
  /\ job.purged => /\ Left
                   /\ artifact.status \in {"none", "expired"}
                   /\ log.status \in {"none", "expired"}

IInv ==
  /\ TypeOK /\ Registering /\ OfAge /\ (\A c \in Sweeper : Removing(c)) /\ Cleaning /\ Gone

LEMMA InvInit == Init => IInv
<1> SUFFICES ASSUME Init PROVE IInv  OBVIOUS
<1>1. TypeOK  BY InitType
<1>2. \A c \in Sweeper : Removing(c)  BY DEF Init, Removing
<1>3. process[Author].at = "create"  BY DEF Init
<1> QED  BY <1>1, <1>2, <1>3 DEF Init, IInv, Registering, OfAge, Cleaning, Gone, At

\* While the attempt is at it, only its artifact can have come of age, and no
\* sweep deletes the job or its log.
LEMMA Early ==
  ASSUME IInv, ~Left
  PROVE  /\ ~log.due /\ ~job.old /\ ~job.purged /\ log.status # "expired"
         /\ \A c \in Sweeper :
              /\ sweep[c].purge => sweep[c].at = "idle"
              /\ sweep[c].at \notin {"check", "delete", "unlinkLog", "settleLog"}
BY DEF IInv, OfAge, Removing, Gone

LEMMA StillEarly ==
  ASSUME IInv, ~Left, TypeOK', UNCHANGED sweep,
         artifact.due => artifact'.due, object' => object \/ ~artifact.due,
         ~log'.due, ~job'.old, ~job'.purged, log'.status # "expired",
         artifact'.due => /\ register' = "idle"
                          /\ artifact'.status \in {"available", "expiring", "expired"},
         Registering', Cleaning',
         artifact'.status = "available" /\ ~artifact'.due => object' \/ unproved',
         artifact'.status = "expired" => ~object' \/ stray'
  PROVE  IInv'
<1>1. \A c \in Sweeper : Removing(c)'  BY Early DEF IInv, Removing
<1>2. OfAge' /\ Gone'  BY DEF OfAge, Gone
<1> QED  BY <1>1, <1>2 DEF IInv

LEMMA InvAuthor == ASSUME IInv, AuthorStep PROVE IInv'
<1> USE MovesOne, ArtifactFields, LogFields, OtherFields
    DEF history, evidence, Registering, OfAge, Removing, Cleaning, Gone, At, Left
<1>0. TypeOK /\ TypeOK'  BY AuthorType DEF IInv
<1>1. CASE CreateFile  BY <1>0, <1>1 DEF CreateFile, IInv
<1>2. CASE InsertLog
  <2>1. ~Left  BY <1>2 DEF InsertLog
  <2>2. log'.due = log.due /\ log'.status \in {log.status, "open"}
    <3>1. CASE log' = [log EXCEPT !.status = "open"]  BY <1>0, <3>1 DEF TypeOK, JobLog
    <3> QED  BY <1>2, <3>1 DEF InsertLog
  <2>3. \A q \in Process : process'[q].at = IF q = Author THEN "handle" ELSE process[q].at
    BY <1>0, <1>2 DEF InsertLog
  <2> QED  BY <1>0, <1>2, <2>1, <2>2, <2>3, Early, StillEarly DEF InsertLog, IInv
<1>3. CASE WriteLine  BY <1>0, <1>3 DEF WriteLine, IInv
<1>4. CASE Return  BY <1>0, <1>4 DEF Return, IInv
<1>5. CASE Unwind  BY <1>0, <1>5 DEF Unwind, IInv
<1>6. CASE EndAttempt
  <2>1. ~Left  BY <1>6 DEF EndAttempt
  <2>2. job'.old = job.old /\ job'.purged = job.purged
    <3>1. CASE UNCHANGED job  BY <3>1
    <3>2. CASE \E c \in BOOLEAN : job' = [job EXCEPT !.ended = TRUE, !.cancelled = c]
      BY <1>0, <3>2
    <3> QED  BY <1>6, <3>1, <3>2 DEF EndAttempt
  <2>3. process'[Author].at \in {"clean", "close"}
    <3> DEFINE s == IF log.status = "none" THEN "clean" ELSE "close"
    <3>1. Leave(Author) \/ Goto(Author, "close") \/ Goto(Author, s)  BY <1>6 DEF EndAttempt
    <3>2. s \in {"clean", "close"}  OBVIOUS
    <3> HIDE DEF s
    <3> QED  BY <1>0, <3>1, <3>2
  <2> QED  BY <1>0, <1>6, <2>1, <2>2, <2>3, Early, StillEarly DEF EndAttempt, IInv
<1>7. CASE CloseCapture
  <2>1. ~Left  BY <1>7 DEF CloseCapture
  <2>2. log'.due = log.due /\ log'.status \in {log.status, "failed"}
    <3>1. CASE log' = [log EXCEPT !.lines = process[Author].lines]
      BY <1>0, <3>1 DEF TypeOK, JobLog
    <3>2. CASE log' = [log EXCEPT !.status = "failed", !.lines = process[Author].lines]
      BY <1>0, <3>2 DEF TypeOK, JobLog
    <3> QED  BY <1>7, <3>1, <3>2 DEF CloseCapture
  <2>3. process'[Author].at \in {"clean", "pack"}  BY <1>0, <1>7 DEF CloseCapture
  <2> QED  BY <1>0, <1>7, <2>1, <2>2, <2>3, Early, StillEarly DEF CloseCapture, IInv
<1>8. CASE Reserve  BY <1>0, <1>8 DEF Reserve, IInv
<1>9. CASE Place  BY <1>0, <1>9 DEF Place, IInv
<1>10. CASE PublishArtifact  BY <1>0, <1>10 DEF PublishArtifact, IInv
<1>11. CASE RegisterFails  BY <1>0, <1>11 DEF RegisterFails, IInv
<1>12. CASE PlaceAdrift
  <2>1. stray' \in BOOLEAN /\ object' \in BOOLEAN /\ (object => object')
        /\ (stray => stray')
        /\ (object' # object => stray' \/ artifact.status \notin {"expiring", "expired"})
    BY <1>0, <1>12 DEF PlaceAdrift, TypeOK
  <2>2. ~artifact.due  BY <1>12 DEF PlaceAdrift, IInv
  <2> QED  BY <1>0, <1>12, <2>1, <2>2 DEF PlaceAdrift, IInv
<1>13. CASE Clean
  <2>1. ~Left /\ At(Author, "clean")  BY <1>13 DEF Clean
  <2>2. CASE UNCHANGED artifact /\ Goto(Author, "done")
    <3>1. process'[Author].at = "done"  BY <1>0, <2>2
    <3>2. artifact.status = "expiring" => artifact.due  BY <2>1 DEF IInv
    <3>3. Cleaning'  BY <2>2, <3>1, <3>2
    <3>4. Registering'  BY <1>13, <2>1, <2>2 DEF Clean, IInv
    <3> HIDE DEF Left, Registering, Cleaning, Removing
    <3> QED  BY <1>0, <1>13, <2>1, <2>2, <3>3, <3>4, Early, StillEarly DEF Clean, IInv
  <2>3. CASE /\ artifact' = [artifact EXCEPT !.status = "expiring", !.was = artifact.status]
             /\ artifact.status \in {"pending", "available", "failed", "expiring"}
             /\ Goto(Author, "unlink")
    <3>1. /\ artifact'.status = "expiring" /\ artifact'.was = artifact.status
          /\ artifact'.due = artifact.due
      BY <1>0, <2>3 DEF TypeOK, JobArtifact
    <3>2. process'[Author].at = "unlink"  BY <1>0, <2>3
    <3>3. Cleaning'  BY <1>13, <2>1, <2>3, <3>1, <3>2 DEF Clean, IInv
    <3>4. Registering'  BY <1>13, <2>1, <2>3, <3>1, <3>2 DEF Clean, IInv
    <3> HIDE DEF Left, Registering, Cleaning, Removing
    <3> QED  BY <1>0, <1>13, <2>1, <3>1, <3>3, <3>4, Early, StillEarly DEF Clean, IInv
  <2> QED  BY <1>13, <2>2, <2>3 DEF Clean
<1>14. CASE CleanUnlink  BY <1>0, <1>14 DEF CleanUnlink, IInv
<1>15. CASE CleanSettle
  <2> DEFINE s == IF At(Author, "unlinked") THEN "expired"
                  ELSE IF artifact.was = "expiring" THEN "available" ELSE artifact.was
  <2>1. ~Left /\ process[Author].at \in {"unlinked", "kept"}  BY <1>15 DEF CleanSettle
  <2>2. s # "expiring" /\ (s = "expired" => ~object \/ stray)
        /\ (s = "available" => register = "idle" /\ (artifact.due \/ object \/ unproved))
        /\ (artifact.due => s \in {"available", "expired"})
    <3>1. artifact.was # "expired"  BY <1>0 DEF TypeOK, JobArtifact
    <3> QED  BY <2>1, <3>1 DEF IInv
  <2>3. register \notin {"copying", "placed"}  BY <2>1 DEF IInv
  <2>4. process'[Author].at = "done"  BY <1>0, <1>15 DEF CleanSettle
  <2>5. artifact' = [artifact EXCEPT !.status = s, !.was = "none"]  BY <1>15 DEF CleanSettle
  <2> HIDE DEF s
  <2>6. artifact'.status = s /\ artifact'.due = artifact.due /\ artifact'.was = "none"
    BY <1>0, <2>5 DEF TypeOK, JobArtifact
  <2>7. Cleaning' /\ Registering'  BY <1>15, <2>2, <2>3, <2>4, <2>6 DEF CleanSettle
  <2>8. artifact.due => register = "idle"  BY DEF IInv
  <2> HIDE DEF Left, Registering, Cleaning, Removing
  <2> QED  BY <1>0, <1>15, <2>1, <2>2, <2>6, <2>7, <2>8, Early, StillEarly DEF CleanSettle
<1> QED
  BY <1>1, <1>2, <1>3, <1>4, <1>5, <1>6, <1>7, <1>8, <1>9, <1>10, <1>11, <1>12, <1>13, <1>14, <1>15
  DEF AuthorStep

\* Sealing by the author: the attempt is still at it.
LEMMA AuthorSeals ==
  ASSUME IInv, TypeOK', ~Left, UNCHANGED <<artifact, object, sweep, stray, unproved>>,
         process[Author].at \in {"unlink", "unlinked", "kept"} => process'[Author].at = "gone",
         process'[Author].at \in {"pack", "copy", "replace", "digest", "record", "clean", "gone"},
         register' \notin {"copying", "placed"}, register' \in {register, "idle"},
         job'.old = job.old, job'.purged = job.purged,
         log'.due = log.due, log'.status = "expired" => log.status = "expired"
  PROVE  IInv'
<1>1. Registering' /\ Cleaning'  BY DEF IInv, Registering, Cleaning, At, Left
<1> QED  BY <1>1, Early, StillEarly DEF IInv, OfAge, Gone

\* Recovery: evidence that is of age, or gone, is left alone.
LEMMA StarterSeals ==
  ASSUME IInv, TypeOK', process'[Author].at = process[Author].at,
         UNCHANGED <<register, artifact, object, sweep, stray, unproved>>,
         job'.old = job.old, job'.purged = job.purged, log'.due = log.due,
         log.due \/ log.status \in {"none", "expired"} => UNCHANGED log,
         log'.status = "expired" => log.status = "expired",
         log.due =>
           /\ file'.there = file.there
           /\ \A q \in Process : process'[q].at \notin Touching
  PROVE  IInv'
<1> USE DEF At, Left
<1>1. Registering' /\ Cleaning'  BY DEF IInv, Registering, Cleaning
<1>2. OfAge' /\ Gone'  BY DEF IInv, OfAge, Gone
<1>3. \A c \in Sweeper : Removing(c)'  BY DEF IInv, Removing
<1> QED  BY <1>1, <1>2, <1>3 DEF IInv

\* The fields that sealing and recovery may change.
LEMMA SealFields ==
  ASSUME TypeOK, NEW p \in Process, SealStep(p)
  PROVE  /\ job'.old = job.old /\ job'.purged = job.purged
         /\ log'.due = log.due
         /\ log'.status = "expired" => log.status = "expired"
<1>1. job'.old = job.old /\ job'.purged = job.purged
  <2>1. CASE UNCHANGED job  BY <2>1
  <2>2. CASE job' = [job EXCEPT !.ended = TRUE]  BY <2>2 DEF TypeOK, JobRow
  <2> QED
    BY <2>1, <2>2
    DEF SealStep, Reconcile, ClaimLog, Inspect, Pack, Copy, Replace, Digest, Record, SealFails, Crash
<1>2. log'.due = log.due /\ (log'.status = "expired" => log.status = "expired")
  <2>1. CASE UNCHANGED log  BY <2>1
  <2>2. CASE log' = [log EXCEPT !.status = "recovering"]  BY <2>2 DEF TypeOK, JobLog
  <2>3. CASE log' = [log EXCEPT !.status = "failed"]  BY <2>3 DEF TypeOK, JobLog
  <2>4. CASE Record(p)
    <3> DEFINE n == IF p = Author THEN log.lines ELSE process[p].lines
    <3>1. CASE log' = [log EXCEPT !.status = "sealed", !.sum = process[p].copy, !.lines = n]
      <4> HIDE DEF n
      <4> QED  BY <3>1 DEF TypeOK, JobLog
    <3> QED  BY <2>4, <2>1, <3>1 DEF Record
  <2> QED
    BY <2>1, <2>2, <2>3, <2>4
    DEF SealStep, Reconcile, ClaimLog, Inspect, Pack, Copy, Replace, Digest, SealFails, Crash
<1> QED  BY <1>1, <1>2

\* Where the process goes: only from a log that is open to sealing it gets
\* to one of the steps that touch the file.
LEMMA SealMoves ==
  ASSUME TypeOK, NEW p \in Process, SealStep(p)
  PROVE  /\ \A q \in Process : q # p => process'[q].at = process[q].at
         /\ process'[p].at \in Touching =>
              process[p].at \in Touching \/ log.status \in {"open", "failed", "recovering"}
         /\ p = Author =>
              process'[p].at \in {"pack", "copy", "replace", "digest", "record", "clean", "gone"}
<1> USE DEF Touching, At
<1>0. process[p] \in Program /\ process \in [Process -> Program]  BY RowsOf DEF TypeOK
<1>1. CASE Leave(p)  BY <1>0, <1>1, MovesOne
<1>2. ASSUME NEW at, Goto(p, at)
      PROVE  /\ \A q \in Process : q # p => process'[q].at = process[q].at
             /\ process'[p].at = at
  BY <1>2, MovesOne
<1>3. CASE Reconcile(p)
  <2>1. Goto(p, "claim") /\ p # Author  BY <1>3 DEF Reconcile, Starter
  <2> QED  BY <1>2, <2>1
<1>4. CASE ClaimLog(p)
  <2>1. CASE Goto(p, "inspect") /\ log.status \in {"open", "failed", "recovering"}
    <3>1. p # Author  BY <1>4 DEF ClaimLog, Starter
    <3> QED  BY <1>2, <2>1, <3>1
  <2> QED  BY <1>1, <1>4, <2>1 DEF ClaimLog
<1>5. CASE Inspect(p)
  <2>1. CASE process' = [process EXCEPT ![p].at = "pack", ![p].lines = file.lines]
    BY <1>0, <1>5, <2>1 DEF Inspect, Program
  <2> QED  BY <1>1, <1>5, <2>1 DEF Inspect
<1>6. CASE Pack(p) \/ Copy(p)
  <2>1. CASE process' = [process EXCEPT ![p].at = "record", ![p].copy = file.lines]
    BY <1>0, <1>6, <2>1 DEF Pack, Copy, Program
  <2>2. CASE Goto(p, "copy")  BY <1>2, <1>6, <2>2 DEF Pack, Copy
  <2>3. CASE process' = [process EXCEPT ![p].at = "replace", ![p].copy = file.lines,
                                        ![p].again = file.packed]
    BY <1>0, <1>6, <2>3 DEF Pack, Copy, Program
  <2> QED  BY <1>6, <2>1, <2>2, <2>3 DEF Pack, Copy
<1>7. CASE Replace(p)
  <2>1. Goto(p, "digest")  BY <1>7 DEF Replace
  <2> QED  BY <1>2, <1>7, <2>1 DEF Replace
<1>8. CASE Digest(p)
  BY <1>0, <1>8 DEF Digest, Program
<1>9. CASE Record(p) \/ SealFails(p)  BY <1>1, <1>9 DEF Record, SealFails
<1>10. CASE Crash(p)  BY <1>0, <1>10 DEF Crash, Program
<1> QED  BY <1>3, <1>4, <1>5, <1>6, <1>7, <1>8, <1>9, <1>10 DEF SealStep

\* The author seals after its handler and before it cleans up.
LEMMA AuthorWhere ==
  ASSUME TypeOK, SealStep(Author)
  PROVE  ~Left
BY DEF SealStep, Reconcile, ClaimLog, Inspect, Pack, Copy, Replace, Digest, Record, SealFails, Crash,
       At, Left, Starter, Touching

LEMMA InvSeal == ASSUME IInv, NEW p \in Process, SealStep(p) PROVE IInv'
<1>1. TypeOK /\ TypeOK'  BY SealType DEF IInv
<1>2. UNCHANGED <<artifact, object, sweep, stray, unproved>>
  BY DEF SealStep, Reconcile, ClaimLog, Inspect, Pack, Copy, Replace, Digest, Record, SealFails, Crash,
         evidence, history
<1>3. CASE p = Author
  <2>1. ~Left  BY <1>1, <1>3, AuthorWhere
  <2>2. process[Author].at \in {"unlink", "unlinked", "kept"} => process'[Author].at = "gone"
    <3>1. CASE Crash(p)  BY <1>1, <1>3, <3>1 DEF Crash, TypeOK
    <3>2. CASE ~Crash(p)
      BY <1>3, <3>2
      DEF SealStep, Reconcile, ClaimLog, Inspect, Pack, Copy, Replace, Digest, Record, SealFails,
          At, Starter, Touching
    <3> QED  BY <3>1, <3>2
  <2>3. register' \notin {"copying", "placed"} /\ register' \in {register, "idle"}
    BY <1>3
    DEF SealStep, Reconcile, ClaimLog, Inspect, Pack, Copy, Replace, Digest, Record, SealFails, Crash,
        At, Starter, Touching, evidence, IInv, Registering
  <2> QED  BY <1>1, <1>2, <1>3, <2>1, <2>2, <2>3, SealFields, SealMoves, AuthorSeals
<1>4. CASE p # Author
  <2>1. process'[Author].at = process[Author].at  BY <1>1, <1>4, SealMoves
  <2>2. UNCHANGED register
    BY <1>4
    DEF SealStep, Reconcile, ClaimLog, Inspect, Pack, Copy, Replace, Digest, Record, SealFails, Crash,
        evidence
  <2>3. log.due \/ log.status \in {"none", "expired"} =>
          log.status \notin {"open", "failed", "recovering"}
    BY DEF IInv, OfAge
  <2>4. log.due \/ log.status \in {"none", "expired"} => UNCHANGED log
    BY <1>4, <2>3
    DEF SealStep, Reconcile, ClaimLog, Inspect, Pack, Copy, Replace, Digest, Record, SealFails, Crash
  <2>5. log.due => \A q \in Process : process'[q].at \notin Touching
    BY <1>1, <2>3, SealMoves DEF IInv, OfAge, Touching
  <2>6. log.due => UNCHANGED file
    BY DEF SealStep, Reconcile, ClaimLog, Inspect, Pack, Copy, Replace, Digest, Record, SealFails, Crash,
           At, IInv, OfAge, Touching
  <2> QED
    BY <1>1, <1>2, <2>1, <2>2, <2>4, <2>5, <2>6, SealFields, StarterSeals DEF Touching
<1> QED  BY <1>3, <1>4

-----------------------------------------------------------------------------

\* A sweeper changes what is of age, once its file is gone for good.
LEMMA SweepKeeps ==
  ASSUME IInv, TypeOK', NEW c \in Sweeper,
         UNCHANGED <<process, register, stray, unproved>>,
         artifact'.due = artifact.due, artifact'.was = artifact.was,
         log'.due = log.due, job'.old = job.old,
         object' # object => ~object' /\ artifact.due,
         file'.there # file.there => ~file'.there /\ log.due,
         artifact'.status # artifact.status =>
           /\ artifact.due /\ artifact.status \notin {"none", "expired"}
           /\ artifact'.status \in {"available", "expiring", "expired"}
           /\ artifact'.status = "expired" => ~object',
         log'.status # log.status =>
           /\ log.due /\ log.status \notin {"none", "expired"}
           /\ log'.status \in {"sealed", "expiring", "expired"}
           /\ log'.status = "expired" => ~file'.there,
         job'.purged => \/ job.purged
                        \/ /\ Left
                           /\ artifact.status \in {"none", "expired"}
                           /\ log.status \in {"none", "expired"},
         \A d \in Sweeper : d # c => sweep'[d] = sweep[d],
         Removing(c)'
  PROVE  IInv'
<1> USE DEF At, Left
<1>1. Registering'  BY DEF IInv, Registering, OfAge
<1>2. OfAge'  BY DEF IInv, OfAge
<1>3. \A d \in Sweeper : Removing(d)'  BY DEF IInv, Removing
<1>4. Cleaning'  BY DEF IInv, Cleaning, OfAge
<1>5. Gone'  BY DEF IInv, Gone
<1> QED  BY <1>1, <1>2, <1>3, <1>4, <1>5 DEF IInv

\* Where the sweeper goes, and what the others know of theirs.
LEMMA SweepMoves ==
  ASSUME TypeOK, NEW c \in Sweeper, NEW at, Sweeps(c, at)
  PROVE  /\ \A d \in Sweeper : d # c => sweep'[d] = sweep[d]
         /\ sweep'[c].at = at /\ sweep'[c].gone = FALSE /\ sweep'[c].purge = sweep[c].purge
<1>1. sweep \in [Sweeper -> SweepProgram]  BY DEF TypeOK
<1>2. \A d \in Sweeper : sweep[d] \in SweepProgram  BY RowsOf
<1> QED  BY <1>1, <1>2 DEF Sweeps, SweepProgram

LEMMA InvSweep == ASSUME IInv, NEW c \in Sweeper, SweepStep(c) PROVE IInv'
<1> DEFINE Others == \A d \in Sweeper : d # c => sweep'[d] = sweep[d]
<1> USE DEF history, evidence, Removing
<1>1. TypeOK /\ TypeOK'  BY SweepType DEF IInv
<1>2. Removing(c)  BY DEF IInv
<1>3. UNCHANGED <<process, register, stray, unproved>>
  BY DEF SweepStep, Begin, ClaimExpired, Unlink, Settle, ClaimSealed, UnlinkLog, SettleLog,
         CheckBlockers, DeleteJob, SweepDies
<1>4. Left' = Left  BY <1>3 DEF Left, At
<1>5. CASE Begin(c)
  <2>1. PICK b \in BOOLEAN :
          /\ sweep' = [sweep EXCEPT ![c] = [at |-> "artifact", purge |-> b, gone |-> FALSE]]
          /\ b => Purgeable
    BY <1>5 DEF Begin
  <2>2. sweep'[c].at = "artifact" /\ (sweep'[c].purge <=> b) /\ Others
    BY <1>1, <2>1 DEF TypeOK
  <2>3. sweep'[c].purge => Left  BY <2>1, <2>2 DEF Purgeable, IInv, OfAge
  <2> QED  BY <1>1, <1>2, <1>3, <1>4, <1>5, <2>2, <2>3, SweepKeeps DEF Begin
<1>6. CASE ClaimExpired(c)
  <2>1. CASE artifact' = [artifact EXCEPT !.status = "expiring"] /\ Sweeps(c, "unlink")
             /\ artifact.status = "available" /\ artifact.due
    <3>1. /\ artifact'.status = "expiring" /\ artifact'.due = artifact.due
          /\ artifact'.was = artifact.was
      BY <1>1, <2>1 DEF TypeOK, JobArtifact
    <3>2. sweep'[c].at = "unlink" /\ sweep'[c].purge = sweep[c].purge /\ Others
      BY <1>1, <2>1, SweepMoves
    <3> QED  BY <1>1, <1>2, <1>3, <1>4, <1>6, <2>1, <3>1, <3>2, SweepKeeps DEF ClaimExpired
  <2>2. CASE UNCHANGED artifact /\ Sweeps(c, "log")
    <3>1. sweep'[c].at = "log" /\ sweep'[c].purge = sweep[c].purge /\ Others
      BY <1>1, <2>2, SweepMoves
    <3> QED  BY <1>1, <1>2, <1>3, <1>4, <1>6, <2>2, <3>1, SweepKeeps DEF ClaimExpired
  <2> QED  BY <1>6, <2>1, <2>2 DEF ClaimExpired
<1>7. CASE Unlink(c)
  <2>1. PICK gone \in BOOLEAN :
          /\ sweep' = [sweep EXCEPT ![c].at = "settle", ![c].gone = gone]
          /\ IF gone THEN ~object' ELSE UNCHANGED object
    BY <1>7 DEF Unlink
  <2>2. /\ sweep'[c].at = "settle" /\ (sweep'[c].gone <=> gone)
        /\ sweep'[c].purge = sweep[c].purge
        /\ Others
    <3>1. \A d \in Sweeper : sweep[d] \in SweepProgram  BY <1>1, RowsOf
    <3> QED  BY <1>1, <2>1, <3>1 DEF TypeOK, SweepProgram
  <2>3. artifact.due  BY <1>2, <1>7 DEF Unlink
  <2> QED
    BY <1>1, <1>2, <1>3, <1>4, <1>7, <2>1, <2>2, <2>3, SweepKeeps DEF Unlink, TypeOK
<1>8. CASE Settle(c)
  <2>1. sweep'[c].at = "log" /\ sweep'[c].purge = sweep[c].purge /\ Others
    BY <1>1, <1>8, SweepMoves DEF Settle
  <2>2. artifact.due /\ (sweep[c].gone => ~object)  BY <1>2, <1>8 DEF Settle
  <2>3. /\ artifact'.due = artifact.due /\ artifact'.was = artifact.was
        /\ artifact'.status # artifact.status =>
             /\ artifact.status = "expiring"
             /\ artifact'.status \in {"available", "expired"}
             /\ artifact'.status = "expired" => sweep[c].gone
    <3>1. CASE UNCHANGED artifact  BY <3>1
    <3>2. CASE artifact' = [artifact EXCEPT !.status = "expired"] /\ sweep[c].gone
               /\ artifact.status = "expiring"
      BY <1>1, <3>2 DEF TypeOK, JobArtifact
    <3>3. CASE artifact' = [artifact EXCEPT !.status = "available"]
               /\ artifact.status = "expiring"
      BY <1>1, <3>3 DEF TypeOK, JobArtifact
    <3> QED  BY <1>8, <3>1, <3>2, <3>3 DEF Settle
  <2> QED  BY <1>1, <1>2, <1>3, <1>4, <1>8, <2>1, <2>2, <2>3, SweepKeeps DEF Settle
<1>9. CASE ClaimSealed(c)
  <2>1. CASE log' = [log EXCEPT !.status = "expiring"] /\ Sweeps(c, "unlinkLog")
             /\ log.status = "sealed" /\ log.due
    <3>1. log'.status = "expiring" /\ log'.due = log.due
      BY <1>1, <2>1 DEF TypeOK, JobLog
    <3>2. sweep'[c].at = "unlinkLog" /\ sweep'[c].purge = sweep[c].purge /\ Others
      BY <1>1, <2>1, SweepMoves
    <3> QED  BY <1>1, <1>2, <1>3, <1>4, <1>9, <2>1, <3>1, <3>2, SweepKeeps DEF ClaimSealed
  <2>2. CASE UNCHANGED log /\ Sweeps(c, Onward(c))
    <3>1. Onward(c) = "idle" \/ (Onward(c) = "check" /\ sweep[c].purge)  BY DEF Onward
    <3>2. /\ sweep'[c].at = "idle" \/ (sweep'[c].at = "check" /\ sweep'[c].purge)
        /\ sweep'[c].purge = sweep[c].purge
        /\ Others
      BY <1>1, <2>2, <3>1, SweepMoves
    <3> QED  BY <1>1, <1>2, <1>3, <1>4, <1>9, <2>2, <3>2, SweepKeeps DEF ClaimSealed
  <2> QED  BY <1>9, <2>1, <2>2 DEF ClaimSealed
<1>10. CASE UnlinkLog(c)
  <2>1. PICK gone \in BOOLEAN :
          /\ sweep' = [sweep EXCEPT ![c].at = "settleLog", ![c].gone = gone]
          /\ IF gone THEN file' = [file EXCEPT !.there = FALSE] ELSE UNCHANGED file
    BY <1>10 DEF UnlinkLog
  <2>2. /\ sweep'[c].at = "settleLog" /\ (sweep'[c].gone <=> gone)
        /\ sweep'[c].purge = sweep[c].purge
        /\ Others
    <3>1. \A d \in Sweeper : sweep[d] \in SweepProgram  BY <1>1, RowsOf
    <3> QED  BY <1>1, <2>1, <3>1 DEF TypeOK, SweepProgram
  <2>3. log.due  BY <1>2, <1>10 DEF UnlinkLog
  <2>4. IF gone THEN ~file'.there ELSE UNCHANGED file  BY <1>1, <2>1 DEF TypeOK, LogFile
  <2> QED
    BY <1>1, <1>2, <1>3, <1>4, <1>10, <2>2, <2>3, <2>4, SweepKeeps DEF UnlinkLog
<1>11. CASE SettleLog(c)
  <2>1. /\ sweep'[c].at = "idle" \/ (sweep'[c].at = "check" /\ sweep'[c].purge)
        /\ sweep'[c].purge = sweep[c].purge
        /\ Others
    <3>1. Onward(c) = "idle" \/ (Onward(c) = "check" /\ sweep[c].purge)  BY DEF Onward
    <3> QED  BY <1>1, <1>11, <3>1, SweepMoves DEF SettleLog
  <2>2. log.due /\ (sweep[c].gone => ~file.there)  BY <1>2, <1>11 DEF SettleLog
  <2>3. /\ log'.due = log.due
        /\ log'.status # log.status =>
             /\ log.status = "expiring"
             /\ log'.status \in {"sealed", "expired"}
             /\ log'.status = "expired" => sweep[c].gone
    <3>1. CASE UNCHANGED log  BY <3>1
    <3>2. CASE log' = [log EXCEPT !.status = "expired"] /\ sweep[c].gone
               /\ log.status = "expiring"
      BY <1>1, <3>2 DEF TypeOK, JobLog
    <3>3. CASE log' = [log EXCEPT !.status = "sealed"] /\ log.status = "expiring"
      BY <1>1, <3>3 DEF TypeOK, JobLog
    <3> QED  BY <1>11, <3>1, <3>2, <3>3 DEF SettleLog
  <2> QED  BY <1>1, <1>2, <1>3, <1>4, <1>11, <2>1, <2>2, <2>3, SweepKeeps DEF SettleLog
<1>12. CASE CheckBlockers(c)
  <2>1. /\ sweep'[c].at = IF Blocked THEN "idle" ELSE "delete"
        /\ sweep'[c].purge = sweep[c].purge
        /\ Others
    BY <1>1, <1>12, SweepMoves DEF CheckBlockers
  <2>2. sweep[c].purge /\ Left  BY <1>2, <1>12 DEF CheckBlockers
  <2>3. Removing(c)'  BY <1>4, <1>12, <2>1, <2>2 DEF CheckBlockers, Blocked
  <2> QED  BY <1>1, <1>2, <1>3, <1>12, <2>1, <2>3, SweepKeeps DEF CheckBlockers
<1>13. CASE DeleteJob(c) \/ SweepDies(c)
  <2>1. sweep'[c].at = "idle" /\ Others
    BY <1>1, <1>13, SweepMoves DEF DeleteJob, SweepDies
  <2>2. job'.old = job.old
    BY <1>1, <1>13 DEF DeleteJob, SweepDies, TypeOK, JobRow
  <2>3. job'.purged => job.purged \/ sweep[c].at = "delete"
    BY <1>13 DEF DeleteJob, SweepDies
  <2> QED
    BY <1>1, <1>2, <1>3, <1>4, <1>13, <2>1, <2>2, <2>3, SweepKeeps DEF DeleteJob, SweepDies
<1> QED
  BY <1>5, <1>6, <1>7, <1>8, <1>9, <1>10, <1>11, <1>12, <1>13 DEF SweepStep

LEMMA InvTime == ASSUME IInv, TimePasses PROVE IInv'
<1> USE DEF history, evidence, At, Left, Registering, OfAge, Removing, Cleaning, Gone
<1>1. TypeOK /\ TypeOK'  BY NextType DEF IInv, Next
<1>2. \A p \in Process : process[p].at \notin Touching
  BY <1>1 DEF TimePasses, Starter, Touching
<1>3. CASE log' = [log EXCEPT !.due = TRUE] /\ log.status = "sealed" /\ UNCHANGED job
  <2>1. log'.due /\ log'.status = log.status  BY <1>1, <1>3 DEF TypeOK, JobLog
  <2> QED  BY <1>1, <1>2, <1>3, <2>1 DEF TimePasses, IInv, Touching
<1>4. CASE job' = [job EXCEPT !.old = TRUE] /\ UNCHANGED log
  <2>1. job'.purged = job.purged  BY <1>1, <1>4 DEF TypeOK, JobRow
  <2> QED  BY <1>1, <1>4, <2>1 DEF TimePasses, IInv
<1> QED  BY <1>3, <1>4 DEF TimePasses

\* An artifact that comes of age was published: its registration is over.
LEMMA InvForward == ASSUME IInv, BringForward PROVE IInv'
<1> USE DEF history, evidence, At, Left, Registering, OfAge, Cleaning, Gone
<1>1. TypeOK /\ TypeOK'  BY NextType DEF IInv, Next
<1>2. artifact'.due /\ artifact'.status = artifact.status /\ artifact'.was = artifact.was
  BY <1>1 DEF BringForward, TypeOK, JobArtifact
<1>3. \A c \in Sweeper : Removing(c)'  BY <1>2 DEF BringForward, IInv, Removing
<1>4. Registering' /\ OfAge' /\ Cleaning' /\ Gone'  BY <1>2 DEF BringForward, IInv
<1> QED  BY <1>1, <1>3, <1>4 DEF IInv

LEMMA InvNext == ASSUME IInv, [Next]_vars PROVE IInv'
<1>1. CASE UNCHANGED vars
  BY <1>1 DEF vars, IInv, TypeOK, Registering, OfAge, Removing, Cleaning, Gone, At, Left
<1> QED  BY <1>1, InvAuthor, InvSeal, InvSweep, InvTime, InvForward DEF Next

\* A download that a row allows finds its file, in whatever order attempt,
\* clean-up and sweeps run and whatever fails, but for a clean-up that could not
\* prove its own removal (register_physical_artifact,
\* expire_artifacts, expire_attempt_artifacts).
THEOREM ServedHasItsFile == Spec => []AvailableIsServed
<1>1. IInv => AvailableIsServed  BY DEF IInv, Gone, AvailableIsServed
<1> QED  BY <1>1, InvInit, InvNext, PTL DEF Spec

\* A row that is expired or deleted has left nothing on the disk
\* (expire_artifacts, expire_logs, execute_job_retention_purge).
THEOREM RemovedForGood == Spec => []RemovedIsGone
<1>1. IInv => RemovedIsGone  BY DEF IInv, Gone, RemovedIsGone
<1> QED  BY <1>1, InvInit, InvNext, PTL DEF Spec

-----------------------------------------------------------------------------
(* What sealing keeps of the log. *)

\* Where the author may still write, and where a process works on the file.
Attempting == {"create", "insert", "handle", "end", "close"}
Sealing    == {"pack", "copy", "replace", "digest", "record"}

\* A row that is not of age has its file, and a sealed one a packed file.
OnFile ==
  /\ At(Author, "insert") => file.there
  /\ process[Author].at \in {"create", "insert"} => log.status = "none"
  /\ log.status # "none" /\ ~log.due => file.there
  /\ log.status = "sealed" /\ ~log.due => file.packed
  /\ \A p \in Process : process[p].at \in {"digest", "record"} => file.packed

\* No copy that may replace the file has lost a line of the ended attempt.
NoneLost ==
  /\ IF job.ended THEN floor <= file.lines ELSE floor = 0
  /\ \A p \in Process : At(p, "replace") =>
       floor <= process[p].copy /\ (~job.ended => process[p].copy = file.lines)
  /\ \A p \in Starter : process[p].at \in Touching => job.ended
  /\ ~At(Author, "inspect")

\* Unless recovery took the log from an author that still wrote, the author is
\* alone while it writes, and from then on everybody counts the same lines.
Whole ==
  ~overlapped =>
    /\ process[Author].at \in Attempting =>
         /\ ~file.packed /\ process[Author].lines = file.lines
         /\ log.status \in {"none", "open"}
         /\ \A p \in Starter : process[p].at \in {"down", "claim"}
    /\ process[Author].at \in Sealing => log.lines = file.lines
    /\ \A p \in Starter : process[p].at \in Sealing => process[p].lines = file.lines
    /\ \A p \in Process : process[p].at \in {"replace", "record"} => process[p].copy = file.lines
    /\ log.status = "sealed" /\ ~log.due => log.sum = file.lines /\ log.lines = file.lines

Kept == OnFile /\ NoneLost /\ Whole

LEMMA KeptInit == Init => Kept
<1> SUFFICES ASSUME Init PROVE Kept  OBVIOUS
<1>1. \A p \in Process : /\ process[p].at = IF p = Author THEN "create" ELSE "down"
                         /\ process[p].lines = 0
  BY DEF Init
<1>2. /\ log.status = "none" /\ file.lines = 0 /\ ~file.packed /\ ~job.ended /\ floor = 0
  BY DEF Init
<1> QED
  BY <1>1, <1>2 DEF Kept, OnFile, NoneLost, Whole, Attempting, Sealing, Touching, Starter, At

\* Whoever does not write or seal, and removes only what is of age.
LEMMA KeptAside ==
  ASSUME IInv, Kept, UNCHANGED <<process, floor, overlapped>>,
         job'.ended = job.ended, file'.packed = file.packed, file'.lines = file.lines,
         log'.lines = log.lines, log'.sum = log.sum, log.due => log'.due,
         file'.there = file.there \/ log.due, log'.status = log.status \/ log.due
  PROVE  Kept'
<1> USE DEF Kept, At
<1>0. log.due => process[Author].at \in {"done", "gone"}  BY DEF IInv, OfAge, Left
<1>1. OnFile'  BY <1>0 DEF OnFile
<1>2. NoneLost'  BY DEF NoneLost
<1>3. Whole'  BY <1>0 DEF Whole, Attempting
<1> QED  BY <1>1, <1>2, <1>3

LEMMA KeptSweep == ASSUME IInv, Kept, NEW c \in Sweeper, SweepStep(c) PROVE Kept'
<1> USE DEF history, evidence
<1>1. TypeOK /\ Removing(c)  BY DEF IInv
<1>2. UNCHANGED <<process, floor, overlapped>>
  BY DEF SweepStep, Begin, ClaimExpired, Unlink, Settle, ClaimSealed, UnlinkLog, SettleLog,
         CheckBlockers, DeleteJob, SweepDies
<1>3. CASE UNCHANGED <<job, log, file>>
  BY <1>1, <1>2, <1>3, KeptAside
<1>4. CASE ClaimSealed(c) \/ SettleLog(c)
  <2>1. PICK s : UNCHANGED log \/ (log' = [log EXCEPT !.status = s] /\ log.due)
    BY <1>1, <1>4 DEF ClaimSealed, SettleLog, Removing
  <2>2. /\ log'.lines = log.lines /\ log'.sum = log.sum /\ log'.due = log.due
        /\ log'.status = log.status \/ log.due
    BY <1>1, <2>1 DEF TypeOK, JobLog
  <2>3. UNCHANGED <<job, file>>  BY <1>4 DEF ClaimSealed, SettleLog
  <2> QED  BY <1>1, <1>2, <2>2, <2>3, KeptAside
<1>5. CASE UnlinkLog(c)
  <2>1. UNCHANGED file \/ file' = [file EXCEPT !.there = FALSE]  BY <1>5 DEF UnlinkLog
  <2>2. file'.packed = file.packed /\ file'.lines = file.lines
    BY <1>1, <2>1 DEF TypeOK, LogFile
  <2>3. UNCHANGED <<job, log>> /\ log.due  BY <1>1, <1>5 DEF UnlinkLog, Removing
  <2> QED  BY <1>1, <1>2, <2>2, <2>3, KeptAside
<1>6. CASE DeleteJob(c)
  <2>1. job'.ended = job.ended  BY <1>1, <1>6 DEF DeleteJob, TypeOK, JobRow
  <2> QED  BY <1>1, <1>2, <1>6, <2>1, KeptAside DEF DeleteJob
<1> QED
  BY <1>3, <1>4, <1>5, <1>6
  DEF SweepStep, Begin, ClaimExpired, Unlink, Settle, CheckBlockers, SweepDies

LEMMA KeptTime == ASSUME IInv, Kept, TimePasses \/ BringForward PROVE Kept'
<1> USE DEF history, evidence
<1>1. TypeOK  BY DEF IInv
<1>2. UNCHANGED <<process, floor, overlapped, file>>  BY DEF TimePasses, BringForward
<1>3. job'.ended = job.ended
  BY <1>1 DEF TimePasses, BringForward, TypeOK, JobRow
<1>4. /\ log'.lines = log.lines /\ log'.sum = log.sum /\ (log.due => log'.due)
      /\ log'.status = log.status
  <2>1. UNCHANGED log \/ log' = [log EXCEPT !.due = TRUE]  BY DEF TimePasses, BringForward
  <2> QED  BY <1>1, <2>1 DEF TypeOK, JobLog
<1> QED  BY <1>1, <1>2, <1>3, <1>4, KeptAside

\* Where process p stands after a step of its own.
LEMMA Stands ==
  ASSUME TypeOK, NEW p \in Process
  PROVE  /\ \A at : Goto(p, at) =>
              /\ \A q \in Process : q # p => process'[q] = process[q]
              /\ process'[p].at = at /\ process'[p].lines = process[p].lines
              /\ process'[p].copy = process[p].copy
         /\ Leave(p) =>
              /\ \A q \in Process : q # p => process'[q] = process[q]
              /\ process'[p].at = IF p = Author THEN "clean" ELSE "down"
<1>1. process \in [Process -> Program] /\ process[p] \in Program  BY DEF TypeOK
<1>2. ASSUME NEW at, Goto(p, at)
      PROVE  /\ \A q \in Process : q # p => process'[q] = process[q]
             /\ process'[p].at = at /\ process'[p].lines = process[p].lines
             /\ process'[p].copy = process[p].copy
  <2>1. process'[p] = [process[p] EXCEPT !.at = at] /\ \A q \in Process : q # p => process'[q] = process[q]
    BY <1>1, <1>2 DEF Goto
  <2> QED  BY <1>1, <2>1 DEF Program
<1>3. ASSUME Leave(p)
      PROVE  /\ \A q \in Process : q # p => process'[q] = process[q]
             /\ process'[p].at = IF p = Author THEN "clean" ELSE "down"
  BY <1>1, <1>3 DEF Leave
<1> QED  BY <1>2, <1>3

\* The numbers the log, the file and the processes carry.
LEMMA Counts ==
  ASSUME TypeOK
  PROVE  /\ file.lines \in Nat /\ floor \in Nat /\ log.lines \in Nat /\ log.sum \in Nat
         /\ \A p \in Process : process[p].lines \in Nat /\ process[p].copy \in Nat
BY NumbersOf DEF TypeOK, LogFile, JobLog

\* A process that leaves the file alone.
LEMMA KeptMoves ==
  ASSUME TypeOK, Kept, NEW p \in Process, UNCHANGED <<job, file, log, floor, overlapped>>,
         \A q \in Process : q # p => process'[q] = process[q],
         process'[p].at \notin Attempting \cup Touching,
         p # Author => process'[p].at \in {"down", "claim"}
  PROVE  Kept'
<1> USE DEF Kept, At
<1>1. OnFile'  BY DEF OnFile, Attempting, Touching
<1>2. NoneLost'  BY DEF NoneLost, Attempting, Touching, Starter
<1>3. Whole'  BY DEF Whole, Attempting, Touching, Sealing, Starter
<1> QED  BY <1>1, <1>2, <1>3

\* A step that changes no log, no file and not whether the attempt has ended.
LEMMA KeptElse ==
  ASSUME IInv, Kept, UNCHANGED <<job, file, log, floor, overlapped>>,
         NEW p \in Process, \A q \in Process : q # p => process'[q] = process[q],
         \/ process'[p] = process[p]
         \/ process'[p].at \notin Attempting \cup Touching /\ p = Author
         \/ process'[p].at \in {"down", "claim"} /\ p # Author
  PROVE  Kept'
<1>1. CASE process'[p] = process[p]
  <2>1. \A q \in Process : process'[q] = process[q]  BY <1>1
  <2> USE DEF Kept, At
  <2>2. OnFile'  BY <2>1 DEF OnFile
  <2>3. NoneLost'  BY <2>1 DEF NoneLost, Starter
  <2>4. Whole'  BY <2>1 DEF Whole, Starter
  <2> QED  BY <2>2, <2>3, <2>4
<1>2. CASE process'[p].at \notin Attempting \cup Touching /\ p = Author
  BY <1>2, KeptMoves DEF IInv
<1>3. CASE process'[p].at \in {"down", "claim"} /\ p # Author
  <2>1. process'[p].at \notin Attempting \cup Touching  BY <1>3 DEF Attempting, Touching
  <2> QED  BY <1>3, <2>1, KeptMoves DEF IInv
<1> QED  BY <1>1, <1>2, <1>3

LEMMA KeptAuthor == ASSUME IInv, Kept, AuthorStep PROVE Kept'
<1> USE DEF history, evidence, Kept, At, Starter
<1>0. /\ TypeOK /\ \A q \in Process : process[q] \in Program
      /\ file \in LogFile /\ log \in JobLog /\ job \in JobRow
  BY RowsOf DEF IInv, TypeOK
<1>1. CASE CreateFile
  <2>1. /\ file'.there /\ file'.packed = file.packed /\ file'.lines = file.lines
        /\ UNCHANGED <<job, log, floor, overlapped>> /\ process[Author].at = "create"
    BY <1>0, <1>1 DEF CreateFile, LogFile
  <2>2. /\ \A q \in Process : q # Author => process'[q] = process[q]
        /\ process'[Author].at = "insert" /\ process'[Author].lines = process[Author].lines
    BY <1>0, <1>1, Stands DEF CreateFile
  <2>3. OnFile' /\ NoneLost'  BY <2>1, <2>2 DEF OnFile, NoneLost, Touching
  <2>4. Whole'  BY <2>1, <2>2 DEF Whole, Attempting, Sealing
  <2> QED  BY <2>3, <2>4
<1>2. CASE InsertLog
  <2>1. /\ \A q \in Process : q # Author => process'[q] = process[q]
        /\ process'[Author].at = "handle" /\ process'[Author].lines = process[Author].lines
    BY <1>0, <1>2, Stands DEF InsertLog
  <2>2. /\ UNCHANGED <<job, floor, overlapped>> /\ process[Author].at = "insert"
        /\ file.there /\ log.status = "none"
    BY <1>2 DEF InsertLog, OnFile
  <2>3. CASE log' = [log EXCEPT !.status = "open"] /\ UNCHANGED file
    <3>1. log'.status = "open" /\ log'.lines = log.lines /\ log'.sum = log.sum
      BY <1>0, <2>3 DEF JobLog
    <3>2. OnFile' /\ NoneLost'  BY <2>1, <2>2, <2>3, <3>1 DEF OnFile, NoneLost, Touching
    <3>3. Whole'  BY <2>1, <2>2, <2>3, <3>1 DEF Whole, Attempting, Sealing
    <3> QED  BY <3>2, <3>3
  <2>4. CASE file' = [file EXCEPT !.there = FALSE] /\ UNCHANGED log
    <3>1. file'.packed = file.packed /\ file'.lines = file.lines
      BY <1>0, <2>4 DEF LogFile
    <3>2. OnFile' /\ NoneLost'  BY <2>1, <2>2, <2>4, <3>1 DEF OnFile, NoneLost, Touching
    <3>3. Whole'  BY <2>1, <2>2, <2>4, <3>1 DEF Whole, Attempting, Sealing
    <3> QED  BY <3>2, <3>3
  <2> QED  BY <1>2, <2>3, <2>4 DEF InsertLog
<1>3. CASE WriteLine
  <2>1. /\ \A q \in Process : q # Author => process'[q] = process[q]
        /\ process'[Author].at = process[Author].at
        /\ process'[Author].lines = process[Author].lines + 1
    BY <1>0, <1>3 DEF WriteLine, TypeOK, Program
  <2>2. /\ file'.there = file.there /\ file'.packed = file.packed
        /\ file'.lines = IF file.packed THEN file.lines ELSE file.lines + 1
        /\ UNCHANGED <<job, log, floor, overlapped>>
        /\ process[Author].at \in {"handle", "end", "close"}
    BY <1>0, <1>3 DEF WriteLine, LogFile
  <2>3. file.lines \in Nat /\ floor \in Nat  BY <1>0, Counts
  <2>4. OnFile'  BY <2>1, <2>2 DEF OnFile
  <2>5. NoneLost'
    <3>1. ~job.ended => \A q \in Process : process'[q].at # "replace"
      BY <2>1, <2>2 DEF NoneLost, Touching
    <3>2. \A q \in Process : process'[q].at = "replace" => process'[q] = process[q]
      BY <2>1, <2>2
    <3>3. \A q \in Process \ {Author} : process'[q].at = process[q].at
      BY <2>1
    <3> QED  BY <2>1, <2>2, <2>3, <3>1, <3>2, <3>3 DEF NoneLost
  <2>6. Whole'
    <3> SUFFICES ASSUME ~overlapped PROVE Whole'  BY <2>2 DEF Whole
    <3>1. /\ ~file.packed /\ process[Author].lines = file.lines /\ log.status \in {"none", "open"}
          /\ \A q \in Process \ {Author} : process[q].at \in {"down", "claim"}
      BY <2>2 DEF Whole, Attempting
    <3> QED  BY <2>1, <2>2, <3>1 DEF Whole, Attempting, Sealing
  <2> QED  BY <2>4, <2>5, <2>6
<1>4. CASE Return \/ Unwind
  <2>1. /\ \A q \in Process : q # Author => process'[q] = process[q]
        /\ process'[Author].at = "end" /\ process'[Author].lines = process[Author].lines
    BY <1>0, <1>4, Stands DEF Return, Unwind
  <2>2. /\ UNCHANGED <<job, file, log, floor, overlapped>> /\ process[Author].at = "handle"
    BY <1>4 DEF Return, Unwind
  <2>3. OnFile' /\ NoneLost'  BY <2>1, <2>2 DEF OnFile, NoneLost, Touching
  <2>4. Whole'  BY <2>1, <2>2 DEF Whole, Attempting, Sealing
  <2> QED  BY <2>3, <2>4
<1>5. CASE EndAttempt
  <2>1. /\ \A q \in Process : q # Author => process'[q] = process[q]
        /\ \/ process'[Author].at = "close" /\ process'[Author].lines = process[Author].lines
           \/ process'[Author].at = "clean"
        /\ process[Author].at = "end" /\ UNCHANGED <<file, log, overlapped>>
    <3> DEFINE s == IF log.status = "none" THEN "clean" ELSE "close"
    <3>1. Leave(Author) \/ Goto(Author, "close") \/ Goto(Author, s)  BY <1>5 DEF EndAttempt
    <3>2. s \in {"clean", "close"}  OBVIOUS
    <3>3. process[Author].at = "end" /\ UNCHANGED <<file, log, overlapped>>
      BY <1>5 DEF EndAttempt
    <3> HIDE DEF s
    <3> QED  BY <1>0, <3>1, <3>2, <3>3, Stands
  <2>2. \/ UNCHANGED <<job, floor>>
        \/ ~job.ended /\ job'.ended /\ floor' = file.lines
    <3>1. ASSUME NEW b \in BOOLEAN, job' = [job EXCEPT !.ended = TRUE, !.cancelled = b]
          PROVE  job'.ended
      BY <1>0, <3>1 DEF JobRow
    <3> QED  BY <1>5, <3>1 DEF EndAttempt
  <2>3. file.lines \in Nat /\ floor \in Nat  BY <1>0, Counts
  <2>4. OnFile'  BY <2>1 DEF OnFile
  <2>5. NoneLost'
    <3>1. ~job.ended => \A q \in Process : process'[q].at # "replace"
      BY <2>1 DEF NoneLost, Touching
    <3>2. \A q \in Process : process'[q].at = "replace" => process'[q] = process[q]
      BY <2>1
    <3>3. \A q \in Process \ {Author} : process'[q].at = process[q].at
      BY <2>1
    <3> QED  BY <2>1, <2>2, <2>3, <3>1, <3>2, <3>3 DEF NoneLost
  <2>6. Whole'  BY <2>1 DEF Whole, Attempting, Sealing
  <2> QED  BY <2>4, <2>5, <2>6
<1>6. CASE CloseCapture
  <2>1. /\ \A q \in Process : q # Author => process'[q] = process[q]
        /\ process'[Author].at \in {"pack", "clean"}
        /\ process[Author].at = "close" /\ UNCHANGED <<job, file, floor, overlapped>>
    BY <1>0, <1>6, Stands DEF CloseCapture
  <2>2. \/ UNCHANGED log /\ process'[Author].at = "clean"
        \/ /\ log.status = "open" /\ log'.status \in {"open", "failed"}
           /\ log'.lines = process[Author].lines /\ log'.due = log.due
    <3>1. CASE log' = [log EXCEPT !.lines = process[Author].lines] /\ log.status = "open"
      BY <1>0, <3>1 DEF JobLog
    <3>2. CASE log' = [log EXCEPT !.status = "failed", !.lines = process[Author].lines]
               /\ log.status = "open"
      BY <1>0, <3>2 DEF JobLog
    <3>3. CASE UNCHANGED log /\ Leave(Author)
      BY <1>0, <3>3, Stands
    <3> QED  BY <1>6, <3>1, <3>2, <3>3 DEF CloseCapture
  <2>3. OnFile'  BY <2>1, <2>2 DEF OnFile
  <2>4. NoneLost'  BY <2>1 DEF NoneLost
  <2>5. Whole'
    <3> SUFFICES ASSUME ~overlapped PROVE Whole'  BY <2>1 DEF Whole
    <3>1. /\ process[Author].lines = file.lines /\ log.status \in {"none", "open"}
          /\ \A q \in Process \ {Author} : process[q].at \in {"down", "claim"}
      BY <2>1 DEF Whole, Attempting
    <3> QED  BY <2>1, <2>2, <3>1 DEF Whole, Attempting, Sealing
  <2> QED  BY <2>3, <2>4, <2>5
<1>7. CASE Reserve \/ Place \/ PublishArtifact \/ RegisterFails \/ PlaceAdrift
  <2>1. UNCHANGED <<process, job, file, log, floor, overlapped>>
    BY <1>7 DEF Reserve, Place, PublishArtifact, RegisterFails, PlaceAdrift
  <2> QED  BY <2>1, KeptElse
<1>8. CASE Clean \/ CleanUnlink \/ CleanSettle
  <2>1. UNCHANGED <<job, file, log, floor, overlapped>>
    BY <1>8 DEF Clean, CleanUnlink, CleanSettle
  <2>2. \E at \in {"unlink", "done", "unlinked", "kept"} : Goto(Author, at)
    BY <1>8 DEF Clean, CleanUnlink, CleanSettle
  <2>3. /\ \A q \in Process : q # Author => process'[q] = process[q]
        /\ process'[Author].at \notin Attempting \cup Touching
    BY <1>0, <2>2, Stands DEF Attempting, Touching
  <2> QED  BY <2>1, <2>3, KeptElse
<1> QED
  BY <1>1, <1>2, <1>3, <1>4, <1>5, <1>6, <1>7, <1>8 DEF AuthorStep

LEMMA KeptSeal == ASSUME IInv, Kept, NEW p \in Process, SealStep(p) PROVE Kept'
<1> USE DEF history, evidence, Kept, At, Starter
<1>0. /\ TypeOK /\ \A q \in Process : process[q] \in Program
      /\ file \in LogFile /\ log \in JobLog /\ job \in JobRow
      /\ file.lines \in Nat /\ floor \in Nat
  BY RowsOf, Counts DEF IInv, TypeOK
<1>1. CASE Reconcile(p)
  <2>1. /\ \A q \in Process : q # p => process'[q] = process[q]
        /\ process'[p].at = "claim" /\ p # Author /\ process[p].at = "down"
        /\ UNCHANGED <<file, log, overlapped>>
    BY <1>0, <1>1, Stands DEF Reconcile
  <2>2. \/ UNCHANGED <<job, floor>>
        \/ ~job.ended /\ job'.ended /\ floor' = file.lines
    BY <1>0, <1>1 DEF Reconcile, JobRow
  <2>3. \A q \in Process : process'[q].at \in Sealing \cup Touching => process'[q] = process[q]
    BY <2>1 DEF Sealing, Touching
  <2>4. OnFile'  BY <2>1, <2>3 DEF OnFile, Sealing
  <2>5. NoneLost'
    <3>1. \A q \in Process : process'[q].at = "replace" => process'[q] = process[q]
      BY <2>3 DEF Sealing
    <3>2. \A q \in Starter : process'[q].at \in Touching => process'[q] = process[q]
      BY <2>3
    <3> QED  BY <1>0, <2>1, <2>2, <3>1, <3>2 DEF NoneLost
  <2>6. Whole'  BY <2>1, <2>3 DEF Whole, Sealing
  <2> QED  BY <2>4, <2>5, <2>6
<1>2. CASE ClaimLog(p)
  <2>1. CASE Leave(p) /\ UNCHANGED <<log, overlapped>>
    <3>1. /\ \A q \in Process : q # p => process'[q] = process[q]
          /\ process'[p].at = "down" /\ p # Author
      BY <1>0, <1>2, <2>1, Stands DEF ClaimLog
    <3> QED  BY <1>2, <2>1, <3>1, KeptElse DEF ClaimLog
  <2>2. CASE /\ job.ended /\ log.status \in {"open", "failed", "recovering"}
             /\ log' = [log EXCEPT !.status = "recovering"] /\ Goto(p, "inspect")
             /\ overlapped' = (overlapped \/ Writing)
    <3>1. /\ \A q \in Process : q # p => process'[q] = process[q]
          /\ process'[p].at = "inspect" /\ p # Author /\ process[p].at = "claim"
          /\ UNCHANGED <<job, file, floor>>
      BY <1>0, <1>2, <2>2, Stands DEF ClaimLog
    <3>2. log'.status = "recovering" /\ log'.lines = log.lines /\ log'.due = log.due
      BY <1>0, <2>2 DEF JobLog
    <3>3. process[Author].at \notin {"create", "insert"}  BY <2>2 DEF OnFile
    <3>4. OnFile'  BY <2>2, <3>1, <3>2, <3>3 DEF OnFile
    <3>5. NoneLost'  BY <2>2, <3>1 DEF NoneLost
    <3>6. ~overlapped' => process[Author].at \notin Attempting
      BY <2>2, <3>3 DEF Writing, Attempting
    <3>7. Whole'  BY <2>2, <3>1, <3>2, <3>6 DEF Whole, Sealing, Attempting
    <3> QED  BY <3>4, <3>5, <3>7
  <2> QED  BY <1>2, <2>1, <2>2 DEF ClaimLog
<1>3. CASE Inspect(p) /\ UNCHANGED log
  <2>0. p # Author /\ UNCHANGED <<job, file, log, floor, overlapped>> /\ process[p].at = "inspect"
    BY <1>3 DEF Inspect, NoneLost
  <2>1. CASE Leave(p)
    <3>1. /\ \A q \in Process : q # p => process'[q] = process[q]
          /\ process'[p].at = "down"
      BY <1>0, <2>0, <2>1, Stands
    <3> QED  BY <2>0, <3>1, KeptElse
  <2>2. CASE process' = [process EXCEPT ![p].at = "pack", ![p].lines = file.lines]
    <3>1. /\ \A q \in Process : q # p => process'[q] = process[q]
          /\ process'[p].at = "pack" /\ process'[p].lines = file.lines
      BY <1>0, <2>2 DEF TypeOK, Program
    <3>2. OnFile'  BY <2>0, <3>1 DEF OnFile
    <3>3. NoneLost'  BY <2>0, <3>1 DEF NoneLost, Touching
    <3>4. Whole'  BY <2>0, <3>1 DEF Whole, Sealing
    <3> QED  BY <3>2, <3>3, <3>4
  <2> QED  BY <1>3, <2>1, <2>2 DEF Inspect
<1>4. CASE Pack(p) \/ Copy(p)
  <2>1. PICK s \in {"record", "copy", "replace"} :
          /\ s = "record" => file.packed
          /\ \A q \in Process : q # p => process'[q] = process[q]
          /\ process'[p].at = s /\ process'[p].lines = process[p].lines
          /\ s # "copy" => process'[p].copy = file.lines
    <3>1. CASE file.packed /\ process' = [process EXCEPT ![p].at = "record", ![p].copy = file.lines]
      BY <1>0, <3>1 DEF TypeOK, Program
    <3>2. CASE Goto(p, "copy")  BY <1>0, <3>2, Stands
    <3>3. CASE process' = [process EXCEPT ![p].at = "replace", ![p].copy = file.lines,
                                          ![p].again = file.packed]
      BY <1>0, <3>3 DEF TypeOK, Program
    <3> QED  BY <1>4, <3>1, <3>2, <3>3 DEF Pack, Copy
  <2>2. process[p].at \in {"pack", "copy"} /\ UNCHANGED <<job, file, log, floor, overlapped>>
    BY <1>4 DEF Pack, Copy
  <2>3. OnFile'  BY <2>1, <2>2 DEF OnFile
  <2>4. NoneLost'
    <3>1. floor <= file.lines  BY <1>0 DEF NoneLost
    <3>2. \A q \in Process : process'[q].at = "replace" =>
            /\ floor <= process'[q].copy
            /\ ~job.ended => process'[q].copy = file.lines
      BY <2>1, <3>1 DEF NoneLost
    <3>3. \A q \in Starter : process'[q].at \in Touching => job.ended
      BY <2>1, <2>2 DEF NoneLost, Touching
    <3>4. process'[Author].at # "inspect"  BY <2>1, <2>2 DEF NoneLost
    <3> QED  BY <2>2, <3>2, <3>3, <3>4 DEF NoneLost
  <2>5. Whole'
    <3> SUFFICES ASSUME ~overlapped PROVE Whole'  BY <2>2 DEF Whole
    <3>1. process'[Author].at \notin Attempting
      BY <2>1, <2>2 DEF Whole, Attempting
    <3>2. process'[Author].at \in Sealing => log.lines = file.lines
      BY <2>1, <2>2 DEF Whole, Sealing
    <3>3. \A q \in Starter : process'[q].at \in Sealing => process'[q].lines = file.lines
      BY <2>1, <2>2 DEF Whole, Sealing
    <3>4. \A q \in Process : process'[q].at \in {"replace", "record"} => process'[q].copy = file.lines
      BY <2>1 DEF Whole
    <3>5. log.status = "sealed" /\ ~log.due => log.sum = file.lines /\ log.lines = file.lines
      BY DEF Whole
    <3> QED  BY <2>2, <3>1, <3>2, <3>3, <3>4, <3>5 DEF Whole
  <2> QED  BY <2>3, <2>4, <2>5
<1>5. CASE Replace(p)
  <2>1. /\ \A q \in Process : q # p => process'[q] = process[q]
        /\ process'[p].at = "digest" /\ process'[p].lines = process[p].lines
        /\ process[p].at = "replace" /\ UNCHANGED <<job, log, floor, overlapped>>
    BY <1>0, <1>5, Stands DEF Replace
  <2>2. file'.there /\ file'.packed /\ file'.lines = process[p].copy
    BY <1>5 DEF Replace
  <2>3. OnFile'  BY <2>1, <2>2 DEF OnFile
  <2>4. NoneLost'
    <3>1. floor <= process[p].copy /\ (~job.ended => process[p].copy = file.lines)
      BY <2>1 DEF NoneLost
    <3>2. ~job.ended => \A q \in Process : process[q].at = "replace" => q = Author
      BY DEF NoneLost, Touching
    <3>3. \A q \in Process : process'[q].at = "replace" => q # p /\ process'[q] = process[q]
      BY <2>1
    <3> QED  BY <1>0, <2>1, <2>2, <3>1, <3>2, <3>3 DEF NoneLost, Touching
  <2>5. Whole'
    <3> SUFFICES ASSUME ~overlapped PROVE Whole'  BY <2>1 DEF Whole
    <3>1. file'.lines = file.lines  BY <2>1, <2>2 DEF Whole
    <3>2. process[Author].at \notin Attempting  BY <2>1 DEF Whole, Attempting
    <3> QED  BY <2>1, <2>2, <3>1, <3>2 DEF Whole, Sealing, Attempting
  <2> QED  BY <2>3, <2>4, <2>5
<1>6. CASE Digest(p)
  <2>1. /\ \A q \in Process : q # p => process'[q] = process[q]
        /\ process'[p].at = "record" /\ process'[p].lines = process[p].lines
        /\ process'[p].copy = file.lines
        /\ process[p].at = "digest" /\ UNCHANGED <<job, file, log, floor, overlapped>>
    BY <1>0, <1>6 DEF TypeOK, Program, Digest
  <2>2. OnFile'  BY <2>1 DEF OnFile
  <2>3. NoneLost'  BY <2>1 DEF NoneLost, Touching
  <2>4. Whole'  BY <2>1 DEF Whole, Sealing, Attempting
  <2> QED  BY <2>2, <2>3, <2>4
<1>7. CASE Record(p) \/ SealFails(p) \/ (Inspect(p) /\ log' # log)
  <2>1. /\ \A q \in Process : q # p => process'[q] = process[q]
        /\ process'[p].at = IF p = Author THEN "clean" ELSE "down"
        /\ UNCHANGED <<job, file, floor, overlapped>>
    BY <1>0, <1>7, Stands DEF Record, SealFails, Inspect
  <2>2. CASE UNCHANGED log
    <3>1. process'[p].at \notin Attempting \cup Touching  BY <2>1 DEF Attempting, Touching
    <3> QED  BY <2>1, <2>2, <3>1, KeptElse
  <2>3. log.status # "none" => process[Author].at \notin {"create", "insert"}
    BY DEF OnFile
  <2>4. process'[Author].at \in Attempting \cup Sealing => process'[Author] = process[Author]
    BY <2>1 DEF Attempting, Sealing
  <2>5. \A q \in Process : process'[q].at \in Sealing \cup Touching => q # p /\ process'[q] = process[q]
    BY <2>1 DEF Sealing, Touching
  <2>6. CASE /\ SealFails(p) \/ Inspect(p)
             /\ log' = [log EXCEPT !.status = "failed"] /\ log.status \in {"open", "recovering"}
    <3>1. log'.status = "failed" /\ log'.lines = log.lines /\ log'.due = log.due
      BY <1>0, <2>6 DEF JobLog
    <3>2. process[p].at \in Touching  BY <2>6 DEF SealFails, Inspect, Touching
    <3>3. OnFile'  BY <2>1, <2>3, <2>5, <2>6, <3>1 DEF OnFile, Sealing
    <3>4. NoneLost'
      <4>1. \A q \in Process : process'[q].at = "replace" => process'[q] = process[q]
        BY <2>5 DEF Touching
      <4>2. \A q \in Starter : process'[q].at \in Touching => process'[q] = process[q]
        BY <2>5
      <4> QED  BY <2>1, <4>1, <4>2 DEF NoneLost
    <3>5. ~overlapped => process'[Author].at \notin Attempting
      <4>1. ~overlapped => process[Author].at \notin Attempting
        BY <3>2 DEF Whole, Touching, Attempting
      <4> QED  BY <2>4, <4>1
    <3>6. Whole'  BY <2>1, <2>4, <2>5, <3>1, <3>5 DEF Whole, Sealing
    <3> QED  BY <3>3, <3>4, <3>6
  <2>7. CASE /\ Record(p) /\ log.status \in {"open", "failed", "recovering"}
             /\ log' = [log EXCEPT !.status = "sealed", !.sum = process[p].copy,
                                   !.lines = IF p = Author THEN @ ELSE process[p].lines]
    <3>1. PICK n : n = IF p = Author THEN log.lines ELSE process[p].lines
      OBVIOUS
    <3>2. log' = [log EXCEPT !.status = "sealed", !.sum = process[p].copy, !.lines = n]
      BY <2>7, <3>1
    <3>3. log'.status = "sealed" /\ log'.sum = process[p].copy /\ log'.lines = n /\ log'.due = log.due
      BY <1>0, <3>2 DEF JobLog
    <3>4. process[p].at = "record" /\ file.packed  BY <2>7 DEF Record, OnFile
    <3>5. OnFile'  BY <2>1, <2>3, <2>5, <2>7, <3>3, <3>4 DEF OnFile, Sealing
    <3>6. NoneLost'
      <4>1. \A q \in Process : process'[q].at = "replace" => process'[q] = process[q]
        BY <2>5 DEF Touching
      <4>2. \A q \in Starter : process'[q].at \in Touching => process'[q] = process[q]
        BY <2>5
      <4> QED  BY <2>1, <4>1, <4>2 DEF NoneLost
    <3>7. Whole'
      <4> SUFFICES ASSUME ~overlapped PROVE Whole'  BY <2>1 DEF Whole
      <4>1. process[p].copy = file.lines /\ n = file.lines
        BY <3>1, <3>4 DEF Whole, Sealing
      <4>2. process[Author].at \notin Attempting
        BY <3>4 DEF Whole, Attempting
      <4> QED  BY <2>1, <2>4, <2>5, <3>3, <4>1, <4>2 DEF Whole, Sealing
    <3> QED  BY <3>5, <3>6, <3>7
  <2>8. CASE Record(p)
    <3>1. \/ UNCHANGED log
          \/ /\ log.status \in {"open", "failed", "recovering"}
             /\ log' = [log EXCEPT !.status = "sealed", !.sum = process[p].copy,
                                   !.lines = IF p = Author THEN @ ELSE process[p].lines]
      BY <2>8 DEF Record
    <3> QED  BY <2>2, <2>7, <2>8, <3>1
  <2>9. CASE SealFails(p) \/ (Inspect(p) /\ log' # log)
    <3>1. \/ UNCHANGED log
          \/ /\ log.status \in {"open", "recovering"}
             /\ log' = [log EXCEPT !.status = "failed"]
      BY <2>9 DEF SealFails, Inspect
    <3> QED  BY <2>2, <2>6, <2>9, <3>1
  <2> QED  BY <1>7, <2>8, <2>9
<1>8. CASE Crash(p)
  <2>1. /\ \A q \in Process : q # p => process'[q] = process[q]
        /\ process'[p].at = IF p = Author THEN "gone" ELSE "down"
        /\ UNCHANGED <<job, file, log, floor, overlapped>>
    BY <1>0, <1>8 DEF Crash, TypeOK
  <2>2. process'[p].at \notin Attempting \cup Touching  BY <2>1 DEF Attempting, Touching
  <2> QED  BY <2>1, <2>2, KeptElse
<1> QED  BY <1>1, <1>2, <1>3, <1>4, <1>5, <1>6, <1>7, <1>8 DEF SealStep

-----------------------------------------------------------------------------
(* Two processes at the same file. *)

\* Unless recovery took the log while somebody was sealing it, whoever opens the
\* file for the second time finds what it found before, and nothing is packed
\* twice.  Nobody recovers a log that is still open.
Alone ==
  /\ \A p \in Starter : process[p].at \in Touching => log.status \notin {"none", "open"}
  /\ ~shared =>
       /\ \A p, q \in Process : process[p].at \in Touching /\ process[q].at \in Touching => p = q
       /\ ~file.nested
       /\ \A p \in Process : At(p, "copy") => ~file.packed
       /\ \A p \in Process : At(p, "replace") => ~process[p].again

LEMMA AloneInit == Init => Alone
BY DEF Init, Alone, Starter, At, Touching

\* Nobody comes to touch the file.
LEMMA AloneElse ==
  ASSUME Alone, UNCHANGED shared, file'.packed = file.packed, file'.nested = file.nested,
         \A p \in Process : process'[p].at \in Touching => process'[p] = process[p],
         \/ log'.status = log.status \/ log'.status \notin {"none", "open"}
         \/ \A p \in Starter : process[p].at \notin Touching
  PROVE  Alone'
<1>1. \A p \in Process : process'[p].at \in {"copy", "replace"} => process'[p] = process[p]
  BY DEF Touching
<1> QED  BY <1>1 DEF Alone, Starter, At

\* One process goes on with the sealing it is at.
LEMMA AloneOnward ==
  ASSUME Alone, NEW p \in Process, \A q \in Process : q # p => process'[q] = process[q],
         UNCHANGED <<shared, log>>, process[p].at \in Touching, process'[p].at \in Touching,
         ~shared => /\ ~file'.nested
                    /\ process'[p].at = "copy" => ~file'.packed
                    /\ process'[p].at = "replace" => ~process'[p].again
  PROVE  Alone'
<1>1. \A q \in Process : process'[q].at \in Touching => process[q].at \in Touching  OBVIOUS
<1>2. ~shared => \A q \in Process : q # p => process'[q].at \notin {"copy", "replace"}
  BY DEF Alone, Touching
<1> QED  BY <1>1, <1>2 DEF Alone, Starter, At

LEMMA AloneAuthor == ASSUME IInv, Kept, Alone, AuthorStep PROVE Alone'
<1> USE DEF history, evidence, At, Starter
<1>0. /\ TypeOK /\ file \in LogFile /\ log \in JobLog /\ UNCHANGED shared
      /\ \A q \in Process : process[q] \in Program
  BY RowsOf DEF IInv, TypeOK, AuthorStep, CreateFile, InsertLog, WriteLine, Return, Unwind,
     EndAttempt, CloseCapture, Reserve, Place, PublishArtifact, RegisterFails, PlaceAdrift, Clean,
     CleanUnlink, CleanSettle
<1>1. file'.packed = file.packed /\ file'.nested = file.nested
  <2>1. CASE UNCHANGED file  BY <2>1
  <2>2. ASSUME NEW b, file' = [file EXCEPT !.there = b]
        PROVE  file'.packed = file.packed /\ file'.nested = file.nested
    BY <1>0, <2>2 DEF LogFile
  <2>3. ASSUME NEW n, file' = [file EXCEPT !.lines = n]
        PROVE  file'.packed = file.packed /\ file'.nested = file.nested
    BY <1>0, <2>3 DEF LogFile
  <2>4. CASE CreateFile \/ InsertLog \/ WriteLine
    BY <2>1, <2>2, <2>3, <2>4 DEF CreateFile, InsertLog, WriteLine
  <2> QED
    BY <2>1, <2>4
    DEF AuthorStep, Return, Unwind, EndAttempt, CloseCapture, Reserve, Place, PublishArtifact,
        RegisterFails, PlaceAdrift, Clean, CleanUnlink, CleanSettle
<1>2. CASE InsertLog
  <2>1. \A p \in Starter : process[p].at \notin Touching  BY <1>2 DEF InsertLog, Kept, OnFile, Alone
  <2>2. \A p \in Process : process'[p].at \in Touching => process'[p] = process[p]
    BY <1>0, <1>2, Stands DEF InsertLog, Touching
  <2> QED  BY <1>0, <1>1, <2>1, <2>2, AloneElse
<1>3. CASE WriteLine
  <2>1. \A p \in Process : process'[p].at \in Touching => process'[p] = process[p]
    <3>1. /\ \A q \in Process : q # Author => process'[q] = process[q]
          /\ process'[Author].at = process[Author].at
      BY <1>0, <1>3 DEF WriteLine, TypeOK, Program
    <3> QED  BY <1>3, <3>1 DEF WriteLine, Touching
  <2> QED  BY <1>0, <1>1, <1>3, <2>1, AloneElse DEF WriteLine
<1>4. CASE CloseCapture
  <2>1. CASE Leave(Author)
    <3>1. \A p \in Process : process'[p].at \in Touching => process'[p] = process[p]
      BY <1>0, <2>1, Stands DEF Touching
    <3>2. log'.status \in {log.status, "failed"}
      <4>1. CASE log' = [log EXCEPT !.status = "failed", !.lines = process[Author].lines]
        BY <1>0, <4>1 DEF JobLog
      <4>2. CASE log' = [log EXCEPT !.lines = process[Author].lines]
        BY <1>0, <4>2 DEF JobLog
      <4> QED  BY <1>4, <4>1, <4>2 DEF CloseCapture
    <3> QED  BY <1>0, <1>1, <3>1, <3>2, AloneElse
  <2>2. CASE /\ log.status = "open" /\ Goto(Author, "pack") /\ UNCHANGED file
             /\ log' = [log EXCEPT !.lines = process[Author].lines]
    <3>1. /\ \A q \in Process : q # Author => process'[q] = process[q]
          /\ process'[Author].at = "pack"
      BY <1>0, <2>2, Stands
    <3>2. log'.status = "open"  BY <1>0, <2>2 DEF JobLog
    <3>3. \A q \in Process : q # Author => process'[q].at \notin Touching
      BY <2>2, <3>1 DEF Alone
    <3> QED  BY <1>0, <2>2, <3>1, <3>2, <3>3 DEF Alone, Touching
  <2> QED  BY <1>4, <2>1, <2>2 DEF CloseCapture
<1>5. CASE Reserve \/ Place \/ PublishArtifact \/ RegisterFails \/ PlaceAdrift
  <2>1. UNCHANGED <<process, log>>
    BY <1>5 DEF Reserve, Place, PublishArtifact, RegisterFails, PlaceAdrift
  <2> QED  BY <1>0, <1>1, <2>1, AloneElse
<1>6. CASE CreateFile \/ Return \/ Unwind \/ EndAttempt \/ Clean \/ CleanUnlink \/ CleanSettle
  <2>1. \/ Leave(Author)
        \/ \E at \in {"insert", "end", "clean", "close", "unlink", "done", "unlinked", "kept"} :
             Goto(Author, at)
    BY <1>6 DEF CreateFile, Return, Unwind, EndAttempt, Clean, CleanUnlink, CleanSettle
  <2>2. \A p \in Process : process'[p].at \in Touching => process'[p] = process[p]
    BY <1>0, <2>1, Stands DEF Touching
  <2>3. UNCHANGED log
    BY <1>6 DEF CreateFile, Return, Unwind, EndAttempt, Clean, CleanUnlink, CleanSettle
  <2> QED  BY <1>0, <1>1, <2>2, <2>3, AloneElse
<1> QED  BY <1>2, <1>3, <1>4, <1>5, <1>6 DEF AuthorStep

LEMMA AloneSeal == ASSUME IInv, Alone, NEW p \in Process, SealStep(p) PROVE Alone'
<1> USE DEF history, evidence, At
<1>0. /\ TypeOK /\ file \in LogFile /\ log \in JobLog /\ process[p] \in Program
      /\ process \in [Process -> Program]
  BY RowsOf DEF IInv, TypeOK
<1>1. ASSUME NEW at, Goto(p, at), at \notin Touching,
             UNCHANGED <<file, log, shared>>
      PROVE  Alone'
  <2>1. \A q \in Process : process'[q].at \in Touching => process'[q] = process[q]
    BY <1>0, <1>1, Stands
  <2> QED  BY <1>1, <2>1, AloneElse
<1>2. ASSUME \/ Leave(p)
             \/ process' = [process EXCEPT ![p] = [at |-> IF p = Author THEN "gone" ELSE "down",
                                                   lines |-> 0, copy |-> 0, again |-> FALSE]],
             UNCHANGED <<file, shared>>,
             log'.status = log.status \/ log'.status \notin {"none", "open"}
      PROVE  Alone'
  <2>1. \A q \in Process : process'[q].at \in Touching => process'[q] = process[q]
    BY <1>0, <1>2, Stands DEF Touching
  <2> QED  BY <1>2, <2>1, AloneElse
<1>3. CASE Reconcile(p)  BY <1>1, <1>3 DEF Reconcile, Touching
<1>4. CASE ClaimLog(p)
  <2>1. CASE Leave(p) /\ UNCHANGED <<log, overlapped, shared>>  BY <1>2, <1>4, <2>1 DEF ClaimLog
  <2>2. CASE /\ log' = [log EXCEPT !.status = "recovering"] /\ Goto(p, "inspect")
             /\ shared' = (shared \/ \E q \in Process \ {p} : process[q].at \in Touching)
    <3>1. log'.status = "recovering" /\ UNCHANGED file  BY <1>0, <1>4, <2>2 DEF JobLog, ClaimLog
    <3>2. /\ \A q \in Process : q # p => process'[q] = process[q]
          /\ process'[p].at = "inspect"
      BY <1>0, <2>2, Stands
    <3>3. ~shared' => ~shared /\ \A q \in Process : q # p => process'[q].at \notin Touching
      BY <2>2, <3>2
    <3> QED  BY <3>1, <3>2, <3>3 DEF Alone, Touching
  <2> QED  BY <1>4, <2>1, <2>2 DEF ClaimLog
<1>5. CASE Inspect(p)
  <2>1. CASE Leave(p)
    <3>1. UNCHANGED log \/ log'.status = "failed"  BY <1>0, <1>5 DEF Inspect, JobLog
    <3> QED  BY <1>2, <1>5, <2>1, <3>1 DEF Inspect
  <2>2. CASE UNCHANGED log /\ process' = [process EXCEPT ![p].at = "pack", ![p].lines = file.lines]
    <3>1. /\ \A q \in Process : q # p => process'[q] = process[q]
          /\ process'[p].at = "pack"
      BY <1>0, <2>2 DEF Program
    <3> QED  BY <1>5, <2>2, <3>1, AloneOnward DEF Inspect, Alone, Touching
  <2> QED  BY <1>5, <2>1, <2>2 DEF Inspect
<1>6. CASE Pack(p) \/ Digest(p)
  <2>1. CASE process' = [process EXCEPT ![p].at = "record", ![p].copy = file.lines]
    <3>1. /\ \A q \in Process : q # p => process'[q] = process[q]
          /\ process'[p].at = "record"
      BY <1>0, <2>1 DEF Program
    <3> QED  BY <1>6, <3>1, AloneOnward DEF Pack, Digest, Alone, Touching
  <2>2. CASE ~file.packed /\ Goto(p, "copy")
    <3>1. /\ \A q \in Process : q # p => process'[q] = process[q]
          /\ process'[p].at = "copy"
      BY <1>0, <2>2, Stands
    <3> QED  BY <1>6, <2>2, <3>1, AloneOnward DEF Pack, Digest, Alone, Touching
  <2> QED  BY <1>6, <2>1, <2>2 DEF Pack, Digest
<1>7. CASE Copy(p)
  <2>1. /\ \A q \in Process : q # p => process'[q] = process[q]
        /\ process'[p].at = "replace" /\ process'[p].again = file.packed
    BY <1>0, <1>7 DEF Copy, Program
  <2> QED  BY <1>7, <2>1, AloneOnward DEF Copy, Alone, Touching
<1>8. CASE Replace(p)
  <2>1. /\ \A q \in Process : q # p => process'[q] = process[q]
        /\ process'[p].at = "digest" /\ UNCHANGED <<shared, log>> /\ process[p].at = "replace"
    BY <1>0, <1>8, Stands DEF Replace
  <2>2. file'.nested = process[p].again  BY <1>8 DEF Replace
  <2> QED  BY <2>1, <2>2, AloneOnward DEF Alone, Touching
<1>9. CASE Record(p)
  <2>1. log'.status \in {log.status, "sealed"}
    <3>1. PICK n, k : UNCHANGED log \/ log' = [log EXCEPT !.status = "sealed", !.sum = n, !.lines = k]
      BY <1>9 DEF Record
    <3> QED  BY <1>0, <3>1 DEF JobLog
  <2> QED  BY <1>2, <1>9, <2>1 DEF Record
<1>10. CASE SealFails(p)
  <2>1. log'.status \in {log.status, "failed"}  BY <1>0, <1>10 DEF SealFails, JobLog
  <2> QED  BY <1>2, <1>10, <2>1 DEF SealFails
<1>11. CASE Crash(p)  BY <1>2, <1>11 DEF Crash
<1> QED
  BY <1>3, <1>4, <1>5, <1>6, <1>7, <1>8, <1>9, <1>10, <1>11 DEF SealStep

LEMMA AloneNext == ASSUME IInv, Kept, Alone, [Next]_vars PROVE Alone'
<1> USE DEF history, evidence
<1>0. file \in LogFile /\ log \in JobLog  BY DEF IInv, TypeOK
<1>1. CASE UNCHANGED <<process, shared, log, file>>  BY <1>1, AloneElse
<1>2. ASSUME NEW c \in Sweeper, SweepStep(c) PROVE Alone'
  <2>1. UNCHANGED <<process, shared>>
    BY <1>2 DEF SweepStep, Begin, ClaimExpired, Unlink, Settle, ClaimSealed, UnlinkLog, SettleLog,
                CheckBlockers, DeleteJob, SweepDies
  <2>2. CASE UNCHANGED <<log, file>>  BY <1>1, <2>1, <2>2
  <2>3. CASE ClaimSealed(c) \/ SettleLog(c)
    <3>1. UNCHANGED log \/ \E s \in {"expiring", "expired", "sealed"} : log' = [log EXCEPT !.status = s]
      BY <2>3 DEF ClaimSealed, SettleLog
    <3>2. log'.status \in {log.status, "expiring", "expired", "sealed"}
      BY <1>0, <3>1 DEF JobLog
    <3>3. UNCHANGED file  BY <2>3 DEF ClaimSealed, SettleLog
    <3> QED  BY <2>1, <3>2, <3>3, AloneElse
  <2>4. CASE UnlinkLog(c)
    <3>1. UNCHANGED file \/ file' = [file EXCEPT !.there = FALSE]  BY <2>4 DEF UnlinkLog
    <3>2. file'.packed = file.packed /\ file'.nested = file.nested  BY <1>0, <3>1 DEF LogFile
    <3>3. UNCHANGED log  BY <2>4 DEF UnlinkLog
    <3> QED  BY <2>1, <3>2, <3>3, AloneElse
  <2> QED
    BY <1>2, <2>2, <2>3, <2>4
    DEF SweepStep, Begin, ClaimExpired, Unlink, Settle, CheckBlockers, DeleteJob, SweepDies
<1>3. CASE BringForward  BY <1>1, <1>3 DEF BringForward
<1>4. CASE TimePasses
  <2>1. UNCHANGED log \/ log' = [log EXCEPT !.due = TRUE]  BY <1>4 DEF TimePasses
  <2>2. log'.status = log.status  BY <1>0, <2>1 DEF JobLog
  <2>3. UNCHANGED <<process, shared, file>>  BY <1>4 DEF TimePasses
  <2> QED  BY <2>2, <2>3, AloneElse
<1>5. CASE UNCHANGED vars  BY <1>1, <1>5 DEF vars
<1> QED  BY <1>2, <1>3, <1>4, <1>5, AloneAuthor, AloneSeal DEF Next

\* A sealed log is whole, whoever sealed it, however often sealing was begun and
\* wherever it stopped; that its lines can be read needs that no two processes
\* were sealing it at once (AttemptLogFiles.seal, recover_abandoned_attempt_logs).
THEOREM SealedLogIsKept == Spec => []SealedKeepsTheLog
<1>1. ASSUME IInv, Kept, [Next]_vars PROVE Kept'
  <2>1. CASE UNCHANGED vars
    <3>1. UNCHANGED <<job, process, log, file, floor, overlapped>>  BY <2>1 DEF vars
    <3> QED  BY <1>1, <3>1, KeptElse
  <2> QED  BY <1>1, <2>1, KeptAuthor, KeptSeal, KeptSweep, KeptTime DEF Next
<1>2. ASSUME IInv, Kept, Alone PROVE SealedKeepsTheLog
  <2>1. log.status = "sealed" => job.ended \/ floor = 0  BY <1>2 DEF Kept, NoneLost
  <2>2. file.lines \in Nat /\ floor \in Nat  BY <1>2, Counts DEF IInv
  <2>3. shared \/ ~file.nested  BY <1>2 DEF Alone
  <2> QED  BY <1>2, <2>1, <2>2, <2>3 DEF Kept, OnFile, NoneLost, Whole, SealedKeepsTheLog
<1> QED  BY <1>1, <1>2, InvInit, InvNext, KeptInit, AloneInit, AloneNext, PTL DEF Spec
====
