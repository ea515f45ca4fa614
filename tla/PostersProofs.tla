---------------------------- MODULE PostersProofs ----------------------------
(***************************************************************************)
(* What holds of PosterArtwork and of PosterAnalysis, for every number of  *)
(* jobs, images and upsets, and of members, attempts and faults.           *)
(*                                                                         *)
(* Artwork: what a poster job replaces is in the backups.  The invariant   *)
(* follows a job from its look at the file to its write: until then what   *)
(* it saw is in a backup by that name, or is not at the destination.       *)
(*                                                                         *)
(* The row follows the file: a second invariant gives a job's course       *)
(* (Handled), what its evidence says of its writes (Recorded, Told), and,  *)
(* while no gate is lost, who wrote the file last (Ordered).               *)
(*                                                                         *)
(* Analysis: the runs in the table are one attempt's projection, and where *)
(* the handler of that attempt may be (Leaves) says who may still remove   *)
(* them.                                                                   *)
(***************************************************************************)
EXTENDS Posters, FiniteSetTheorems, FunctionTheorems, TLAPS

-----------------------------------------------------------------------------
(* Types. *)

LEMMA AbsentType == Absent \in File
BY BoundIsNumber DEF Absent, File, Bytes, Writer

\* The names the steps use; with them a record's type is checked field by field.
LEMMA Names ==
  /\ {"deploy", "restore", "reset", "backup"} \subseteq Op /\ CopyOp \subseteq Op
  /\ {"absent", "queued", "running", "stopping", "terminal"} \subseteq Phase
  /\ {"idle", "load", "observe", "stage", "intendBackup", "publishBackup", "storeBackup",
      "intend", "publish", "replace", "own", "project", "finish", "raised", "cancelled",
      "gone"} \subseteq At
  /\ {"backup", "destination"} \subseteq Target
  /\ {"none", "succeeded", "no_change"} \subseteq Result
  /\ Result \subseteq Outcome /\ {"failed", "cancelled", "unsafe"} \subseteq Outcome
  /\ {"none", "nothing", "uncertain", "published"} \subseteq Report
  /\ none \in Bytes /\ Image \subseteq Bytes
BY DEF Op, CopyOp, Phase, At, Target, Result, Outcome, Report, Bytes

LEMMA JobType ==
  ASSUME TypeOK, NEW j \in Job
  PROVE  job \in [Job -> JobRow] /\ job[j] \in JobRow
BY DEF TypeOK

LEMMA SealedType ==
  ASSUME TypeOK, NEW j \in Job, NEW outcome \in Outcome, NEW report \in Report
  PROVE  /\ Sealed(j, outcome, report) \in JobRow
         /\ Sealed(j, outcome, report).at = job[j].at
         /\ Sealed(j, outcome, report).before = job[j].before
         /\ Sealed(j, outcome, report).touched = job[j].touched
         /\ Sealed(j, outcome, report).staged = job[j].staged
         /\ Sealed(j, outcome, report).seen = job[j].seen
BY ZenonT(40), JobType, Names DEF Sealed, JobRow

LEMMA EvidenceType ==
  ASSUME NEW j \in Job
  PROVE  Evidence(j) \in Report
BY Names DEF Evidence

LEMMA FailedType ==
  ASSUME TypeOK, NEW j \in Job, NEW c \in BOOLEAN
  PROVE  /\ Failed(j, c) \in JobRow
         /\ Failed(j, c).before = job[j].before
         /\ Failed(j, c).touched = job[j].touched
         /\ Failed(j, c).staged = job[j].staged
BY JobType, SealedType, EvidenceType, Names DEF Failed

LEMMA LeaveType ==
  ASSUME TypeOK, NEW j \in Job, NEW sealed \in JobRow, Leave(j, sealed)
  PROVE  job' \in [Job -> JobRow] /\ gate' \in Job \cup {none}
<1>1. [sealed EXCEPT !.at = "gone"] \in JobRow  BY Names DEF JobRow
<1> QED  BY <1>1 DEF Leave, TypeOK

LEMMA KeptType ==
  ASSUME TypeOK, NEW j \in Job, NEW changed \in BOOLEAN
  PROVE  /\ Kept(j, changed) \in JobRow
         /\ Kept(j, changed).at \in {"own", "intend"}
         /\ Kept(j, changed).before = job[j].before
         /\ Kept(j, changed).touched = job[j].touched
BY ZenonT(40), JobType, Names DEF Kept, JobRow

LEMMA IntentType ==
  ASSUME TypeOK, NEW j \in Job, NEW s \in At
  PROVE  /\ WithIntent(j, s) \in JobRow
         /\ WithIntent(j, s).at = s
         /\ WithIntent(j, s).before = job[j].before
         /\ WithIntent(j, s).touched = job[j].touched
         /\ WithIntent(j, s).staged = job[j].staged
BY ZenonT(40), JobType, Names DEF WithIntent, JobRow

LEMMA EvidentType ==
  ASSUME TypeOK, NEW j \in Job, NEW new \in JobRow, NEW target \in Target,
         NEW torn \in BOOLEAN
  PROVE  /\ Evident(new, j, target, torn) \in JobRow
         /\ Evident(new, j, target, torn).at = IF torn THEN "raised" ELSE new.at
         /\ Evident(new, j, target, torn).before = IF torn THEN job[j].before ELSE new.before
         /\ Evident(new, j, target, torn).touched
              = (IF torn THEN job[j].touched ELSE new.touched) \cup {target}
BY ZenonT(40), JobType, Names DEF Evident, JobRow

LEMMA GotoType ==
  ASSUME TypeOK, NEW j \in Job, NEW s \in At, Goto(j, s)
  PROVE  job' \in [Job -> JobRow]
BY JobType DEF Goto, JobRow

LEMMA UpsetType ==
  ASSUME TypeOK, Upset
  PROVE  spent' \in 0..MaxUpset /\ spent' = spent + 1
BY BoundIsNumber DEF Upset, TypeOK

LEMMA TearType ==
  ASSUME TypeOK, NEW torn \in BOOLEAN, Tear(torn)
  PROVE  spent' \in 0..MaxUpset /\ spent' >= spent
BY UpsetType, BoundIsNumber DEF Tear, TypeOK

LEMMA TypeInit == Init => TypeOK
<1> SUFFICES ASSUME Init PROVE TypeOK
  OBVIOUS
<1>1. NoJob \in JobRow
  BY AbsentType, Names DEF NoJob, JobRow
<1>2. /\ file \in File
      /\ row \in [path : BOOLEAN, sha : Bytes, backup : Bytes]
      /\ backups \in [Image -> Bytes]
  <2>1. \A i \in Image : [image |-> i, by |-> 0] \in File
    BY BoundIsNumber DEF File, Bytes, Writer
  <2>2. /\ NoRow \in [path : BOOLEAN, sha : Bytes, backup : Bytes]
        /\ \A i, k \in Image : [path |-> TRUE, sha |-> i, backup |-> k]
                               \in [path : BOOLEAN, sha : Bytes, backup : Bytes]
    BY DEF NoRow, Bytes
  <2>3. /\ [x \in Image |-> none] \in [Image -> Bytes]
        /\ \A k \in Image : [x \in Image |-> IF x = k THEN k ELSE none] \in [Image -> Bytes]
    BY DEF Bytes
  <2> QED  BY <2>1, <2>2, <2>3, AbsentType DEF Init
<1> QED
  BY <1>1, <1>2, BoundIsNumber DEF Init, TypeOK, NoSync, Bytes

\* What is left of the state, field by field.
RowType  == [path : BOOLEAN, sha : Bytes, backup : Bytes]
LastType == [file : Job \cup {none}, row : Job \cup {none}, gated : BOOLEAN, kept : BOOLEAN]
LookType == [looked : BOOLEAN, image : Bytes]
SyncType == [looked : BOOLEAN, found : BOOLEAN, path : BOOLEAN]

LEMMA TypeParts ==
  TypeOK <=> /\ file \in File /\ row \in RowType /\ backups \in [Image -> Bytes]
             /\ gate \in Job \cup {none} /\ job \in [Job -> JobRow]
             /\ rescan \in LookType /\ sync \in SyncType
             /\ spent \in 0..MaxUpset /\ last \in LastType
BY DEF TypeOK, RowType, LastType, LookType, SyncType

\* A step that changes one job, at most, and its gate.
LEMMA JobStepType ==
  ASSUME TypeOK, job' \in [Job -> JobRow], gate' \in Job \cup {none}, spent' \in 0..MaxUpset,
         UNCHANGED <<file, row, backups, rescan, sync, last>>
  PROVE  TypeOK'
BY DEF TypeOK

LEMMA ControlType ==
  ASSUME TypeOK, NEW j \in Job,
         (\E op \in Op, i \in Bytes : Submit(j, op, i)) \/ Start(j) \/ Cancel(j)
  PROVE  TypeOK'
<1> USE JobType, Names
<1>1. ASSUME NEW op \in Op, NEW i \in Bytes, Submit(j, op, i) PROVE TypeOK'
  <2>1. [job[j] EXCEPT !.op = op, !.image = i, !.phase = "queued"] \in JobRow  BY ZenonT(40) DEF JobRow
  <2> QED  BY <1>1, <2>1, JobStepType DEF Submit, TypeOK
<1>2. CASE Start(j)
  <2>1. [job[j] EXCEPT !.phase = "running", !.at = "load"] \in JobRow  BY ZenonT(40) DEF JobRow
  <2> QED  BY <1>2, <2>1, JobStepType DEF Start, TypeOK
<1>3. CASE Cancel(j)
  <2>1. [job[j] EXCEPT !.desired = "cancel", !.phase = "stopping"] \in JobRow  BY ZenonT(40) DEF JobRow
  <2>2. Sealed(j, "cancelled", "none") \in JobRow  BY SealedType
  <2>3. [Sealed(j, "cancelled", "none") EXCEPT !.desired = "cancel", !.at = "gone"] \in JobRow
    BY <2>2 DEF JobRow
  <2>4. job' \in [Job -> JobRow]  BY <1>3, <2>1, <2>3 DEF Cancel
  <2> QED  BY <1>3, <2>4, JobStepType, UpsetType DEF Cancel, TypeOK
<1> QED  BY <1>1, <1>2, <1>3

LEMMA CandidateType ==
  ASSUME TypeOK, NEW j \in Job
  PROVE  Candidate(j) \in Bytes
BY JobType, Names DEF Candidate, TypeOK, JobRow, Bytes

LEMMA FindingType ==
  ASSUME TypeOK, NEW j \in Job, Load(j) \/ Observe(j) \/ Stage(j)
  PROVE  TypeOK'
<1> USE JobType, Names
<1>0. file \in File /\ file.image \in Bytes /\ row.path \in BOOLEAN
  BY DEF TypeOK, File
<1>1. CASE Load(j)
  <2> DEFINE i == IF job[j].op \in CopyOp THEN Candidate(j) ELSE none
  <2>1. i \in Bytes  BY CandidateType
  <2>2. [job[j] EXCEPT !.at = "observe", !.path = row.path, !.image = i] \in JobRow
    <3> HIDE DEF i
    <3> QED  BY ZenonT(40), <1>0, <2>1 DEF JobRow
  <2>3. CASE Goto(j, "raised")
    <3>1. job' \in [Job -> JobRow]  BY <2>3, GotoType
    <3> QED  BY <1>1, <3>1, JobStepType DEF Load, TypeOK
  <2>4. CASE job' = [job EXCEPT ![j].at = "observe", ![j].path = row.path, ![j].image = i]
    <3>1. job' \in [Job -> JobRow]
      <4> HIDE DEF i
      <4> QED  BY <2>2, <2>4
    <3> QED  BY <1>1, <3>1, JobStepType DEF Load, TypeOK
  <2> QED  BY <1>1, <2>3, <2>4 DEF Load
<1>2. CASE Observe(j)
  <2> DEFINE r == IF NothingToDo(j) THEN "no_change" ELSE "none"
             s == IF NothingToDo(j) THEN "own" ELSE IF file.image = none THEN "intend" ELSE "stage"
  <2>1. r \in Result /\ s \in At  OBVIOUS
  <2>2. [job[j] EXCEPT !.before = file, !.result = r, !.at = s] \in JobRow
    <3> HIDE DEF r, s
    <3> QED  BY ZenonT(40), <1>0, <2>1 DEF JobRow
  <2>3. CASE Goto(j, "raised")
    <3>1. job' \in [Job -> JobRow]  BY <2>3, GotoType
    <3> QED  BY <1>2, <3>1, JobStepType DEF Observe, TypeOK
  <2>4. CASE job' = [job EXCEPT ![j].before = file, ![j].result = r, ![j].at = s]
    <3>1. job' \in [Job -> JobRow]
      <4> HIDE DEF r, s
      <4> QED  BY <2>2, <2>4
    <3> QED  BY <1>2, <3>1, JobStepType DEF Observe, TypeOK
  <2> QED  BY <1>2, <2>3, <2>4 DEF Observe
<1>3. CASE Stage(j)
  <2>1. [job[j] EXCEPT !.at = "intendBackup", !.staged = file.image] \in JobRow
    BY ZenonT(40), <1>0 DEF JobRow
  <2>2. job' \in [Job -> JobRow]  BY <1>3, <2>1, KeptType, GotoType DEF Stage
  <2> QED  BY <1>3, <2>2, JobStepType DEF Stage, TypeOK
<1> QED  BY <1>1, <1>2, <1>3

LEMMA PublishingType ==
  ASSUME TypeOK, NEW j \in Job, IntendBackup(j) \/ PublishBackup(j) \/ Intend(j) \/ Publish(j)
  PROVE  TypeOK'
<1> USE JobType, Names
<1>1. CASE IntendBackup(j)
  <2>1. job' \in [Job -> JobRow]  BY <1>1, IntentType, GotoType DEF IntendBackup
  <2> QED  BY <1>1, <2>1, JobStepType DEF IntendBackup, TypeOK
<1>2. CASE PublishBackup(j)
  <2>1. PICK s \in At : Goto(j, s)  BY <1>2 DEF PublishBackup
  <2>2. job' \in [Job -> JobRow]  BY <2>1, GotoType
  <2> QED  BY <1>2, <2>2, JobStepType DEF PublishBackup, TypeOK
<1>3. CASE Intend(j)
  <2>1. job' \in [Job -> JobRow]  BY <1>3, IntentType, GotoType DEF Intend
  <2> QED  BY <1>3, <2>1, JobStepType DEF Intend, TypeOK
<1>4. CASE Publish(j)
  <2>1. file \in File  BY DEF TypeOK
  <2>2. [job[j] EXCEPT !.at = "replace", !.seen = file] \in JobRow
    BY ZenonT(40), <2>1 DEF JobRow
  <2>3. job' \in [Job -> JobRow]  BY <1>4, <2>2, GotoType DEF Publish
  <2> QED  BY <1>4, <2>3, JobStepType DEF Publish, TypeOK
<1> QED  BY <1>1, <1>2, <1>3, <1>4

LEMMA WritingType ==
  ASSUME TypeOK, NEW j \in Job, StoreBackup(j) \/ Replace(j)
  PROVE  TypeOK'
<1> USE JobType, Names
<1>1. CASE StoreBackup(j)
  <2>1. job' \in [Job -> JobRow] /\ spent' \in 0..MaxUpset
    <3>1. PICK torn \in BOOLEAN :
            Tear(torn) /\ job' = [job EXCEPT ![j] = Evident(Kept(j, TRUE), j, "backup", torn)]
      BY <1>1 DEF StoreBackup
    <3>2. Evident(Kept(j, TRUE), j, "backup", torn) \in JobRow  BY EvidentType, KeptType
    <3> QED  BY <3>1, <3>2, TearType
  <2>2. backups' \in [Image -> Bytes]
    <3>1. job[j].staged \in Bytes  BY DEF JobRow
    <3> QED  BY <1>1, <3>1 DEF StoreBackup, TypeOK
  <2>3. last' \in LastType  BY <1>1, TypeParts DEF StoreBackup, LastType
  <2> QED  BY <1>1, <2>1, <2>2, <2>3 DEF StoreBackup, TypeOK, LastType
<1>2. CASE Replace(j)
  <2>1. CASE Goto(j, "raised") /\ UNCHANGED <<file, spent, last>>
    <3>1. job' \in [Job -> JobRow]  BY <2>1, GotoType
    <3> QED  BY <1>2, <2>1, <3>1, JobStepType DEF Replace, TypeOK
  <2>2. CASE /\ file' = IF job[j].op = "reset" THEN Absent ELSE [image |-> job[j].image, by |-> j]
             /\ last' = [last EXCEPT !.file = j]
             /\ \E torn \in BOOLEAN :
                  /\ Tear(torn)
                  /\ job' = [job EXCEPT ![j] = Evident(
                       [job[j] EXCEPT !.at = "own", !.result = "succeeded"], j, "destination", torn)]
    <3>1. [job[j] EXCEPT !.at = "own", !.result = "succeeded"] \in JobRow  BY ZenonT(40) DEF JobRow
    <3>2. job' \in [Job -> JobRow] /\ spent' \in 0..MaxUpset
      BY <2>2, <3>1, EvidentType, TearType
    <3>3. file' \in File
      <4>1. job[j].image \in Bytes  BY DEF JobRow
      <4> QED  BY <2>2, <4>1, AbsentType DEF File, Writer
    <3>4. last' \in LastType  BY <2>2, TypeParts DEF LastType
    <3>5. UNCHANGED <<row, backups, gate, rescan, sync>>  BY <1>2 DEF Replace
    <3> QED  BY <3>2, <3>3, <3>4, <3>5 DEF TypeOK, LastType
  <2> QED  BY <1>2, <2>1, <2>2 DEF Replace
<1> QED  BY <1>1, <1>2

LEMMA ProjectType ==
  ASSUME TypeOK, NEW j \in Job, Own(j) \/ Project(j)
  PROVE  TypeOK'
<1> USE JobType, Names
<1>1. CASE Own(j)
  <2>1. PICK s \in At : Goto(j, s)  BY <1>1 DEF Own
  <2>2. job' \in [Job -> JobRow]  BY <2>1, GotoType
  <2> QED  BY <1>1, <2>2, JobStepType DEF Own, TypeOK
<1>2. CASE Project(j)
  <2>1. [job[j] EXCEPT !.at = "finish", !.projected = TRUE] \in JobRow  BY ZenonT(40) DEF JobRow
  <2>2. job' \in [Job -> JobRow]  BY <1>2, <2>1 DEF Project
  <2>3. row' \in RowType
    <3>1. job[j].image \in Bytes /\ job[j].before \in File  BY DEF JobRow
    <3>2. job[j].before.image \in Bytes  BY <3>1 DEF File
    <3>3. row \in RowType /\ row.backup \in Bytes  BY TypeParts DEF RowType
    <3>4. \A keep \in Bytes :
            /\ [row EXCEPT !.backup = keep] \in RowType
            /\ [path |-> FALSE, sha |-> none, backup |-> keep] \in RowType
            /\ [path |-> TRUE, sha |-> job[j].image, backup |-> keep] \in RowType
      BY <3>1, <3>3 DEF RowType
    <3> QED  BY <1>2, <3>2, <3>3, <3>4 DEF Project, Projection, Cleared
  <2>4. last' \in LastType  BY <1>2, TypeParts DEF Project, LastType
  <2> QED  BY <1>2, <2>2, <2>3, <2>4 DEF Project, TypeOK, RowType, LastType
<1> QED  BY <1>1, <1>2

LEMMA SettleType ==
  ASSUME TypeOK, NEW j \in Job,
         Finish(j) \/ Fail(j) \/ Interrupt(j) \/ FailCancelled(j) \/ Assess(j) \/ Recover(j)
  PROVE  TypeOK'
<1> USE JobType, Names
<1>1. ASSUME NEW sealed \in JobRow, Leave(j, sealed),
             UNCHANGED <<file, row, backups, rescan, sync, spent, last>>
      PROVE  TypeOK'
  BY <1>1, LeaveType, JobStepType DEF TypeOK
<1>2. CASE Finish(j)
  <2>1. job[j].result \in Outcome  BY DEF JobRow
  <2> QED  BY <1>1, <1>2, <2>1, SealedType, EvidenceType, FailedType DEF Finish
<1>3. CASE Fail(j)
  BY <1>1, <1>3, FailedType DEF Fail
<1>4. CASE FailCancelled(j)
  BY <1>1, <1>4, FailedType DEF FailCancelled
<1>5. CASE Interrupt(j)
  <2>1. job' \in [Job -> JobRow]  BY <1>5, GotoType DEF Interrupt
  <2> QED  BY <1>5, <2>1, JobStepType DEF Interrupt, TypeOK
<1>6. CASE Assess(j)
  <2> DEFINE e == Evidence(j)
             c == job[j].at # "gone"
  <2>1. e \in Report /\ c \in BOOLEAN  BY EvidenceType
  <2>2. [job[j] EXCEPT !.read = e, !.condemned = c] \in JobRow
    <3> HIDE DEF e, c
    <3> QED  BY ZenonT(40), <2>1 DEF JobRow
  <2>3. job' = [job EXCEPT ![j].read = e, ![j].condemned = c]  BY <1>6 DEF Assess
  <2>4. job' \in [Job -> JobRow]
    <3> HIDE DEF e, c
    <3> QED  BY <2>2, <2>3
  <2>5. spent' \in 0..MaxUpset  BY <1>6, UpsetType DEF Assess, TypeOK
  <2> QED  BY <1>6, <2>4, <2>5, JobStepType DEF Assess, TypeOK
<1>7. CASE Recover(j)
  <2>1. job[j].read \in Report  BY DEF JobRow
  <2>2. job' \in [Job -> JobRow]  BY <1>7, <2>1, SealedType DEF Recover
  <2> QED  BY <1>7, <2>2, JobStepType DEF Recover, TypeOK
<1> QED  BY <1>2, <1>3, <1>4, <1>5, <1>6, <1>7

LEMMA FaultType ==
  ASSUME TypeOK, NEW j \in Job, Fault(j)
  PROVE  TypeOK'
<1> USE JobType, Names
<1>1. spent' \in 0..MaxUpset  BY UpsetType DEF Fault
<1>2. CASE Crash(j)
  BY <1>1, <1>2, LeaveType, JobStepType DEF Crash
<1>3. CASE LoseGate(j)
  <2>1. last' \in LastType  BY <1>3, TypeParts DEF LoseGate, LastType
  <2> QED  BY <1>1, <1>3, <2>1 DEF LoseGate, TypeOK, LastType
<1>4. CASE LoseEffects(j)
  <2>1. job' \in [Job -> JobRow]  BY <1>4, GotoType DEF LoseEffects
  <2> QED  BY <1>1, <1>4, <2>1, JobStepType DEF LoseEffects, TypeOK
<1> QED  BY <1>2, <1>3, <1>4 DEF Fault

LEMMA NoteType ==
  ASSUME TypeOK, NEW observed \in RowType, Note(observed)
  PROVE  row' \in RowType /\ last' \in LastType
BY TypeParts DEF Note, LastType

LEMMA OthersType ==
  ASSUME TypeOK, Outside \/ RescanLook \/ RescanWrite \/ SyncLook \/ SyncWrite
  PROVE  TypeOK'
<1>1. CASE Outside
  <2>1. spent' \in 0..MaxUpset /\ spent' = spent + 1  BY <1>1, UpsetType DEF Outside
  <2>2. last' \in LastType  BY <1>1, TypeParts DEF Outside, LastType
  <2>3. file' \in File  BY <1>1, <2>1, AbsentType DEF Outside, File, Bytes, Writer
  <2> QED  BY <1>1, <2>1, <2>2, <2>3 DEF Outside, TypeOK, LastType
<1>2. CASE RescanLook
  <2>1. spent' \in 0..MaxUpset  BY <1>2, UpsetType DEF RescanLook
  <2>2. rescan' \in LookType  BY <1>2 DEF RescanLook, LookType, TypeOK, File
  <2> QED  BY <1>2, <2>1, <2>2 DEF RescanLook, TypeOK, LookType
<1>3. CASE RescanWrite
  <2>1. [row EXCEPT !.path = rescan.image # none, !.sha = rescan.image] \in RowType
    <3>1. row \in RowType /\ rescan.image \in Bytes /\ (rescan.image # none) \in BOOLEAN
      BY TypeParts DEF LookType
    <3> DEFINE p == rescan.image # none
    <3>2. [row EXCEPT !.path = p, !.sha = rescan.image] \in RowType
      <4>1. p \in BOOLEAN  OBVIOUS
      <4> HIDE DEF p
      <4> QED  BY <3>1, <4>1 DEF RowType
    <3> QED  BY <3>2
  <2>2. row' \in RowType /\ last' \in LastType  BY <1>3, <2>1, NoteType DEF RescanWrite
  <2>3. rescan' \in LookType  BY <1>3 DEF RescanWrite, LookType, Bytes
  <2> QED  BY <1>3, <2>2, <2>3 DEF RescanWrite, TypeOK, RowType, LastType, LookType
<1>4. CASE SyncLook
  <2>1. spent' \in 0..MaxUpset  BY <1>4, UpsetType DEF SyncLook
  <2>2. sync' \in SyncType  BY <1>4 DEF SyncLook, SyncType, TypeOK
  <2> QED  BY <1>4, <2>1, <2>2 DEF SyncLook, TypeOK, SyncType
<1>5. CASE SyncWrite
  <2>1. row \in RowType /\ [row EXCEPT !.path = sync.found] \in RowType
    BY TypeParts DEF RowType, SyncType
  <2>2. row' \in RowType /\ last' \in LastType  BY <1>5, <2>1, NoteType DEF SyncWrite
  <2>3. sync' \in SyncType  BY <1>5 DEF SyncWrite, NoSync, SyncType
  <2> QED  BY <1>5, <2>2, <2>3 DEF SyncWrite, TypeOK, RowType, LastType, SyncType
<1> QED  BY <1>1, <1>2, <1>3, <1>4, <1>5

LEMMA TypeNext == TypeOK /\ [Next]_vars => TypeOK'
<1> SUFFICES ASSUME TypeOK, [Next]_vars PROVE TypeOK'
  OBVIOUS
<1>1. CASE UNCHANGED vars
  BY <1>1 DEF vars, TypeOK
<1>2. CASE Next
  BY <1>2, ControlType, FindingType, PublishingType, WritingType, ProjectType, SettleType, FaultType,
     OthersType
  DEF Next
<1> QED  BY <1>1, <1>2

\* The state of the poster, its row, its backups and its jobs stays within the types:
\* the library row, the job records and the evidence handlers_poster_mutations keeps.
THEOREM TypeCorrect == Spec => []TypeOK
<1>1. Init => TypeOK  BY TypeInit
<1>2. TypeOK /\ [Next]_vars => TypeOK'  BY TypeNext
<1> QED  BY <1>1, <1>2, PTL DEF Spec

-----------------------------------------------------------------------------
(* What is replaced is kept. *)

NotPublished ==
  {"idle", "load", "observe", "stage", "intendBackup", "publishBackup", "storeBackup", "intend",
   "publish", "replace"}

\* A file that anybody may have seen was put there by a job that has published or by an
\* outside change that has happened: the next writer is none of these, so what a job saw
\* never comes back once it was replaced.
Seen(f) == IF f.by \in Job THEN "destination" \in job[f.by].touched ELSE f.by <= spent

\* Before it publishes a job has not; the backup it copies, and the one it counts on
\* while no backup is overwritten, are of what it saw, or the destination is not what it
\* saw any more; from the last check on they are of what the check saw.
Keeping(j) ==
  /\ job[j].at \in NotPublished => "destination" \notin job[j].touched
  /\ Seen(job[j].before)
  /\ job[j].at \in {"stage", "intendBackup", "publishBackup", "storeBackup"} =>
       job[j].before.image \in Image
  /\ job[j].at \in {"intendBackup", "publishBackup", "storeBackup"} /\ Unchanged(j) =>
       job[j].staged = file.image
  /\ job[j].at \in {"intend", "publish"} /\ Unchanged(j) /\ file.image # none /\ last.kept =>
       Stored(file.image)
  /\ job[j].at = "replace" /\ job[j].seen.image # none /\ last.kept =>
       Stored(job[j].seen.image)

AllKept == Seen(file) /\ \A j \in Job : Keeping(j)

KeptInv == TypeOK /\ AllKept

LEMMA KeptInit == Init => KeptInv
<1> SUFFICES ASSUME Init PROVE KeptInv
  OBVIOUS
<1>1. TypeOK  BY TypeInit
<1>2. \A j \in Job : job[j] = NoJob  BY DEF Init
<1>3. spent = 0 /\ file.by = 0 /\ 0 \notin Job
  BY JobsAreNotNumbers DEF Init, Absent
<1>4. Seen(file) /\ Seen(Absent)  BY <1>3 DEF Seen, Absent
<1>5. \A j \in Job : Keeping(j)  BY <1>2, <1>4 DEF Keeping, NoJob
<1> QED  BY <1>1, <1>4, <1>5 DEF KeptInv, AllKept

\* What has been seen stays seen while jobs publish and changes happen.
LEMMA SeenStays ==
  ASSUME TypeOK, TypeOK', spent' >= spent, NEW f \in File, Seen(f),
         \A k \in Job : job[k].touched \subseteq job'[k].touched
  PROVE  Seen(f)'
<1>1. f.by \in Job \/ f.by \in Nat  BY BoundIsNumber DEF File, Writer
<1>2. spent \in Nat /\ spent' \in Nat  BY BoundIsNumber DEF TypeOK
<1> QED  BY <1>1, <1>2 DEF Seen

LEMMA BeforeType ==
  ASSUME TypeOK, NEW j \in Job
  PROVE  /\ job[j].before \in File /\ job[j].before.image \in Bytes
         /\ job[j].seen \in File /\ job[j].seen.image \in Bytes
         /\ job[j].staged \in Bytes /\ file \in File /\ file.image \in Bytes
<1>1. job[j].before \in File /\ job[j].staged \in Bytes /\ job[j].seen \in File
  BY JobType DEF JobRow
<1> QED  BY <1>1 DEF TypeOK, File

\* A backup once overwritten stays so.
KeptOn == last'.kept => last.kept

\* A step of j, or of nobody, that leaves the file as it is and forgets no backup unless
\* it says so does not disturb the others.
LEMMA OthersKeep ==
  ASSUME KeptInv, TypeOK', spent' >= spent, file' = file,
         NEW D \in SUBSET Job, \A k \in Job \ D : job'[k] = job[k],
         \A k \in D : job[k].touched \subseteq job'[k].touched, KeptOn,
         last'.kept => \A i \in Image : Stored(i) => Stored(i)'
  PROVE  Seen(file)' /\ \A k \in Job \ D : Keeping(k)'
<1> USE DEF KeptInv, AllKept
<1>1. \A k \in Job : job[k].touched \subseteq job'[k].touched  OBVIOUS
<1>2. Seen(file)'  BY <1>1, SeenStays DEF TypeOK, Seen
<1>3. ASSUME NEW k \in Job \ D PROVE Keeping(k)'
  <2>1. job'[k] = job[k] /\ Keeping(k)  OBVIOUS
  <2>2. Seen(job[k].before)'  BY <1>1, <2>1, SeenStays, BeforeType DEF Keeping
  <2>3. file.image \in Bytes /\ job[k].seen.image \in Bytes  BY BeforeType
  <2> QED  BY <2>1, <2>2, <2>3 DEF Keeping, Unchanged, Bytes, Seen, KeptOn
<1> QED  BY <1>2, <1>3

LEMMA OneMoves ==
  ASSUME KeptInv, TypeOK', spent' = spent, file' = file, backups' = backups, last' = last,
         NEW j \in Job,
         \A k \in Job \ {j} : job'[k] = job[k], job'[j].touched = job[j].touched
  PROVE  /\ Seen(file)' /\ \A k \in Job \ {j} : Keeping(k)'
         /\ job'[j].before = job[j].before => Seen(job[j].before)'
<1>1. spent' >= spent  BY BoundIsNumber DEF KeptInv, TypeOK
<1>2. \A i \in Image : Stored(i) => Stored(i)'  BY DEF Stored
<1>3. \A k \in Job : job[k].touched \subseteq job'[k].touched  OBVIOUS
<1>4. Seen(file)' /\ \A k \in Job \ {j} : Keeping(k)'  BY <1>1, <1>2, OthersKeep DEF KeptOn
<1>5. Seen(job[j].before) /\ job[j].before \in File
  BY BeforeType DEF KeptInv, AllKept, Keeping
<1>6. job'[j].before = job[j].before => Seen(job[j].before)'
  BY <1>1, <1>3, <1>5, SeenStays DEF KeptInv, Seen
<1> QED  BY <1>4, <1>6

\* A step that moves j to a place where nothing is promised, or leaves it where it is.
LEMMA Steady ==
  ASSUME KeptInv, TypeOK', spent' >= spent, file' = file, backups' = backups, KeptOn,
         NEW j \in Job, \A k \in Job \ {j} : job'[k] = job[k],
         job'[j].before = job[j].before, job'[j].touched = job[j].touched,
         job'[j].staged = job[j].staged,
         \/ job'[j].at = job[j].at /\ job'[j].seen = job[j].seen
         \/ job'[j].at \notin NotPublished
         \/ job'[j].at \in {"load", "observe"} /\ job[j].at \in NotPublished
  PROVE  AllKept'
<1>1. \A i \in Image : Stored(i) => Stored(i)'  BY DEF Stored
<1>2. Seen(file)' /\ \A k \in Job \ {j} : Keeping(k)'  BY <1>1, OthersKeep
<1>3. Keeping(j)'
  <2>1. Keeping(j)  BY DEF KeptInv, AllKept
  <2>2. \A k \in Job : job[k].touched \subseteq job'[k].touched  OBVIOUS
  <2>3. Seen(job[j].before)'  BY <2>1, <2>2, SeenStays, BeforeType DEF Keeping, KeptInv
  <2>4. job'[j].at \in NotPublished => "destination" \notin job'[j].touched
    BY <2>1 DEF Keeping, NotPublished
  <2>5. CASE job'[j].at = job[j].at /\ job'[j].seen = job[j].seen
    BY <2>1, <2>3, <2>4, <2>5 DEF Keeping, Unchanged, Stored, Seen, KeptOn
  <2>6. CASE job'[j].at \notin NotPublished \/ job'[j].at \in {"load", "observe"}
    BY <2>3, <2>4, <2>6 DEF Keeping, NotPublished, Seen
  <2> QED  BY <2>5, <2>6
<1> QED  BY <1>2, <1>3 DEF AllKept

\* The steps in which nothing is seen, copied, promised or published.
LEMMA SteadySteps ==
  ASSUME KeptInv, TypeOK', NEW j \in Job,
         \/ \E op \in Op, i \in Bytes : Submit(j, op, i)
         \/ Start(j) \/ Cancel(j) \/ Load(j) \/ Own(j) \/ Project(j) \/ Finish(j) \/ Fail(j)
         \/ Interrupt(j) \/ FailCancelled(j) \/ Assess(j) \/ Recover(j) \/ Fault(j)
  PROVE  AllKept'
<1> USE JobType
<1>0. TypeOK /\ spent \in Nat  BY BoundIsNumber DEF KeptInv, TypeOK
<1>k. KeptOn
  <2>1. last \in LastType  BY <1>0, TypeParts
  <2> QED
    BY <2>1 DEF KeptOn, LastType, Submit, Start, Cancel, Load, Own, Project, Finish, Fail, Interrupt,
                FailCancelled, Assess, Recover, Fault, Crash, LoseGate, LoseEffects
<1>1. ASSUME NEW op \in Op, NEW i \in Bytes, Submit(j, op, i) PROVE AllKept'
  <2>1. /\ job'[j].before = job[j].before /\ job'[j].touched = job[j].touched
        /\ job'[j].staged = job[j].staged /\ job'[j].at = job[j].at
        /\ job'[j].seen = job[j].seen
        /\ \A k \in Job \ {j} : job'[k] = job[k]
    BY ZenonT(40), <1>0, <1>1 DEF Submit, JobRow
  <2>2. file' = file /\ backups' = backups /\ spent' = spent
    BY <1>1, Zenon DEF Submit
  <2> QED  BY <1>0, <2>1, <2>2, <1>k, Steady
<1>2. CASE Start(j)
  BY <1>0, <1>2, <1>k, Steady DEF Start, JobRow, NotPublished
<1>3. CASE Cancel(j)
  <2>1. CASE job' = [job EXCEPT ![j] = [Sealed(j, "cancelled", "none") EXCEPT
                                          !.desired = "cancel", !.at = "gone"]]
    <3>1. Sealed(j, "cancelled", "none") \in JobRow  BY <1>0, SealedType, Names
    <3> QED  BY <1>0, <1>3, <2>1, <3>1, <1>k, Steady, SealedType, UpsetType, Names
             DEF Cancel, JobRow, NotPublished
  <2>2. CASE job' = [job EXCEPT ![j].desired = "cancel", ![j].phase = "stopping"]
    BY <1>0, <1>3, <2>2, <1>k, Steady, UpsetType DEF Cancel, JobRow
  <2> QED  BY <1>3, <2>1, <2>2 DEF Cancel
<1>4. CASE Load(j)
  <2>1. file' = file /\ backups' = backups /\ spent' = spent
    BY <1>4, Zenon DEF Load
  <2>2. CASE Goto(j, "raised")
    <3>1. /\ job'[j].before = job[j].before /\ job'[j].touched = job[j].touched
          /\ job'[j].staged = job[j].staged /\ job'[j].at = "raised"
          /\ \A k \in Job \ {j} : job'[k] = job[k]
      BY <1>0, <2>2 DEF Goto, JobRow
    <3> QED  BY <1>0, <2>1, <3>1, <1>k, Steady DEF NotPublished
  <2>3. CASE job' = [job EXCEPT ![j].at = "observe", ![j].path = row.path,
                       ![j].image = IF job[j].op \in CopyOp THEN Candidate(j) ELSE none]
    <3>1. /\ job'[j].before = job[j].before /\ job'[j].touched = job[j].touched
          /\ job'[j].staged = job[j].staged /\ job'[j].at = "observe"
          /\ \A k \in Job \ {j} : job'[k] = job[k]
      BY <1>0, <2>3 DEF JobRow
    <3>2. job[j].at = "load"  BY <1>4 DEF Load
    <3> QED  BY <1>0, <2>1, <3>1, <3>2, <1>k, Steady DEF NotPublished
  <2> QED  BY <1>4, <2>2, <2>3 DEF Load
<1>5. CASE Own(j)
  BY <1>0, <1>5, <1>k, Steady DEF Own, Goto, JobRow, NotPublished
<1>6. CASE Project(j)
  BY <1>0, <1>6, <1>k, Steady DEF Project, JobRow, NotPublished
<1>7. ASSUME NEW sealed \in JobRow, Leave(j, sealed), sealed.before = job[j].before,
             sealed.touched = job[j].touched, sealed.staged = job[j].staged,
             UNCHANGED <<file, backups>>, spent' >= spent
      PROVE  AllKept'
  BY <1>0, <1>7, <1>k, Steady DEF Leave, JobRow, NotPublished
<1>f. ASSUME NEW c \in BOOLEAN, Leave(j, Failed(j, c)), UNCHANGED <<file, backups, spent>>
      PROVE  AllKept'
  <2>1. /\ Failed(j, c) \in JobRow
        /\ Failed(j, c).before = job[j].before
        /\ Failed(j, c).touched = job[j].touched
        /\ Failed(j, c).staged = job[j].staged
    BY <1>0, FailedType
  <2> QED  BY <1>0, <1>7, <1>f, <2>1
<1>8. CASE Finish(j)
  <2>1. job[j].result \in Outcome /\ Evidence(j) \in Report
    BY <1>0, Names, EvidenceType DEF JobRow
  <2>2. CASE Leave(j, Sealed(j, job[j].result, Evidence(j)))
    BY <1>0, <1>7, <1>8, <2>1, <2>2, SealedType DEF Finish
  <2>3. CASE Leave(j, Failed(j, TRUE))
    BY <1>8, <1>f, <2>3 DEF Finish
  <2> QED  BY <1>8, <2>2, <2>3 DEF Finish
<1>9. CASE Fail(j)
  BY <1>9, <1>f DEF Fail
<1>10. CASE FailCancelled(j)
  BY <1>10, <1>f DEF FailCancelled
<1>11. CASE Interrupt(j)
  BY <1>0, <1>11, <1>k, Steady DEF Interrupt, Goto, JobRow, NotPublished
<1>12. CASE Assess(j)
  BY <1>0, <1>12, <1>k, Steady, UpsetType DEF Assess, JobRow
<1>13. CASE Recover(j)
  <2>1. job[j].read \in Report  BY <1>0 DEF JobRow
  <2>2. "unsafe" \in Outcome  BY Names
  <2> QED  BY <1>0, <1>13, <2>1, <2>2, <1>k, Steady, SealedType DEF Recover
<1>14. CASE Fault(j)
  <2>1. spent' >= spent  BY <1>0, <1>14, UpsetType DEF Fault
  <2>2. CASE Crash(j)
    BY <1>0, <1>7, <2>1, <2>2 DEF Crash
  <2>3. CASE LoseGate(j)
    BY <1>0, <2>1, <2>3, <1>k, Steady DEF LoseGate
  <2>4. CASE LoseEffects(j)
    BY <1>0, <2>1, <2>4, <1>k, Steady DEF LoseEffects, Goto, JobRow, NotPublished
  <2> QED  BY <1>14, <2>2, <2>3, <2>4 DEF Fault
<1> QED
  BY <1>1, <1>2, <1>3, <1>4, <1>5, <1>6, <1>8, <1>9, <1>10, <1>11, <1>12, <1>13, <1>14

\* The destination is seen: nothing is copied or promised of it unless it is absent.
LEMMA ObserveKeeps ==
  ASSUME KeptInv, TypeOK', NEW j \in Job, Observe(j)
  PROVE  AllKept'
<1> USE JobType
<1>0. TypeOK /\ spent \in Nat  BY BoundIsNumber DEF KeptInv, TypeOK
<1>1. CASE Goto(j, "raised")
  BY <1>0, <1>1, Steady DEF KeptOn, Observe, Goto, JobRow, NotPublished
<1>2. CASE ~Goto(j, "raised")
  <2>1. /\ job'[j].before = file /\ job'[j].touched = job[j].touched
        /\ job'[j].at \in {"own", "intend", "stage"}
        /\ job'[j].at = "intend" => file.image = none
        /\ job'[j].at = "stage" => file.image # none
        /\ job[j].at = "observe"
        /\ \A k \in Job \ {j} : job'[k] = job[k]
    BY <1>0, <1>2 DEF Observe, JobRow
  <2>2. file' = file /\ backups' = backups /\ spent' = spent /\ last' = last  BY <1>2 DEF Observe
  <2>4. Seen(file)' /\ \A k \in Job \ {j} : Keeping(k)'
    BY <2>1, <2>2, OneMoves
  <2>5. Keeping(j)'
    <3>1. "destination" \notin job'[j].touched
      BY <2>1 DEF KeptInv, AllKept, Keeping, NotPublished
    <3>2. file.image \in Bytes  BY <1>0, BeforeType
    <3> QED  BY <2>1, <2>2, <2>4, <3>1, <3>2 DEF Keeping, Seen, Bytes
  <2> QED  BY <2>4, <2>5 DEF AllKept
<1> QED  BY <1>1, <1>2

\* What is staged is what the destination holds; a backup that is reused has the bytes
\* that were seen.
LEMMA StageKeeps ==
  ASSUME KeptInv, TypeOK', NEW j \in Job, Stage(j)
  PROVE  AllKept'
<1> USE JobType
<1>0. TypeOK /\ spent \in Nat  BY BoundIsNumber DEF KeptInv, TypeOK
<1> DEFINE key == job[j].before.image
<1>1. CASE Goto(j, "raised")
  BY <1>0, <1>1, Steady DEF KeptOn, Stage, Goto, JobRow, NotPublished
<1>2. CASE ~Goto(j, "raised")
  <2>1. file' = file /\ backups' = backups /\ spent' = spent /\ last' = last /\ job[j].at = "stage"
    BY <1>2 DEF Stage
  <2>2. /\ job'[j].before = job[j].before /\ job'[j].touched = job[j].touched
        /\ \A k \in Job \ {j} : job'[k] = job[k]
        /\ \/ job'[j].at \in {"own", "intend"} /\ backups[key] = key
           \/ job'[j].at = "intendBackup" /\ job'[j].staged = file.image
    <3>1. CASE backups[key] = key
      BY <1>0, <1>2, <3>1, KeptType DEF Stage
    <3>2. CASE backups[key] # key
      BY <1>0, <1>2, <3>2 DEF Stage, JobRow
    <3> QED  BY <3>1, <3>2
  <2>4. Seen(file)' /\ \A k \in Job \ {j} : Keeping(k)'
    BY <2>1, <2>2, OneMoves
  <2>5. Keeping(j)'
    <3>1. Keeping(j)  BY DEF KeptInv, AllKept
    <3>2. "destination" \notin job'[j].touched /\ key \in Image
      BY <2>1, <2>2, <3>1 DEF Keeping, NotPublished
    <3>3. Seen(job[j].before)'  BY <2>1, <2>2, OneMoves
    <3>4. job'[j].at = "intend" /\ file = job[j].before => Stored(file.image)'
      BY <2>1, <2>2, <3>2 DEF Stored
    <3>5. job'[j].at \notin {"publishBackup", "storeBackup", "stage", "publish", "replace"}
      BY <2>2
    <3> QED  BY <2>1, <2>2, <3>2, <3>3, <3>4, <3>5 DEF Keeping, Unchanged
  <2> QED  BY <2>4, <2>5 DEF AllKept
<1> QED  BY <1>1, <1>2

\* An intent promises no more than what it follows; nor does the check at the boundary.
LEMMA IntentKeeps ==
  ASSUME KeptInv, TypeOK', NEW j \in Job, IntendBackup(j) \/ PublishBackup(j) \/ Intend(j)
  PROVE  AllKept'
<1> USE JobType
<1>0. TypeOK /\ spent \in Nat  BY BoundIsNumber DEF KeptInv, TypeOK
<1>1. CASE Goto(j, "raised")
  BY <1>0, <1>1, Steady DEF KeptOn, IntendBackup, PublishBackup, Intend, Goto, JobRow, NotPublished
<1>2. CASE ~Goto(j, "raised")
  <2>1. file' = file /\ backups' = backups /\ spent' = spent /\ last' = last
    BY <1>2 DEF IntendBackup, PublishBackup, Intend
  <2>2. /\ job'[j].before = job[j].before /\ job'[j].touched = job[j].touched
        /\ job'[j].staged = job[j].staged
        /\ \A k \in Job \ {j} : job'[k] = job[k]
        /\ \/ job[j].at = "intendBackup" /\ job'[j].at = "publishBackup"
           \/ job[j].at = "publishBackup" /\ job'[j].at = "storeBackup"
           \/ job[j].at = "intend" /\ job'[j].at = "publish"
    <3>1. CASE IntendBackup(j) \/ Intend(j)
      BY <1>0, <1>2, <3>1, IntentType, Names DEF IntendBackup, Intend
    <3>2. CASE PublishBackup(j)
      BY <1>0, <1>2, <3>2 DEF PublishBackup, Goto, JobRow
    <3> QED  BY <3>1, <3>2
  <2>3. Seen(file)' /\ \A k \in Job \ {j} : Keeping(k)'  BY <2>1, <2>2, OneMoves
  <2>4. Keeping(j)'
    <3>1. Keeping(j)  BY DEF KeptInv, AllKept
    <3>2. Seen(job[j].before)'  BY <2>1, <2>2, OneMoves
    <3>3. "destination" \notin job'[j].touched  BY <2>2, <3>1 DEF Keeping, NotPublished
    <3>4. Stored(file.image) => Stored(file.image)'  BY <2>1 DEF Stored
    <3> QED  BY <2>1, <2>2, <3>1, <3>2, <3>3, <3>4 DEF Keeping, Unchanged
  <2> QED  BY <2>3, <2>4 DEF AllKept
<1> QED  BY <1>1, <1>2

\* A backup takes a key that had no bytes, or the same, or overwrites one; what was staged
\* is stored from here on.
LEMMA BackupKeeps ==
  ASSUME KeptInv, TypeOK', NEW j \in Job, StoreBackup(j)
  PROVE  AllKept'
<1> USE JobType
<1>0. TypeOK /\ spent \in Nat  BY BoundIsNumber DEF KeptInv, TypeOK
<1> DEFINE key == job[j].before.image
<1>w. /\ backups' = [backups EXCEPT ![key] = job[j].staged]
      /\ last' = IF backups[key] \in {none, job[j].staged} THEN last ELSE [last EXCEPT !.kept = FALSE]
      /\ \E torn \in BOOLEAN :
           /\ Tear(torn)
           /\ job' = [job EXCEPT ![j] = Evident(Kept(j, TRUE), j, "backup", torn)]
  BY DEF StoreBackup
<1>1. file' = file /\ job[j].at = "storeBackup"  BY DEF StoreBackup
<1>2. Keeping(j) /\ key \in Image /\ "destination" \notin job[j].touched
  BY <1>1 DEF KeptInv, AllKept, Keeping, NotPublished
<1>3. PICK torn \in BOOLEAN :
        Tear(torn) /\ job' = [job EXCEPT ![j] = Evident(Kept(j, TRUE), j, "backup", torn)]
  BY <1>w
<1>4. /\ job'[j].before = job[j].before /\ job'[j].touched = job[j].touched \cup {"backup"}
      /\ job'[j].at \in {"raised", "own", "intend"}
      /\ \A k \in Job \ {j} : job'[k] = job[k]
  <2>1. Kept(j, TRUE) \in JobRow  BY <1>0, KeptType
  <2>2. job'[j] = Evident(Kept(j, TRUE), j, "backup", torn)
        /\ \A k \in Job \ {j} : job'[k] = job[k]
    BY <1>0, <1>3
  <2>3. /\ Kept(j, TRUE).at \in {"own", "intend"}
        /\ Kept(j, TRUE).before = job[j].before
        /\ Kept(j, TRUE).touched = job[j].touched
    BY <1>0, KeptType
  <2>4. ASSUME NEW n \in JobRow, n.at \in {"own", "intend"}, n.before = job[j].before,
               n.touched = job[j].touched, job'[j] = Evident(n, j, "backup", torn)
        PROVE  /\ job'[j].before = job[j].before
               /\ job'[j].touched = job[j].touched \cup {"backup"}
               /\ job'[j].at \in {"raised", "own", "intend"}
    <3>1. job[j] \in JobRow  BY <1>0 DEF TypeOK
    <3>2. CASE torn   BY <2>4, <3>1, <3>2 DEF Evident, JobRow
    <3>3. CASE ~torn  BY <2>4, <3>1, <3>3 DEF Evident, JobRow
    <3> QED  BY <1>3, <3>2, <3>3
  <2> QED  BY <2>1, <2>2, <2>3, <2>4, Zenon
<1>5. KeptOn /\ (last'.kept => \A i \in Image : Stored(i) => Stored(i)')
  <2>1. backups \in [Image -> Bytes] /\ last \in LastType  BY <1>0, TypeParts
  <2>2. last'.kept => last.kept /\ backups[key] \in {none, job[j].staged}
    BY <1>w, <2>1 DEF LastType
  <2>3. ASSUME last'.kept, NEW i \in Image, NEW k \in Image, backups[k] = i
        PROVE  backups'[k] = i
    <3>1. CASE k = key   BY <1>w, <1>2, <2>1, <2>2, <2>3, <3>1, NoneIsNothing
    <3>2. CASE k # key   BY <1>w, <2>1, <2>3, <3>2
    <3> QED  BY <3>1, <3>2
  <2> QED  BY <2>2, <2>3 DEF Stored, KeptOn
<1>6. spent' >= spent  BY <1>0, <1>3, TearType
<1>7. \A k \in Job : job[k].touched \subseteq job'[k].touched  BY <1>4
<1>8. Seen(file)' /\ \A k \in Job \ {j} : Keeping(k)'
  BY <1>1, <1>4, <1>5, <1>6, <1>7, OthersKeep
<1>9. Keeping(j)'
  <2>1. Seen(job[j].before)'
    BY <1>0, <1>2, <1>4, <1>6, <1>7, SeenStays, BeforeType DEF Keeping, Seen
  <2>2. "destination" \notin job'[j].touched  BY <1>2, <1>4
  <2>3. job[j].staged = file.image /\ file.image # none => Stored(file.image)'
    <3>1. backups'[key] = job[j].staged  BY <1>0, <1>w, <1>2 DEF TypeOK
    <3> QED  BY <1>1, <1>2, <3>1 DEF Stored
  <2> QED  BY <1>1, <1>2, <1>4, <2>1, <2>2, <2>3 DEF Keeping, Unchanged
<1> QED  BY <1>8, <1>9 DEF AllKept

\* The last check: what it sees is what was backed up, or absent.
LEMMA PublishKeeps ==
  ASSUME KeptInv, TypeOK', NEW j \in Job, Publish(j)
  PROVE  AllKept'
<1> USE JobType
<1>0. TypeOK /\ spent \in Nat  BY BoundIsNumber DEF KeptInv, TypeOK
<1>1. CASE Goto(j, "raised")
  BY <1>0, <1>1, Steady DEF KeptOn, Publish, Goto, JobRow, NotPublished
<1>2. CASE ~Goto(j, "raised")
  <2>1. /\ file' = file /\ backups' = backups /\ spent' = spent /\ last' = last
        /\ job[j].at = "publish" /\ Unchanged(j)
        /\ job' = [job EXCEPT ![j].at = "replace", ![j].seen = file]
    BY <1>2 DEF Publish, MayReplace
  <2>2. /\ job'[j].before = job[j].before /\ job'[j].touched = job[j].touched
        /\ job'[j].at = "replace" /\ job'[j].seen = file
        /\ \A k \in Job \ {j} : job'[k] = job[k]
    BY <1>0, <2>1 DEF JobRow
  <2>3. /\ Seen(file)' /\ \A k \in Job \ {j} : Keeping(k)'
        /\ Seen(job[j].before)'
    BY <2>1, <2>2, OneMoves
  <2>4. Keeping(j) /\ (Stored(file.image) => Stored(file.image)')
    BY <2>1 DEF KeptInv, AllKept, Stored
  <2>5. "destination" \notin job'[j].touched  BY <2>1, <2>2, <2>4 DEF Keeping, NotPublished
  <2>6. Keeping(j)'  BY <2>1, <2>2, <2>3, <2>4, <2>5 DEF Keeping
  <2> QED  BY <2>3, <2>6 DEF AllKept
<1> QED  BY <1>1, <1>2

\* A publication puts something at the destination that nobody has seen, or nothing.
LEMMA ReplaceKeeps ==
  ASSUME KeptInv, TypeOK', NEW j \in Job, Replace(j)
  PROVE  AllKept'
<1> USE JobType
<1>0. TypeOK /\ spent \in Nat  BY BoundIsNumber DEF KeptInv, TypeOK
<1>1. CASE Goto(j, "raised") /\ UNCHANGED <<file, spent, last>>
  BY <1>0, <1>1, Steady DEF KeptOn, Replace, Goto, JobRow, NotPublished
<1>2. CASE /\ last' = [last EXCEPT !.file = j]
           /\ file' = IF job[j].op = "reset" THEN Absent ELSE [image |-> job[j].image, by |-> j]
           /\ \E torn \in BOOLEAN :
                /\ Tear(torn)
                /\ job' = [job EXCEPT ![j] = Evident(
                     [job[j] EXCEPT !.at = "own", !.result = "succeeded"], j, "destination", torn)]
  <2> DEFINE n == [job[j] EXCEPT !.at = "own", !.result = "succeeded"]
  <2>1. backups' = backups /\ job[j].at = "replace"  BY DEF Replace
  <2>2. Keeping(j) /\ "destination" \notin job[j].touched
    BY <2>1 DEF KeptInv, AllKept, Keeping, NotPublished
  <2>3. PICK torn \in BOOLEAN :
          Tear(torn) /\ job' = [job EXCEPT ![j] = Evident(n, j, "destination", torn)]
    BY <1>2
  <2>4. /\ job'[j].before = job[j].before
        /\ job'[j].touched = job[j].touched \cup {"destination"}
        /\ job'[j].at \in {"raised", "own"}
        /\ \A k \in Job \ {j} : job'[k] = job[k]
    <3>1. n \in JobRow /\ n.at = "own" /\ n.before = job[j].before /\ n.touched = job[j].touched
      BY ZenonT(40), <1>0, Names DEF JobRow
    <3>2. job'[j] = Evident(n, j, "destination", torn) /\ \A k \in Job \ {j} : job'[k] = job[k]
      BY <1>0, <2>3 DEF TypeOK
    <3>3. job[j] \in JobRow  BY <1>0 DEF TypeOK
    <3> HIDE DEF n
    <3>4. CASE torn
      BY <3>1, <3>2, <3>3, <3>4 DEF Evident, JobRow
    <3>5. CASE ~torn
      BY <3>1, <3>2, <3>3, <3>5 DEF Evident, JobRow
    <3> QED  BY <2>3, <3>4, <3>5
  <2>5. spent' >= spent /\ spent' \in Nat  BY <1>0, <2>3, TearType, BoundIsNumber
  <2>6. \A k \in Job : job[k].touched \subseteq job'[k].touched  BY <2>4
  <2>7. file'.by = 0 \/ (file'.by = j /\ file' # Absent)
    <3>1. CASE job[j].op = "reset"  BY <1>2, <3>1 DEF Absent
    <3>2. CASE job[j].op # "reset"
      <4>1. file' = [image |-> job[j].image, by |-> j]  BY <1>2, <3>2
      <4>2. j # 0  BY JobsAreNotNumbers
      <4> QED  BY <4>1, <4>2 DEF Absent
    <3> QED  BY <3>1, <3>2
  <2>8. Seen(file)'  BY <2>4, <2>5, <2>7, JobsAreNotNumbers DEF Seen
  <2>9. ASSUME NEW k \in Job \ {j} PROVE Keeping(k)'
    <3>1. Keeping(k) /\ job'[k] = job[k]  BY <2>4 DEF KeptInv, AllKept
    <3>2. Seen(job[k].before)'
      BY <1>0, <2>5, <2>6, <3>1, SeenStays, BeforeType DEF Keeping, Seen
    <3>3. job[k].before.by # j  BY <2>2, <3>1 DEF Keeping, Seen
    <3>4. file' = job[k].before => file'.image = none  BY <1>2, <3>3 DEF Absent
    <3>5. last'.kept = last.kept  BY <1>0, <1>2 DEF TypeOK
    <3>6. \A i \in Image : Stored(i)' <=> Stored(i)  BY <2>1 DEF Stored
    <3>7. job[k].seen.image \in Bytes  BY <1>0, BeforeType
    <3> QED  BY <3>1, <3>2, <3>4, <3>5, <3>6, <3>7, NoneIsNothing DEF Keeping, Unchanged, Bytes
  <2>10. Keeping(j)'
    <3>1. Seen(job[j].before)'
      BY <1>0, <2>2, <2>4, <2>5, <2>6, SeenStays, BeforeType DEF Keeping, Seen
    <3> QED  BY <2>4, <3>1 DEF Keeping, NotPublished
  <2> QED  BY <2>8, <2>9, <2>10 DEF AllKept
<1> QED  BY <1>1, <1>2 DEF Replace

\* So does a change from outside, whose number is new.
LEMMA OutsideKeeps ==
  ASSUME KeptInv, TypeOK', Outside
  PROVE  AllKept'
<1>0. TypeOK /\ spent \in Nat /\ spent' = spent + 1
  BY BoundIsNumber, UpsetType DEF KeptInv, TypeOK, Outside
<1>1. job' = job /\ backups' = backups  BY DEF Outside
<1>k. last'.kept = last.kept  BY <1>0 DEF Outside, TypeOK
<1>2. (\E i \in Image : file' = [image |-> i, by |-> spent + 1]) \/ file' = Absent
  BY DEF Outside
<1>3. Seen(file)'  BY <1>0, <1>2, JobsAreNotNumbers DEF Seen, Absent
<1>4. ASSUME NEW k \in Job PROVE Keeping(k)'
  <2>1. Keeping(k)  BY <1>4 DEF KeptInv, AllKept
  <2>2. job[k].before \in File /\ Seen(job[k].before)
    BY <1>0, <2>1, BeforeType DEF Keeping
  <2>3. Seen(job[k].before)'
    <3>1. job[k].before.by \in Job \/ job[k].before.by \in Nat
      BY <2>2, BoundIsNumber DEF File, Writer
    <3> QED  BY <1>0, <1>1, <2>2, <3>1 DEF Seen
  <2>4. job[k].before.by # spent + 1
    BY <1>0, <2>2, JobsAreNotNumbers DEF Seen, File, Writer
  <2>5. file' = job[k].before => file'.image = none
    <3>1. CASE \E i \in Image : file' = [image |-> i, by |-> spent + 1]
      <4>1. file'.by = spent + 1  BY <3>1
      <4> QED  BY <2>4, <4>1
    <3>2. CASE file' = Absent  BY <3>2 DEF Absent
    <3> QED  BY <1>2, <3>1, <3>2
  <2>6. \A i : Stored(i)' <=> Stored(i)  BY <1>1 DEF Stored
  <2> QED  BY <1>1, <1>k, <2>1, <2>3, <2>5, <2>6, NoneIsNothing DEF Keeping, Unchanged
<1> QED  BY <1>3, <1>4 DEF AllKept

\* Observers of the row leave file, backups and jobs alone.
LEMMA ObserversKeep ==
  ASSUME KeptInv, TypeOK', RescanLook \/ RescanWrite \/ SyncLook \/ SyncWrite
  PROVE  AllKept'
<1>1. spent' >= spent
  BY BoundIsNumber, UpsetType DEF KeptInv, TypeOK, RescanLook, RescanWrite, SyncLook, SyncWrite
<1>2. job' = job /\ file' = file /\ backups' = backups
  BY DEF RescanLook, RescanWrite, SyncLook, SyncWrite
<1>3. \A i \in Image : Stored(i) => Stored(i)'  BY <1>2 DEF Stored
<1>4. KeptOn
  BY DEF KeptOn, KeptInv, TypeOK, RescanLook, RescanWrite, SyncLook, SyncWrite, Note
<1> QED  BY <1>1, <1>2, <1>3, <1>4, OthersKeep DEF AllKept

LEMMA KeptNext == KeptInv /\ [Next]_vars => KeptInv'
<1> SUFFICES ASSUME KeptInv, [Next]_vars PROVE KeptInv'
  OBVIOUS
<1>1. TypeOK'  BY TypeNext DEF KeptInv
<1>2. CASE UNCHANGED vars
  BY <1>1, <1>2 DEF vars, KeptInv, AllKept, Seen, Keeping, Unchanged, Stored
<1>3. CASE Next
  BY <1>1, <1>3, SteadySteps, ObserveKeeps, StageKeeps, IntentKeeps, BackupKeeps, PublishKeeps,
     ReplaceKeeps, OutsideKeeps, ObserversKeep DEF Next, KeptInv
<1> QED  BY <1>2, <1>3

\* What a poster job replaces or removes is in the backups by then: _create_backup and
\* the identity check at the publication boundary, whatever other programs, lost gates,
\* crashes and recovered jobs do in between.  It is not if another program writes between
\* that check and the rename or deletion, or a mutation without its gate has overwritten
\* a backup.
THEOREM NothingReplacedIsLost == Spec => NothingIsLost
<1>1. Spec => []KeptInv
  BY KeptInit, KeptNext, PTL DEF Spec
<1>2. KeptInv /\ [Next]_vars =>
        [file' # file /\ file.image # none /\ last'.file \in Job
           => Stored(file.image) \/ file # job[last'.file].seen \/ ~last.kept]_vars
  <2> SUFFICES ASSUME KeptInv, Next, file' # file, file.image # none, last'.file \in Job,
                      last.kept, file = job[last'.file].seen
               PROVE  Stored(file.image)
    OBVIOUS
  <2>1. \E j \in Job : Replace(j)
    <3>1. ~Outside  BY NoneIsNothing DEF Outside, KeptInv, TypeOK
    <3> QED
      BY <3>1 DEF Next, Submit, Start, Cancel, Load, Observe, Stage, IntendBackup, PublishBackup,
                  StoreBackup, Intend, Publish, Own, Project, Finish, Fail, Interrupt,
                  FailCancelled, Assess, Recover, Fault, Crash, LoseGate, LoseEffects, RescanLook,
                  RescanWrite, SyncLook, SyncWrite
  <2>2. PICK j \in Job : Replace(j)  BY <2>1
  <2>3. job[j].at = "replace" /\ last'.file = j
    BY <2>2 DEF Replace, KeptInv, TypeOK
  <2> QED  BY <2>3 DEF KeptInv, AllKept, Keeping
<1> QED  BY <1>1, <1>2, PTL DEF Spec, NothingIsLost
-----------------------------------------------------------------------------
(* The course of a job, and the row that follows the file. *)

Unwritten == {"idle", "load", "observe", "stage", "intendBackup", "publishBackup", "storeBackup"}
Ready     == {"observe", "stage", "intendBackup", "publishBackup", "storeBackup", "intend",
              "publish", "replace"}
Ending    == {"finish", "raised", "cancelled", "gone"}
Past      == {"own", "project"} \cup Ending
Aim(op)   == IF op = "backup" THEN "backup" ELSE "destination"

\* What a job's evidence says: Evidence, of a record.
EvidenceOf(r) ==
  IF r.publication # "none" THEN "published"
  ELSE IF r.intent THEN "uncertain" ELSE "nothing"

\* The handler's course: nothing is written before the backup is, nothing without bytes
\* to write, and the row is projected once, at the end.
Handled(r) ==
  /\ r.phase = "absent" => r.at = "idle"
  /\ r.at = "idle" => r.result = "none"
  /\ r.at \in Unwritten => r.touched = {}
  /\ r.at \in Ready /\ r.op \in CopyOp => r.image # none
  /\ r.at \in {"intend", "publish", "replace"} => r.op # "backup"
  /\ r.at \in {"publishBackup", "storeBackup", "publish", "replace"} =>
       r.intent /\ r.publication = "none"
  /\ r.at \in {"storeBackup", "replace"} => r.phase = "running"
  /\ r.at \in {"own", "project"} => r.result # "none"
  /\ r.at \notin Ending => ~r.projected
  /\ r.at = "finish" => r.projected

\* Result and evidence, against what was really written.
Recorded(r) ==
  /\ r.result = "no_change" => r.touched = {} /\ r.at \in Past
  /\ r.result = "succeeded" => Aim(r.op) \in r.touched
  /\ EvidenceOf(r) = "nothing" => r.touched = {}
  /\ EvidenceOf(r) = "published" =>
       /\ r.publication \in r.touched
       /\ "destination" \in r.touched => r.publication = "destination"

\* Who settles a job does so when the handler is gone, or took it for gone: then what was
\* read, and reported, is the evidence for good.
Told(r) ==
  /\ r.outcome \in {"succeeded", "no_change"} => r.at = "gone" /\ r.outcome = r.result /\ r.projected
  /\ r.read # "none" /\ ~r.condemned => r.at = "gone" /\ r.read = EvidenceOf(r)
  /\ r.phase = "terminal" /\ ~r.condemned => r.report \in {"none", EvidenceOf(r)}

Sound(r) == Handled(r) /\ Recorded(r) /\ Told(r)

LEMMA SoundGoto ==
  ASSUME NEW r \in JobRow, Sound(r), NEW s \in {"raised", "cancelled"}, r.at \notin {"idle", "gone"}
  PROVE  Sound([r EXCEPT !.at = s])
BY SMTT(60)
  DEF JobRow, Sound, Handled, Recorded, Told, EvidenceOf, Unwritten, Ready, Ending, Past

LEMMA SoundSubmit ==
  ASSUME NEW r \in JobRow, Sound(r), r.phase = "absent", NEW op \in Op, NEW i \in Bytes
  PROVE  Sound([r EXCEPT !.op = op, !.image = i, !.phase = "queued"])
BY SMTT(60)
  DEF JobRow, Sound, Handled, Recorded, Told, EvidenceOf, Unwritten, Ready, Ending, Past

LEMMA SoundStart ==
  ASSUME NEW r \in JobRow, Sound(r), r.at = "idle"
  PROVE  Sound([r EXCEPT !.phase = "running", !.at = "load"])
BY SMTT(60)
  DEF JobRow, Sound, Handled, Recorded, Told, EvidenceOf, Unwritten, Ready, Ending, Past

LEMMA SoundCancel ==
  ASSUME NEW r \in JobRow, Sound(r), r.at \notin {"storeBackup", "replace"}
  PROVE  /\ r.phase = "queued" =>
              Sound([r EXCEPT !.phase = "terminal", !.outcome = "cancelled", !.report = "none",
                             !.desired = "cancel", !.at = "gone"])
         /\ r.phase = "running" => Sound([r EXCEPT !.desired = "cancel", !.phase = "stopping"])
BY SMTT(60)
  DEF JobRow, Sound, Handled, Recorded, Told, EvidenceOf, Unwritten, Ready, Ending, Past

LEMMA SoundLoad ==
  ASSUME NEW r \in JobRow, Sound(r), r.at = "load", NEW p \in BOOLEAN, NEW i \in Bytes,
         r.op \in CopyOp => i # none
  PROVE  Sound([r EXCEPT !.at = "observe", !.path = p, !.image = i])
BY SMTT(60)
  DEF JobRow, Sound, Handled, Recorded, Told, EvidenceOf, Unwritten, Ready, Ending, Past

LEMMA SoundObserve ==
  ASSUME NEW r \in JobRow, Sound(r), r.at = "observe", NEW f \in File,
         NEW res \in {"none", "no_change"}, NEW s \in {"own", "intend", "stage"},
         s = "own" <=> res = "no_change", s = "intend" => r.op # "backup"
  PROVE  Sound([r EXCEPT !.before = f, !.result = res, !.at = s])
BY SMTT(60)
  DEF JobRow, Sound, Handled, Recorded, Told, EvidenceOf, Unwritten, Ready, Ending, Past

LEMMA SoundStage ==
  ASSUME NEW r \in JobRow, Sound(r), r.at = "stage"
  PROVE  /\ \A i \in Bytes : Sound([r EXCEPT !.at = "intendBackup", !.staged = i])
         /\ r.op = "backup" => Sound([r EXCEPT !.at = "own", !.result = "no_change"])
         /\ r.op # "backup" => Sound([r EXCEPT !.at = "intend"])
BY SMTT(60)
  DEF JobRow, Sound, Handled, Recorded, Told, EvidenceOf, Unwritten, Ready, Ending, Past

LEMMA SoundIntent ==
  ASSUME NEW r \in JobRow, Sound(r), r.phase = "running",
         NEW s \in At, <<r.at, s>> \in {<<"intendBackup", "publishBackup">>, <<"intend", "publish">>}
  PROVE  Sound([r EXCEPT !.at = s, !.intent = TRUE, !.publication = "none"])
<1>1. (r.at = "intendBackup" /\ s = "publishBackup") \/ (r.at = "intend" /\ s = "publish")
  OBVIOUS
<1> QED
  BY <1>1, SMTT(60)
    DEF JobRow, Sound, Handled, Recorded, Told, EvidenceOf, Unwritten, Ready, Ending, Past

LEMMA SoundCheck ==
  ASSUME NEW r \in JobRow, Sound(r), r.phase = "running", NEW f \in File
  PROVE  /\ r.at = "publishBackup" => Sound([r EXCEPT !.at = "storeBackup"])
         /\ r.at = "publish" => Sound([r EXCEPT !.at = "replace", !.seen = f])
BY SMTT(60)
  DEF JobRow, Sound, Handled, Recorded, Told, EvidenceOf, Unwritten, Ready, Ending, Past

LEMMA SoundTorn ==
  ASSUME NEW r \in JobRow, Sound(r), NEW t \in Target, r.at \in {"storeBackup", "replace"}
  PROVE  Sound([r EXCEPT !.at = "raised", !.touched = r.touched \cup {t}])
BY SMTT(60)
  DEF JobRow, Sound, Handled, Recorded, Told, EvidenceOf, Unwritten, Ready, Ending, Past,
      Target

LEMMA SoundBackup ==
  ASSUME NEW r \in JobRow, Sound(r), r.at = "storeBackup"
  PROVE  /\ r.op = "backup" =>
              Sound([r EXCEPT !.at = "own", !.result = "succeeded", !.publication = "backup",
                             !.touched = r.touched \cup {"backup"}])
         /\ r.op # "backup" =>
              Sound([r EXCEPT !.at = "intend", !.publication = "backup",
                             !.touched = r.touched \cup {"backup"}])
BY SMTT(60)
  DEF JobRow, Sound, Handled, Recorded, Told, EvidenceOf, Unwritten, Ready, Ending, Past,
      Target, Aim

LEMMA SoundPublish ==
  ASSUME NEW r \in JobRow, Sound(r), r.at = "replace"
  PROVE  Sound([r EXCEPT !.at = "own", !.result = "succeeded", !.publication = "destination",
                        !.touched = r.touched \cup {"destination"}])
BY SMTT(60)
  DEF JobRow, Sound, Handled, Recorded, Told, EvidenceOf, Unwritten, Ready, Ending, Past,
      Target, Aim

LEMMA SoundProject ==
  ASSUME NEW r \in JobRow, Sound(r)
  PROVE  /\ r.at = "own" => Sound([r EXCEPT !.at = "project"])
         /\ r.at = "project" => Sound([r EXCEPT !.at = "finish", !.projected = TRUE])
BY SMTT(60)
  DEF JobRow, Sound, Handled, Recorded, Told, EvidenceOf, Unwritten, Ready, Ending, Past

\* Whoever leaves does with the evidence as it is, and says so.
LEMMA SoundLeave ==
  ASSUME NEW r \in JobRow, Sound(r), r.at # "idle"
  PROVE  /\ Sound([r EXCEPT !.at = "gone"])
         /\ \A o \in {"unsafe", "cancelled", "failed"} :
              Sound([r EXCEPT !.phase = "terminal", !.outcome = o, !.report = EvidenceOf(r), !.at = "gone"])
         /\ r.at = "finish" =>
              Sound([r EXCEPT !.phase = "terminal", !.outcome = r.result, !.report = EvidenceOf(r), !.at = "gone"])
BY SMTT(60)
  DEF JobRow, Sound, Handled, Recorded, Told, EvidenceOf, Unwritten, Ready, Ending, Past

LEMMA SoundRecover ==
  ASSUME NEW r \in JobRow, Sound(r), r.phase \in {"running", "stopping"}
  PROVE  /\ \A c \in BOOLEAN : c = (r.at # "gone") =>
              Sound([r EXCEPT !.read = EvidenceOf(r), !.condemned = c])
         /\ r.read # "none" /\ r.at \notin {"storeBackup", "replace"} =>
              Sound([r EXCEPT !.phase = "terminal", !.outcome = "unsafe", !.report = r.read])
<1> USE DEF JobRow, Sound, Handled, Recorded, Told, EvidenceOf, Unwritten, Ready, Ending, Past
<1>1. ASSUME NEW c \in BOOLEAN, c = (r.at # "gone")
      PROVE  Sound([r EXCEPT !.read = EvidenceOf(r), !.condemned = c])
  <2>1. CASE r.at = "gone"
    <3>1. c = FALSE  BY <1>1, <2>1
    <3> QED  BY <2>1, <3>1, SMTT(60)
  <2>2. CASE r.at # "gone"
    <3>1. c = TRUE  BY <1>1, <2>2
    <3> QED  BY <2>2, <3>1, SMTT(60)
  <2> QED  BY <2>1, <2>2
<1>2. ASSUME r.read # "none", r.at \notin {"storeBackup", "replace"}
      PROVE  Sound([r EXCEPT !.phase = "terminal", !.outcome = "unsafe", !.report = r.read])
  BY <1>2, SMTT(60)
<1> QED  BY <1>1, <1>2

Course == \A j \in Job : Sound(job[j])

\* What the last writer put at the destination, or removed from it.
Wrote(k) ==
  /\ job[k].at \in Past
  /\ IF job[k].op = "reset" THEN file.image = none
     ELSE job[k].image # none /\ file.image = job[k].image

Writes(r) == r.op # "backup" /\ r.result = "succeeded"

\* While no gate is lost the handlers go one at a time, and one that has written and not
\* projected yet is the last that wrote, unless somebody outside did since.
Ordered ==
  last.gated =>
    /\ \A j \in Job : job[j].at \notin {"idle", "gone"} => gate = j
    /\ last.file \in Job => Wrote(last.file)
    /\ \A j \in Job : job[j].at \in {"own", "project"} =>
         IF Writes(job[j]) THEN last.file \in {j, none} ELSE last.file # j
    /\ ProjectedInOrder

OrderInv == TypeOK /\ Course /\ Ordered

\* A step of j alone that neither writes the file nor projects.
Quiet(j) ==
  /\ \A k \in Job \ {j} : job'[k] = job[k]
  /\ file' = file /\ row' = row
  /\ last'.file = last.file /\ last'.row = last.row /\ last'.gated = last.gated
  /\ gate' = gate \/ gate \in {none, j}
  /\ \/ job'[j].at \in {"idle", "gone"} \/ gate' = j
     \/ gate' = gate /\ job[j].at \notin {"idle", "gone"}
  /\ job[j].at \in Past => /\ job'[j].at \in Past
                           /\ job'[j].op = job[j].op /\ job'[j].image = job[j].image
                           /\ job'[j].projected = job[j].projected
  /\ job'[j].at \in {"own", "project"} =>
       \/ job[j].at \in {"own", "project"} /\ job'[j].result = job[j].result
       \/ job[j].at \notin Past /\ ~Writes(job'[j])

LEMMA QuietKeeps ==
  ASSUME OrderInv, TypeOK', NEW j \in Job, Quiet(j), Sound(job'[j])
  PROVE  OrderInv'
<1>1. Course'  BY DEF OrderInv, Course, Quiet
<1>2. Ordered'
  <2> SUFFICES ASSUME last'.gated PROVE Ordered'
    BY DEF Ordered
  <2>0. /\ last.gated /\ file' = file /\ row' = row
        /\ last'.file = last.file /\ last'.row = last.row /\ last'.gated = last.gated
    BY DEF Quiet
  <2>1. \A k \in Job : job'[k].at \notin {"idle", "gone"} => gate' = k
    <3>1. ASSUME NEW k \in Job, k # j, job'[k].at \notin {"idle", "gone"} PROVE gate' = k
      <4>1. gate = k  BY <2>0, <3>1 DEF OrderInv, Ordered, Quiet
      <4> QED  BY <3>1, <4>1, NoneIsNothing DEF Quiet
    <3>2. ASSUME job'[j].at \notin {"idle", "gone"} PROVE gate' = j
      BY <2>0, <3>2 DEF OrderInv, Ordered, Quiet
    <3> QED  BY <3>1, <3>2
  <2>2. ASSUME last.file \in Job PROVE Wrote(last.file)'
    <3>1. Wrote(last.file)  BY <2>0, <2>2 DEF OrderInv, Ordered
    <3> QED  BY <2>0, <2>2, <3>1 DEF Wrote, Quiet
  <2>3. \A k \in Job : job'[k].at \in {"own", "project"} =>
          IF Writes(job'[k]) THEN last.file \in {k, none} ELSE last.file # k
    <3>1. ASSUME NEW k \in Job, k # j
          PROVE  job'[k].at \in {"own", "project"} =>
                   IF Writes(job'[k]) THEN last.file \in {k, none} ELSE last.file # k
      BY <2>0, <3>1 DEF OrderInv, Ordered, Quiet
    <3>2. ASSUME job'[j].at \in {"own", "project"}
          PROVE  IF Writes(job'[j]) THEN last.file \in {j, none} ELSE last.file # j
      <4>1. CASE job[j].at \in {"own", "project"} /\ job'[j].result = job[j].result
        <5>1. Writes(job'[j]) <=> Writes(job[j])  BY <4>1 DEF Writes, Quiet, Past
        <5> QED  BY <2>0, <4>1, <5>1 DEF OrderInv, Ordered
      <4>2. CASE job[j].at \notin Past /\ ~Writes(job'[j])
        BY <2>0, <4>2 DEF OrderInv, Ordered, Wrote
      <4> QED  BY <3>2, <4>1, <4>2 DEF Quiet
    <3> QED  BY <3>1, <3>2
  <2>4. ProjectedInOrder'
    <3> SUFFICES ASSUME last.row \in Job, last.file \in Job, job'[last.file].projected
                 PROVE  RowAgrees'
      BY <2>0 DEF ProjectedInOrder
    <3>1. Wrote(last.file)  BY <2>0 DEF OrderInv, Ordered
    <3>2. job[last.file].projected  BY <3>1 DEF Wrote, Quiet
    <3>3. RowAgrees  BY <2>0, <3>2 DEF OrderInv, Ordered, ProjectedInOrder
    <3> QED  BY <2>0, <3>3 DEF RowAgrees
  <2> QED  BY <2>0, <2>1, <2>2, <2>3, <2>4 DEF Ordered
<1> QED  BY <1>1, <1>2 DEF OrderInv

LEMMA RowOf ==
  ASSUME OrderInv, NEW j \in Job
  PROVE  TypeOK /\ job \in [Job -> JobRow] /\ job[j] \in JobRow /\ Sound(job[j])
BY DEF OrderInv, TypeOK, Course

\* A job that was stopped, wherever it is.
LEMMA GotoKeeps ==
  ASSUME OrderInv, TypeOK', NEW j \in Job, NEW s \in {"raised", "cancelled"}, Goto(j, s),
         job[j].at \notin {"idle", "gone"},
         UNCHANGED <<file, row, gate, last>>
  PROVE  OrderInv'
<1>1. job'[j] = [job[j] EXCEPT !.at = s] /\ \A k \in Job \ {j} : job'[k] = job[k]
  BY RowOf DEF Goto
<1>2. Sound(job'[j])  BY <1>1, RowOf, SoundGoto
<1>3. Quiet(j)  BY <1>1, RowOf DEF Quiet, JobRow, Past, Ending
<1> QED  BY <1>2, <1>3, QuietKeeps

LEMMA ControlOrdered ==
  ASSUME OrderInv, TypeOK', NEW j \in Job,
         (\E op \in Op, i \in Bytes : Submit(j, op, i)) \/ Start(j) \/ Cancel(j)
  PROVE  OrderInv'
<1> USE RowOf
<1>1. ASSUME NEW op \in Op, NEW i \in Bytes, Submit(j, op, i) PROVE OrderInv'
  <2>1. /\ job'[j] = [job[j] EXCEPT !.op = op, !.image = i, !.phase = "queued"]
        /\ \A k \in Job \ {j} : job'[k] = job[k]
        /\ job[j].phase = "absent" /\ UNCHANGED <<file, row, gate, last>>
    BY <1>1 DEF Submit
  <2>2. Sound(job'[j])
    <3>1. Sound([job[j] EXCEPT !.op = op, !.image = i, !.phase = "queued"])
      BY <2>1, SoundSubmit, Zenon
    <3> QED  BY <2>1, <3>1, Zenon
  <2>3. job[j].at = "idle"  BY <2>1 DEF Sound, Handled
  <2>4. Quiet(j)  BY <2>1, <2>3 DEF Quiet, JobRow, Past, Ending
  <2> QED  BY <2>2, <2>4, QuietKeeps
<1>2. CASE Start(j)
  <2>1. /\ job'[j] = [job[j] EXCEPT !.phase = "running", !.at = "load"]
        /\ \A k \in Job \ {j} : job'[k] = job[k]
        /\ job[j].at = "idle" /\ gate = none /\ gate' = j /\ UNCHANGED <<file, row, last>>
    BY <1>2 DEF Start, GateFree
  <2>2. Sound(job'[j])  BY <2>1, SoundStart
  <2>3. Quiet(j)  BY <2>1 DEF Quiet, JobRow, Past, Ending
  <2> QED  BY <2>2, <2>3, QuietKeeps
<1>3. CASE Cancel(j)
  <2>0. UNCHANGED <<file, row, gate, last>> /\ job[j].at \notin {"storeBackup", "replace"}
    BY <1>3 DEF Cancel, Locked
  <2>1. CASE /\ job[j].phase = "queued"
             /\ job' = [job EXCEPT ![j] = [Sealed(j, "cancelled", "none") EXCEPT
                                             !.desired = "cancel", !.at = "gone"]]
    <3>1. /\ job'[j] = [job[j] EXCEPT !.phase = "terminal", !.outcome = "cancelled",
                                      !.report = "none", !.desired = "cancel", !.at = "gone"]
          /\ \A k \in Job \ {j} : job'[k] = job[k]
      BY <2>1 DEF Sealed, JobRow
    <3>2. Sound(job'[j])  BY <2>0, <2>1, <3>1, SoundCancel
    <3>3. Quiet(j)  BY <2>0, <3>1 DEF Quiet, JobRow, Past, Ending
    <3> QED  BY <3>2, <3>3, QuietKeeps
  <2>2. CASE /\ job[j].phase = "running"
             /\ job' = [job EXCEPT ![j].desired = "cancel", ![j].phase = "stopping"]
    <3>1. /\ job'[j] = [job[j] EXCEPT !.desired = "cancel", !.phase = "stopping"]
          /\ \A k \in Job \ {j} : job'[k] = job[k]
      BY <2>2
    <3>2. Sound(job'[j])  BY <2>0, <2>2, <3>1, SoundCancel
    <3>3. Quiet(j)  BY <2>0, <3>1 DEF Quiet, JobRow, Past
    <3> QED  BY <3>2, <3>3, QuietKeeps
  <2> QED  BY <1>3, <2>1, <2>2 DEF Cancel
<1> QED  BY <1>1, <1>2, <1>3

LEMMA FindingOrdered ==
  ASSUME OrderInv, TypeOK', NEW j \in Job, Load(j) \/ Observe(j) \/ Stage(j)
  PROVE  OrderInv'
<1> USE RowOf
<1>1. CASE Goto(j, "raised") /\ job[j].at \in {"load", "observe", "stage"}
  BY <1>1, GotoKeeps DEF Load, Observe, Stage
<1>2. CASE Load(j) /\ ~Goto(j, "raised")
  <2> DEFINE i == IF job[j].op \in CopyOp THEN Candidate(j) ELSE none
  <2>1. i \in Bytes /\ (job[j].op \in CopyOp => i # none)
    BY <1>2, CandidateType, Names DEF Load, Acceptable
  <2>2. job' = [job EXCEPT ![j].at = "observe", ![j].path = row.path, ![j].image = i]
    BY <1>2 DEF Load
  <2>3. job[j].at = "load" /\ UNCHANGED <<file, row, gate, last>>  BY <1>2 DEF Load
  <2>4. row.path \in BOOLEAN  BY DEF TypeOK
  <2> HIDE DEF i
  <2>5. /\ job'[j] = [job[j] EXCEPT !.at = "observe", !.path = row.path, !.image = i]
        /\ \A k \in Job \ {j} : job'[k] = job[k]
    BY <2>2
  <2>6. Sound(job'[j])
    <3>1. Sound([job[j] EXCEPT !.at = "observe", !.path = row.path, !.image = i])
      BY <2>1, <2>3, <2>4, SoundLoad, Zenon
    <3> QED  BY <2>5, <3>1, Zenon
  <2>7. Quiet(j)  BY <2>3, <2>5 DEF Quiet, JobRow, Past, Ending
  <2> QED  BY <2>6, <2>7, QuietKeeps
<1>3. CASE Observe(j) /\ ~Goto(j, "raised")
  <2> DEFINE r == IF NothingToDo(j) THEN "no_change" ELSE "none"
             s == IF NothingToDo(j) THEN "own" ELSE IF file.image = none THEN "intend" ELSE "stage"
  <2>1. /\ r \in {"none", "no_change"} /\ s \in {"own", "intend", "stage"}
        /\ s = "own" <=> r = "no_change"
        /\ s = "intend" => job[j].op # "backup"
    BY DEF NothingToDo, CopyOp
  <2>2. job' = [job EXCEPT ![j].before = file, ![j].result = r, ![j].at = s]
    BY <1>3 DEF Observe
  <2>3. job[j].at = "observe" /\ UNCHANGED <<file, row, gate, last>>  BY <1>3 DEF Observe
  <2>4. file \in File  BY DEF TypeOK
  <2> HIDE DEF r, s
  <2>5. /\ job'[j] = [job[j] EXCEPT !.before = file, !.result = r, !.at = s]
        /\ \A k \in Job \ {j} : job'[k] = job[k]
    BY <2>2
  <2>6. Sound(job'[j])
    <3>1. Sound([job[j] EXCEPT !.before = file, !.result = r, !.at = s])
      BY <2>1, <2>3, <2>4, SoundObserve, Zenon
    <3> QED  BY <2>5, <3>1, Zenon
  <2>7. Quiet(j)  BY <2>1, <2>3, <2>5 DEF Quiet, JobRow, Past, Ending, Writes
  <2> QED  BY <2>6, <2>7, QuietKeeps
<1>4. CASE Stage(j) /\ ~Goto(j, "raised")
  <2>0. job[j].at = "stage" /\ UNCHANGED <<file, row, gate, last>> /\ file.image \in Bytes
    BY <1>4 DEF Stage, TypeOK, File
  <2>1. CASE job' = [job EXCEPT ![j].at = "intendBackup", ![j].staged = file.image]
    <3>1. /\ job'[j] = [job[j] EXCEPT !.at = "intendBackup", !.staged = file.image]
          /\ \A k \in Job \ {j} : job'[k] = job[k]
      BY <2>1
    <3>2. Sound(job'[j])
      <4>1. Sound([job[j] EXCEPT !.at = "intendBackup", !.staged = file.image])
        BY <2>0, SoundStage, Zenon
      <4> QED  BY <3>1, <4>1, Zenon
    <3>3. Quiet(j)  BY <2>0, <3>1 DEF Quiet, JobRow, Past, Ending
    <3> QED  BY <3>2, <3>3, QuietKeeps
  <2>2. CASE job' = [job EXCEPT ![j] = Kept(j, FALSE)]
    <3>1. job'[j] = Kept(j, FALSE) /\ \A k \in Job \ {j} : job'[k] = job[k]
      BY <2>2
    <3>2. CASE job[j].op = "backup"
      <4>1. job'[j] = [job[j] EXCEPT !.at = "own", !.result = "no_change"]
        BY <3>1, <3>2 DEF Kept
      <4>2. Sound(job'[j])  BY <2>0, <3>2, <4>1, SoundStage
      <4>3. Quiet(j)  BY <2>0, <3>1, <4>1 DEF Quiet, JobRow, Past, Ending, Writes
      <4> QED  BY <4>2, <4>3, QuietKeeps
    <3>3. CASE job[j].op # "backup"
      <4>1. job'[j] = [job[j] EXCEPT !.at = "intend"]
        BY <3>1, <3>3 DEF Kept
      <4>2. Sound(job'[j])  BY <2>0, <3>3, <4>1, SoundStage
      <4>3. Quiet(j)  BY <2>0, <3>1, <4>1 DEF Quiet, JobRow, Past, Ending
      <4> QED  BY <4>2, <4>3, QuietKeeps
    <3> QED  BY <3>2, <3>3
  <2> QED  BY <1>4, <2>1, <2>2 DEF Stage
<1> QED  BY <1>1, <1>2, <1>3, <1>4 DEF Load, Observe, Stage

LEMMA IntentOrdered ==
  ASSUME OrderInv, TypeOK', NEW j \in Job, IntendBackup(j) \/ Intend(j)
  PROVE  OrderInv'
<1> USE RowOf
<1>1. UNCHANGED <<file, row, gate, last>>  BY DEF IntendBackup, Intend
<1>2. CASE Goto(j, "raised") /\ job[j].at \in {"intendBackup", "intend"}
  BY <1>1, <1>2, GotoKeeps
<1>3. CASE ~Goto(j, "raised")
  <2>1. PICK s \in At :
          /\ <<job[j].at, s>> \in {<<"intendBackup", "publishBackup">>, <<"intend", "publish">>}
          /\ job[j].phase = "running" /\ job' = [job EXCEPT ![j] = WithIntent(j, s)]
    BY <1>3, Names DEF IntendBackup, Intend, MayPublish
  <2>2. /\ job'[j] = [job[j] EXCEPT !.at = s, !.intent = TRUE, !.publication = "none"]
        /\ \A k \in Job \ {j} : job'[k] = job[k]
    BY <2>1 DEF WithIntent
  <2>3. Sound(job'[j])
    <3>1. Sound([job[j] EXCEPT !.at = s, !.intent = TRUE, !.publication = "none"])
      BY <2>1, SoundIntent, Zenon
    <3> QED  BY <2>2, <3>1, Zenon
  <2>4. job[j].at \in {"intend", "intendBackup"} /\ s \in {"publish", "publishBackup"}
    BY <2>1
  <2>5. Quiet(j)  BY <1>1, <2>2, <2>4 DEF Quiet, JobRow, Past, Ending
  <2> QED  BY <2>3, <2>5, QuietKeeps
<1> QED  BY <1>2, <1>3 DEF IntendBackup, Intend

\* The checks at the boundary write nothing.
LEMMA CheckOrdered ==
  ASSUME OrderInv, TypeOK', NEW j \in Job, PublishBackup(j) \/ Publish(j)
  PROVE  OrderInv'
<1> USE RowOf
<1>1. /\ UNCHANGED <<file, row, gate, last>> /\ file \in File
      /\ job[j].at \in {"publishBackup", "publish"}
  BY DEF PublishBackup, Publish, TypeOK
<1>2. CASE Goto(j, "raised")
  BY <1>1, <1>2, GotoKeeps
<1>3. CASE PublishBackup(j) /\ ~Goto(j, "raised")
  <2>1. /\ job[j].at = "publishBackup" /\ job[j].phase = "running"
        /\ job'[j] = [job[j] EXCEPT !.at = "storeBackup"]
        /\ \A k \in Job \ {j} : job'[k] = job[k]
    BY <1>3 DEF PublishBackup, MayPublish, Goto
  <2>2. Sound(job'[j])
    <3>1. Sound([job[j] EXCEPT !.at = "storeBackup"])  BY <1>1, <2>1, SoundCheck, Zenon
    <3> QED  BY <2>1, <3>1, Zenon
  <2>3. Quiet(j)  BY <1>1, <2>1 DEF Quiet, JobRow, Past, Ending
  <2> QED  BY <2>2, <2>3, QuietKeeps
<1>4. CASE Publish(j) /\ ~Goto(j, "raised")
  <2>1. /\ job[j].at = "publish" /\ job[j].phase = "running"
        /\ job'[j] = [job[j] EXCEPT !.at = "replace", !.seen = file]
        /\ \A k \in Job \ {j} : job'[k] = job[k]
    BY <1>4 DEF Publish, MayReplace, MayPublish
  <2>2. Sound(job'[j])
    <3>1. Sound([job[j] EXCEPT !.at = "replace", !.seen = file])
      BY <1>1, <2>1, SoundCheck, Zenon
    <3> QED  BY <2>1, <3>1, Zenon
  <2>3. Quiet(j)  BY <1>1, <2>1 DEF Quiet, JobRow, Past, Ending
  <2> QED  BY <2>2, <2>3, QuietKeeps
<1> QED  BY <1>2, <1>3, <1>4

LEMMA BackupOrdered ==
  ASSUME OrderInv, TypeOK', NEW j \in Job, StoreBackup(j)
  PROVE  OrderInv'
<1> USE RowOf
<1>0. /\ UNCHANGED <<file, row, gate>> /\ job[j].at = "storeBackup"
      /\ last'.file = last.file /\ last'.row = last.row /\ last'.gated = last.gated
  BY DEF StoreBackup, TypeOK
<1>1. PICK torn \in BOOLEAN : job' = [job EXCEPT ![j] = Evident(Kept(j, TRUE), j, "backup", torn)]
  BY DEF StoreBackup
<1>2. job'[j] = Evident(Kept(j, TRUE), j, "backup", torn) /\ \A k \in Job \ {j} : job'[k] = job[k]
  BY <1>1
<1>3. CASE torn
  <2>1. job'[j] = [job[j] EXCEPT !.at = "raised", !.touched = job[j].touched \cup {"backup"}]
    BY <1>2, <1>3 DEF Evident, JobRow
  <2>3. Sound(job'[j])
    <3>1. Sound([job[j] EXCEPT !.at = "raised", !.touched = job[j].touched \cup {"backup"}])
      BY <1>0, SoundTorn, Names, Zenon
    <3> QED  BY <2>1, <3>1, Zenon
  <2>4. Quiet(j)  BY <1>0, <1>2, <2>1 DEF Quiet, JobRow, Past, Ending
  <2> QED  BY <2>3, <2>4, QuietKeeps
<1>4. CASE ~torn /\ job[j].op = "backup"
  <2>1. job'[j] = [job[j] EXCEPT !.at = "own", !.result = "succeeded", !.publication = "backup",
                                 !.touched = job[j].touched \cup {"backup"}]
    BY <1>2, <1>4 DEF Evident, Kept, JobRow
  <2>2. Sound(job'[j])  BY <1>0, <1>4, <2>1, SoundBackup
  <2>3. Quiet(j)  BY <1>0, <1>2, <1>4, <2>1 DEF Quiet, JobRow, Past, Ending, Writes
  <2> QED  BY <2>2, <2>3, QuietKeeps
<1>5. CASE ~torn /\ job[j].op # "backup"
  <2>1. job'[j] = [job[j] EXCEPT !.at = "intend", !.publication = "backup",
                                 !.touched = job[j].touched \cup {"backup"}]
    BY <1>2, <1>5 DEF Evident, Kept, JobRow
  <2>2. Sound(job'[j])  BY <1>0, <1>5, <2>1, SoundBackup
  <2>3. Quiet(j)  BY <1>0, <1>2, <2>1 DEF Quiet, JobRow, Past, Ending
  <2> QED  BY <2>2, <2>3, QuietKeeps
<1> QED  BY <1>3, <1>4, <1>5

\* The writer has the gate, so no other handler is under way: it is the last that wrote,
\* and has not projected.
LEMMA ReplaceOrdered ==
  ASSUME OrderInv, TypeOK', NEW j \in Job, Replace(j)
  PROVE  OrderInv'
<1> USE RowOf
<1>1. UNCHANGED <<row, gate>> /\ job[j].at = "replace"  BY DEF Replace
<1>2. CASE Goto(j, "raised") /\ UNCHANGED <<file, last>>
  BY <1>1, <1>2, GotoKeeps
<1>3. CASE ~(Goto(j, "raised") /\ UNCHANGED <<file, last>>)
  <2> DEFINE n == [job[j] EXCEPT !.at = "own", !.result = "succeeded"]
  <2>1. /\ last' = [last EXCEPT !.file = j]
        /\ file' = IF job[j].op = "reset" THEN Absent ELSE [image |-> job[j].image, by |-> j]
    BY <1>3 DEF Replace
  <2>2. PICK torn \in BOOLEAN : job' = [job EXCEPT ![j] = Evident(n, j, "destination", torn)]
    BY <1>3 DEF Replace
  <2>3. job'[j] = Evident(n, j, "destination", torn) /\ \A k \in Job \ {j} : job'[k] = job[k]
    BY <2>2
  <2>4. /\ Sound(job'[j]) /\ job'[j].op = job[j].op /\ job'[j].image = job[j].image
        /\ job'[j].projected = job[j].projected
        /\ job'[j].at \in {"raised", "own"}
        /\ job'[j].at = "own" => job'[j].result = "succeeded"
    <3>1. CASE torn
      <4>1. job'[j] = [job[j] EXCEPT !.at = "raised", !.touched = job[j].touched \cup {"destination"}]
        BY <2>3, <3>1 DEF Evident, JobRow
      <4>3. Sound([job[j] EXCEPT !.at = "raised", !.touched = job[j].touched \cup {"destination"}])
        BY <1>1, SoundTorn, Names, Zenon
      <4>4. Sound(job'[j])  BY <4>1, <4>3, Zenon
      <4> QED  BY <4>1, <4>4 DEF JobRow
    <3>2. CASE ~torn
      <4>1. job'[j] = [job[j] EXCEPT !.at = "own", !.result = "succeeded",
                                     !.publication = "destination",
                                     !.touched = job[j].touched \cup {"destination"}]
        BY <2>3, <3>2 DEF Evident, JobRow
      <4>2. Sound(job'[j])  BY <1>1, <4>1, SoundPublish
      <4> QED  BY <4>1, <4>2 DEF JobRow
    <3> QED  BY <3>1, <3>2
  <2>5. Course'  BY <2>3, <2>4 DEF OrderInv, Course
  <2>6. job[j].op # "backup" /\ ~job[j].projected /\ (job[j].op \in CopyOp => job[j].image # none)
    BY <1>1 DEF Sound, Handled, Ready, Ending
  <2>7. job[j].op \in CopyOp \/ job[j].op = "reset"  BY <2>6 DEF JobRow, Op, CopyOp
  <2>8. Ordered'
    <3> SUFFICES ASSUME last'.gated PROVE Ordered'
      BY DEF Ordered
    <3>0. last.gated /\ last'.file = j  BY <2>1 DEF TypeOK
    <3>1. gate = j /\ \A k \in Job : job[k].at \notin {"idle", "gone"} => k = j
      BY <1>1, <3>0 DEF OrderInv, Ordered
    <3>2. \A k \in Job : job'[k].at \notin {"idle", "gone"} => gate' = k
      BY <1>1, <2>3, <3>1
    <3>3. Wrote(j)'
      <4>1. job'[j].at \in Past  BY <2>4 DEF Past, Ending
      <4>2. IF job[j].op = "reset" THEN file'.image = none
            ELSE job[j].image # none /\ file'.image = job[j].image
        BY <2>1, <2>6, <2>7 DEF Absent
      <4> QED  BY <2>4, <4>1, <4>2 DEF Wrote
    <3>4. \A k \in Job : job'[k].at \in {"own", "project"} =>
            IF Writes(job'[k]) THEN last'.file \in {k, none} ELSE last'.file # k
      <4>1. ASSUME NEW k \in Job, job'[k].at \in {"own", "project"} PROVE k = j
        BY <2>3, <3>1, <4>1
      <4>2. job'[j].at = "own" => Writes(job'[j])  BY <2>4, <2>6 DEF Writes
      <4>3. job'[j].at # "project"  BY <2>4
      <4> QED  BY <3>0, <4>1, <4>2, <4>3
    <3>5. ProjectedInOrder'  BY <2>4, <2>6, <3>0 DEF ProjectedInOrder
    <3> QED  BY <3>0, <3>2, <3>3, <3>4, <3>5 DEF Ordered
  <2> QED  BY <2>5, <2>8 DEF OrderInv
<1> QED  BY <1>2, <1>3

\* A job projects what it wrote, and then the row is as the file; or it leaves path and
\* checksum alone.
LEMMA ProjectOrdered ==
  ASSUME OrderInv, TypeOK', NEW j \in Job, Own(j) \/ Project(j)
  PROVE  OrderInv'
<1> USE RowOf
<1>1. CASE Own(j)
  <2>1. job[j].at = "own" /\ UNCHANGED <<file, row, gate, last>>  BY <1>1 DEF Own
  <2>2. CASE Goto(j, "raised")
    BY <2>1, <2>2, GotoKeeps
  <2>3. CASE Goto(j, "project")
    <3>1. job'[j] = [job[j] EXCEPT !.at = "project"] /\ \A k \in Job \ {j} : job'[k] = job[k]
      BY <2>3 DEF Goto
    <3>2. Sound(job'[j])  BY <2>1, <3>1, SoundProject
    <3>3. Quiet(j)  BY <2>1, <3>1 DEF Quiet, JobRow, Past
    <3> QED  BY <3>2, <3>3, QuietKeeps
  <2> QED  BY <1>1, <2>2, <2>3 DEF Own
<1>2. CASE Project(j)
  <2>1. /\ job[j].at = "project" /\ row' = Projection(j) /\ file' = file /\ gate' = gate
        /\ last' = IF Writes(job[j]) THEN [last EXCEPT !.row = j] ELSE last
    BY <1>2 DEF Project, Writes
  <2>2. /\ job'[j] = [job[j] EXCEPT !.at = "finish", !.projected = TRUE]
        /\ \A k \in Job \ {j} : job'[k] = job[k]
    BY <1>2 DEF Project
  <2>3. Sound(job'[j])  BY <2>1, <2>2, SoundProject
  <2>4. Course'  BY <2>2, <2>3 DEF OrderInv, Course
  <2>5. Ordered'
    <3> SUFFICES ASSUME last'.gated PROVE Ordered'
      BY DEF Ordered
    <3>0. /\ last.gated /\ last'.file = last.file
          /\ IF Writes(job[j]) THEN last'.row = j ELSE last'.row = last.row
      BY <2>1 DEF TypeOK
    <3>1. /\ job'[j].at = "finish"
          /\ \A k \in Job : job'[k].op = job[k].op /\ job'[k].image = job[k].image
          /\ \A k \in Job : job'[k].at = job[k].at \/ k = j
      <4>1. job'[j].at = "finish" /\ job'[j].op = job[j].op /\ job'[j].image = job[j].image
        BY <2>2 DEF JobRow
      <4>2. \A k \in Job \ {j} : job'[k] = job[k]  BY <2>2
      <4> QED  BY <4>1, <4>2
    <3>2. \A k \in Job : job'[k].at \notin {"idle", "gone"} => gate' = k
      BY <2>1, <2>2, <3>0 DEF OrderInv, Ordered
    <3>3. ASSUME last.file \in Job PROVE Wrote(last.file)'
      <4>1. Wrote(last.file)  BY <3>0, <3>3 DEF OrderInv, Ordered
      <4> QED  BY <2>1, <3>0, <3>1, <3>3, <4>1 DEF Wrote, Past, Ending
    <3>4. \A k \in Job : job'[k].at \in {"own", "project"} =>
            IF Writes(job'[k]) THEN last'.file \in {k, none} ELSE last'.file # k
      <4>1. ASSUME NEW k \in Job, job'[k].at \in {"own", "project"}
            PROVE  k # j /\ job'[k] = job[k]
        BY <2>2, <3>1, <4>1
      <4>2. ASSUME NEW k \in Job, job[k].at \in {"own", "project"}
            PROVE  IF Writes(job[k]) THEN last.file \in {k, none} ELSE last.file # k
        BY <3>0, <4>2 DEF OrderInv, Ordered
      <4> QED  BY <3>0, <4>1, <4>2
    <3>5. ProjectedInOrder'
      <4> SUFFICES ASSUME last'.row \in Job, last.file \in Job, job'[last.file].projected
                   PROVE  RowAgrees'
        BY <3>0 DEF ProjectedInOrder
      <4>1. Wrote(last.file)  BY <3>0 DEF OrderInv, Ordered
      <4>2. CASE Writes(job[j])
        <5>1. last.file = j  BY <2>1, <3>0, <4>2, NoneIsNothing DEF OrderInv, Ordered
        <5>2. row'.path = (job[j].op # "reset")
              /\ row'.sha = IF job[j].op = "reset" THEN none ELSE job[j].image
          BY <2>1, <4>2 DEF Projection, Cleared, Writes, TypeOK
        <5> QED  BY <2>1, <4>1, <5>1, <5>2 DEF Wrote, RowAgrees
      <4>3. CASE ~Writes(job[j])
        <5>1. job[j].result = "no_change" \/ job[j].op = "backup"
          BY <2>1, <4>3 DEF Sound, Handled, Writes, JobRow, Result
        <5>2. row'.path = row.path /\ row'.sha = row.sha
          BY <2>1, <5>1 DEF Projection, TypeOK
        <5>3. last.file # j  BY <2>1, <3>0, <4>3 DEF OrderInv, Ordered
        <5>4. job[last.file].projected  BY <2>2, <5>3
        <5>5. RowAgrees  BY <3>0, <4>3, <5>4 DEF OrderInv, Ordered, ProjectedInOrder
        <5> QED  BY <2>1, <5>2, <5>5 DEF RowAgrees
      <4> QED  BY <4>2, <4>3
    <3> QED  BY <3>0, <3>2, <3>3, <3>4, <3>5 DEF Ordered
  <2> QED  BY <2>4, <2>5 DEF OrderInv
<1> QED  BY <1>1, <1>2

\* Whoever leaves has no gate to give back but its own.
LEMMA LeaveKeeps ==
  ASSUME OrderInv, TypeOK', NEW j \in Job, NEW n \in JobRow, Leave(j, n),
         Sound([n EXCEPT !.at = "gone"]),
         n.op = job[j].op, n.image = job[j].image, n.projected = job[j].projected,
         UNCHANGED <<file, row, last>>
  PROVE  OrderInv'
<1>1. job'[j] = [n EXCEPT !.at = "gone"] /\ \A k \in Job \ {j} : job'[k] = job[k]
  BY RowOf DEF Leave
<1>2. Sound(job'[j])  BY <1>1, Zenon
<1>3. gate' = gate \/ gate = j  BY DEF Leave
<1>4. /\ job'[j].at = "gone" /\ job'[j].op = job[j].op /\ job'[j].image = job[j].image
      /\ job'[j].projected = job[j].projected
  BY <1>1 DEF JobRow
<1>5. Quiet(j)  BY <1>1, <1>3, <1>4 DEF Quiet, Past, Ending
<1> QED  BY <1>2, <1>5, QuietKeeps

LEMMA EvidenceSays == \A j \in Job : Evidence(j) = EvidenceOf(job[j])
BY DEF Evidence, EvidenceOf

LEMMA FailedSound ==
  ASSUME OrderInv, NEW j \in Job, job[j].at # "idle", NEW c \in BOOLEAN
  PROVE  /\ Failed(j, c) \in JobRow /\ Sound([Failed(j, c) EXCEPT !.at = "gone"])
         /\ Failed(j, c).op = job[j].op /\ Failed(j, c).image = job[j].image
         /\ Failed(j, c).projected = job[j].projected
<1> USE RowOf
<1>1. Failed(j, c) \in JobRow  BY FailedType
<1>2. CASE Failed(j, c) = job[j]
  <2>1. Sound([job[j] EXCEPT !.at = "gone"])  BY SoundLeave
  <2> QED  BY <1>1, <1>2, <2>1, Zenon
<1>3. ASSUME NEW o \in {"unsafe", "cancelled", "failed"}, Failed(j, c) = Sealed(j, o, Evidence(j))
      PROVE  /\ Sound([Failed(j, c) EXCEPT !.at = "gone"])
             /\ Failed(j, c).op = job[j].op /\ Failed(j, c).image = job[j].image
             /\ Failed(j, c).projected = job[j].projected
  <2>1. [Failed(j, c) EXCEPT !.at = "gone"]
          = [job[j] EXCEPT !.phase = "terminal", !.outcome = o, !.report = EvidenceOf(job[j]),
                           !.at = "gone"]
    BY <1>3, EvidenceSays DEF Sealed, JobRow
  <2>2. Sound([job[j] EXCEPT !.phase = "terminal", !.outcome = o, !.report = EvidenceOf(job[j]),
                            !.at = "gone"])
    BY SoundLeave, Zenon
  <2>3. Sound([Failed(j, c) EXCEPT !.at = "gone"])  BY <2>1, <2>2, Zenon
  <2> QED  BY <1>3, <2>3 DEF Sealed, JobRow
<1>4. \/ Failed(j, c) = job[j]
      \/ \E o \in {"unsafe", "cancelled", "failed"} : Failed(j, c) = Sealed(j, o, Evidence(j))
  BY DEF Failed
<1> QED  BY <1>1, <1>2, <1>3, <1>4, Zenon

LEMMA SettleOrdered ==
  ASSUME OrderInv, TypeOK', NEW j \in Job,
         Finish(j) \/ Fail(j) \/ Interrupt(j) \/ FailCancelled(j) \/ Assess(j) \/ Recover(j)
  PROVE  OrderInv'
<1> USE RowOf
<1>1. ASSUME NEW c \in BOOLEAN, Leave(j, Failed(j, c)), job[j].at # "idle",
             UNCHANGED <<file, row, last>>
      PROVE  OrderInv'
  BY <1>1, FailedSound, LeaveKeeps, Zenon
<1>2. CASE Finish(j)
  <2>1. job[j].at = "finish" /\ UNCHANGED <<file, row, last>>  BY <1>2 DEF Finish
  <2>2. CASE Leave(j, Failed(j, TRUE))
    BY <1>1, <2>1, <2>2
  <2>3. CASE Leave(j, Sealed(j, job[j].result, Evidence(j)))
    <3> DEFINE n == Sealed(j, job[j].result, Evidence(j))
    <3>1. job[j].result \in Outcome  BY Names DEF JobRow
    <3>2. n \in JobRow  BY <3>1, SealedType, EvidenceType
    <3>3. [n EXCEPT !.at = "gone"]
            = [job[j] EXCEPT !.phase = "terminal", !.outcome = job[j].result,
                             !.report = EvidenceOf(job[j]), !.at = "gone"]
      BY EvidenceSays DEF Sealed, JobRow
    <3>4. Sound([job[j] EXCEPT !.phase = "terminal", !.outcome = job[j].result,
                              !.report = EvidenceOf(job[j]), !.at = "gone"])
      BY <2>1, SoundLeave
    <3>5. Sound([n EXCEPT !.at = "gone"])  BY <3>3, <3>4, Zenon
    <3>6. n.op = job[j].op /\ n.image = job[j].image /\ n.projected = job[j].projected
      BY DEF Sealed, JobRow
    <3> QED  BY <2>1, <2>3, <3>2, <3>5, <3>6, LeaveKeeps, Zenon
  <2> QED  BY <1>2, <2>2, <2>3 DEF Finish
<1>3. CASE Fail(j)
  BY <1>1, <1>3 DEF Fail
<1>4. CASE FailCancelled(j)
  BY <1>1, <1>4 DEF FailCancelled
<1>5. CASE Interrupt(j)
  BY <1>5, GotoKeeps DEF Interrupt, Executing
<1>6. CASE Assess(j)
  <2> DEFINE c == job[j].at # "gone"
  <2>1. job' = [job EXCEPT ![j].read = Evidence(j), ![j].condemned = c]  BY <1>6 DEF Assess
  <2>2. UNCHANGED <<file, row, gate, last>> /\ job[j].phase \in {"running", "stopping"}
    BY <1>6 DEF Assess, Owns
  <2>3. c \in BOOLEAN /\ c = (job[j].at # "gone")  OBVIOUS
  <2> HIDE DEF c
  <2>4. /\ job'[j] = [job[j] EXCEPT !.read = EvidenceOf(job[j]), !.condemned = c]
        /\ \A k \in Job \ {j} : job'[k] = job[k]
    BY <2>1, EvidenceSays
  <2>5. Sound(job'[j])
    <3>1. Sound([job[j] EXCEPT !.read = EvidenceOf(job[j]), !.condemned = c])
      BY <2>2, <2>3, SoundRecover, Zenon
    <3> QED  BY <2>4, <3>1, Zenon
  <2>6. Quiet(j)  BY <2>2, <2>4 DEF Quiet, JobRow, Past
  <2> QED  BY <2>5, <2>6, QuietKeeps
<1>7. CASE Recover(j)
  <2>1. /\ job'[j] = [job[j] EXCEPT !.phase = "terminal", !.outcome = "unsafe", !.report = job[j].read]
        /\ \A k \in Job \ {j} : job'[k] = job[k]
        /\ UNCHANGED <<file, row, gate, last>>
        /\ job[j].read # "none" /\ job[j].phase \in {"running", "stopping"}
        /\ job[j].at \notin {"storeBackup", "replace"}
    BY <1>7 DEF Recover, Sealed, Owns, Locked
  <2>2. Sound(job'[j])  BY <2>1, SoundRecover
  <2>3. Quiet(j)  BY <2>1 DEF Quiet, JobRow, Past
  <2> QED  BY <2>2, <2>3, QuietKeeps
<1> QED  BY <1>2, <1>3, <1>4, <1>5, <1>6, <1>7

LEMMA FaultOrdered ==
  ASSUME OrderInv, TypeOK', NEW j \in Job, Fault(j)
  PROVE  OrderInv'
<1> USE RowOf
<1>1. CASE Crash(j)
  <2>1. job[j].at # "idle" /\ Leave(j, job[j]) /\ UNCHANGED <<file, row, last>>
    BY <1>1 DEF Crash
  <2>2. Sound([job[j] EXCEPT !.at = "gone"])  BY <2>1, SoundLeave
  <2> QED  BY <2>1, <2>2, LeaveKeeps
<1>2. CASE LoseGate(j)
  <2>1. job' = job /\ ~last'.gated  BY <1>2 DEF LoseGate, TypeOK
  <2> QED  BY <2>1 DEF OrderInv, Course, Ordered
<1>3. CASE LoseEffects(j)
  BY <1>3, GotoKeeps DEF LoseEffects
<1> QED  BY <1>1, <1>2, <1>3 DEF Fault

\* Whoever changes the file from outside is the last that did; an observer that changes
\* the row is the last that wrote it.
LEMMA OthersOrdered ==
  ASSUME OrderInv, TypeOK', Outside \/ RescanLook \/ RescanWrite \/ SyncLook \/ SyncWrite
  PROVE  OrderInv'
<1>1. job' = job /\ gate' = gate
  BY DEF Outside, RescanLook, RescanWrite, SyncLook, SyncWrite
<1>2. Course'  BY <1>1 DEF OrderInv, Course
<1>3. TypeOK  BY DEF OrderInv
<1>4. CASE Outside
  <2>1. last'.gated = last.gated /\ last'.file = none  BY <1>3, <1>4 DEF Outside, TypeOK
  <2>2. none \notin Job  BY NoneIsNothing
  <2>3. Ordered'
    <3> SUFFICES ASSUME last'.gated PROVE Ordered'
      BY DEF Ordered
    <3>1. last.gated /\ Ordered  BY <2>1 DEF OrderInv
    <3>2. ProjectedInOrder'  BY <2>1, <2>2 DEF ProjectedInOrder
    <3> QED  BY <1>1, <2>1, <2>2, <3>1, <3>2 DEF Ordered
  <2> QED  BY <1>2, <2>3 DEF OrderInv
<1>5. CASE ~Outside
  <2>1. /\ file' = file /\ last'.gated = last.gated /\ last'.file = last.file
        /\ (row' = row /\ last'.row = last.row) \/ last'.row = none
    BY <1>3, <1>5 DEF RescanLook, RescanWrite, SyncLook, SyncWrite, Note, TypeOK
  <2>2. Ordered'
    <3> SUFFICES ASSUME last'.gated PROVE Ordered'
      BY DEF Ordered
    <3>1. last.gated /\ Ordered  BY <2>1 DEF OrderInv
    <3>2. ProjectedInOrder'
      BY <1>1, <2>1, <3>1, NoneIsNothing DEF Ordered, ProjectedInOrder, RowAgrees
    <3>3. ASSUME last.file \in Job PROVE Wrote(last.file)'
      BY <1>1, <2>1, <3>1, <3>3 DEF Ordered, Wrote
    <3> QED  BY <1>1, <2>1, <3>1, <3>2, <3>3 DEF Ordered
  <2> QED  BY <1>2, <2>2 DEF OrderInv
<1> QED  BY <1>4, <1>5

LEMMA OrderInit == Init => OrderInv
<1> SUFFICES ASSUME Init PROVE OrderInv
  OBVIOUS
<1>1. TypeOK  BY TypeInit
<1>2. \A j \in Job : job[j] = NoJob  BY DEF Init
<1>3. Sound(NoJob)
  BY DEF NoJob, Sound, Handled, Recorded, Told, EvidenceOf, Unwritten, Ready, Ending, Past
<1>4. last.file = none /\ last.row = none /\ none \notin Job
  BY NoneIsNothing DEF Init
<1>5. Ordered  BY <1>2, <1>4 DEF Ordered, ProjectedInOrder, NoJob
<1> QED  BY <1>1, <1>2, <1>3, <1>5 DEF OrderInv, Course

LEMMA OrderNext == OrderInv /\ [Next]_vars => OrderInv'
<1> SUFFICES ASSUME OrderInv, [Next]_vars PROVE OrderInv'
  OBVIOUS
<1>1. TypeOK'  BY TypeNext DEF OrderInv
<1>2. CASE UNCHANGED vars
  BY <1>1, <1>2 DEF vars, OrderInv, Course, Ordered, Wrote, ProjectedInOrder, RowAgrees
<1>3. CASE Next
  BY <1>1, <1>3, ControlOrdered, FindingOrdered, IntentOrdered, CheckOrdered, BackupOrdered,
     ReplaceOrdered, ProjectOrdered, SettleOrdered, FaultOrdered, OthersOrdered DEF Next
<1> QED  BY <1>2, <1>3

\* While no gate is lost, the row of a subject describes the file of the job that wrote
\* it last, as soon as that job has projected and until an observer writes the row: the
\* gate of the poster file and the order publish, own, project of the handlers.
THEOREM ProjectedInOrderHolds == Spec => []ProjectedInOrder
<1>1. Spec => []OrderInv  BY OrderInit, OrderNext, PTL DEF Spec
<1>2. OrderInv => ProjectedInOrder
  <2>1. ~last.gated => ProjectedInOrder  BY DEF ProjectedInOrder
  <2> QED  BY <2>1 DEF OrderInv, Ordered
<1> QED  BY <1>1, <1>2, PTL

\* What a settled poster job says of its effects is so, unless recovery took its handler
\* for dead while it went on: outcome and report of JobDelivery's settlement against
\* the writes that really happened.
THEOREM OutcomeTellsTruthHolds == Spec => []OutcomeTellsTruth
<1>1. Spec => []OrderInv  BY OrderInit, OrderNext, PTL DEF Spec
<1>2. OrderInv => OutcomeTellsTruth
  <2> SUFFICES ASSUME OrderInv, NEW j \in Job, job[j].phase = "terminal"
      PROVE
        /\ job[j].outcome = "succeeded" =>
             job[j].projected /\ (IF job[j].op = "backup" THEN "backup" ELSE "destination") \in job[j].touched
        /\ job[j].outcome = "no_change" => job[j].touched = {}
        /\ ~job[j].condemned =>
             /\ job[j].report = "nothing" => job[j].touched = {}
             /\ job[j].report = "published" =>
                  /\ job[j].publication \in job[j].touched
                  /\ "destination" \in job[j].touched => job[j].publication = "destination"
    BY DEF OutcomeTellsTruth, OrderInv
  <2>1. Recorded(job[j]) /\ Told(job[j])  BY RowOf DEF Sound
  <2> QED  BY <2>1 DEF Recorded, Told, Aim
<1> QED  BY <1>1, <1>2, PTL

-----------------------------------------------------------------------------
(* Analyses of posters: PosterAnalysis. *)

AnalysisBounds == MaxAttempt \in Nat \ {0} /\ MaxFault \in Nat /\ IsFiniteSet(Member)

AnalysisRow ==
  [phase : {"queued", "terminal"} \cup Analysis!Open, wish : {"run", "cancel"},
   outcome : {"none", "failed", "cancelled"} \cup Analysis!Finished,
   attempt : 0..MaxAttempt, failed : SUBSET Member]
HandlerRow ==
  [at : Analysis!Places, tracker : BOOLEAN, flush : {"idle", "due", "checked"}, dirty : BOOLEAN,
   told : BOOLEAN, verdict : [Member -> Analysis!Verdict], unsure : BOOLEAN]
ItemRow == [by : 0..MaxAttempt, status : Analysis!Status]

\* The places before a verdict, and the runs a verdict is projected to.
Early == {"none", "starting", "initializing", "analysing"}
RunsOf(a, v) == {[member |-> m, by |-> a, failed |-> v[m] = "failed"] : m \in members}

\* What the verdict on the job rests on.
Ended ==
  /\ analysis.outcome = "none" <=> analysis.phase # "terminal"
  /\ ender # 0 => ender \in Analysis!Attempt /\ ender <= analysis.attempt /\ analysis.phase = "terminal"
  /\ analysis.outcome \in Analysis!Finished =>
       /\ ender # 0 /\ runs = RunsOf(ender, handler[ender].verdict)
       /\ analysis.failed = {m \in members : handler[ender].verdict[m] = "failed"}
       /\ Analysis!Group /\ handler[ender].tracker => handler[ender].told

Projecting ==
  \/ runs = {}
  \/ \E a \in Analysis!Attempt : handler[a].at \notin Early /\ runs = RunsOf(a, handler[a].verdict)

ItemsAgree ==
  /\ \A m, n \in members : items[m].by = items[n].by
  /\ (\A m \in members : items[m].by # 0) => summary = Analysis!Counts([m \in Member |-> items[m].status])

\* Where an attempt is that has left runs in the table.
Leaves(a, h) ==
  \/ h.at \in {"telling", "reconciling", "returned", "sealing", "cleaning", "dead"}
  \/ h.unsure
  \/ h.at = "done" /\ (Analysis!Group /\ ender = a => analysis.outcome \in Analysis!Finished)

Handles(a, h) ==
  /\ a > analysis.attempt => h.at = "none"
  /\ h.at \in {"telling", "reconciling", "returned"} => runs = RunsOf(a, h.verdict)
  /\ ender = a => h.at \in {"cleaning", "closing", "done", "dead"}
  /\ h.at = "cleaning" => ender = a /\ analysis.outcome = "cancelled"
  /\ h.at = "closing" => ender = a /\ analysis.outcome \in {"failed", "cancelled"}
  /\ (\E r \in runs : r.by = a) => Leaves(a, h)
  /\ h.at = "reconciling" => h.told
  /\ h.at = "returned" /\ h.tracker => h.told
  /\ h.told => h.at \notin Early
  /\ h.at \in Early \cup {"projecting", "inserting", "telling", "reconciling"} => ~h.unsure
  /\ h.told /\ h.tracker /\ ~h.dirty =>
       \A m \in members : items[m].by = a => items[m].status = h.verdict[m]

AnalysisTypes ==
  /\ kind \in {"single", "group"} /\ members \in SUBSET Member
  /\ analysis \in AnalysisRow
  /\ runs \subseteq [member : Member, by : Analysis!Attempt, failed : BOOLEAN]
  /\ items \in [Member -> ItemRow] /\ handler \in [Analysis!Attempt -> HandlerRow]
  /\ ender \in 0..MaxAttempt /\ faults \in 0..MaxFault

AnalysisInv ==
  /\ AnalysisTypes /\ Ended /\ Projecting /\ ItemsAgree
  /\ \A a \in Analysis!Attempt : Handles(a, handler[a])

\* What a step of a handler may change of what it remembers.
FollowsOn(g, h) ==
  g.at \notin Early => /\ h.at \notin Early /\ h.verdict = g.verdict
                       /\ h.tracker => g.tracker
                       /\ g.told => h.told

LEMMA CountsAgree ==
  ASSUME NEW f, NEW g, \A m \in members : f[m] = g[m]
  PROVE  Analysis!Counts(f) = Analysis!Counts(g)
  <1>1. \A s \in Analysis!Status : {m \in members : f[m] = s} = {m \in members : g[m] = s}
    OBVIOUS
  <1> QED
    BY <1>1 DEF Analysis!Counts

LEMMA RunsFacts ==
  ASSUME NEW a, NEW v
  PROVE  /\ \A r \in RunsOf(a, v) : r.by = a /\ r.member \in members
         /\ members = {} => RunsOf(a, v) = {}
         /\ \A m \in members : \E r \in RunsOf(a, v) : r.member = m
         /\ {r.member : r \in RunsOf(a, v)} = members
         /\ {r.member : r \in {q \in RunsOf(a, v) : q.failed}} = {m \in members : v[m] = "failed"}
  <1> DEFINE run(m) == [member |-> m, by |-> a, failed |-> v[m] = "failed"]
  <1>1. \A m \in members : /\ run(m) \in RunsOf(a, v) /\ run(m).member = m
                           /\ run(m).failed = (v[m] = "failed")
    BY DEF RunsOf
  <1>2. \A r \in RunsOf(a, v) : \E m \in members : r = run(m) /\ r.by = a /\ r.member = m
    BY DEF RunsOf
  <1> HIDE DEF run
  <1>3. {r.member : r \in RunsOf(a, v)} = members
    BY <1>1, <1>2
  <1>4. {r.member : r \in {q \in RunsOf(a, v) : q.failed}} = {m \in members : v[m] = "failed"}
    <2>1. \A m \in members : v[m] = "failed" => run(m) \in {q \in RunsOf(a, v) : q.failed}
      BY <1>1
    <2>2. \A r \in RunsOf(a, v) : r.failed => \E m \in members : r.member = m /\ v[m] = "failed"
      BY <1>1, <1>2
    <2> QED
      BY <1>1, <2>1, <2>2
  <1>5. members = {} => RunsOf(a, v) = {}
    BY <1>2
  <1> QED
    BY <1>1, <1>2, <1>3, <1>4, <1>5

LEMMA AnalysisInit ==
  ASSUME AnalysisBounds, Analysis!Init PROVE AnalysisInv
  <1> USE DEF AnalysisBounds
  <1>1. members \in SUBSET Member /\ kind \in {"single", "group"}
    BY DEF Analysis!Init
  <1>2. Analysis!Idle \in HandlerRow /\ Analysis!Idle.at = "none" /\ ~Analysis!Idle.told /\ ~Analysis!Idle.unsure
    <2>1. [m \in Member |-> "succeeded"] \in [Member -> Analysis!Verdict]
      BY DEF Analysis!Verdict
    <2> QED
      BY <2>1 DEF Analysis!Idle, HandlerRow, Analysis!Places
  <1>3. Analysis!NoItem \in ItemRow /\ Analysis!NoItem.by = 0 /\ Analysis!NoItem.status = "pending"
    BY DEF Analysis!NoItem, ItemRow, Analysis!Status
  <1>4. analysis \in AnalysisRow /\ analysis.outcome = "none" /\ analysis.phase = "queued"
    BY DEF Analysis!Init, AnalysisRow
  <1>5. AnalysisTypes
    BY <1>1, <1>2, <1>3, <1>4 DEF Analysis!Init, AnalysisTypes
  <1>6. Ended /\ Projecting
    BY <1>4 DEF Analysis!Init, Ended, Projecting, Analysis!Finished
  <1>7. ItemsAgree
    <2>1. \A m \in members : items[m] = Analysis!NoItem
      BY <1>1 DEF Analysis!Init
    <2>2. CASE members = {}
      <3>1. summary = Analysis!Counts([m \in Member |-> "none"])
        BY DEF Analysis!Init
      <3>2. Analysis!Counts([m \in Member |-> "none"]) = Analysis!Counts([m \in Member |-> items[m].status])
        BY <2>2, CountsAgree
      <3> QED
        BY <2>2, <3>1, <3>2 DEF ItemsAgree
    <2>3. CASE members # {}
      BY <2>1, <2>3, <1>3 DEF ItemsAgree
    <2> QED
      BY <2>2, <2>3
  <1>8. ASSUME NEW a \in Analysis!Attempt PROVE Handles(a, handler[a])
    <2>1. handler[a] = Analysis!Idle /\ runs = {} /\ ender = 0 /\ a # 0
      BY DEF Analysis!Init, Analysis!Attempt
    <2> QED
      BY <2>1, <1>2 DEF Handles, Early
  <1> QED
    BY <1>5, <1>6, <1>7, <1>8 DEF AnalysisInv

\* A step of one handler, seen by the rest.
LEMMA OneHandlerSteps ==
  ASSUME AnalysisInv, NEW a \in Analysis!Attempt, NEW h \in HandlerRow,
         handler' = [handler EXCEPT ![a] = h], FollowsOn(handler[a], h),
         UNCHANGED <<Analysis!constant, analysis, runs, ender>>, faults' \in 0..MaxFault,
         items' \in [Member -> ItemRow], ItemsAgree',
         \A b \in Analysis!Attempt \ {a} : \A m \in members :
           items'[m].by = b => items'[m] = items[m],
         Handles(a, h)'
  PROVE  AnalysisInv'
  <1>1. /\ analysis' = analysis /\ runs' = runs /\ ender' = ender /\ kind' = kind
        /\ members' = members
        /\ handler \in [Analysis!Attempt -> HandlerRow]
    BY DEF Analysis!constant, AnalysisInv, AnalysisTypes
  <1>2. \A b \in Analysis!Attempt : handler'[b] = IF b = a THEN h ELSE handler[b]
    BY <1>1
  <1>3. AnalysisTypes'
    BY <1>1 DEF AnalysisInv, AnalysisTypes
  <1>4. \A b \in Analysis!Attempt : handler[b].at \notin Early =>
          handler'[b].at \notin Early /\ handler'[b].verdict = handler[b].verdict
    BY <1>2 DEF FollowsOn
  <1>5. Ended'
    <2>1. CASE analysis.outcome \in Analysis!Finished
      <3>1. ender \in Analysis!Attempt /\ handler[ender].at \notin Early
        BY <2>1 DEF AnalysisInv, Ended, Handles, Early
      <3>2. handler'[ender].verdict = handler[ender].verdict
        BY <3>1, <1>4
      <3>3. Analysis!Group /\ handler'[ender].tracker => handler'[ender].told
        BY <2>1, <3>1, <1>2 DEF AnalysisInv, Ended, FollowsOn
      <3> QED
        BY <2>1, <3>2, <3>3, <1>1 DEF AnalysisInv, Ended, RunsOf, Analysis!Group
    <2>2. CASE analysis.outcome \notin Analysis!Finished
      BY <2>2, <1>1 DEF AnalysisInv, Ended
    <2> QED
      BY <2>1, <2>2
  <1>6. Projecting'
    BY <1>1, <1>4 DEF AnalysisInv, Projecting, RunsOf
  <1>7. ASSUME NEW b \in Analysis!Attempt PROVE Handles(b, handler[b])'
    <2>1. CASE b = a
      <3>1. h = handler'[b]
        BY <2>1, <1>2
      <3> QED
        BY <2>1, <3>1 DEF Handles, Leaves
    <2>2. CASE b # a
      <3>1. Handles(b, handler[b]) /\ handler'[b] = handler[b]
        BY <2>2, <1>2 DEF AnalysisInv
      <3>2. \A m \in members : items'[m].by = b => items'[m] = items[m]
        BY <2>2
      <3> QED
        BY <3>1, <3>2, <1>1 DEF Handles, Leaves, RunsOf, Analysis!Group
    <2> QED
      BY <2>1, <2>2
  <1> QED
    BY <1>3, <1>5, <1>6, <1>7 DEF AnalysisInv

\* A step of one handler that nobody else sees.
LEMMA HandlerSteps ==
  ASSUME AnalysisInv, NEW a \in Analysis!Attempt, NEW h \in HandlerRow,
         handler' = [handler EXCEPT ![a] = h], FollowsOn(handler[a], h),
         UNCHANGED <<Analysis!constant, analysis, runs, Analysis!shown, ender>>, faults' \in 0..MaxFault,
         Handles(a, h)
  PROVE  AnalysisInv'
  <1>1. /\ analysis' = analysis /\ runs' = runs /\ ender' = ender /\ kind' = kind
        /\ members' = members
        /\ items' = items /\ summary' = summary
        /\ UNCHANGED <<Analysis!constant, analysis, runs, ender>>
    BY DEF Analysis!constant, Analysis!shown
  <1>2. items' \in [Member -> ItemRow]
    BY <1>1 DEF AnalysisInv, AnalysisTypes
  <1>3. ItemsAgree'
    BY <1>1 DEF AnalysisInv, ItemsAgree, Analysis!Counts
  <1>4. Handles(a, h)'
    BY <1>1 DEF Handles, Leaves, RunsOf, Analysis!Group
  <1> QED
    BY <1>1, <1>2, <1>3, <1>4, OneHandlerSteps

\* A change of the job that is not over, together with one handler.
LEMMA JobSteps ==
  ASSUME AnalysisInv, NEW a \in Analysis!Attempt, NEW h \in HandlerRow,
         handler' = [handler EXCEPT ![a] = h], FollowsOn(handler[a], h),
         UNCHANGED <<Analysis!constant, runs, Analysis!shown>>, faults' \in 0..MaxFault,
         analysis.outcome = "none", analysis' \in AnalysisRow, analysis.attempt <= analysis'.attempt,
         ender' \in {0, a}, Ended', Handles(a, h)'
  PROVE  AnalysisInv'
  <1>1. /\ runs' = runs /\ kind' = kind /\ members' = members
        /\ items' = items /\ summary' = summary
        /\ handler \in [Analysis!Attempt -> HandlerRow] /\ ender = 0
    BY DEF Analysis!constant, Analysis!shown, AnalysisInv, AnalysisTypes, Ended
  <1>2. \A b \in Analysis!Attempt : handler'[b] = IF b = a THEN h ELSE handler[b]
    BY <1>1
  <1>3. AnalysisTypes'
    BY <1>1 DEF AnalysisInv, AnalysisTypes, Analysis!Attempt
  <1>4. Projecting'
    BY <1>1, <1>2 DEF AnalysisInv, Projecting, RunsOf, FollowsOn
  <1>5. ItemsAgree'
    BY <1>1 DEF AnalysisInv, ItemsAgree, Analysis!Counts
  <1>6. ASSUME NEW b \in Analysis!Attempt PROVE Handles(b, handler[b])'
    <2>1. CASE b = a
      <3>1. h = handler'[b]
        BY <2>1, <1>2
      <3> QED
        BY <2>1, <3>1 DEF Handles, Leaves
    <2>2. CASE b # a
      <3>1. Handles(b, handler[b]) /\ handler'[b] = handler[b]
        BY <2>2, <1>2 DEF AnalysisInv
      <3>2. b # 0 /\ ender' # b /\ ender # b /\ b \in Nat
        BY <2>2, <1>1 DEF Analysis!Attempt
      <3>3. b > analysis'.attempt => b > analysis.attempt
        BY <3>2 DEF AnalysisInv, AnalysisTypes, AnalysisRow
      <3> QED
        BY <3>1, <3>2, <3>3, <1>1 DEF Handles, Leaves, RunsOf, Analysis!Group
    <2> QED
      BY <2>1, <2>2
  <1> QED
    BY <1>3, <1>4, <1>5, <1>6 DEF AnalysisInv

LEMMA AnalysisFacts ==
  ASSUME AnalysisBounds, AnalysisInv, NEW a \in Analysis!Attempt
  PROVE  /\ handler[a] \in HandlerRow /\ Handles(a, handler[a]) /\ a \in Nat /\ a # 0
         /\ analysis \in AnalysisRow /\ faults \in 0..MaxFault /\ analysis.attempt \in Nat
         /\ a <= MaxAttempt /\ handler \in [Analysis!Attempt -> HandlerRow]
         /\ items \in [Member -> ItemRow] /\ members \in SUBSET Member
  BY DEF AnalysisInv, AnalysisTypes, AnalysisBounds, Analysis!Attempt, AnalysisRow

LEMMA FaultCounts ==
  ASSUME AnalysisBounds, AnalysisInv, Analysis!Fault \/ Analysis!Calm PROVE faults' \in 0..MaxFault
  BY DEF AnalysisInv, AnalysisTypes, AnalysisBounds, Analysis!Fault, Analysis!Calm

LEMMA CrashKeeps ==
  ASSUME AnalysisBounds, AnalysisInv, NEW a \in Analysis!Attempt, Analysis!Crash(a)
  PROVE  AnalysisInv'
  <1>1. PICK h : h = [handler[a] EXCEPT !.at = "dead"]
    OBVIOUS
  <1>2. handler[a] \in HandlerRow
    BY AnalysisFacts
  <1>3. /\ handler' = [handler EXCEPT ![a] = h] /\ handler[a].at \notin {"none", "done", "dead"}
        /\ UNCHANGED <<Analysis!constant, analysis, runs, Analysis!shown, ender>>
        /\ faults' \in 0..MaxFault
    BY <1>1, <1>2, FaultCounts, AnalysisFacts DEF Analysis!Crash, Analysis!Goto, Analysis!At
  <1>4. /\ h \in HandlerRow /\ h.at = "dead" /\ h.verdict = handler[a].verdict
        /\ h.tracker = handler[a].tracker /\ h.told = handler[a].told
        /\ h.dirty = handler[a].dirty /\ h.unsure = handler[a].unsure
    BY <1>1, <1>2 DEF HandlerRow, Analysis!Places
  <1>5. FollowsOn(handler[a], h) /\ Handles(a, h)
    BY <1>3, <1>4, AnalysisFacts DEF FollowsOn, Handles, Leaves, Early
  <1> QED
    BY <1>3, <1>4, <1>5, HandlerSteps

LEMMA StartTrackerKeeps ==
  ASSUME AnalysisBounds, AnalysisInv, NEW a \in Analysis!Attempt,
         Analysis!StartTracker(a) \/ Analysis!InitializeFails(a)
  PROVE  AnalysisInv'
  <1>1. PICK p \in {"initializing", "analysing"} : handler' = [handler EXCEPT ![a].at = p]
    BY DEF Analysis!StartTracker, Analysis!InitializeFails, Analysis!Goto
  <1>2. PICK h : h = [handler[a] EXCEPT !.at = p]
    OBVIOUS
  <1>3. /\ handler[a] \in HandlerRow /\ handler[a].at \in {"starting", "initializing"}
        /\ UNCHANGED <<Analysis!constant, analysis, runs, Analysis!shown, ender>>
        /\ faults' \in 0..MaxFault
    BY FaultCounts, AnalysisFacts
       DEF Analysis!StartTracker, Analysis!InitializeFails, Analysis!At, Analysis!Calm
  <1>4. handler' = [handler EXCEPT ![a] = h]
    BY <1>1, <1>2, AnalysisFacts
  <1>5. /\ h \in HandlerRow /\ h.at = p /\ h.verdict = handler[a].verdict
        /\ h.tracker = handler[a].tracker /\ h.told = handler[a].told
        /\ h.dirty = handler[a].dirty /\ h.unsure = handler[a].unsure
    BY <1>2, <1>3 DEF HandlerRow, Analysis!Places
  <1>6. FollowsOn(handler[a], h) /\ Handles(a, h)
    BY <1>3, <1>5, AnalysisFacts DEF FollowsOn, Handles, Leaves, Early
  <1> QED
    BY <1>3, <1>4, <1>5, <1>6, HandlerSteps

LEMMA FrameKeeps ==
  ASSUME AnalysisBounds, AnalysisInv, NEW a \in Analysis!Attempt, Analysis!Observe(a)
  PROVE  AnalysisInv'
  <1>1. PICK h : h = [handler[a] EXCEPT !.dirty = TRUE, !.flush = "due"]
    OBVIOUS
  <1>2. /\ handler[a] \in HandlerRow /\ handler[a].at = "analysing"
        /\ handler' = [handler EXCEPT ![a] = h]
        /\ UNCHANGED <<Analysis!constant, analysis, runs, Analysis!shown, ender>>
        /\ faults' \in 0..MaxFault
    BY <1>1, AnalysisFacts DEF Analysis!Observe, Analysis!At
  <1>3. /\ h \in HandlerRow /\ h.at = "analysing" /\ h.verdict = handler[a].verdict
        /\ h.tracker = handler[a].tracker /\ h.told = handler[a].told
        /\ h.dirty /\ h.unsure = handler[a].unsure
    BY <1>1, <1>2 DEF HandlerRow
  <1>4. FollowsOn(handler[a], h) /\ Handles(a, h)
    BY <1>2, <1>3, AnalysisFacts DEF FollowsOn, Handles, Leaves, Early
  <1> QED
    BY <1>2, <1>3, <1>4, HandlerSteps

LEMMA AwaitedRow ==
  ASSUME NEW g \in HandlerRow
  PROVE  LET h == Analysis!Awaited(g)
         IN  /\ h \in HandlerRow /\ h.verdict = g.verdict /\ h.tracker = g.tracker
             /\ h.told = g.told /\ h.dirty = g.dirty /\ h.unsure = g.unsure
             /\ h.at = (IF g.at = "reconciling" THEN "returned" ELSE g.at)
  BY DEF Analysis!Awaited, HandlerRow, Analysis!Places

\* What a flush that does not reach the rows may change.
Flushed(g, h) ==
  /\ h.at = g.at \/ (g.at = "reconciling" /\ h.at = "returned")
  /\ h.verdict = g.verdict /\ h.told = g.told /\ h.dirty = g.dirty /\ h.unsure = g.unsure
  /\ h.tracker => g.tracker

LEMMA FlushEnds ==
  ASSUME AnalysisBounds, AnalysisInv, NEW a \in Analysis!Attempt, NEW h \in HandlerRow,
         handler' = [handler EXCEPT ![a] = h],
         UNCHANGED <<Analysis!constant, analysis, runs, Analysis!shown, ender>>, faults' \in 0..MaxFault,
         Flushed(handler[a], h)
  PROVE  AnalysisInv'
  <1>1. FollowsOn(handler[a], h) /\ Handles(a, h)
    BY AnalysisFacts DEF Flushed, FollowsOn, Handles, Leaves, Early
  <1> QED
    BY <1>1, HandlerSteps

LEMMA FlushCheckKeeps ==
  ASSUME AnalysisBounds, AnalysisInv, NEW a \in Analysis!Attempt, Analysis!FlushCheck(a)
  PROVE  AnalysisInv'
  <1>1. PICK g : g = [handler[a] EXCEPT !.tracker = FALSE, !.flush = "idle"]
    OBVIOUS
  <1>2. PICK h : h = IF Analysis!Owns(a) THEN [handler[a] EXCEPT !.flush = "checked"] ELSE Analysis!Awaited(g)
    OBVIOUS
  <1>3. handler[a] \in HandlerRow
    BY AnalysisFacts
  <1>4. /\ handler' = [handler EXCEPT ![a] = h]
        /\ UNCHANGED <<Analysis!constant, analysis, runs, Analysis!shown, ender>>
        /\ faults' \in 0..MaxFault
    BY <1>1, <1>2, AnalysisFacts DEF Analysis!FlushCheck
  <1>5. CASE Analysis!Owns(a)
    <2>1. /\ h \in HandlerRow /\ h.at = handler[a].at /\ h.verdict = handler[a].verdict
          /\ h.tracker = handler[a].tracker /\ h.told = handler[a].told
          /\ h.dirty = handler[a].dirty /\ h.unsure = handler[a].unsure
      BY <1>2, <1>3, <1>5 DEF HandlerRow
    <2>2. Flushed(handler[a], h)
      BY <2>1 DEF Flushed
    <2> QED
      BY <1>4, <2>1, <2>2, FlushEnds
  <1>6. CASE ~Analysis!Owns(a)
    <2>1. /\ g \in HandlerRow /\ g.at = handler[a].at /\ g.verdict = handler[a].verdict
          /\ ~g.tracker /\ g.told = handler[a].told
          /\ g.dirty = handler[a].dirty /\ g.unsure = handler[a].unsure
      BY <1>1, <1>3 DEF HandlerRow
    <2>2. h = Analysis!Awaited(g)
      BY <1>2, <1>6
    <2>3. /\ h \in HandlerRow /\ h.verdict = g.verdict /\ h.tracker = g.tracker
          /\ h.told = g.told /\ h.dirty = g.dirty /\ h.unsure = g.unsure
          /\ h.at = (IF g.at = "reconciling" THEN "returned" ELSE g.at)
      BY <2>1, <2>2, AwaitedRow
    <2>4. Flushed(handler[a], h)
      BY <2>1, <2>3 DEF Flushed
    <2> QED
      BY <1>4, <2>3, <2>4, FlushEnds
  <1> QED
    BY <1>5, <1>6

LEMMA FlushFailsKeeps ==
  ASSUME AnalysisBounds, AnalysisInv, NEW a \in Analysis!Attempt, Analysis!FlushFails(a)
  PROVE  AnalysisInv'
  <1>1. PICK f : f = IF Analysis!At(a, {"reconciling"}) THEN "due" ELSE "idle"
    OBVIOUS
  <1>2. PICK g : g = [handler[a] EXCEPT !.flush = f]
    OBVIOUS
  <1>3. PICK h : h = Analysis!Awaited(g)
    OBVIOUS
  <1>4. handler[a] \in HandlerRow
    BY AnalysisFacts
  <1>5. /\ handler' = [handler EXCEPT ![a] = h]
        /\ UNCHANGED <<Analysis!constant, analysis, runs, Analysis!shown, ender>>
        /\ faults' \in 0..MaxFault
    BY <1>1, <1>2, <1>3, FaultCounts DEF Analysis!FlushFails
  <1>6. /\ g \in HandlerRow /\ g.at = handler[a].at /\ g.verdict = handler[a].verdict
        /\ g.tracker = handler[a].tracker /\ g.told = handler[a].told
        /\ g.dirty = handler[a].dirty /\ g.unsure = handler[a].unsure
    BY <1>1, <1>2, <1>4 DEF HandlerRow
  <1>7. /\ h \in HandlerRow /\ h.verdict = g.verdict /\ h.tracker = g.tracker
        /\ h.told = g.told /\ h.dirty = g.dirty /\ h.unsure = g.unsure
        /\ h.at = (IF g.at = "reconciling" THEN "returned" ELSE g.at)
    BY <1>3, <1>6, AwaitedRow
  <1>8. Flushed(handler[a], h)
    BY <1>6, <1>7 DEF Flushed
  <1> QED
    BY <1>5, <1>7, <1>8, FlushEnds

\* The rows of the members are this attempt's: nobody else's are touched.
LEMMA FlushWriteKeeps ==
  ASSUME AnalysisBounds, AnalysisInv, NEW a \in Analysis!Attempt, Analysis!FlushWrite(a)
  PROVE  AnalysisInv'
  <1>1. PICK g : g = [handler[a] EXCEPT !.flush = "idle", !.dirty = FALSE]
    OBVIOUS
  <1>2. PICK f : f = Analysis!Awaited(g)
    OBVIOUS
  <1>3. handler[a] \in HandlerRow
    BY AnalysisFacts
  <1>4. /\ handler[a].tracker /\ UNCHANGED <<Analysis!constant, analysis, runs, ender>>
        /\ faults' \in 0..MaxFault
    BY AnalysisFacts DEF Analysis!FlushWrite, Analysis!Flushing
  <1>5. /\ g \in HandlerRow /\ g.at = handler[a].at /\ g.verdict = handler[a].verdict
        /\ g.tracker = handler[a].tracker /\ g.told = handler[a].told
        /\ ~g.dirty /\ g.unsure = handler[a].unsure
    BY <1>1, <1>3 DEF HandlerRow
  <1>6. /\ f \in HandlerRow /\ f.verdict = g.verdict /\ f.tracker = g.tracker
        /\ f.told = g.told /\ f.dirty = g.dirty /\ f.unsure = g.unsure
        /\ f.at = (IF g.at = "reconciling" THEN "returned" ELSE g.at)
    BY <1>2, <1>5, AwaitedRow
  <1>7. CASE ~Analysis!RowsFound(a)
    <2>1. PICK h : h = [f EXCEPT !.tracker = FALSE]
      OBVIOUS
    <2>2. /\ handler' = [handler EXCEPT ![a] = h]
          /\ UNCHANGED <<Analysis!constant, analysis, runs, Analysis!shown, ender>>
      BY <1>1, <1>2, <1>7, <2>1 DEF Analysis!FlushWrite
    <2>3. /\ h \in HandlerRow /\ h.verdict = f.verdict /\ ~h.tracker /\ h.at = f.at
          /\ h.told = f.told /\ h.unsure = f.unsure
      BY <1>6, <2>1 DEF HandlerRow
    <2>4. FollowsOn(handler[a], h) /\ Handles(a, h)
      BY <1>5, <1>6, <2>3, AnalysisFacts DEF FollowsOn, Handles, Leaves, Early
    <2> QED
      BY <1>4, <2>2, <2>3, <2>4, HandlerSteps
  <1>8. CASE Analysis!RowsFound(a)
    <2>1. PICK seen : seen = Analysis!Seen(a)
      OBVIOUS
    <2>2. /\ handler' = [handler EXCEPT ![a] = f]
          /\ items' = [m \in Member |-> IF m \in members
                                        THEN [items[m] EXCEPT !.status = seen[m]]
                                        ELSE items[m]]
          /\ summary' = Analysis!Counts(seen)
      BY <1>1, <1>2, <1>8, <2>1 DEF Analysis!FlushWrite
    <2>3. \A m \in Member : /\ seen[m] \in Analysis!Status
                            /\ handler[a].told => seen[m] = handler[a].verdict[m]
      BY <1>3, <2>1
         DEF Analysis!Seen, HandlerRow, Analysis!Status, Analysis!Closed, Analysis!Verdict
    <2>4. \A m \in members : m \in Member /\ items[m] \in ItemRow /\ items[m].by = a
      BY <1>8, AnalysisFacts DEF Analysis!RowsFound
    <2>5. \A m \in members : /\ items'[m] \in ItemRow /\ items'[m].by = a
                             /\ items'[m].status = seen[m]
      <3> TAKE m \in members
      <3>1. PICK i \in ItemRow : i = items[m]
        BY <2>4
      <3>2. PICK s \in Analysis!Status : s = seen[m]
        BY <2>3, <2>4
      <3>3. items'[m] = [i EXCEPT !.status = s]
        BY <2>2, <2>4, <3>1, <3>2
      <3> QED
        BY <3>1, <3>2, <3>3, <2>4 DEF ItemRow
    <2>6. items' \in [Member -> ItemRow]
      <3>1. \A m \in Member : items'[m] \in ItemRow
        BY <2>2, <2>5, AnalysisFacts
      <3> QED
        BY <3>1, <2>2
    <2>7. members' = members
      BY <1>4 DEF Analysis!constant
    <2>8. ItemsAgree'
      <3>1. Analysis!Counts(seen) = Analysis!Counts([m \in Member |-> items'[m].status])
        BY <2>4, <2>5, CountsAgree
      <3>2. summary' = Analysis!Counts([m \in Member |-> items[m].status])'
        BY <2>2, <2>7, <3>1 DEF Analysis!Counts
      <3> QED
        BY <2>5, <2>7, <3>2 DEF ItemsAgree
    <2>9. \A b \in Analysis!Attempt \ {a} : \A m \in members : items'[m].by = b => items'[m] = items[m]
      BY <2>5
    <2>10. FollowsOn(handler[a], f)
      BY <1>5, <1>6 DEF FollowsOn, Early
    <2>11. Handles(a, f)'
      <3>1. \A m \in members : f.told => items'[m].status = f.verdict[m]
        BY <1>5, <1>6, <2>3, <2>4, <2>5
      <3>2. analysis' = analysis /\ runs' = runs /\ ender' = ender /\ kind' = kind
        BY <1>4 DEF Analysis!constant
      <3> QED
        BY <3>1, <3>2, <2>7, <1>5, <1>6, AnalysisFacts
           DEF Handles, Leaves, Early, RunsOf, Analysis!Group
    <2> QED
      BY <1>4, <1>6, <2>2, <2>6, <2>8, <2>9, <2>10, <2>11, OneHandlerSteps
  <1> QED
    BY <1>7, <1>8

LEMMA InitializeKeeps ==
  ASSUME AnalysisBounds, AnalysisInv, NEW a \in Analysis!Attempt, Analysis!InitializeItems(a)
  PROVE  AnalysisInv'
  <1>1. PICK h : h = [handler[a] EXCEPT !.at = "analysing", !.tracker = TRUE, !.dirty = TRUE,
                                        !.flush = "due"]
    OBVIOUS
  <1>2. /\ handler[a] \in HandlerRow /\ handler[a].at = "initializing"
        /\ UNCHANGED <<Analysis!constant, analysis, runs, ender>> /\ faults' \in 0..MaxFault
        /\ items' = [m \in Member |-> IF m \in members THEN [by |-> a, status |-> "pending"]
                                      ELSE Analysis!NoItem]
        /\ summary' = Analysis!Counts([m \in Member |-> "pending"])
    BY AnalysisFacts DEF Analysis!InitializeItems, Analysis!At
  <1>3. handler' = [handler EXCEPT ![a] = h]
    BY <1>1, AnalysisFacts DEF Analysis!InitializeItems
  <1>4. /\ h \in HandlerRow /\ h.at = "analysing" /\ h.verdict = handler[a].verdict
        /\ h.told = handler[a].told /\ h.dirty /\ h.unsure = handler[a].unsure
    BY <1>1, <1>2 DEF HandlerRow, Analysis!Places
  <1>5. FollowsOn(handler[a], h)
    BY <1>2 DEF FollowsOn, Early
  <1>6. \A m \in members : m \in Member /\ items'[m].by = a /\ items'[m].status = "pending"
    BY <1>2, AnalysisFacts
  <1>7. items' \in [Member -> ItemRow]
    <2>1. [by |-> a, status |-> "pending"] \in ItemRow /\ Analysis!NoItem \in ItemRow
      BY AnalysisFacts DEF ItemRow, Analysis!NoItem, Analysis!Status, AnalysisBounds
    <2> QED
      BY <1>2, <2>1
  <1>8. members' = members /\ analysis' = analysis /\ runs' = runs /\ ender' = ender /\ kind' = kind
    BY <1>2 DEF Analysis!constant
  <1>9. ItemsAgree'
    <2>1. Analysis!Counts([m \in Member |-> "pending"]) = Analysis!Counts([m \in Member |-> items'[m].status])
      BY <1>6, CountsAgree
    <2>2. summary' = Analysis!Counts([m \in Member |-> items[m].status])'
      BY <1>2, <1>8, <2>1 DEF Analysis!Counts
    <2> QED
      BY <1>6, <1>8, <2>2 DEF ItemsAgree
  <1>10. \A b \in Analysis!Attempt \ {a} : \A m \in members : items'[m].by = b => items'[m] = items[m]
    BY <1>6
  <1>11. Handles(a, h)'
    BY <1>2, <1>4, <1>8, AnalysisFacts DEF Handles, Leaves, Early, RunsOf, Analysis!Group
  <1> QED
    BY <1>2, <1>3, <1>4, <1>5, <1>7, <1>9, <1>10, <1>11, OneHandlerSteps

-----------------------------------------------------------------------------
(* The handler. *)

\* A handler that is interrupted remembers what it knew; behind its projection it is
\* unsure of its end.
Breaks(g, h) ==
  /\ g.at \in {"starting", "initializing", "analysing", "projecting", "inserting", "telling",
               "reconciling"}
  /\ h.at \in {"failing", "retrying", "sealing"}
  /\ h.verdict = g.verdict /\ h.told = g.told /\ h.dirty = g.dirty /\ h.tracker = g.tracker
  /\ g.at \in {"telling", "reconciling"} /\ h.at # "sealing" => h.unsure

LEMMA HandlerBreaks ==
  ASSUME AnalysisBounds, AnalysisInv, NEW a \in Analysis!Attempt, NEW h \in HandlerRow,
         handler' = [handler EXCEPT ![a] = h], Breaks(handler[a], h),
         UNCHANGED <<Analysis!constant, analysis, runs, Analysis!shown, ender>>, faults' \in 0..MaxFault
  PROVE  AnalysisInv'
  <1>1. FollowsOn(handler[a], h) /\ Handles(a, h)
    BY AnalysisFacts DEF Breaks, FollowsOn, Handles, Leaves, Early
  <1> QED
    BY <1>1, HandlerSteps

LEMMA RaisedRow ==
  ASSUME AnalysisBounds, AnalysisInv, NEW a \in Analysis!Attempt, NEW transient \in BOOLEAN
  PROVE  LET h == Analysis!Raised(a, transient)
         IN  /\ h \in HandlerRow /\ h.at \in {"failing", "retrying"}
             /\ h.verdict = handler[a].verdict /\ h.told = handler[a].told
             /\ h.dirty = handler[a].dirty /\ h.tracker = handler[a].tracker
             /\ h.unsure = handler[a].unsure
  <1>1. handler[a] \in HandlerRow
    BY AnalysisFacts
  <1> QED
    BY <1>1 DEF Analysis!Raised, HandlerRow, Analysis!Places

LEMMA FlushedRow ==
  ASSUME NEW g \in HandlerRow, NEW f \in {"idle", "due", "checked"}
  PROVE  LET h == [g EXCEPT !.flush = f]
         IN  /\ h \in HandlerRow /\ h.at = g.at /\ h.verdict = g.verdict /\ h.told = g.told
             /\ h.dirty = g.dirty /\ h.tracker = g.tracker /\ h.unsure = g.unsure
  BY DEF HandlerRow

\* Both ways to leave a place set the flush, nothing else.
LEMMA CloseSets ==
  ASSUME AnalysisBounds, AnalysisInv, NEW a \in Analysis!Attempt, NEW left \in HandlerRow,
         Analysis!Close(a, left) \/ (Analysis!Calm /\ Analysis!Leave(a, left))
  PROVE  /\ \E f \in {"idle", "due", "checked"} :
              handler' = [handler EXCEPT ![a] = [left EXCEPT !.flush = f]]
         /\ faults' \in 0..MaxFault
  <1>1. left.flush \in {"idle", "due", "checked"}
    BY DEF HandlerRow
  <1>2. Analysis!Calm \/ Analysis!Fault
    BY DEF Analysis!Close
  <1> QED
    BY <1>1, <1>2, FaultCounts DEF Analysis!Close, Analysis!Leave

LEMMA LeaveSets ==
  ASSUME AnalysisBounds, AnalysisInv, NEW a \in Analysis!Attempt, NEW left \in HandlerRow,
         Analysis!Fault, Analysis!Leave(a, left)
  PROVE  /\ \E f \in {"idle", "due", "checked"} :
              handler' = [handler EXCEPT ![a] = [left EXCEPT !.flush = f]]
         /\ faults' \in 0..MaxFault
  <1>1. left.flush \in {"idle", "due", "checked"}
    BY DEF HandlerRow
  <1> QED
    BY <1>1, FaultCounts DEF Analysis!Leave

LEMMA RunnerSucceedsKeeps ==
  ASSUME AnalysisBounds, AnalysisInv, NEW a \in Analysis!Attempt, Analysis!RunnerSucceeds(a)
  PROVE  AnalysisInv'
  <1>1. /\ handler[a] \in HandlerRow /\ handler[a].at = "analysing"
        /\ UNCHANGED <<Analysis!constant, analysis, runs, Analysis!shown, ender>>
    BY AnalysisFacts DEF Analysis!RunnerSucceeds, Analysis!At
  <1>2. PICK v \in [members -> IF Analysis!Group THEN Analysis!Verdict ELSE Analysis!Verdict \ {"failed"}] :
          Analysis!Close(a, [handler[a] EXCEPT !.at = "projecting",
            !.verdict = [m \in Member |-> IF m \in members THEN v[m] ELSE "succeeded"]])
    BY DEF Analysis!RunnerSucceeds
  <1>3. PICK w : w = [m \in Member |-> IF m \in members THEN v[m] ELSE "succeeded"]
    OBVIOUS
  <1>4. PICK left : left = [handler[a] EXCEPT !.at = "projecting", !.verdict = w]
    OBVIOUS
  <1>5. w \in [Member -> Analysis!Verdict]
    <2>1. \A m \in members : v[m] \in Analysis!Verdict
      OBVIOUS
    <2> QED
      BY <2>1, <1>3 DEF Analysis!Verdict
  <1>6. /\ left \in HandlerRow /\ left.at = "projecting" /\ left.told = handler[a].told
        /\ left.dirty = handler[a].dirty /\ left.tracker = handler[a].tracker
        /\ left.unsure = handler[a].unsure
    BY <1>1, <1>4, <1>5 DEF HandlerRow, Analysis!Places
  <1>7. PICK f \in {"idle", "due", "checked"} :
          handler' = [handler EXCEPT ![a] = [left EXCEPT !.flush = f]] /\ faults' \in 0..MaxFault
    <2>1. Analysis!Close(a, left)
      BY <1>2, <1>3, <1>4
    <2> QED
      BY <2>1, <1>6, CloseSets
  <1>8. PICK h : h = [left EXCEPT !.flush = f]
    OBVIOUS
  <1>9. /\ h \in HandlerRow /\ h.at = "projecting" /\ h.told = handler[a].told
        /\ h.unsure = handler[a].unsure
    BY <1>6, <1>8, FlushedRow
  <1>10. FollowsOn(handler[a], h) /\ Handles(a, h)
    BY <1>1, <1>9, AnalysisFacts DEF FollowsOn, Handles, Leaves, Early
  <1> QED
    BY <1>1, <1>7, <1>8, <1>9, <1>10, HandlerSteps

LEMMA RunnerFailsKeeps ==
  ASSUME AnalysisBounds, AnalysisInv, NEW a \in Analysis!Attempt, Analysis!RunnerFails(a)
  PROVE  AnalysisInv'
  <1>1. /\ handler[a].at = "analysing"
        /\ UNCHANGED <<Analysis!constant, analysis, runs, Analysis!shown, ender>>
    BY DEF Analysis!RunnerFails, Analysis!At
  <1>2. PICK transient \in BOOLEAN :
          Analysis!Close(a, Analysis!Raised(a, transient)) \/ (Analysis!Calm /\ Analysis!Leave(a, Analysis!Raised(a, transient)))
    BY DEF Analysis!RunnerFails
  <1>3. PICK left : left = Analysis!Raised(a, transient)
    OBVIOUS
  <1>4. /\ left \in HandlerRow /\ left.at \in {"failing", "retrying"}
        /\ left.verdict = handler[a].verdict /\ left.told = handler[a].told
        /\ left.dirty = handler[a].dirty /\ left.tracker = handler[a].tracker
        /\ left.unsure = handler[a].unsure
    BY <1>3, RaisedRow
  <1>5. PICK f \in {"idle", "due", "checked"} :
          handler' = [handler EXCEPT ![a] = [left EXCEPT !.flush = f]] /\ faults' \in 0..MaxFault
    BY <1>2, <1>3, <1>4, CloseSets
  <1>6. PICK h : h = [left EXCEPT !.flush = f]
    OBVIOUS
  <1>7. /\ h \in HandlerRow /\ h.at = left.at /\ h.verdict = left.verdict /\ h.told = left.told
        /\ h.dirty = left.dirty /\ h.tracker = left.tracker /\ h.unsure = left.unsure
    BY <1>4, <1>6, FlushedRow
  <1>8. Breaks(handler[a], h)
    BY <1>1, <1>4, <1>7 DEF Breaks
  <1> QED
    BY <1>1, <1>5, <1>6, <1>7, <1>8, HandlerBreaks

LEMMA TimesOutKeeps ==
  ASSUME AnalysisBounds, AnalysisInv, NEW a \in Analysis!Attempt, Analysis!TimesOut(a)
  PROVE  AnalysisInv'
  <1>1. PICK u : u = Analysis!At(a, {"telling", "reconciling"})
    OBVIOUS
  <1>2. PICK raised : raised = Analysis!Raised(a, TRUE)
    OBVIOUS
  <1>3. PICK left : left = [raised EXCEPT !.unsure = u]
    OBVIOUS
  <1>4. /\ Analysis!Executing(a) /\ handler[a].at # "analysing" /\ Analysis!Fault
        /\ Analysis!Leave(a, left)
        /\ UNCHANGED <<Analysis!constant, analysis, runs, Analysis!shown, ender>>
    BY <1>1, <1>2, <1>3 DEF Analysis!TimesOut, Analysis!At
  <1>5. u \in BOOLEAN /\ (handler[a].at \in {"telling", "reconciling"} => u = TRUE)
    <2>1. u = (handler[a].at \in {"telling", "reconciling"})
      BY <1>1 DEF Analysis!At
    <2>2. u \in BOOLEAN
      BY <2>1
    <2>3. CASE handler[a].at \in {"telling", "reconciling"}
      BY <2>1, <2>2, <2>3
    <2> QED
      BY <2>2, <2>3
  <1>6. /\ raised \in HandlerRow /\ raised.at \in {"failing", "retrying"}
        /\ raised.verdict = handler[a].verdict /\ raised.told = handler[a].told
        /\ raised.dirty = handler[a].dirty /\ raised.tracker = handler[a].tracker
    BY <1>2, RaisedRow
  <1>7. /\ left \in HandlerRow /\ left.at = raised.at /\ left.unsure = u
        /\ left.verdict = handler[a].verdict /\ left.told = handler[a].told
        /\ left.dirty = handler[a].dirty /\ left.tracker = handler[a].tracker
    BY <1>3, <1>5, <1>6 DEF HandlerRow
  <1>8. PICK f \in {"idle", "due", "checked"} :
          handler' = [handler EXCEPT ![a] = [left EXCEPT !.flush = f]] /\ faults' \in 0..MaxFault
    BY <1>4, <1>7, LeaveSets
  <1>9. PICK h : h = [left EXCEPT !.flush = f]
    OBVIOUS
  <1>10. /\ h \in HandlerRow /\ h.at = left.at /\ h.verdict = left.verdict /\ h.told = left.told
         /\ h.dirty = left.dirty /\ h.tracker = left.tracker /\ h.unsure = left.unsure
    BY <1>7, <1>9, FlushedRow
  <1>11. Breaks(handler[a], h)
    <2>1. handler[a].at \in {"telling", "reconciling"} => h.unsure
      BY <1>5, <1>7, <1>10
    <2>2. handler[a].at \in {"starting", "initializing", "analysing", "projecting",
                             "inserting", "telling", "reconciling"}
      BY <1>4 DEF Analysis!Executing, Analysis!At
    <2> QED
      BY <2>1, <2>2, <1>6, <1>7, <1>10 DEF Breaks
  <1> QED
    BY <1>4, <1>8, <1>9, <1>10, <1>11, HandlerBreaks

LEMMA UnwindKeeps ==
  ASSUME AnalysisBounds, AnalysisInv, NEW a \in Analysis!Attempt, Analysis!Unwind(a)
  PROVE  AnalysisInv'
  <1>1. PICK left : left = [handler[a] EXCEPT !.at = "sealing"]
    OBVIOUS
  <1>2. /\ Analysis!Executing(a)
        /\ UNCHANGED <<Analysis!constant, analysis, runs, Analysis!shown, ender>>
        /\ Analysis!Close(a, left) \/ (Analysis!Calm /\ Analysis!Leave(a, left))
    BY <1>1 DEF Analysis!Unwind
  <1>3. handler[a] \in HandlerRow
    BY AnalysisFacts
  <1>4. /\ left \in HandlerRow /\ left.at = "sealing" /\ left.unsure = handler[a].unsure
        /\ left.verdict = handler[a].verdict /\ left.told = handler[a].told
        /\ left.dirty = handler[a].dirty /\ left.tracker = handler[a].tracker
    BY <1>1, <1>3 DEF HandlerRow, Analysis!Places
  <1>5. PICK f \in {"idle", "due", "checked"} :
          handler' = [handler EXCEPT ![a] = [left EXCEPT !.flush = f]] /\ faults' \in 0..MaxFault
    BY <1>2, <1>4, CloseSets
  <1>6. PICK h : h = [left EXCEPT !.flush = f]
    OBVIOUS
  <1>7. /\ h \in HandlerRow /\ h.at = left.at /\ h.verdict = left.verdict /\ h.told = left.told
        /\ h.dirty = left.dirty /\ h.tracker = left.tracker /\ h.unsure = left.unsure
    BY <1>4, <1>6, FlushedRow
  <1>8. Breaks(handler[a], h)
    BY <1>2, <1>4, <1>7 DEF Breaks, Analysis!Executing, Analysis!At
  <1> QED
    BY <1>2, <1>5, <1>6, <1>7, <1>8, HandlerBreaks

LEMMA RaiseKeeps ==
  ASSUME AnalysisBounds, AnalysisInv, NEW a \in Analysis!Attempt, Analysis!Raise(a),
         handler[a].at \in {"projecting", "inserting"},
         UNCHANGED <<Analysis!constant, analysis, runs, Analysis!shown, ender>>, faults' \in 0..MaxFault
  PROVE  AnalysisInv'
  <1>1. PICK h : h = Analysis!Raised(a, FALSE)
    OBVIOUS
  <1>2. handler' = [handler EXCEPT ![a] = h]
    BY <1>1 DEF Analysis!Raise
  <1>3. /\ h \in HandlerRow /\ h.at \in {"failing", "retrying"}
        /\ h.verdict = handler[a].verdict /\ h.told = handler[a].told
        /\ h.dirty = handler[a].dirty /\ h.tracker = handler[a].tracker
        /\ h.unsure = handler[a].unsure
    BY <1>1, RaisedRow
  <1>4. Breaks(handler[a], h)
    BY <1>3 DEF Breaks
  <1> QED
    BY <1>2, <1>3, <1>4, HandlerBreaks

LEMMA ProjectCheckKeeps ==
  ASSUME AnalysisBounds, AnalysisInv, NEW a \in Analysis!Attempt, Analysis!ProjectCheck(a) \/ Analysis!ProjectRefused(a)
  PROVE  AnalysisInv'
  <1>1. /\ handler[a].at \in {"projecting", "inserting"} /\ handler[a] \in HandlerRow
        /\ UNCHANGED <<Analysis!constant, analysis, runs, Analysis!shown, ender>>
        /\ faults' \in 0..MaxFault
    BY AnalysisFacts DEF Analysis!ProjectCheck, Analysis!ProjectRefused, Analysis!At
  <1>2. CASE Analysis!Raise(a)
    BY <1>1, <1>2, RaiseKeeps
  <1>3. CASE ~Analysis!Raise(a)
    <2>1. PICK h : h = [handler[a] EXCEPT !.at = "inserting"]
      OBVIOUS
    <2>2. handler[a].at = "projecting" /\ handler' = [handler EXCEPT ![a] = h]
      BY <1>3, <2>1, AnalysisFacts
         DEF Analysis!ProjectCheck, Analysis!ProjectRefused, Analysis!Goto, Analysis!At
    <2>3. /\ h \in HandlerRow /\ h.at = "inserting" /\ h.unsure = handler[a].unsure
          /\ h.verdict = handler[a].verdict /\ h.told = handler[a].told
          /\ h.dirty = handler[a].dirty /\ h.tracker = handler[a].tracker
      BY <1>1, <2>1 DEF HandlerRow, Analysis!Places
    <2>4. FollowsOn(handler[a], h) /\ Handles(a, h)
      BY <2>2, <2>3, AnalysisFacts DEF FollowsOn, Handles, Leaves, Early
    <2> QED
      BY <1>1, <2>2, <2>3, <2>4, HandlerSteps
  <1> QED
    BY <1>2, <1>3

LEMMA ReconcileKeeps ==
  ASSUME AnalysisBounds, AnalysisInv, NEW a \in Analysis!Attempt, Analysis!Reconcile(a)
  PROVE  AnalysisInv'
  <1>1. PICK h : h = IF handler[a].tracker
                     THEN [handler[a] EXCEPT !.at = "reconciling", !.told = TRUE,
                                             !.dirty = TRUE, !.flush = "due"]
                     ELSE [handler[a] EXCEPT !.at = "returned"]
    OBVIOUS
  <1>2. /\ handler[a].at = "telling" /\ handler[a] \in HandlerRow
        /\ handler' = [handler EXCEPT ![a] = h]
        /\ UNCHANGED <<Analysis!constant, analysis, runs, Analysis!shown, ender>>
        /\ faults' \in 0..MaxFault
    BY <1>1, AnalysisFacts DEF Analysis!Reconcile, Analysis!At
  <1>3. CASE handler[a].tracker
    <2>1. /\ h \in HandlerRow /\ h.at = "reconciling" /\ h.told /\ h.dirty
          /\ h.unsure = handler[a].unsure /\ h.verdict = handler[a].verdict
      BY <1>1, <1>2, <1>3 DEF HandlerRow, Analysis!Places
    <2>2. FollowsOn(handler[a], h) /\ Handles(a, h)
      BY <1>2, <1>3, <2>1, AnalysisFacts DEF FollowsOn, Handles, Leaves, Early
    <2> QED
      BY <1>2, <2>1, <2>2, HandlerSteps
  <1>4. CASE ~handler[a].tracker
    <2>1. /\ h \in HandlerRow /\ h.at = "returned" /\ h.told = handler[a].told
          /\ h.dirty = handler[a].dirty /\ h.tracker = handler[a].tracker
          /\ h.verdict = handler[a].verdict
      BY <1>1, <1>2, <1>4 DEF HandlerRow, Analysis!Places
    <2>2. FollowsOn(handler[a], h) /\ Handles(a, h)
      BY <1>2, <1>4, <2>1, AnalysisFacts DEF FollowsOn, Handles, Leaves, Early
    <2> QED
      BY <1>2, <2>1, <2>2, HandlerSteps
  <1> QED
    BY <1>3, <1>4

-----------------------------------------------------------------------------
(* The projection. *)

\* Before a projection the table is empty, or there is no member to write a run for.
LEMMA NotProjected ==
  ASSUME AnalysisInv, ~Analysis!Projected
  PROVE  runs = {} /\ \A a \in Analysis!Attempt :
           handler[a].at \in {"telling", "reconciling", "returned"} => members = {}
  <1>1. CASE members = {}
    <2>1. \A a, v : RunsOf(a, v) = {}
      BY <1>1, RunsFacts
    <2> QED
      BY <1>1, <2>1 DEF AnalysisInv, Projecting
  <1>2. CASE members # {}
    <2>1. \A a, v : runs # RunsOf(a, v)
      BY <1>2, RunsFacts DEF Analysis!Projected
    <2> QED
      BY <2>1 DEF AnalysisInv, Projecting, Handles
  <1> QED
    BY <1>1, <1>2

LEMMA RunsTyped ==
  ASSUME AnalysisBounds, AnalysisInv, NEW a \in Analysis!Attempt, NEW v
  PROVE  RunsOf(a, v) \subseteq [member : Member, by : Analysis!Attempt, failed : BOOLEAN]
  <1>1. \A m \in members : m \in Member /\ (v[m] = "failed") \in BOOLEAN
    BY AnalysisFacts
  <1>2. \A m \in members :
          [member |-> m, by |-> a, failed |-> v[m] = "failed"]
            \in [member : Member, by : Analysis!Attempt, failed : BOOLEAN]
    BY <1>1
  <1> QED
    BY <1>2 DEF RunsOf

LEMMA ProjectKeeps ==
  ASSUME AnalysisBounds, AnalysisInv, NEW a \in Analysis!Attempt, Analysis!Project(a) \/ Analysis!ProjectUnsure(a)
  PROVE  AnalysisInv'
  <1>1. /\ handler[a].at = "inserting" /\ ~Analysis!Projected
        /\ runs' = runs \cup Analysis!Projection(a)
        /\ UNCHANGED <<Analysis!constant, analysis, Analysis!shown, ender>>
        /\ faults' \in 0..MaxFault
        /\ handler[a] \in HandlerRow
    BY AnalysisFacts, FaultCounts DEF Analysis!Project, Analysis!ProjectUnsure, Analysis!At
  <1>2. /\ analysis' = analysis /\ ender' = ender /\ kind' = kind /\ members' = members
        /\ items' = items /\ summary' = summary
    BY <1>1 DEF Analysis!constant, Analysis!shown
  <1>3. PICK v : v = handler[a].verdict
    OBVIOUS
  <1>4. runs = {} /\ runs' = RunsOf(a, v)
    BY <1>1, <1>3, NotProjected DEF Analysis!Projection, RunsOf
  <1>5. PICK h \in HandlerRow :
          /\ handler' = [handler EXCEPT ![a] = h]
          /\ h.verdict = v /\ h.told = handler[a].told /\ h.dirty = handler[a].dirty
          /\ h.tracker = handler[a].tracker
          /\ \/ h.at = "telling" /\ h.unsure = handler[a].unsure
             \/ h.at = "returned" /\ ~h.tracker
             \/ h.at \in {"failing", "retrying"} /\ h.unsure
    <2>1. CASE Analysis!Project(a)
      <3>1. PICK p : p = IF handler[a].tracker THEN "telling" ELSE "returned"
        OBVIOUS
      <3>2. PICK h : h = [handler[a] EXCEPT !.at = p]
        OBVIOUS
      <3>3. handler' = [handler EXCEPT ![a] = h]
        BY <2>1, <3>1, <3>2, AnalysisFacts DEF Analysis!Project, Analysis!Goto
      <3>4. /\ h \in HandlerRow /\ h.at = p /\ h.verdict = v /\ h.told = handler[a].told
            /\ h.dirty = handler[a].dirty /\ h.tracker = handler[a].tracker
            /\ h.unsure = handler[a].unsure
        BY <1>1, <1>3, <3>1, <3>2 DEF HandlerRow, Analysis!Places
      <3> QED
        BY <3>1, <3>3, <3>4
    <2>2. CASE Analysis!ProjectUnsure(a)
      <3>1. PICK transient \in BOOLEAN :
              handler' = [handler EXCEPT ![a] = [Analysis!Raised(a, transient) EXCEPT !.unsure = TRUE]]
        BY <2>2 DEF Analysis!ProjectUnsure
      <3>2. PICK raised : raised = Analysis!Raised(a, transient)
        OBVIOUS
      <3>3. PICK h : h = [raised EXCEPT !.unsure = TRUE]
        OBVIOUS
      <3>4. /\ raised \in HandlerRow /\ raised.at \in {"failing", "retrying"}
            /\ raised.verdict = v /\ raised.told = handler[a].told
            /\ raised.dirty = handler[a].dirty /\ raised.tracker = handler[a].tracker
        BY <1>3, <3>2, RaisedRow
      <3>5. /\ h \in HandlerRow /\ h.at = raised.at /\ h.verdict = raised.verdict
            /\ h.told = raised.told /\ h.dirty = raised.dirty /\ h.tracker = raised.tracker
            /\ h.unsure
        BY <3>3, <3>4 DEF HandlerRow
      <3> QED
        BY <3>1, <3>2, <3>3, <3>4, <3>5
    <2> QED
      BY <2>1, <2>2
  <1>6. \A b \in Analysis!Attempt : handler'[b] = IF b = a THEN h ELSE handler[b]
    BY <1>5, AnalysisFacts
  <1>7. AnalysisTypes'
    BY <1>1, <1>2, <1>4, <1>5, RunsTyped DEF AnalysisInv, AnalysisTypes
  <1>8. Projecting'
    <2>1. h.at \notin Early /\ runs' = RunsOf(a, h.verdict) /\ handler'[a] = h
      BY <1>4, <1>5, <1>6 DEF Early
    <2> QED
      BY <2>1, <1>2 DEF Projecting, RunsOf
  <1>9. Ended'
    <2>1. CASE analysis.outcome \notin Analysis!Finished
      BY <2>1, <1>2 DEF AnalysisInv, Ended
    <2>2. CASE analysis.outcome \in Analysis!Finished
      <3>1. /\ ender \in Analysis!Attempt /\ ender # a /\ handler'[ender] = handler[ender]
            /\ runs = RunsOf(ender, handler[ender].verdict)
        BY <2>2, <1>1, <1>6 DEF AnalysisInv, Ended, Handles
      <3>2. members = {}
        BY <3>1, <1>4, RunsFacts
      <3>3. RunsOf(a, v) = {}
        BY <3>2, RunsFacts
      <3> QED
        BY <3>1, <3>3, <1>2, <1>4 DEF AnalysisInv, Ended, RunsOf, Analysis!Group
    <2> QED
      BY <2>1, <2>2
  <1>10. ItemsAgree'
    BY <1>2 DEF AnalysisInv, ItemsAgree, Analysis!Counts
  <1>11. ASSUME NEW b \in Analysis!Attempt PROVE Handles(b, handler[b])'
    <2>1. CASE b = a
      <3>1. handler'[b] = h
        BY <2>1, <1>6
      <3>2. runs' = RunsOf(b, handler'[b].verdict)
        BY <2>1, <3>1, <1>4, <1>5
      <3>3. Leaves(b, handler[b])'
        BY <3>1, <1>5 DEF Leaves
      <3>4. ender # b /\ b <= analysis.attempt
        BY <2>1, <1>1, AnalysisFacts DEF Handles
      <3>5. h.told /\ h.tracker /\ ~h.dirty =>
              \A m \in members : items[m].by = b => items[m].status = h.verdict[m]
        <4>1. handler[a].told /\ handler[a].tracker /\ ~handler[a].dirty =>
                \A m \in members : items[m].by = a => items[m].status = handler[a].verdict[m]
          BY AnalysisFacts DEF Handles
        <4> QED
          BY <4>1, <2>1, <1>3, <1>5
      <3>6. ~handler[a].unsure
        BY <1>1, AnalysisFacts DEF Handles
      <3> QED
        BY <3>1, <3>2, <3>3, <3>4, <3>5, <3>6, <1>2, <1>5, AnalysisFacts
           DEF Handles, Early, RunsOf
    <2>2. CASE b # a
      <3>1. handler'[b] = handler[b] /\ Handles(b, handler[b])
        BY <2>2, <1>6, AnalysisFacts
      <3>2. \A r \in runs' : r.by # b
        BY <2>2, <1>4, RunsFacts
      <3>3. handler[b].at \in {"telling", "reconciling", "returned"} =>
              runs' = RunsOf(b, handler[b].verdict)
        <4>1. members = {} => \A c, w : RunsOf(c, w) = {}
          BY RunsFacts
        <4> QED
          BY <4>1, <1>1, <1>4, NotProjected
      <3> QED
        BY <3>1, <3>2, <3>3, <1>2 DEF Handles, Leaves, RunsOf, Analysis!Group
    <2> QED
      BY <2>1, <2>2
  <1> QED
    BY <1>7, <1>8, <1>9, <1>10, <1>11 DEF AnalysisInv

LEMMA CleanupKeeps ==
  ASSUME AnalysisBounds, AnalysisInv, NEW a \in Analysis!Attempt, Analysis!Cleanup(a)
  PROVE  AnalysisInv'
  <1>1. PICK h : h = [handler[a] EXCEPT !.at = "closing"]
    OBVIOUS
  <1>2. /\ handler[a].at = "cleaning" /\ handler[a] \in HandlerRow
        /\ handler' = [handler EXCEPT ![a] = h] /\ runs' = runs \ Analysis!Unpublished(a)
        /\ faults' \in 0..MaxFault
        /\ analysis' = analysis /\ ender' = ender /\ kind' = kind /\ members' = members
        /\ items' = items /\ summary' = summary
    BY <1>1, AnalysisFacts
       DEF Analysis!Cleanup, Analysis!Goto, Analysis!At, Analysis!constant, Analysis!shown
  <1>3. analysis.outcome = "cancelled" /\ ender = a
    BY <1>2, AnalysisFacts DEF Handles
  <1>4. /\ h \in HandlerRow /\ h.at = "closing" /\ h.verdict = handler[a].verdict
        /\ h.told = handler[a].told /\ h.dirty = handler[a].dirty
        /\ h.tracker = handler[a].tracker
    BY <1>1, <1>2 DEF HandlerRow, Analysis!Places
  <1>5. runs' = {r \in runs : r.by # a}
    BY <1>2, <1>3 DEF Analysis!Unpublished
  <1>6. \A b \in Analysis!Attempt : handler'[b] = IF b = a THEN h ELSE handler[b]
    BY <1>2, AnalysisFacts
  <1>7. \A b, v : runs = RunsOf(b, v) => IF b = a THEN runs' = {} ELSE runs' = runs
    BY <1>5, RunsFacts
  <1>8. AnalysisTypes'
    BY <1>2, <1>4, <1>5 DEF AnalysisInv, AnalysisTypes
  <1>9. Projecting'
    <2>1. CASE runs = {}
      BY <2>1, <1>5 DEF Projecting
    <2>2. CASE runs # {}
      <3>1. PICK b \in Analysis!Attempt : handler[b].at \notin Early /\ runs = RunsOf(b, handler[b].verdict)
        BY <2>2 DEF AnalysisInv, Projecting
      <3>2. CASE b = a
        BY <3>1, <3>2, <1>7 DEF Projecting
      <3>3. CASE b # a
        <4>1. runs' = runs /\ handler'[b] = handler[b]
          BY <3>1, <3>3, <1>6, <1>7
        <4> QED
          BY <3>1, <4>1, <1>2 DEF Projecting, RunsOf
      <3> QED
        BY <3>2, <3>3
    <2> QED
      BY <2>1, <2>2
  <1>10. Ended'
    BY <1>2, <1>3 DEF AnalysisInv, Ended, Analysis!Finished
  <1>11. ItemsAgree'
    BY <1>2 DEF AnalysisInv, ItemsAgree, Analysis!Counts
  <1>12. ASSUME NEW b \in Analysis!Attempt PROVE Handles(b, handler[b])'
    <2>1. CASE b = a
      <3>1. handler'[b] = h /\ \A r \in runs' : r.by # b
        BY <2>1, <1>5, <1>6
      <3> QED
        BY <2>1, <3>1, <1>2, <1>4, AnalysisFacts
           DEF Handles, Leaves, Early, RunsOf, Analysis!Group
    <2>2. CASE b # a
      <3>1. handler'[b] = handler[b] /\ Handles(b, handler[b])
        BY <2>2, <1>6, AnalysisFacts
      <3>2. \A r \in runs' : r \in runs
        BY <1>5
      <3>3. handler[b].at \in {"telling", "reconciling", "returned"} =>
              runs' = RunsOf(b, handler[b].verdict)
        BY <2>2, <3>1, <1>7 DEF Handles
      <3> QED
        BY <3>1, <3>2, <3>3, <1>2 DEF Handles, Leaves, RunsOf, Analysis!Group
    <2> QED
      BY <2>1, <2>2
  <1> QED
    BY <1>8, <1>9, <1>10, <1>11, <1>12 DEF AnalysisInv

-----------------------------------------------------------------------------
(* The verdict. *)

\* A handler that is done with the job, and with what it may still clean up.
LEMMA DoneKeeps ==
  ASSUME AnalysisBounds, AnalysisInv, NEW a \in Analysis!Attempt,
         \/ Analysis!CleanupFails(a) \/ Analysis!CloseWorkFails(a) \/ Analysis!SuccessLost(a)
  PROVE  AnalysisInv'
  <1>1. /\ handler[a] \in HandlerRow /\ handler[a].at \in {"cleaning", "closing", "returned"}
        /\ UNCHANGED <<Analysis!constant, analysis, runs, Analysis!shown, ender>>
        /\ faults' \in 0..MaxFault
    BY AnalysisFacts, FaultCounts
       DEF Analysis!CleanupFails, Analysis!CloseWorkFails, Analysis!SuccessLost, Analysis!At
  <1>2. PICK h \in HandlerRow :
          /\ handler' = [handler EXCEPT ![a] = h]
          /\ h.verdict = handler[a].verdict /\ h.told = handler[a].told
          /\ h.dirty = handler[a].dirty /\ h.tracker = handler[a].tracker
          /\ handler[a].at \in {"cleaning", "closing"} => h.at = "done"
          /\ handler[a].at = "returned" => h.at \in {"done", "sealing"}
          /\ handler[a].unsure => h.unsure
          /\ handler[a].at = "cleaning" => h.unsure
    <2>1. CASE Analysis!CleanupFails(a)
      <3>1. PICK h : h = [handler[a] EXCEPT !.at = "done", !.unsure = TRUE]
        OBVIOUS
      <3>2. handler' = [handler EXCEPT ![a] = h] /\ handler[a].at = "cleaning"
        BY <2>1, <3>1, AnalysisFacts DEF Analysis!CleanupFails, Analysis!At
      <3>3. /\ h \in HandlerRow /\ h.at = "done" /\ h.verdict = handler[a].verdict
            /\ h.told = handler[a].told /\ h.dirty = handler[a].dirty
            /\ h.tracker = handler[a].tracker /\ h.unsure
        BY <1>1, <3>1 DEF HandlerRow, Analysis!Places
      <3> QED
        BY <3>2, <3>3
    <2>2. CASE Analysis!CloseWorkFails(a) \/ Analysis!SuccessLost(a)
      <3>1. PICK p \in {"done", "sealing"} :
              /\ handler' = [handler EXCEPT ![a].at = p]
              /\ handler[a].at # "cleaning"
              /\ handler[a].at = "closing" => p = "done"
        BY <2>2 DEF Analysis!CloseWorkFails, Analysis!SuccessLost, Analysis!Goto, Analysis!At
      <3>2. PICK h : h = [handler[a] EXCEPT !.at = p]
        OBVIOUS
      <3>3. handler' = [handler EXCEPT ![a] = h]
        BY <3>1, <3>2, AnalysisFacts
      <3>4. /\ h \in HandlerRow /\ h.at = p /\ h.verdict = handler[a].verdict
            /\ h.told = handler[a].told /\ h.dirty = handler[a].dirty
            /\ h.tracker = handler[a].tracker /\ h.unsure = handler[a].unsure
        BY <1>1, <3>2 DEF HandlerRow, Analysis!Places
      <3> QED
        BY <3>1, <3>3, <3>4
    <2> QED
      BY <2>1, <2>2
  <1>3. FollowsOn(handler[a], h)
    BY <1>1, <1>2 DEF FollowsOn, Early
  <1>4. Handles(a, h)
    BY <1>1, <1>2, AnalysisFacts DEF Handles, Leaves, Early
  <1> QED
    BY <1>1, <1>2, <1>3, <1>4, HandlerSteps

\* Closing the rows of an attempt leaves what its last flush showed.
LEMMA CloseWorkKeeps ==
  ASSUME AnalysisBounds, AnalysisInv, NEW a \in Analysis!Attempt, Analysis!CloseWork(a)
  PROVE  AnalysisInv'
  <1>1. PICK h : h = [handler[a] EXCEPT !.at = "done"]
    OBVIOUS
  <1>2. PICK status : status = analysis.outcome
    OBVIOUS
  <1>3. /\ handler[a].at = "closing" /\ handler[a] \in HandlerRow
        /\ handler' = [handler EXCEPT ![a] = h]
        /\ UNCHANGED <<Analysis!constant, analysis, runs, ender>> /\ faults' \in 0..MaxFault
        /\ Analysis!CloseItems(a, status)
    BY <1>1, <1>2, AnalysisFacts DEF Analysis!CloseWork, Analysis!Goto, Analysis!At
  <1>4. /\ analysis' = analysis /\ ender' = ender /\ kind' = kind /\ members' = members
        /\ runs' = runs
    BY <1>3 DEF Analysis!constant
  <1>5. status \in {"failed", "cancelled"}
    BY <1>2, <1>3, AnalysisFacts DEF Handles
  <1>6. /\ h \in HandlerRow /\ h.at = "done" /\ h.verdict = handler[a].verdict
        /\ h.told = handler[a].told /\ h.dirty = handler[a].dirty
        /\ h.tracker = handler[a].tracker /\ h.unsure = handler[a].unsure
    BY <1>1, <1>3 DEF HandlerRow, Analysis!Places
  <1>7. FollowsOn(handler[a], h) /\ Handles(a, h)
    BY <1>3, <1>6, AnalysisFacts DEF FollowsOn, Handles, Leaves, Early
  <1>8. CASE UNCHANGED Analysis!shown
    BY <1>3, <1>6, <1>7, <1>8, HandlerSteps
  <1>9. CASE ~UNCHANGED Analysis!shown
    <2>1. PICK closed : closed = [m \in Member |-> IF items[m].by = a /\ items[m].status \notin Analysis!Closed
                                  THEN [items[m] EXCEPT !.status = status] ELSE items[m]]
      OBVIOUS
    <2>2. items' = closed /\ summary' = Analysis!Counts([m \in Member |-> closed[m].status])
      BY <1>3, <1>9, <2>1 DEF Analysis!CloseItems
    <2>3. \A m \in Member : /\ items'[m] \in ItemRow /\ items'[m].by = items[m].by
                            /\ items'[m] = items[m] \/ (items[m].by = a /\ items[m].status \notin Analysis!Closed)
      <3> TAKE m \in Member
      <3>1. PICK i \in ItemRow : i = items[m]
        BY AnalysisFacts
      <3>2. items'[m] = IF i.by = a /\ i.status \notin Analysis!Closed THEN [i EXCEPT !.status = status]
                        ELSE i
        BY <2>1, <2>2, <3>1
      <3>3. /\ [i EXCEPT !.status = status] \in ItemRow
            /\ [i EXCEPT !.status = status].by = i.by
        BY <1>5 DEF ItemRow, Analysis!Status, Analysis!Closed, Analysis!Verdict
      <3> QED
        BY <3>1, <3>2, <3>3
    <2>4. items' \in [Member -> ItemRow]
      BY <2>1, <2>2, <2>3
    <2>5. \A m \in members : m \in Member
      BY AnalysisFacts
    <2>6. ItemsAgree'
      <3>1. summary' = Analysis!Counts([m \in Member |-> items[m].status])'
        BY <1>4, <2>2 DEF Analysis!Counts
      <3> QED
        BY <1>4, <2>3, <2>5, <3>1 DEF AnalysisInv, ItemsAgree
    <2>7. \A b \in Analysis!Attempt \ {a} : \A m \in members : items'[m].by = b => items'[m] = items[m]
      BY <2>3, <2>5
    <2>8. Handles(a, h)'
      <3>1. h.told /\ h.tracker /\ ~h.dirty =>
              \A m \in members : items'[m].by = a => items'[m].status = h.verdict[m]
        <4>1. \A m \in Member : h.verdict[m] \in Analysis!Closed
          BY <1>6 DEF HandlerRow, Analysis!Closed
        <4>2. h.told /\ h.tracker /\ ~h.dirty =>
                \A m \in members : items[m].by = a => items[m].status = h.verdict[m]
          BY <1>7 DEF Handles
        <4> QED
          BY <4>1, <4>2, <2>3, <2>5
      <3> QED
        BY <3>1, <1>4, <1>6, <1>7 DEF Handles, Leaves, RunsOf, Analysis!Group
    <2> QED
      BY <1>3, <1>6, <1>7, <2>4, <2>6, <2>7, <2>8, OneHandlerSteps
  <1> QED
    BY <1>8, <1>9

\* A handler leaves a place for another and remembers what it did.
LEMMA MovesRow ==
  ASSUME AnalysisBounds, AnalysisInv, NEW a \in Analysis!Attempt, NEW p \in Analysis!Places, Analysis!Goto(a, p)
  PROVE  \E h \in HandlerRow :
           /\ handler' = [handler EXCEPT ![a] = h] /\ h.at = p
           /\ h.verdict = handler[a].verdict /\ h.told = handler[a].told
           /\ h.dirty = handler[a].dirty /\ h.tracker = handler[a].tracker
           /\ h.unsure = handler[a].unsure /\ h.flush = handler[a].flush
  <1>1. PICK h : h = [handler[a] EXCEPT !.at = p]
    OBVIOUS
  <1>2. handler' = [handler EXCEPT ![a] = h] /\ handler[a] \in HandlerRow
    BY <1>1, AnalysisFacts DEF Analysis!Goto
  <1>3. /\ h \in HandlerRow /\ h.at = p /\ h.verdict = handler[a].verdict
        /\ h.told = handler[a].told /\ h.dirty = handler[a].dirty
        /\ h.tracker = handler[a].tracker /\ h.unsure = handler[a].unsure
        /\ h.flush = handler[a].flush
    BY <1>1, <1>2 DEF HandlerRow
  <1> QED
    BY <1>2, <1>3

\* A verdict that is no result.
LEMMA EndsWithout ==
  ASSUME AnalysisBounds, AnalysisInv, NEW a \in Analysis!Attempt, NEW o \in {"failed", "cancelled"},
         Analysis!Claims(a, {"run", "cancel"}), Analysis!EndBy(a, o, {})
  PROVE  /\ analysis.outcome = "none" /\ analysis' \in AnalysisRow
         /\ analysis'.attempt = analysis.attempt
         /\ analysis.attempt = a /\ analysis'.outcome = o /\ ender' = a /\ Ended'
  <1>1. analysis.outcome = "none" /\ analysis.attempt = a /\ analysis \in AnalysisRow /\ a # 0 /\ a \in Nat
    BY AnalysisFacts DEF Analysis!Claims, Analysis!Owns
  <1>2. /\ analysis' \in AnalysisRow /\ analysis'.attempt = a /\ analysis'.outcome = o
        /\ analysis'.phase = "terminal" /\ ender' = a
    BY <1>1 DEF Analysis!EndBy, AnalysisRow
  <1>3. Ended'
    BY <1>1, <1>2 DEF Ended, Analysis!Finished
  <1> QED
    BY <1>1, <1>2, <1>3

LEMMA FailKeeps ==
  ASSUME AnalysisBounds, AnalysisInv, NEW a \in Analysis!Attempt, Analysis!Fail(a)
  PROVE  AnalysisInv'
  <1>1. PICK p \in {"done", "closing"} :
          /\ Analysis!Goto(a, p)
          /\ p = "closing" => Analysis!Claims(a, {"run"}) /\ Analysis!EndBy(a, "failed", {})
    BY DEF Analysis!Fail
  <1>2. PICK h \in HandlerRow :
          /\ handler' = [handler EXCEPT ![a] = h] /\ h.at = p
          /\ h.verdict = handler[a].verdict /\ h.told = handler[a].told
          /\ h.dirty = handler[a].dirty /\ h.tracker = handler[a].tracker
          /\ h.unsure = handler[a].unsure
    BY <1>1, MovesRow DEF Analysis!Places
  <1>3. /\ handler[a].at \in {"failing", "retrying"}
        /\ runs' = runs /\ kind' = kind /\ members' = members /\ items' = items
        /\ UNCHANGED <<Analysis!constant, runs, Analysis!shown>> /\ faults' \in 0..MaxFault
    BY AnalysisFacts DEF Analysis!Fail, Analysis!At, Analysis!constant, Analysis!shown
  <1>4. /\ FollowsOn(handler[a], h) /\ ender # a /\ a <= analysis.attempt
        /\ (\E r \in runs : r.by = a) => h.unsure
    BY <1>2, <1>3, AnalysisFacts DEF FollowsOn, Handles, Leaves, Early
  <1>5. CASE UNCHANGED <<analysis, ender>>
    <2>1. p = "done"
      BY <1>1, <1>5, AnalysisFacts
         DEF Analysis!EndBy, Analysis!Claims, Analysis!Owns, AnalysisRow, Analysis!Open,
             AnalysisInv, AnalysisTypes
    <2>2. Handles(a, h)
      BY <1>2, <1>3, <1>4, <2>1, AnalysisFacts DEF Handles, Leaves, Early
    <2> QED
      BY <1>2, <1>3, <1>4, <1>5, <2>2, HandlerSteps
  <1>6. CASE Analysis!Claims(a, {"run"}) /\ analysis' = [analysis EXCEPT !.phase = "queued"] /\ UNCHANGED ender /\ p = "done"
    <2>1. /\ analysis.outcome = "none" /\ analysis' \in AnalysisRow
          /\ analysis'.attempt = analysis.attempt
          /\ analysis'.outcome = "none" /\ analysis'.phase = "queued" /\ ender = 0 /\ ender' = 0
      BY <1>6, AnalysisFacts
         DEF Analysis!Claims, AnalysisRow, AnalysisInv, Ended, Analysis!Owns, Analysis!Open
    <2>2. Ended'
      BY <2>1 DEF Ended, Analysis!Finished
    <2>3. Handles(a, h)'
      BY <1>2, <1>3, <1>4, <1>6, <2>1, AnalysisFacts DEF Handles, Leaves, Early
    <2>4. analysis.attempt <= analysis'.attempt /\ ender' \in {0, a}
      BY <2>1, AnalysisFacts
    <2> QED
      BY <1>2, <1>3, <1>4, <2>1, <2>2, <2>3, <2>4, JobSteps
  <1>7. CASE Analysis!Claims(a, {"run"}) /\ Analysis!EndBy(a, "failed", {}) /\ (Analysis!Group => p = "closing")
    <2>1. Analysis!Claims(a, {"run", "cancel"})
      BY <1>7 DEF Analysis!Claims
    <2>2. /\ analysis.outcome = "none" /\ analysis' \in AnalysisRow
          /\ analysis'.attempt = analysis.attempt
          /\ analysis.attempt = a /\ analysis'.outcome = "failed" /\ ender' = a /\ Ended'
      BY <1>7, <2>1, EndsWithout
    <2>3. Handles(a, h)'
      BY <1>2, <1>3, <1>4, <1>7, <2>2, AnalysisFacts DEF Handles, Leaves, Early, Analysis!Group
    <2> QED
      BY <1>2, <1>3, <1>4, <2>2, <2>3, AnalysisFacts, JobSteps
  <1>8. IF ~Analysis!Claims(a, {"run"}) THEN Analysis!Goto(a, "done") /\ UNCHANGED <<analysis, ender>>
        ELSE \/ analysis' = [analysis EXCEPT !.phase = "queued"] /\ Analysis!Goto(a, "done") /\ UNCHANGED ender
             \/ Analysis!EndBy(a, "failed", {}) /\ Analysis!Goto(a, IF Analysis!Group THEN "closing" ELSE "done")
    BY DEF Analysis!Fail
  <1>9. \A q \in Analysis!Places : Analysis!Goto(a, q) => q = p
    BY <1>2, AnalysisFacts DEF Analysis!Goto, HandlerRow
  <1> QED
    BY <1>5, <1>6, <1>7, <1>8, <1>9 DEF Analysis!Places

LEMMA SealKeeps ==
  ASSUME AnalysisBounds, AnalysisInv, NEW a \in Analysis!Attempt, Analysis!Seal(a)
  PROVE  AnalysisInv'
  <1>1. PICK p \in {"done", "cleaning"} : Analysis!Goto(a, p)
    BY DEF Analysis!Seal
  <1>2. PICK h \in HandlerRow :
          /\ handler' = [handler EXCEPT ![a] = h] /\ h.at = p
          /\ h.verdict = handler[a].verdict /\ h.told = handler[a].told
          /\ h.dirty = handler[a].dirty /\ h.tracker = handler[a].tracker
          /\ h.unsure = handler[a].unsure
    BY <1>1, MovesRow DEF Analysis!Places
  <1>3. /\ handler[a].at = "sealing"
        /\ runs' = runs /\ kind' = kind /\ members' = members /\ items' = items
        /\ UNCHANGED <<Analysis!constant, runs, Analysis!shown>> /\ faults' \in 0..MaxFault
    BY AnalysisFacts DEF Analysis!Seal, Analysis!At, Analysis!constant, Analysis!shown
  <1>4. FollowsOn(handler[a], h) /\ ender # a /\ a <= analysis.attempt
    BY <1>2, <1>3, AnalysisFacts DEF FollowsOn, Handles, Early
  <1>5. \A q \in Analysis!Places : Analysis!Goto(a, q) => q = p
    BY <1>2, AnalysisFacts DEF Analysis!Goto, HandlerRow
  <1>6. CASE UNCHANGED <<analysis, ender>> /\ p = "done"
    <2>1. Handles(a, h)
      BY <1>2, <1>3, <1>4, <1>6, AnalysisFacts DEF Handles, Leaves, Early
    <2> QED
      BY <1>2, <1>3, <1>4, <1>6, <2>1, HandlerSteps
  <1>7. CASE /\ Analysis!Claims(a, {"run", "cancel"}) /\ Analysis!EndBy(a, "cancelled", {})
             /\ p = IF Analysis!Group THEN "cleaning" ELSE "done"
    <2>1. /\ analysis.outcome = "none" /\ analysis' \in AnalysisRow
          /\ analysis'.attempt = analysis.attempt
          /\ analysis.attempt = a /\ analysis'.outcome = "cancelled" /\ ender' = a /\ Ended'
      BY <1>7, EndsWithout
    <2>2. Handles(a, h)'
      BY <1>2, <1>3, <1>4, <1>7, <2>1, AnalysisFacts DEF Handles, Leaves, Early, Analysis!Group
    <2> QED
      BY <1>2, <1>3, <1>4, <2>1, <2>2, AnalysisFacts, JobSteps
  <1> QED
    BY <1>1, <1>5, <1>6, <1>7 DEF Analysis!Seal, Analysis!Places

LEMMA SucceedKeeps ==
  ASSUME AnalysisBounds, AnalysisInv, NEW a \in Analysis!Attempt, Analysis!Succeed(a)
  PROVE  AnalysisInv'
  <1>1. PICK h \in HandlerRow :
          /\ handler' = [handler EXCEPT ![a] = h] /\ h.at = "done"
          /\ h.verdict = handler[a].verdict /\ h.told = handler[a].told
          /\ h.dirty = handler[a].dirty /\ h.tracker = handler[a].tracker
          /\ h.unsure = handler[a].unsure
    BY MovesRow DEF Analysis!Succeed, Analysis!Places
  <1>2. PICK o : o = Analysis!Aggregate(handler[a].verdict)
    OBVIOUS
  <1>3. o \in {"no_change", "partially_succeeded", "succeeded"}
    BY <1>2 DEF Analysis!Aggregate
  <1>4. PICK failed : failed = Analysis!FailedMembers(a)
    OBVIOUS
  <1>5. /\ handler[a].at = "returned"
        /\ runs' = runs /\ kind' = kind /\ members' = members /\ items' = items
        /\ UNCHANGED <<Analysis!constant, runs, Analysis!shown>> /\ faults' \in 0..MaxFault
        /\ analysis.outcome = "none" /\ analysis.attempt = a /\ Analysis!EndBy(a, o, failed)
    BY <1>2, <1>4, AnalysisFacts
       DEF Analysis!Succeed, Analysis!At, Analysis!constant, Analysis!shown, Analysis!Claims,
           Analysis!Owns
  <1>6. /\ failed = {m \in members : handler[a].verdict[m] = "failed"} /\ failed \subseteq Member
        /\ runs = RunsOf(a, handler[a].verdict)
        /\ handler[a].tracker => handler[a].told
    BY <1>4, <1>5, AnalysisFacts DEF Analysis!FailedMembers, Handles
  <1>7. /\ analysis' \in AnalysisRow /\ analysis'.attempt = a /\ analysis'.outcome = o
        /\ analysis'.phase = "terminal" /\ analysis'.failed = failed /\ ender' = a
    BY <1>3, <1>5, <1>6, AnalysisFacts DEF Analysis!EndBy, AnalysisRow, Analysis!Finished
  <1>8. handler'[a] = h
    BY <1>1, AnalysisFacts
  <1>9. Ended'
    BY <1>1, <1>3, <1>5, <1>6, <1>7, <1>8, AnalysisFacts DEF Ended, RunsOf, Analysis!Group
  <1>10. FollowsOn(handler[a], h)
    BY <1>1, <1>5 DEF FollowsOn, Early
  <1>11. Handles(a, h)'
    BY <1>1, <1>3, <1>5, <1>7, AnalysisFacts
       DEF Handles, Leaves, Early, Analysis!Group, Analysis!Finished
  <1>12. analysis.attempt <= analysis'.attempt /\ ender' \in {0, a}
    BY <1>5, <1>7, AnalysisFacts
  <1> QED
    BY <1>1, <1>5, <1>7, <1>9, <1>10, <1>11, <1>12, JobSteps

-----------------------------------------------------------------------------
(* The life of the job. *)

LEMMA AdmitKeeps ==
  ASSUME AnalysisBounds, AnalysisInv, Analysis!Admit PROVE AnalysisInv'
  <1>1. PICK a : a = analysis.attempt + 1
    OBVIOUS
  <1>2. analysis \in AnalysisRow /\ analysis.attempt \in Nat /\ analysis.attempt < MaxAttempt /\ MaxAttempt \in Nat
    BY DEF AnalysisInv, AnalysisTypes, Analysis!Admit, AnalysisBounds, AnalysisRow
  <1>3. a \in Analysis!Attempt /\ a > analysis.attempt
    BY <1>1, <1>2 DEF Analysis!Attempt
  <1>4. PICK p \in {"starting", "analysing"} : Analysis!Goto(a, p)
    BY <1>1 DEF Analysis!Admit, Analysis!Goto
  <1>5. PICK h \in HandlerRow :
          /\ handler' = [handler EXCEPT ![a] = h] /\ h.at = p
          /\ h.verdict = handler[a].verdict /\ h.told = handler[a].told
          /\ h.dirty = handler[a].dirty /\ h.tracker = handler[a].tracker
          /\ h.unsure = handler[a].unsure
    BY <1>3, <1>4, MovesRow DEF Analysis!Places
  <1>6. handler[a].at = "none" /\ Handles(a, handler[a])
    BY <1>3, AnalysisFacts DEF Handles
  <1>7. /\ analysis' = [analysis EXCEPT !.phase = "running", !.attempt = a]
        /\ analysis.phase = "queued"
        /\ runs' = runs /\ kind' = kind /\ members' = members /\ items' = items /\ ender' = ender
        /\ UNCHANGED <<Analysis!constant, runs, Analysis!shown>> /\ faults' \in 0..MaxFault
    BY <1>1, <1>3, AnalysisFacts DEF Analysis!Admit, Analysis!constant, Analysis!shown
  <1>8. analysis.outcome = "none" /\ ender = 0
    BY <1>7 DEF AnalysisInv, Ended
  <1>9. /\ analysis' \in AnalysisRow /\ analysis'.attempt = a /\ analysis'.outcome = "none"
        /\ analysis'.phase = "running"
    <2>1. a \in 0..MaxAttempt
      BY <1>2, <1>3 DEF Analysis!Attempt
    <2> QED
      BY <2>1, <1>2, <1>7, <1>8 DEF AnalysisRow, Analysis!Open
  <1>10. Ended'
    BY <1>7, <1>8, <1>9 DEF Ended, Analysis!Finished
  <1>11. FollowsOn(handler[a], h)
    BY <1>6 DEF FollowsOn, Early
  <1>12. Handles(a, h)'
    BY <1>3, <1>5, <1>6, <1>7, <1>8, <1>9, AnalysisFacts DEF Handles, Leaves, Early
  <1>13. analysis.attempt <= analysis'.attempt
    BY <1>1, <1>2, <1>9
  <1> QED
    BY <1>3, <1>5, <1>7, <1>8, <1>9, <1>10, <1>11, <1>12, <1>13, JobSteps

\* The job changes, no handler does.
LEMMA ControlKeeps ==
  ASSUME AnalysisBounds, AnalysisInv, Analysis!Cancel \/ \E a \in Analysis!Attempt : Analysis!TakeOver(a)
  PROVE  AnalysisInv'
  <1>1. 1 \in Analysis!Attempt
    BY DEF AnalysisBounds, Analysis!Attempt
  <1>2. /\ runs' = runs /\ kind' = kind /\ members' = members /\ items' = items
        /\ ender' = ender /\ handler' = handler
        /\ UNCHANGED <<Analysis!constant, runs, Analysis!shown>> /\ faults' \in 0..MaxFault
    BY <1>1, AnalysisFacts, FaultCounts
       DEF Analysis!Cancel, Analysis!TakeOver, Analysis!constant, Analysis!shown
  <1>3. analysis \in AnalysisRow /\ analysis.phase # "terminal" /\ analysis.outcome = "none" /\ ender = 0
    BY DEF Analysis!Cancel, Analysis!TakeOver, Analysis!Owns, Analysis!Open, AnalysisInv,
       AnalysisTypes, Ended
  <1>4. PICK phase \in {"queued", "stopping", "terminal"}, wish \in {"run", "cancel"},
             o \in {"none", "cancelled"} :
          /\ analysis' = [analysis EXCEPT !.phase = phase, !.wish = wish, !.outcome = o]
          /\ o = "none" <=> phase # "terminal"
    <2>1. CASE Analysis!Cancel
      <3>1. CASE analysis.phase = "queued"
        <4>1. analysis' = [analysis EXCEPT !.phase = "terminal", !.wish = "cancel", !.outcome = "cancelled"]
          BY <2>1, <3>1, <1>3 DEF Analysis!Cancel, AnalysisRow
        <4> QED
          BY <4>1
      <3>2. CASE analysis.phase # "queued"
        <4>1. analysis' = [analysis EXCEPT !.phase = "stopping", !.wish = "cancel", !.outcome = "none"]
          BY <2>1, <3>2, <1>3 DEF Analysis!Cancel, AnalysisRow
        <4> QED
          BY <4>1
      <3> QED
        BY <3>1, <3>2
    <2>2. CASE \E a \in Analysis!Attempt : Analysis!TakeOver(a)
      <3>1. CASE analysis.wish = "run"
        <4>1. analysis' = [analysis EXCEPT !.phase = "queued", !.wish = "run", !.outcome = "none"]
          BY <2>2, <3>1, <1>3 DEF Analysis!TakeOver, AnalysisRow
        <4> QED
          BY <4>1
      <3>2. CASE analysis.wish # "run"
        <4>1. analysis' = [analysis EXCEPT !.phase = "terminal", !.wish = "cancel", !.outcome = "cancelled"]
          BY <2>2, <3>2, <1>3 DEF Analysis!TakeOver, AnalysisRow
        <4> QED
          BY <4>1
      <3> QED
        BY <3>1, <3>2
    <2> QED
      BY <2>1, <2>2
  <1>5. /\ analysis' \in AnalysisRow /\ analysis'.attempt = analysis.attempt
        /\ analysis'.outcome = o
        /\ analysis'.phase = phase
    BY <1>3, <1>4 DEF AnalysisRow, Analysis!Open
  <1>6. Ended'
    BY <1>2, <1>3, <1>4, <1>5 DEF Ended, Analysis!Finished
  <1>7. PICK h : h = handler[1]
    OBVIOUS
  <1>8. h \in HandlerRow /\ handler' = [handler EXCEPT ![1] = h] /\ Handles(1, h)
    BY <1>1, <1>2, <1>7, AnalysisFacts
  <1>9. FollowsOn(handler[1], h)
    BY <1>7 DEF FollowsOn
  <1>10. Handles(1, h)'
    BY <1>2, <1>3, <1>5, <1>8 DEF Handles, Leaves, RunsOf, Analysis!Group
  <1>11. analysis.attempt <= analysis'.attempt
    BY <1>1, <1>5, AnalysisFacts
  <1>12. ender' = 0
    BY <1>2, <1>3
  <1> QED
    BY <1>1, <1>2, <1>3, <1>5, <1>6, <1>8, <1>9, <1>10, <1>11, <1>12, JobSteps
-----------------------------------------------------------------------------
(* Every step, and what the invariant gives. *)

LEMMA AnalysisStutter ==
  ASSUME AnalysisBounds, AnalysisInv, UNCHANGED analysisVars PROVE AnalysisInv'
  <1>1. /\ analysis' = analysis /\ runs' = runs /\ ender' = ender /\ kind' = kind
        /\ members' = members
        /\ items' = items /\ summary' = summary /\ handler' = handler /\ faults' = faults
    BY DEF analysisVars
  <1>2. AnalysisTypes' /\ ItemsAgree' /\ Projecting'
    BY <1>1 DEF AnalysisInv, AnalysisTypes, ItemsAgree, Analysis!Counts, Projecting, RunsOf
  <1>3. Ended'
    BY <1>1 DEF AnalysisInv, Ended, RunsOf, Analysis!Group
  <1>4. ASSUME NEW b \in Analysis!Attempt PROVE Handles(b, handler[b])'
    BY <1>1, AnalysisFacts DEF Handles, Leaves, RunsOf, Analysis!Group
  <1> QED
    BY <1>2, <1>3, <1>4 DEF AnalysisInv

LEMMA AnalysisStep ==
  ASSUME AnalysisBounds, AnalysisInv, [Analysis!Next]_analysisVars PROVE AnalysisInv'
  <1>1. CASE Analysis!Admit
    BY <1>1, AdmitKeeps
  <1>2. CASE Analysis!Cancel
    BY <1>2, ControlKeeps
  <1>3. ASSUME NEW a \in Analysis!Attempt, Analysis!Crash(a) \/ Analysis!TakeOver(a) PROVE AnalysisInv'
    BY <1>3, CrashKeeps, ControlKeeps
  <1>4. ASSUME NEW a \in Analysis!Attempt, Analysis!Track(a) PROVE AnalysisInv'
    BY <1>4, StartTrackerKeeps, InitializeKeeps, FrameKeeps, FlushCheckKeeps, FlushWriteKeeps,
       FlushFailsKeeps DEF Analysis!Track
  <1>5. ASSUME NEW a \in Analysis!Attempt, Analysis!Analyse(a) PROVE AnalysisInv'
    BY <1>5, RunnerSucceedsKeeps, RunnerFailsKeeps, TimesOutKeeps, ProjectCheckKeeps,
       ProjectKeeps,
       ReconcileKeeps, UnwindKeeps DEF Analysis!Analyse
  <1>6. ASSUME NEW a \in Analysis!Attempt, Analysis!Settle(a) PROVE AnalysisInv'
    BY <1>6, SucceedKeeps, DoneKeeps, FailKeeps, SealKeeps, CleanupKeeps, CloseWorkKeeps
       DEF Analysis!Settle
  <1>7. CASE UNCHANGED analysisVars
    BY <1>7, AnalysisStutter
  <1> QED
    BY <1>1, <1>2, <1>3, <1>4, <1>5, <1>6, <1>7 DEF Analysis!Next

LEMMA Counted == \A S : Analysis!Cardinality(S) = Cardinality(S)
  BY DEF Cardinality, Analysis!Cardinality

\* As many runs as members.
LEMMA RunsCounted ==
  ASSUME NEW a, NEW v, IsFiniteSet(members)
  PROVE  Cardinality(RunsOf(a, v)) = Cardinality(members)
  <1> DEFINE run(m) == [member |-> m, by |-> a, failed |-> v[m] = "failed"]
             f == [m \in members |-> run(m)]
  <1>1. RunsOf(a, v) = {run(m) : m \in members}
    BY DEF RunsOf
  <1>2. \A m \in members : run(m).member = m
    OBVIOUS
  <1> HIDE DEF run
  <1>3. f \in [members -> RunsOf(a, v)]
    BY <1>1
  <1>4. \A m, n \in members : f[m] = f[n] => m = n
    BY <1>2
  <1>5. \A r \in RunsOf(a, v) : \E m \in members : f[m] = r
    BY <1>1
  <1>6. f \in Bijection(members, RunsOf(a, v))
    <2> HIDE DEF f
    <2> QED
      BY <1>3, <1>4, <1>5, Fun_IsBij
  <1> QED
    BY <1>6, FS_Bijection DEF ExistsBijection

LEMMA InvVerdictIsProjected ==
  ASSUME AnalysisBounds, AnalysisInv PROVE Analysis!VerdictIsProjected
  <1>1. \A a : Analysis!Projection(a) = RunsOf(a, handler[a].verdict)
    BY DEF Analysis!Projection, RunsOf
  <1>2. runs # {} => \E a \in Analysis!Attempt : runs = Analysis!Projection(a)
    BY <1>1 DEF AnalysisInv, Projecting
  <1>3. analysis.outcome \in Analysis!Finished =>
          /\ runs = Analysis!Projection(ender)
          /\ analysis.failed = {r.member : r \in {q \in runs : q.failed}}
    <2>1. SUFFICES ASSUME analysis.outcome \in Analysis!Finished
                   PROVE  /\ runs = Analysis!Projection(ender)
                          /\ analysis.failed = {r.member : r \in {q \in runs : q.failed}}
      OBVIOUS
    <2>2. PICK v : /\ v = handler[ender].verdict /\ runs = RunsOf(ender, v)
                   /\ analysis.failed = {m \in members : v[m] = "failed"}
      BY <2>1 DEF AnalysisInv, Ended
    <2>3. {r.member : r \in {q \in runs : q.failed}} = {m \in members : v[m] = "failed"}
      BY <2>2, RunsFacts
    <2> QED
      BY <1>1, <2>2, <2>3
  <1> QED
    BY <1>2, <1>3 DEF Analysis!VerdictIsProjected

LEMMA InvRetryIsServed ==
  ASSUME AnalysisBounds, AnalysisInv PROVE Analysis!RetryIsServed
  <1>1. SUFFICES ASSUME Analysis!RetryOffered
                 PROVE  \/ Analysis!RetryMembers # {} /\ (analysis.outcome = "partially_succeeded" =>
                                                   Analysis!RetryMembers = analysis.failed)
                        \/ /\ analysis.outcome # "partially_succeeded"
                           /\ \A r \in runs : Analysis!Stranded(r.by)
    BY DEF Analysis!RetryIsServed
  <1>2. CASE analysis.outcome = "partially_succeeded"
    <2>1. analysis.failed # {}
      BY <1>1, <1>2 DEF Analysis!RetryOffered
    <2>2. PICK v : /\ runs = RunsOf(ender, v)
                   /\ analysis.failed = {m \in members : v[m] = "failed"}
      BY <1>2 DEF AnalysisInv, Ended, Analysis!Finished
    <2>3. IsFiniteSet(members)
      BY FS_Subset DEF AnalysisBounds, AnalysisInv, AnalysisTypes
    <2>4. Cardinality(runs) = Cardinality(members) /\ {r.member : r \in runs} = members
      BY <2>2, <2>3, RunsCounted, RunsFacts
    <2>5. Analysis!RetryMembers = analysis.failed
      <3>1. Analysis!RetryMembers = {r.member : r \in {q \in runs : q.failed}}
        BY <1>2, <2>4, Counted DEF Analysis!RetryMembers
      <3>2. {r.member : r \in {q \in runs : q.failed}} = {m \in members : v[m] = "failed"}
        BY <2>2, RunsFacts
      <3> QED
        BY <2>2, <3>1, <3>2
    <2> QED
      BY <2>1, <2>5
  <1>3. CASE analysis.outcome # "partially_succeeded"
    <2>1. Analysis!Group /\ analysis.outcome \notin Analysis!Finished
      BY <1>1, <1>3 DEF Analysis!RetryOffered, Analysis!Finished
    <2>2. ASSUME NEW r \in runs PROVE Analysis!Stranded(r.by)
      <3>1. PICK a \in Analysis!Attempt : a = r.by
        BY DEF AnalysisInv, AnalysisTypes
      <3>2. Leaves(a, handler[a]) /\ Handles(a, handler[a])
        BY <3>1 DEF AnalysisInv, Handles
      <3>3. ender = a => handler[a].unsure \/ handler[a].at \in {"cleaning", "dead"}
        BY <2>1, <3>2 DEF Leaves, Handles
      <3> QED
        BY <3>1, <3>3 DEF Analysis!Stranded, Analysis!At
    <2> QED
      BY <1>3, <2>2
  <1> QED
    BY <1>2, <1>3

LEMMA InvItemsTellTheResult ==
  ASSUME AnalysisBounds, AnalysisInv PROVE Analysis!ItemsTellTheResult
  <1>1. analysis.outcome \in Analysis!Finished /\ Analysis!Group /\ handler[ender].tracker /\ ~handler[ender].dirty =>
          \A m \in members : items[m].by = ender => items[m].status = handler[ender].verdict[m]
    BY DEF AnalysisInv, Ended, Handles
  <1> QED
    BY <1>1 DEF AnalysisInv, ItemsAgree, Analysis!ItemsTellTheResult

LEMMA AnalysisInvariant == ASSUME AnalysisBounds PROVE Analysis!Spec => []AnalysisInv
  <1>1. Analysis!Init => AnalysisInv
    BY AnalysisInit
  <1>2. AnalysisInv /\ [Analysis!Next]_analysisVars => AnalysisInv'
    BY AnalysisStep
  <1> QED
    BY <1>1, <1>2, PTL DEF Analysis!Spec, Analysis!vars, analysisVars

\* The runs of an analysis are one attempt's projection, whole, and a job that finished
\* did so with its own attempt's (project_pipeline_run, project_group_runs and the fenced
\* writer), however attempts, take-overs, cancellations and faults interleave.
THEOREM VerdictIsProjectedHolds ==
  ASSUME AnalysisBounds
  PROVE  Analysis!Spec => []VerdictIsProjected
  <1>1. AnalysisInv => Analysis!TypeOK
    BY DEF AnalysisInv, AnalysisTypes, Analysis!TypeOK, AnalysisRow, HandlerRow, ItemRow
  <1> QED
    BY <1>1, AnalysisInvariant, InvVerdictIsProjected, PTL DEF VerdictIsProjected

\* A retry that resolve_retry_capability offers is one that retryable_group_members
\* accepts, for the members whose analysis failed, unless runs are left in the table of
\* an attempt that did not end the job, or whose end the handler did not see through.
THEOREM RetryIsServedHolds ==
  ASSUME AnalysisBounds PROVE Analysis!Spec => []RetryIsServed
  BY AnalysisInvariant, InvRetryIsServed, PTL DEF RetryIsServed

\* The work items of a group are one attempt's and the summary counts them; once the job
\* has finished and the last flush got through they show what became of each member.
THEOREM ItemsTellTheResultHolds ==
  ASSUME AnalysisBounds PROVE Analysis!Spec => []ItemsTellTheResult
  BY AnalysisInvariant, InvItemsTellTheResult, PTL DEF ItemsTellTheResult
=============================================================================
