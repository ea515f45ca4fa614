----------------------------- MODULE SafetyGates -----------------------------
(***************************************************************************)
(* The safety gates: advisory locks that a delivery polls for, one after    *)
(* the other in canonical order, on a database session of its own, holds    *)
(* while its handler executes, and gives back in reverse order.             *)
(*                                                                         *)
(* The locks live in the database (`locks`, `leftover`); what the delivery  *)
(* believes to hold lives in its handle (`held`).  A broken session makes   *)
(* the two disagree, and nothing tells an executing handler.                *)
(***************************************************************************)
EXTENDS Integers, FiniteSets

CONSTANTS
  Delivery,       \* deliveries, of any worker process
  File,           \* canonical identities of the media files
  Permit,         \* identities of the media-write permits, media_write_capacity of them
  Policies,       \* the safety policies of the registered definitions
  MaxLoss,        \* bound: faults of a behaviour
  Faults          \* what the environment of this run may do

AllPolicies == {"ordinary", "media_write", "exclusive"}
AllFaults == {"session", "crash", "interrupt"}

(* Assumed by Queue, which uses this module. *)
SafetyGatesAssumption ==
  /\ MaxLoss \in Nat /\ File # {} /\ Permit # {}
  /\ Policies \subseteq AllPolicies /\ Faults \subseteq AllFaults

VARIABLES
  run,        \* the acquisition or execution of each delivery
  locks,      \* advisory locks of its present session
  leftover,   \* locks of lost sessions that the database has not noticed yet
  losses      \* bookkeeping: faults so far

vars == <<run, locks, leftover, losses>>

-----------------------------------------------------------------------------
(* Gates and requirements *)

MediaFile == 10
MediaWrite == 20
Maintenance == 40

Requirement(kind, identity, mode) == [kind |-> kind, identity |-> identity, mode |-> mode]
SharedMaintenance == Requirement(Maintenance, "global", "shared")

(* Mutant: media work does not share the maintenance gate. *)
RequirementsWithoutSharing(policy, file, permit) ==
  IF policy = "exclusive" THEN {Requirement(Maintenance, "global", "exclusive")}
  ELSE IF policy = "media_write" THEN {Requirement(MediaFile, file, "exclusive"),
                                       Requirement(MediaWrite, permit, "exclusive")}
  ELSE {SharedMaintenance}

(* requirements_for_policy and SafetyRequirements.ordinary. *)
Requirements(policy, file, permit) ==
  IF policy = "exclusive" THEN {Requirement(Maintenance, "global", "exclusive")}
  ELSE {SharedMaintenance} \cup
       IF policy = "media_write" THEN {Requirement(MediaFile, file, "exclusive"),
                                       Requirement(MediaWrite, permit, "exclusive")}
       ELSE {}

Conflict(r, s) ==
  /\ r.kind = s.kind /\ r.identity = s.identity
  /\ r.mode = "exclusive" \/ s.mode = "exclusive"

(* Mutant: the gates are taken in the order in which they come. *)
BeforeAnyhow(r, s) == TRUE

(* validate sorts by (kind, identity); no policy asks for two gates of one kind. *)
Before(r, s) == r.kind < s.kind

(* The locks of every session but d's present one: a conflicting one refuses d. *)
LocksOfOthers(d) ==
  UNION {locks[e] : e \in Delivery \ {d}} \cup UNION {leftover[e] : e \in Delivery}

Free(d, r) == \A s \in LocksOfOthers(d) : ~Conflict(r, s)

Todo(d) == run[d].need \ run[d].held
Wanted(d) == {r \in Todo(d) : \A s \in Todo(d) \ {r} : Before(r, s)}
Last(d) == {r \in run[d].held : \A s \in run[d].held \ {r} : Before(s, r)}

NotRunning == [stage |-> "idle", policy |-> "none", file |-> "none", need |-> {},
               held |-> {}, session |-> "none", cancelled |-> FALSE, expired |-> FALSE,
               outcome |-> "none"]

Acquiring(d) == run[d].stage \in {"checking", "asking", "waiting"}

Goto(d, stage) == run' = [run EXCEPT ![d].stage = stage]
Leave(d, stage, outcome) ==
  [run EXCEPT ![d].stage = stage, ![d].outcome = outcome, ![d].cancelled = FALSE,
              ![d].expired = FALSE]
Unwind(d, outcome) == run' = Leave(d, "unwinding", outcome)

Lose(fault) ==
  /\ fault \in Faults /\ losses < MaxLoss
  /\ losses' = losses + 1

-----------------------------------------------------------------------------
(* acquire *)

(* Transport loss while connecting changes nothing here: the delivery is deferred. *)
Begin(d) ==
  /\ run[d].stage = "idle"
  /\ \E policy \in Policies, permit \in Permit :
     \E file \in IF policy = "media_write" THEN File ELSE {"none"} :
       run' = [run EXCEPT ![d] =
                 [NotRunning EXCEPT !.stage = "checking", !.session = "live",
                    !.policy = policy, !.file = file,
                    !.need = Requirements(policy, file, permit)]]
  /\ UNCHANGED <<locks, leftover, losses>>

(* cancelled() asks another session; its answer may be old when the lock is tried. *)
CheckCancelled(d) ==
  /\ run[d].stage = "checking"
  /\ IF run[d].cancelled THEN Unwind(d, "cancelled") ELSE Goto(d, "asking")
  /\ UNCHANGED <<locks, leftover, losses>>

(* pg_try_advisory_lock answered true. *)
Lock(d) ==
  /\ run[d].stage = "asking" /\ run[d].session = "live"
  /\ \E r \in Wanted(d) :
       /\ Free(d, r)
       /\ locks' = [locks EXCEPT ![d] = @ \cup {r}]
       /\ run' = IF Todo(d) = {r}
                 THEN [Leave(d, "executing", "none") EXCEPT ![d].held = @ \cup {r}]
                 ELSE [run EXCEPT ![d].held = @ \cup {r}, ![d].stage = "checking"]
  /\ UNCHANGED <<leftover, losses>>

(* Mutant: a refusal is polled for ever. *)
RefusedForever(d) ==
  /\ run[d].stage = "asking" /\ run[d].session = "live"
  /\ \E r \in Wanted(d) : ~Free(d, r)
  /\ Goto(d, "waiting")
  /\ UNCHANGED <<locks, leftover, losses>>

(* It answered false: the deadline is read only now. *)
Refused(d) ==
  /\ run[d].stage = "asking" /\ run[d].session = "live"
  /\ \E r \in Wanted(d) : ~Free(d, r)
  /\ IF run[d].expired THEN Unwind(d, "timeout") ELSE Goto(d, "waiting")
  /\ UNCHANGED <<locks, leftover, losses>>

(* The wait is published and poll_seconds pass. *)
Poll(d) ==
  /\ run[d].stage = "waiting"
  /\ Goto(d, "checking")
  /\ UNCHANGED <<locks, leftover, losses>>

(* The session broke under the query: ConnectionDoesNotExistError is transport loss. *)
(* It broke before: InterfaceError is neither OSError nor PostgresError, and passes.  *)
AskInVain(d) ==
  /\ run[d].stage = "asking" /\ run[d].session \in {"broken", "closed"}
  /\ LET outcome == IF run[d].session = "broken" THEN "connection_lost" ELSE "error"
     IN  run' = [Leave(d, "unwinding", outcome) EXCEPT ![d].session = "closed"]
  /\ UNCHANGED <<locks, leftover, losses>>

(* cancelled() or publish_wait raises, or the task is cancelled.  A query that is cut  *)
(* off may have taken its lock all the same; the handle does not know.                 *)
Interrupted(d) ==
  /\ Acquiring(d)
  /\ Lose("interrupt")
  /\ Unwind(d, "error")
  /\ \E taken \in SUBSET Wanted(d) :
       /\ taken # {} => run[d].stage = "asking" /\ run[d].session = "live"
       /\ \A r \in taken : Free(d, r)
       /\ locks' = [locks EXCEPT ![d] = @ \cup taken]
  /\ UNCHANGED leftover

-----------------------------------------------------------------------------
(* Execution and release *)

(* The handler is over and its process tree is gone. *)
Return(d) ==
  /\ run[d].stage = "executing"
  /\ Unwind(d, "done")
  /\ UNCHANGED <<locks, leftover, losses>>

Unlock(d) ==
  /\ run[d].stage = "unwinding" /\ run[d].session = "live"
  /\ \E r \in Last(d) :
       /\ run' = [run EXCEPT ![d].held = @ \ {r}]
       /\ locks' = [locks EXCEPT ![d] = @ \ {r}]
  /\ UNCHANGED <<leftover, losses>>

(* Mutant: a partial acquisition is abandoned with its session open. *)
CloseOnlyWhenDone(d) ==
  /\ run[d].stage = "unwinding"
  /\ run[d].session = "live" /\ run[d].outcome = "done" => run[d].held = {}
  /\ run' = [run EXCEPT ![d] = NotRunning]
  /\ UNCHANGED <<locks, leftover, losses>>

(* finally: the connection is closed, and with it whatever it still locked.  An unlock *)
(* on a lost session raises; the handle is released and the connection closed anyway.  *)
Close(d) ==
  /\ run[d].stage = "unwinding"
  /\ run[d].session = "live" => run[d].held = {}
  /\ run' = [run EXCEPT ![d] = NotRunning]
  /\ locks' = [locks EXCEPT ![d] = {}]
  /\ UNCHANGED <<leftover, losses>>

-----------------------------------------------------------------------------
(* The environment *)

(* Somebody cancels the job, or its deadline passes; once acquire has returned, neither *)
(* is looked at again here.                                                            *)
Cancel(d) ==
  /\ Acquiring(d) /\ ~run[d].cancelled
  /\ run' = [run EXCEPT ![d].cancelled = TRUE]
  /\ UNCHANGED <<locks, leftover, losses>>

Expire(d) ==
  /\ Acquiring(d) /\ ~run[d].expired
  /\ run' = [run EXCEPT ![d].expired = TRUE]
  /\ UNCHANGED <<locks, leftover, losses>>

(* The database notices a lost session at once, or keeps its locks for a while. *)
Abandon(d) ==
  /\ locks' = [locks EXCEPT ![d] = {}]
  /\ \E kept \in {{}, locks[d]} : leftover' = [leftover EXCEPT ![d] = @ \cup kept]

(* A query is under way while asking and while unlocking. *)
SessionLost(d) ==
  /\ run[d].session = "live"
  /\ Lose("session")
  /\ run' = [run EXCEPT ![d].session =
               IF run[d].stage \in {"asking", "unwinding"} THEN "broken" ELSE "closed"]
  /\ Abandon(d)

(* The worker process dies. *)
Crash(d) ==
  /\ run[d].stage # "idle"
  /\ Lose("crash")
  /\ run' = [run EXCEPT ![d] = NotRunning]
  /\ Abandon(d)

(* TCP keepalive: the database drops what a lost session had locked. *)
Reap(d) ==
  /\ leftover[d] # {}
  /\ leftover' = [leftover EXCEPT ![d] = {}]
  /\ UNCHANGED <<run, locks, losses>>

-----------------------------------------------------------------------------
Init ==
  /\ run = [d \in Delivery |-> NotRunning]
  /\ locks = [d \in Delivery |-> {}] /\ leftover = [d \in Delivery |-> {}]
  /\ losses = 0

Acquire(d) == CheckCancelled(d) \/ Lock(d) \/ Refused(d) \/ Poll(d) \/ AskInVain(d)
Release(d) == Unlock(d) \/ Close(d)
Disturb(d) == Cancel(d) \/ Expire(d) \/ Interrupted(d) \/ SessionLost(d) \/ Crash(d)

Next == \E d \in Delivery :
          Begin(d) \/ Acquire(d) \/ Return(d) \/ Release(d) \/ Disturb(d) \/ Reap(d)

Spec == Init /\ [][Next]_vars

(* A task in the event loop goes on; time passes.  Nothing says that a handler ends. *)
Fairness == \A d \in Delivery : /\ WF_vars(Acquire(d)) /\ WF_vars(Release(d))
                                /\ WF_vars(Expire(d))

FairSpec == Spec /\ Fairness

-----------------------------------------------------------------------------
(* Properties *)

Need == [kind : {MediaFile, MediaWrite, Maintenance},
         identity : File \cup Permit \cup {"global"},
         mode : {"shared", "exclusive"}]

TypeOK ==
  /\ run \in [Delivery ->
       [stage : {"idle", "checking", "asking", "waiting", "executing", "unwinding"},
        policy : Policies \cup {"none"}, file : File \cup {"none"},
        need : SUBSET Need, held : SUBSET Need,
        session : {"none", "live", "broken", "closed"}, cancelled : BOOLEAN, expired : BOOLEAN,
        outcome : {"none", "cancelled", "timeout", "connection_lost", "error", "done"}]]
  /\ locks \in [Delivery -> SUBSET Need] /\ leftover \in [Delivery -> SUBSET Need]
  /\ losses \in 0 .. MaxLoss
  /\ \A d \in Delivery : run[d].stage = "idle" <=> run[d].session = "none"

Protected(d) == run[d].stage = "executing" /\ run[d].session = "live"

(* While its session lasts, an exclusive maintenance operation executes alone, and   *)
(* a media file has one writer: whatever the policies of the deliveries, and however *)
(* their partial acquisitions, time-outs and crashes interleave.                     *)
Exclusion ==
  \A d, e \in Delivery : d # e /\ Protected(d) /\ Protected(e) =>
    /\ run[d].policy # "exclusive"
    /\ run[d].policy = "media_write" /\ run[e].policy = "media_write" =>
         run[d].file # run[e].file

(* No lock is forgotten and none is missing: whatever a delivery locked belongs to a  *)
(* session that is still open and that it will close, on every path out of acquire,   *)
(* and a handler whose session lasts executes with every gate it asked for.           *)
NoLockForgotten ==
  \A d \in Delivery :
    /\ locks[d] # {} => run[d].stage # "idle" /\ run[d].session = "live"
    /\ Protected(d) => locks[d] = run[d].need

WaitsFor(d, e) ==
  /\ Acquiring(d) /\ run[d].session = "live"
  /\ \E r \in Wanted(d), s \in locks[e] : Conflict(r, s)

(* No circle of deliveries waits for each other: in every group somebody waits for   *)
(* nobody of the group ("Take every required gate in canonical order").              *)
NoCircularWait ==
  \A group \in SUBSET Delivery : group # {} =>
    \E d \in group : \A e \in group \ {d} : ~WaitsFor(d, e)

(* The deadline bounds the waiting and not the first attempt: a delivery gives up    *)
(* only in the face of a gate that another session holds, never of a free one.       *)
TimesOutOnlyWhenBusy ==
  [][\A d \in Delivery : run'[d].outcome = "timeout" /\ run[d].outcome # "timeout" =>
       \E r \in Wanted(d) : ~Free(d, r)]_vars

(* Admission ends, in success or failure, although the holder of a gate may never    *)
(* return and other deliveries may overtake again and again.                         *)
AdmissionEnds == \A d \in Delivery : Acquiring(d) ~> ~Acquiring(d)

=============================================================================
