---------------------------- MODULE Configuration ----------------------------
(***************************************************************************)
(* The versioned configuration: writers that compare the version they have *)
(* seen under the lock of one row, and the provider each process caches    *)
(* the current revision in.  A provider follows NOTIFY hints and a repair  *)
(* timer, and the API's own routes reload it after their commit.           *)
(***************************************************************************)
EXTENDS Naturals, FiniteSets

CONSTANTS
  Process,     \* processes with a provider
  Api,         \* the one that serves the routes
  Request,     \* requests the API handles concurrently
  MaxVersion,  \* bound: revisions
  MaxFault     \* bound: lost listeners, failed reads and restarts

ASSUME ConfigurationAssumption ==
  /\ Api \in Process
  /\ MaxVersion \in Nat \ {0} /\ MaxFault \in Nat

VARIABLES
  version,  \* the committed revision that is current
  request,  \* the updates in progress
  cache,    \* the provider of each process
  faults

vars == <<version, request, cache, faults>>

Version == 1..MaxVersion

\* A provider serves a version; its repairs, one for each hinted version, wait for
\* its lock; those whose query has answered hold a revision.
TypeOK ==
  /\ version \in Version
  /\ request \in [Request -> [step : {"idle", "seen", "reloading", "read", "served"},
                              seen : Version, got : Version]]
  /\ cache \in [Process -> [version : Version, listening : BOOLEAN, waiting : SUBSET Version, holds : SUBSET Version]]
  /\ faults \in 0..MaxFault

NoRequest == [step |-> "idle", seen |-> 1, got |-> 1]
Started   == [version |-> version, listening |-> TRUE, waiting |-> {}, holds |-> {}]

Init ==
  /\ version = 1
  /\ request = [r \in Request |-> NoRequest]
  /\ cache = [p \in Process |-> Started]
  /\ faults = 0

-----------------------------------------------------------------------------
(* Updates. *)

Goes(r, to) == request' = [request EXCEPT ![r] = to]

\* A client sends back the version it has seen.
Begin(r) ==
  /\ request[r].step = "idle" /\ version < MaxVersion
  /\ Goes(r, [step |-> "seen", seen |-> version, got |-> 1])
  /\ UNCHANGED <<version, cache, faults>>

\* NOTIFY reaches, with the commit, the connections that listen.
Notified(hint) ==
  [p \in Process |->
    IF cache[p].listening THEN [cache[p] EXCEPT !.waiting = @ \cup {hint}] ELSE cache[p]]

\* Variant: the route relies on the notification of its own commit.
ReloadedByHint(r, seen) == [request[r] EXCEPT !.step = "served", !.seen = seen]

\* After its commit the route reloads the provider of its process.
Reloads(r, seen) == [request[r] EXCEPT !.step = "reloading", !.seen = seen]

\* The row of the pointer is locked until the commit: its version is compared, and
\* a new revision, the pointer to it and its notification commit together.
Commit(r) ==
  /\ request[r].step = "seen" /\ request[r].seen = version
  /\ version' = version + 1
  /\ Goes(r, Reloads(r, version'))
  /\ cache' = Notified(version')
  /\ UNCHANGED faults

\* The values are those of the current revision: nothing is written.
NoDifference(r) ==
  /\ request[r].step = "seen" /\ request[r].seen = version
  /\ Goes(r, Reloads(r, version))
  /\ UNCHANGED <<version, cache, faults>>

\* Another update was first.
Conflict(r) ==
  /\ request[r].step = "seen" /\ request[r].seen # version
  /\ Goes(r, NoRequest)
  /\ UNCHANGED <<version, cache, faults>>

\* The route answers with what the provider serves.
Answer(r) ==
  /\ request[r].step = "served"
  /\ Goes(r, NoRequest)
  /\ UNCHANGED <<version, cache, faults>>

-----------------------------------------------------------------------------
(* Reloads. *)

\* Variant: the provider's lock is not held while the row is read.
MayReadAlways(p) == p \in Process

\* asyncio.Lock: one reload of a process at a time.
MayRead(p) ==
  /\ cache[p].holds = {}
  /\ p = Api => \A r \in Request : request[r].step # "read"

\* Variant: the repair loop does not run beside a listener.
TimerIsDueUnheard(p) == cache[p].version # version /\ cache[p].waiting = {} /\ ~cache[p].listening

\* The repair timer starts what a hint would; a repair that finds nothing new, or
\* that others are waiting to do, is left out.
TimerIsDue(p) == cache[p].version # version /\ cache[p].waiting = {}

TimerFires(p) ==
  /\ TimerIsDue(p)
  /\ cache' = [cache EXCEPT ![p].waiting = {version}]
  /\ UNCHANGED <<version, request, faults>>

\* A hint starts nothing when its version, or a later one, is served.
Ignore(p, hint) ==
  /\ hint \in cache[p].waiting /\ hint <= cache[p].version
  /\ cache' = [cache EXCEPT ![p].waiting = @ \ {hint}]
  /\ UNCHANGED <<version, request, faults>>

\* A repair's query answers with the committed version ...
Read(p, repair) ==
  /\ repair \in cache[p].waiting /\ MayRead(p)
  /\ cache' = [cache EXCEPT ![p].waiting = @ \ {repair}, ![p].holds = @ \cup {version}]
  /\ UNCHANGED <<version, request, faults>>

\* ... which is served when its coroutine resumes.
Install(p, v) ==
  /\ v \in cache[p].holds
  /\ cache' = [cache EXCEPT ![p].version = v, ![p].holds = @ \ {v}]
  /\ UNCHANGED <<version, request, faults>>

RouteReads(r) ==
  /\ request[r].step = "reloading" /\ MayRead(Api)
  /\ Goes(r, [request[r] EXCEPT !.step = "read", !.got = version])
  /\ UNCHANGED <<version, cache, faults>>

RouteInstalls(r) ==
  /\ request[r].step = "read"
  /\ cache' = [cache EXCEPT ![Api].version = request[r].got]
  /\ Goes(r, [request[r] EXCEPT !.step = "served", !.got = 1])
  /\ UNCHANGED <<version, faults>>

Fault == faults < MaxFault /\ faults' = faults + 1

\* The database does not answer a repair, or the revision does not validate: the
\* last valid one is retained.
RepairFails(p, v) ==
  /\ v \in cache[p].holds /\ Fault
  /\ cache' = [cache EXCEPT ![p].holds = @ \ {v}]
  /\ UNCHANGED <<version, request>>

\* It does not answer a route, and the route does not answer its client.
RouteFails(r) ==
  /\ request[r].step = "read" /\ Fault
  /\ Goes(r, NoRequest)
  /\ UNCHANGED <<version, cache>>

\* The LISTEN connection is gone; nothing opens it again.
LoseListener(p) ==
  /\ cache[p].listening /\ Fault
  /\ cache' = [cache EXCEPT ![p].listening = FALSE]
  /\ UNCHANGED <<version, request>>

\* A process restarts; the API's open transactions roll back.
Restart(p) ==
  /\ Fault
  /\ cache' = [cache EXCEPT ![p] = Started]
  /\ request' = IF p = Api THEN [r \in Request |-> NoRequest] ELSE request
  /\ UNCHANGED version

-----------------------------------------------------------------------------
RequestStep(r) ==
  \/ Begin(r) \/ Commit(r) \/ NoDifference(r) \/ Conflict(r) \/ Answer(r) \/ RouteReads(r)

Runs(p) ==
  \/ TimerFires(p)
  \/ \E v \in Version : Ignore(p, v) \/ Read(p, v) \/ Install(p, v)
  \/ p = Api /\ \E r \in Request : RouteInstalls(r)

Disturbed(p) ==
  \/ LoseListener(p) \/ Restart(p) \/ (\E v \in Version : RepairFails(p, v))
  \/ p = Api /\ \E r \in Request : RouteFails(r)

Next ==
  \/ \E r \in Request : RequestStep(r)
  \/ \E p \in Process : Runs(p) \/ Disturbed(p)

Spec == Init /\ [][Next]_vars

\* The event loop of a process keeps running: its timer fires, its lock goes to a
\* repair that waits for it, and a reload that has its row ends.
Fairness == \A p \in Process : WF_vars(Runs(p))

FairSpec == Spec /\ Fairness

-----------------------------------------------------------------------------
(* What must hold. *)

\* A process never goes back to an older revision, whatever order its reloads,
\* hints and requests overlap in.
CacheNeverGoesBack == [][\A p \in Process : cache'[p].version >= cache[p].version]_vars

\* Every process serves a committed revision or a later one eventually, also
\* when its notification or its listener is lost, a reload fails or it restarts.
CachesConverge ==
  \A p \in Process, v \in Version : (version >= v) ~> (cache[p].version >= v)

\* The answer to an update shows the revision it committed or a later one, however
\* many other updates and reloads run.
UpdateIsServed ==
  [][\A r \in Request : Answer(r) => cache[Api].version >= request[r].seen]_vars

=============================================================================
