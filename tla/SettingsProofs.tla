---------------------------- MODULE SettingsProofs ----------------------------
(***************************************************************************)
(* What holds of Configuration and of Credentials for any number of        *)
(* processes, requests and revisions or generations.                       *)
(*                                                                         *)
(* Configuration: a provider never goes back to an older revision, and the *)
(* answer to an update shows it.  Both follow from one invariant: at most  *)
(* one reload of a process holds a row it has read, so nothing is          *)
(* installed between its query and its own installation, and what it holds *)
(* lies between what is served and what is committed.                      *)
(*                                                                         *)
(* Credentials: an address and a credential meet, in the tables or in the  *)
(* client, only if they were tested together.  The invariant says that of  *)
(* what every request still holds, under the locks it has.                 *)
(***************************************************************************)
EXTENDS Settings, TLAPS

\* A provider serves, and its repairs hold, committed revisions, the ones held no
\* older than the one served.
HeldInRange ==
  \A p \in Process :
    /\ cache[p].version <= version
    /\ \A v \in cache[p].holds : cache[p].version <= v /\ v <= version

\* At most one reload of a process is between its query and its installation.
OneReload ==
  /\ \A p \in Process : \A v, w \in cache[p].holds : v = w
  /\ \A r, q \in Request : request[r].step = "read" /\ request[q].step = "read" => r = q
  /\ \A r \in Request : request[r].step = "read" => cache[Api].holds = {}

\* What an update knows: the revision it compares, the one it reads back, and the
\* one that is served once it has.
UpdateInRange ==
  \A r \in Request :
    /\ request[r].step = "seen" => request[r].seen < MaxVersion
    /\ request[r].step = "reloading" => request[r].seen <= version
    /\ request[r].step = "read" =>
         /\ request[r].seen <= request[r].got
         /\ cache[Api].version <= request[r].got /\ request[r].got <= version
    /\ request[r].step = "served" => request[r].seen <= cache[Api].version

IInv == TypeOK /\ HeldInRange /\ OneReload /\ UpdateInRange

LEMMA InitIInv == Init => IInv
  BY ConfigurationAssumption
     DEF Init, IInv, TypeOK, HeldInRange, OneReload, UpdateInRange, Version, NoRequest, Started

-----------------------------------------------------------------------------
(* Steps of a request. *)

\* A step of one request, in what it knows then, that leaves the rest as it is.
LEMMA RequestKeeps ==
  ASSUME IInv, NEW r \in Request, NEW to,
         version' = version, cache' = cache, faults' \in 0..MaxFault,
         request' = [request EXCEPT ![r] = to],
         to \in [step : {"idle", "seen", "reloading", "read", "served"},
                seen : Version, got : Version],
         to.step = "seen" => to.seen < MaxVersion,
         to.step = "reloading" => to.seen <= version,
         to.step = "read" =>
           /\ to.seen <= to.got /\ cache[Api].version <= to.got /\ to.got <= version
           /\ cache[Api].holds = {} /\ \A q \in Request : request[q].step # "read",
         to.step = "served" => to.seen <= cache[Api].version
  PROVE  IInv'
<1>1. \A q \in Request : request'[q] = IF q = r THEN to ELSE request[q]
  BY DEF IInv, TypeOK
<1>2. TypeOK'
  BY DEF IInv, TypeOK
<1>3. HeldInRange'
  BY DEF IInv, HeldInRange
<1>4. OneReload'
  BY <1>1 DEF IInv, OneReload
<1>5. UpdateInRange'
  BY <1>1 DEF IInv, UpdateInRange
<1> QED BY <1>2, <1>3, <1>4, <1>5 DEF IInv

LEMMA BeginStep ==
  ASSUME NEW r \in Request, IInv, Begin(r)
  PROVE  IInv' /\ cache' = cache
<1> DEFINE to == [step |-> "seen", seen |-> version, got |-> 1]
<1>1. /\ to \in [step : {"idle", "seen", "reloading", "read", "served"},
                 seen : Version, got : Version]
      /\ version < MaxVersion /\ to.step = "seen" /\ to.seen = version
  BY ConfigurationAssumption DEF Begin, IInv, TypeOK, Version
<1>2. request' = [request EXCEPT ![r] = to]
  BY DEF Begin, Goes
<1>3. version' = version /\ cache' = cache /\ faults' \in 0..MaxFault
  BY DEF Begin, IInv, TypeOK
<1> HIDE DEF to
<1> QED BY <1>1, <1>2, <1>3, RequestKeeps

\* A commit changes no provider but by the hints that wait.
LEMMA NotifiedKeeps ==
  ASSUME IInv, NEW hint \in Version
  PROVE  /\ Notified(hint) \in [Process -> [version : Version, listening : BOOLEAN,
                                            waiting : SUBSET Version, holds : SUBSET Version]]
         /\ \A p \in Process : /\ Notified(hint)[p].version = cache[p].version
                               /\ Notified(hint)[p].holds = cache[p].holds
  BY DEF Notified, IInv, TypeOK

LEMMA CommitStep ==
  ASSUME NEW r \in Request, IInv, Commit(r)
  PROVE  IInv' /\ \A p \in Process : cache'[p].version = cache[p].version
<1>1. version \in Version /\ version < MaxVersion /\ version' = version + 1
  BY DEF Commit, IInv, TypeOK, UpdateInRange
<1>2. version' \in Version
  BY <1>1, ConfigurationAssumption DEF Version
<1>3. /\ cache' \in [Process -> [version : Version, listening : BOOLEAN,
                                 waiting : SUBSET Version, holds : SUBSET Version]]
      /\ \A p \in Process : /\ cache'[p].version = cache[p].version
                            /\ cache'[p].holds = cache[p].holds
  BY <1>2, NotifiedKeeps DEF Commit
<1>4. /\ request' = [request EXCEPT ![r] = [request[r] EXCEPT !.step = "reloading",
                                                              !.seen = version']]
      /\ faults' = faults
  BY DEF Commit, Goes, Reloads
<1>5. TypeOK'
  BY <1>2, <1>3, <1>4 DEF IInv, TypeOK
<1>6. HeldInRange'
  BY <1>1, <1>3, ConfigurationAssumption DEF IInv, TypeOK, HeldInRange, Version
<1>7. OneReload'
  BY <1>3, <1>4, ConfigurationAssumption DEF IInv, TypeOK, OneReload
<1>8. UpdateInRange'
  BY <1>1, <1>3, <1>4, ConfigurationAssumption DEF IInv, TypeOK, UpdateInRange, Version
<1> QED
  BY <1>3, <1>5, <1>6, <1>7, <1>8 DEF IInv

LEMMA NoDifferenceStep ==
  ASSUME NEW r \in Request, IInv, NoDifference(r)
  PROVE  IInv' /\ cache' = cache
<1> DEFINE to == [request[r] EXCEPT !.step = "reloading", !.seen = version]
<1>1. /\ to \in [step : {"idle", "seen", "reloading", "read", "served"},
                 seen : Version, got : Version]
      /\ to.step = "reloading" /\ to.seen = version /\ version \in Version
  BY DEF IInv, TypeOK
<1>2. request' = [request EXCEPT ![r] = to]
  BY DEF NoDifference, Goes, Reloads
<1>3. version' = version /\ cache' = cache /\ faults' \in 0..MaxFault
  BY DEF NoDifference, IInv, TypeOK
<1>4. to.seen <= version
  BY <1>1 DEF Version
<1> HIDE DEF to
<1> QED BY <1>1, <1>2, <1>3, <1>4, RequestKeeps

LEMMA ConflictStep ==
  ASSUME NEW r \in Request, IInv, Conflict(r)
  PROVE  IInv' /\ cache' = cache
  BY ConfigurationAssumption
     DEF Conflict, Goes, NoRequest, IInv, TypeOK, HeldInRange, OneReload, UpdateInRange, Version

LEMMA AnswerStep ==
  ASSUME NEW r \in Request, IInv, Answer(r)
  PROVE  IInv' /\ cache' = cache
  BY ConfigurationAssumption
     DEF Answer, Goes, NoRequest, IInv, TypeOK, HeldInRange, OneReload, UpdateInRange, Version

LEMMA RouteReadsStep ==
  ASSUME NEW r \in Request, IInv, RouteReads(r)
  PROVE  IInv' /\ cache' = cache
<1> DEFINE to == [request[r] EXCEPT !.step = "read", !.got = version]
<1>1. /\ to \in [step : {"idle", "seen", "reloading", "read", "served"},
                 seen : Version, got : Version]
      /\ to.step = "read" /\ to.got = version /\ to.seen = request[r].seen
  BY DEF IInv, TypeOK
<1>2. request' = [request EXCEPT ![r] = to]
  BY DEF RouteReads, Goes
<1>3. version' = version /\ cache' = cache /\ faults' \in 0..MaxFault
  BY DEF RouteReads, IInv, TypeOK
<1>4. /\ to.seen <= to.got /\ cache[Api].version <= to.got /\ to.got <= version
      /\ cache[Api].holds = {} /\ \A q \in Request : request[q].step # "read"
  BY <1>1, ConfigurationAssumption
     DEF RouteReads, MayRead, IInv, TypeOK, HeldInRange, UpdateInRange, Version
<1> HIDE DEF to
<1> QED BY <1>1, <1>2, <1>3, <1>4, RequestKeeps

\* The only request that has read installs: no other one holds a revision.
LEMMA RouteInstallsStep ==
  ASSUME NEW r \in Request, IInv, RouteInstalls(r)
  PROVE  IInv' /\ \A p \in Process : cache'[p].version >= cache[p].version
<1>1. /\ request[r].step = "read" /\ request[r].got \in Version
      /\ cache[Api].version <= request[r].got /\ request[r].got <= version
      /\ request[r].seen <= request[r].got /\ cache[Api].holds = {}
  BY DEF RouteInstalls, IInv, TypeOK, UpdateInRange, OneReload
<1>2. /\ cache' = [cache EXCEPT ![Api].version = request[r].got]
      /\ request' = [request EXCEPT ![r] = [request[r] EXCEPT !.step = "served", !.got = 1]]
      /\ version' = version /\ faults' = faults
  BY DEF RouteInstalls, Goes
<1>3. TypeOK'
  <2>1. 1 \in Version
    BY ConfigurationAssumption DEF Version
  <2>2. request' \in [Request -> [step : {"idle", "seen", "reloading", "read", "served"},
                                 seen : Version, got : Version]]
    BY <1>2, <2>1 DEF IInv, TypeOK
  <2>3. cache' \in [Process -> [version : Version, listening : BOOLEAN,
                               waiting : SUBSET Version, holds : SUBSET Version]]
    BY ZenonT(40), <1>1, <1>2 DEF IInv, TypeOK
  <2> QED BY <1>2, <2>2, <2>3 DEF IInv, TypeOK
<1>4. \A p \in Process : /\ cache'[p].holds = cache[p].holds
                         /\ cache'[p].version = IF p = Api THEN request[r].got
                                                ELSE cache[p].version
  BY <1>2, ConfigurationAssumption DEF IInv, TypeOK
<1>5. HeldInRange'
  BY <1>1, <1>2, <1>4 DEF IInv, HeldInRange
<1>6. OneReload'
  BY <1>2, <1>4, ConfigurationAssumption DEF IInv, TypeOK, OneReload
<1>7. UpdateInRange'
  <2>1. request'[r].step = "served" /\ request'[r].seen = request[r].seen
    BY <1>2 DEF IInv, TypeOK
  <2>2. \A q \in Request \ {r} : request'[q] = request[q] /\ request[q].step # "read"
    BY <1>1, <1>2 DEF IInv, TypeOK, OneReload
  <2>3. cache'[Api].version = request[r].got /\ version' = version
    BY <1>2, <1>4, ConfigurationAssumption
  <2>4. \A q \in Request \ {r} : request[q].seen \in Nat /\ cache[Api].version \in Nat
    BY ConfigurationAssumption DEF IInv, TypeOK, Version
  <2>5. \A q \in Request \ {r} :
          /\ request'[q].step = "seen" => request'[q].seen < MaxVersion
          /\ request'[q].step = "reloading" => request'[q].seen <= version
          /\ request'[q].step = "served" => request'[q].seen <= request[r].got
    BY <1>1, <2>2, <2>4 DEF IInv, UpdateInRange, Version
  <2> QED
    BY <1>1, <2>1, <2>2, <2>3, <2>5 DEF UpdateInRange
<1>8. \A p \in Process : cache'[p].version >= cache[p].version
  BY <1>1, <1>4, ConfigurationAssumption DEF IInv, TypeOK, Version
<1> QED
  BY <1>3, <1>5, <1>6, <1>7, <1>8 DEF IInv

LEMMA RouteFailsStep ==
  ASSUME NEW r \in Request, IInv, RouteFails(r)
  PROVE  IInv' /\ cache' = cache
  BY ConfigurationAssumption
     DEF RouteFails, Fault, Goes, NoRequest, IInv, TypeOK, HeldInRange, OneReload, UpdateInRange,
         Version

-----------------------------------------------------------------------------
(* Steps of a provider. *)

\* A step that changes neither what a provider serves nor what its reloads hold.
LEMMA KeepsServed ==
  ASSUME IInv, version' = version, request' = request, faults' \in 0..MaxFault,
         cache' \in [Process -> [version : Version, listening : BOOLEAN,
                                 waiting : SUBSET Version, holds : SUBSET Version]],
         \A p \in Process : /\ cache'[p].version = cache[p].version
                            /\ cache'[p].holds \subseteq cache[p].holds
  PROVE  IInv'
  BY ConfigurationAssumption DEF IInv, TypeOK, HeldInRange, OneReload, UpdateInRange

LEMMA WaitingStep ==
  ASSUME NEW p \in Process, NEW v \in Version, IInv,
         TimerFires(p) \/ Ignore(p, v) \/ RepairFails(p, v) \/ LoseListener(p)
  PROVE  IInv' /\ \A q \in Process : cache'[q].version = cache[q].version
<1>1. /\ version' = version /\ request' = request /\ faults' \in 0..MaxFault
      /\ cache' \in [Process -> [version : Version, listening : BOOLEAN,
                                 waiting : SUBSET Version, holds : SUBSET Version]]
      /\ \A q \in Process : /\ cache'[q].version = cache[q].version
                            /\ cache'[q].holds \subseteq cache[q].holds
  <2>1. CASE TimerFires(p) \/ Ignore(p, v)
    BY SMTT(30), <2>1 DEF TimerFires, Ignore, IInv, TypeOK
  <2>2. ASSUME Fault PROVE faults' \in 0..MaxFault
    BY <2>2, ConfigurationAssumption DEF Fault, IInv, TypeOK
  <2>3. CASE RepairFails(p, v)
    BY <2>2, <2>3 DEF RepairFails, IInv, TypeOK
  <2>4. CASE LoseListener(p)
    BY <2>2, <2>4 DEF LoseListener, IInv, TypeOK
  <2> QED BY <2>1, <2>3, <2>4
<1> QED BY <1>1, KeepsServed

LEMMA ReadStep ==
  ASSUME NEW p \in Process, NEW v \in Version, IInv, Read(p, v)
  PROVE  IInv' /\ \A q \in Process : cache'[q].version = cache[q].version
<1>1. /\ version' = version /\ request' = request /\ faults' = faults
      /\ cache[p].holds = {}
      /\ p = Api => \A r \in Request : request[r].step # "read"
  BY DEF Read, MayRead
<1>2. \A q \in Process : /\ cache'[q].version = cache[q].version
                         /\ cache'[q].holds = IF q = p THEN {version} ELSE cache[q].holds
  BY <1>1 DEF Read, IInv, TypeOK
<1>3. TypeOK'
  BY ZenonT(40), <1>1 DEF Read, IInv, TypeOK
<1>4. HeldInRange'
  BY <1>1, <1>2, ConfigurationAssumption DEF IInv, TypeOK, HeldInRange, Version
<1>5. OneReload'
  BY <1>1, <1>2, ConfigurationAssumption DEF IInv, OneReload
<1>6. UpdateInRange'
  BY <1>1, <1>2, ConfigurationAssumption DEF IInv, UpdateInRange
<1> QED BY <1>2, <1>3, <1>4, <1>5, <1>6 DEF IInv

\* The row that is installed is the only one held, and no route has read.
LEMMA InstallStep ==
  ASSUME NEW p \in Process, NEW v \in Version, IInv, Install(p, v)
  PROVE  IInv' /\ \A q \in Process : cache'[q].version >= cache[q].version
<1>1. /\ version' = version /\ request' = request /\ faults' = faults
      /\ v \in cache[p].holds /\ cache[p].version <= v /\ v <= version
      /\ cache[p].holds \ {v} = {}
      /\ p = Api => \A r \in Request : request[r].step # "read"
  BY DEF Install, IInv, HeldInRange, OneReload
<1>2. \A q \in Process : /\ cache'[q].version = IF q = p THEN v ELSE cache[q].version
                         /\ cache'[q].holds = IF q = p THEN {} ELSE cache[q].holds
  BY <1>1 DEF Install, IInv, TypeOK
<1>3. TypeOK'
  BY <1>1 DEF Install, IInv, TypeOK
<1>4. HeldInRange'
  BY <1>1, <1>2 DEF IInv, HeldInRange
<1>5. OneReload'
  BY <1>1, <1>2, ConfigurationAssumption DEF IInv, OneReload
<1>6. \A q \in Process : cache'[q].version >= cache[q].version
  BY <1>1, <1>2, ConfigurationAssumption DEF IInv, TypeOK, Version
<1>7. UpdateInRange'
  BY <1>1, <1>2, ConfigurationAssumption DEF IInv, TypeOK, UpdateInRange, Version
<1> QED BY <1>3, <1>4, <1>5, <1>6, <1>7 DEF IInv

\* A process that starts reads the current revision, no older than what it served.
LEMMA RestartStep ==
  ASSUME NEW p \in Process, IInv, Restart(p)
  PROVE  IInv' /\ \A q \in Process : cache'[q].version >= cache[q].version
<1>1. /\ version' = version /\ version \in Version /\ faults' \in 0..MaxFault
      /\ cache' = [cache EXCEPT ![p] = Started]
      /\ p = Api => request' = [r \in Request |-> NoRequest]
      /\ p # Api => request' = request
  BY ConfigurationAssumption DEF Restart, Fault, IInv, TypeOK
<1>2. \A q \in Process : /\ cache'[q].version = IF q = p THEN version ELSE cache[q].version
                         /\ cache'[q].holds = IF q = p THEN {} ELSE cache[q].holds
  BY <1>1 DEF Started, IInv, TypeOK
<1>3. TypeOK'
  BY <1>1, ConfigurationAssumption DEF Started, NoRequest, IInv, TypeOK, Version
<1>4. HeldInRange'
  BY <1>1, <1>2, ConfigurationAssumption DEF IInv, HeldInRange, Version
<1>5. OneReload'
  BY <1>1, <1>2, ConfigurationAssumption DEF NoRequest, IInv, OneReload
<1>6. UpdateInRange'
  BY <1>1, <1>2, ConfigurationAssumption DEF NoRequest, IInv, UpdateInRange
<1>7. \A q \in Process : cache'[q].version >= cache[q].version
  BY <1>1, <1>2, ConfigurationAssumption DEF IInv, TypeOK, HeldInRange, Version
<1> QED BY <1>3, <1>4, <1>5, <1>6, <1>7 DEF IInv

-----------------------------------------------------------------------------
(* The theorems. *)

\* Every step preserves the invariant, and no provider goes back.
LEMMA StepIInv ==
  ASSUME IInv, [Next]_vars
  PROVE  IInv' /\ \A p \in Process : cache'[p].version >= cache[p].version
<1> USE DEF IInv
<1>0. \A p \in Process : cache[p].version \in Nat
  BY ConfigurationAssumption DEF TypeOK, Version
<1>1. CASE UNCHANGED vars
  BY <1>0, <1>1, ConfigurationAssumption
     DEF vars, TypeOK, HeldInRange, OneReload, UpdateInRange
<1>2. ASSUME NEW r \in Request, RequestStep(r)
      PROVE  IInv' /\ \A p \in Process : cache'[p].version >= cache[p].version
  BY <1>0, <1>2, BeginStep, CommitStep, NoDifferenceStep, ConflictStep, AnswerStep, RouteReadsStep
     DEF RequestStep
<1>3. ASSUME NEW p \in Process, Runs(p)
      PROVE  IInv' /\ \A q \in Process : cache'[q].version >= cache[q].version
  <2>1. version \in Version
    BY DEF TypeOK
  <2> QED
    BY <1>0, <1>3, <2>1, WaitingStep, ReadStep, InstallStep, RouteInstallsStep DEF Runs
<1>4. ASSUME NEW p \in Process, Disturbed(p)
      PROVE  IInv' /\ \A q \in Process : cache'[q].version >= cache[q].version
  <2>1. version \in Version
    BY DEF TypeOK
  <2> QED
    BY <1>0, <1>4, <2>1, WaitingStep, RestartStep, RouteFailsStep DEF Disturbed
<1> QED BY <1>1, <1>2, <1>3, <1>4 DEF Next

\* The invariant holds of every behaviour.
THEOREM Invariant == Spec => []IInv
<1>1. IInv /\ [Next]_vars => IInv'
  BY StepIInv
<1> QED BY <1>1, InitIInv, PTL DEF Spec

\* Type correctness of the configuration: revisions, updates and providers stay in
\* their ranges.
THEOREM TypeCorrect == Spec => []TypeOK
<1>1. IInv => TypeOK
  BY DEF IInv
<1> QED BY <1>1, Invariant, PTL

\* A process never goes back to an older revision, whatever order its reloads,
\* hints and requests overlap in.
THEOREM NeverGoesBack == Spec => CacheNeverGoesBack
<1>1. IInv /\ [Next]_vars => [\A p \in Process : cache'[p].version >= cache[p].version]_vars
  BY StepIInv
<1> QED BY <1>1, Invariant, PTL DEF Spec, CacheNeverGoesBack

\* The answer to an update shows the revision it committed or a later one.
THEOREM UpdateServed == Spec => UpdateIsServed
<1>1. IInv => [\A r \in Request : Answer(r) => cache[Api].version >= request[r].seen]_vars
  BY ConfigurationAssumption DEF IInv, TypeOK, UpdateInRange, Answer, Version
<1> QED BY <1>1, Invariant, PTL DEF UpdateIsServed

-----------------------------------------------------------------------------
(* The address and the credential of an integration: Credentials. *)

\* What the users submit is an address, a credential or both.
PairBounds == MaxGen \in Nat /\ Candidate \subseteq Pairs!Pair

DbRow == [version : Version, url : Url \cup {Pairs!None}, gen : 0..MaxGen,
          secret : Secret \cup {Pairs!None}]
ClaimRow ==
  [step : {"idle", "tested", "locked", "ready", "committed", "fetched", "refreshed", "read"},
   kind : {"public", "reset", "integration", "clear"}, version : Version, gen : 0..MaxGen,
   url : Url \cup {Pairs!None}, secret : Secret \cup {Pairs!None}, pair : Pairs!Pair,
   locks : SUBSET {"pointer", "secret"}]

PairTypes ==
  /\ db \in DbRow /\ claim \in [Request -> ClaimRow]
  /\ secrets \in [Process -> 0..MaxGen] /\ envelope \in [Process -> 0..MaxGen]
  /\ client \in Pairs!Pair /\ tested \in SUBSET Pairs!Pair

\* A pair with an address and a credential, that was tested.
Backed(pair, seen) == Pairs!None \notin {pair[1], pair[2]} => pair \in seen

\* The client of the API, if there is one, goes by a tested pair.
Installed(pair, seen) == pair # Pairs!NoPair => pair \in seen

\* The tables: a credential has a generation.
TablesBacked(d, seen) ==
  Backed(<<d.url, d.secret>>, seen) /\ (d.gen = 0 => d.secret = Pairs!None)

\* What a request submitted, completed with what d stores.
Completed(c, d) ==
  <<IF c.url = Pairs!None THEN d.url ELSE c.url,
    IF c.secret = Pairs!None THEN d.secret ELSE c.secret>>

\* A request that is not committed yet: as long as the tables have the version and the
\* generation it has seen, they complete it to the pair it tested.
Undecided(c, d, seen) ==
  c.step \in {"tested", "locked", "ready"} =>
    /\ c.version <= d.version /\ c.gen <= d.gen
    /\ c.kind # "clear" => c.version < MaxVersion
    /\ c.kind = "integration" =>
         /\ c.gen < MaxGen /\ (c.gen = 0 => c.secret # Pairs!None)
         /\ c.version = d.version /\ c.gen = d.gen => Completed(c, d) \in seen
    /\ c.kind # "integration" => c.url = Pairs!None /\ c.secret = Pairs!None
    /\ c.kind = "clear" => c.gen < MaxGen /\ c.step # "tested"
    /\ c.kind \in {"public", "reset"} => c.step # "locked"

\* The locks it holds keep the version and the generation.
Holding(c, d) ==
  /\ c.step \notin {"locked", "ready"} => c.locks = {}
  /\ c.step \in {"locked", "ready"} /\ c.kind # "clear" => "pointer" \in c.locks
  /\ "pointer" \in c.locks => c.version = d.version
  /\ c.step = "ready" /\ c.kind \in {"integration", "clear"} /\ c.gen # 0 =>
       "secret" \in c.locks
  /\ "secret" \in c.locks => c.gen = d.gen /\ c.gen # 0

Honest(c, d, seen) ==
  Undecided(c, d, seen) /\ Holding(c, d) /\ (c.step = "read" => Backed(c.pair, seen))

PairInv ==
  /\ PairTypes
  /\ TablesBacked(db, tested) /\ Installed(client, tested)
  /\ \A r \in Request : Honest(claim[r], db, tested)
  /\ \A r, q \in Request : r # q => claim[r].locks \cap claim[q].locks = {}

LEMMA PairInvInit ==
  ASSUME PairBounds, Pairs!Init PROVE PairInv
  <1> USE DEF Pairs!Init
  <1>1. 1 \in Version /\ 0 \in 0..MaxGen
    BY ConfigurationAssumption DEF Version, PairBounds
  <1>2. Pairs!NoPair \in Pairs!Pair
    BY DEF Pairs!NoPair, Pairs!Pair
  <1>3. Pairs!NoClaim \in ClaimRow /\ db \in DbRow
    BY <1>1, <1>2 DEF ClaimRow, Pairs!NoClaim, DbRow
  <1>4. PairTypes
    BY <1>1, <1>2, <1>3 DEF PairTypes
  <1>5. TablesBacked(db, tested) /\ Installed(client, tested)
    BY DEF TablesBacked, Backed, Installed, Pairs!NoPair
  <1>6. /\ Pairs!NoClaim.step = "idle" /\ Pairs!NoClaim.locks = {}
    BY DEF Pairs!NoClaim
  <1>7. Honest(Pairs!NoClaim, db, tested)
    BY <1>6 DEF Honest, Undecided, Holding
  <1>8. \A r \in Request : claim[r] = Pairs!NoClaim
    OBVIOUS
  <1> QED
    BY <1>4, <1>5, <1>6, <1>7, <1>8 DEF PairInv

\* A step of one request before or after its commit.
LEMMA RequestHonest ==
  ASSUME PairInv, NEW r \in Request, NEW to \in ClaimRow,
         db' = db, claim' = [claim EXCEPT ![r] = to],
         tested' \in SUBSET Pairs!Pair, tested \subseteq tested',
         secrets' \in [Process -> 0..MaxGen], envelope' = envelope,
         client' \in Pairs!Pair, Installed(client', tested'),
         Honest(to, db, tested'),
         \A q \in Request \ {r} : to.locks \cap claim[q].locks = {}
  PROVE  PairInv'
  <1>1. \A q \in Request : claim'[q] = IF q = r THEN to ELSE claim[q]
    BY DEF PairInv, PairTypes
  <1>2. PairTypes'
    BY DEF PairInv, PairTypes
  <1>3. TablesBacked(db', tested')
    BY DEF PairInv, TablesBacked, Backed
  <1>4. ASSUME NEW q \in Request PROVE Honest(claim'[q], db', tested')
    <2>1. CASE q = r
      BY <1>1, <2>1
    <2>2. CASE q # r
      <3>1. Honest(claim[q], db, tested)
        BY DEF PairInv
      <3>2. Honest(claim[q], db, tested')
        BY <3>1 DEF Honest, Undecided, Holding, Backed
      <3> QED
        BY <1>1, <2>2, <3>2
    <2> QED
      BY <2>1, <2>2
  <1>5. ASSUME NEW p \in Request, NEW q \in Request, p # q
        PROVE  claim'[p].locks \cap claim'[q].locks = {}
    BY <1>1, <1>5 DEF PairInv
  <1> QED
    BY <1>2, <1>3, <1>4, <1>5 DEF PairInv

\* A step that leaves every request alone and the tables as they are.
LEMMA ProcessHonest ==
  ASSUME PairInv, db' = db, claim' = claim, tested' = tested, client' = client,
         secrets' \in [Process -> 0..MaxGen], envelope' \in [Process -> 0..MaxGen]
  PROVE  PairInv'
  BY DEF PairInv, PairTypes

LEMMA BlankClaim ==
  ASSUME PairBounds, NEW d \in DbRow, NEW seen
  PROVE  /\ Pairs!NoClaim \in ClaimRow /\ Honest(Pairs!NoClaim, d, seen)
         /\ Pairs!NoClaim.locks = {}
         /\ Pairs!NoClaim.url = Pairs!None /\ Pairs!NoClaim.secret = Pairs!None
         /\ Pairs!NoPair \in Pairs!Pair
  <1>1. 1 \in Version /\ 0 \in 0..MaxGen
    BY ConfigurationAssumption DEF Version, PairBounds
  <1>2. Pairs!NoPair \in Pairs!Pair
    BY DEF Pairs!NoPair, Pairs!Pair
  <1>3. Pairs!NoClaim \in ClaimRow
    BY <1>1, <1>2 DEF ClaimRow, Pairs!NoClaim
  <1>6. /\ Pairs!NoClaim.step = "idle" /\ Pairs!NoClaim.locks = {}
        /\ Pairs!NoClaim.url = Pairs!None /\ Pairs!NoClaim.secret = Pairs!None
    BY DEF Pairs!NoClaim
  <1>7. Honest(Pairs!NoClaim, d, seen)
    BY <1>6 DEF Honest, Undecided, Holding
  <1> QED
    BY <1>2, <1>3, <1>6, <1>7

\* What a request writes when it commits.
LEMMA WrittenRow ==
  ASSUME PairBounds, NEW d \in DbRow, NEW c \in ClaimRow, NEW seen, d = db,
         TablesBacked(d, seen), Honest(c, d, seen), c.step = "ready",
         NEW r, claim[r] = c, ~Pairs!Collides(r)
  PROVE  LET e == Pairs!Written(r)
         IN  /\ e \in DbRow /\ TablesBacked(e, seen)
             /\ e.version >= d.version /\ e.gen >= d.gen
             /\ e.version = d.version => e.url = d.url
             /\ e.gen = d.gen => e.secret = d.secret
             /\ e.version # d.version => "pointer" \in c.locks
             /\ e.gen # d.gen => "secret" \in c.locks \/ d.gen = 0
  <1>1. /\ d.version \in Version /\ d.gen \in 0..MaxGen /\ c.version \in Version
        /\ c.gen \in 0..MaxGen /\ MaxGen \in Nat /\ MaxVersion \in Nat
        /\ d.url \in Url \cup {Pairs!None} /\ d.secret \in Secret \cup {Pairs!None}
        /\ c.url \in Url \cup {Pairs!None} /\ c.secret \in Secret \cup {Pairs!None}
        /\ c.kind \in {"public", "reset", "integration", "clear"}
    BY ConfigurationAssumption DEF DbRow, ClaimRow, PairBounds
  <1>2. /\ d.version \in Nat /\ d.gen \in Nat /\ c.version \in Nat /\ c.gen \in Nat
    BY <1>1 DEF Version
  <1>3. PICK url : url = CASE c.kind = "reset" -> Pairs!None
                           [] c.url # Pairs!None -> c.url
                           [] OTHER -> d.url
    OBVIOUS
  <1>4. PICK secret : secret = CASE c.kind = "clear" -> Pairs!None
                                 [] c.secret # Pairs!None -> c.secret
                                 [] OTHER -> d.secret
    OBVIOUS
  <1>5. PICK writes : writes = (c.kind = "clear" \/ c.secret # Pairs!None)
    OBVIOUS
  <1>6. PICK moves : moves = (c.kind = "public" \/ url # d.url)
    OBVIOUS
  <1>7. PICK e : e = [version |-> IF moves THEN d.version + 1 ELSE d.version,
                      url |-> url,
                      gen |-> IF writes THEN d.gen + 1 ELSE d.gen,
                      secret |-> secret]
    OBVIOUS
  <1>8. e = Pairs!Written(r)
    BY <1>3, <1>4, <1>5, <1>6, <1>7 DEF Pairs!Written, Pairs!WritesSecret
  <1>9. /\ e.version = (IF moves THEN d.version + 1 ELSE d.version) /\ e.url = url
        /\ e.gen = (IF writes THEN d.gen + 1 ELSE d.gen) /\ e.secret = secret
    BY <1>7
  <1>10. writes => c.gen = d.gen
    <2>1. writes => c.gen # 0 \/ d.gen = 0
      BY <1>5 DEF Pairs!Collides, Pairs!WritesSecret
    <2>2. writes => c.kind \in {"integration", "clear"}
      BY <1>1, <1>5 DEF Honest, Undecided
    <2>3. c.kind \in {"integration", "clear"} /\ c.gen # 0 => c.gen = d.gen
      BY DEF Honest, Holding
    <2>4. d.gen = 0 => c.gen = 0
      BY <1>2 DEF Honest, Undecided
    <2> QED
      BY <2>1, <2>2, <2>3, <2>4
  <1>11. writes => d.gen < MaxGen
    <2>1. writes => c.kind \in {"integration", "clear"}
      BY <1>1, <1>5 DEF Honest, Undecided
    <2> QED
      BY <2>1, <1>10 DEF Honest, Undecided
  <1>12. moves => c.kind # "clear"
    <2>1. c.kind = "clear" => url = d.url
      BY <1>3 DEF Honest, Undecided
    <2> QED
      BY <2>1, <1>6
  <1>13. c.kind # "clear" => c.version = d.version /\ d.version < MaxVersion /\ "pointer" \in c.locks
    BY DEF Honest, Undecided, Holding
  <1>14. e \in DbRow
    <2>1. d.version < MaxVersion => d.version + 1 \in Version
      BY <1>1, <1>2 DEF Version
    <2>2. d.gen < MaxGen => d.gen + 1 \in 0..MaxGen
      BY <1>1, <1>2
    <2>3. e.version \in Version
      BY <1>1, <1>9, <1>12, <1>13, <2>1
    <2>4. e.gen \in 0..MaxGen
      BY <1>1, <1>9, <1>11, <2>2
    <2>5. url \in Url \cup {Pairs!None} /\ secret \in Secret \cup {Pairs!None}
      BY <1>1, <1>3, <1>4
    <2> QED
      BY <1>7, <1>9, <2>3, <2>4, <2>5 DEF DbRow
  <1>15. e.version >= d.version /\ e.gen >= d.gen
    BY <1>2, <1>9
  <1>16. e.version = d.version => e.url = d.url
    <2>1. ~moves => url = d.url
      BY <1>6
    <2>2. moves => e.version # d.version
      BY <1>2, <1>9
    <2> QED
      BY <2>1, <2>2, <1>9
  <1>17. e.gen = d.gen => e.secret = d.secret
    <2>1. ~writes => secret = d.secret
      BY <1>4, <1>5
    <2>2. writes => e.gen # d.gen
      BY <1>2, <1>9
    <2> QED
      BY <2>1, <2>2, <1>9
  <1>18. e.version # d.version => "pointer" \in c.locks
    BY <1>9, <1>12, <1>13
  <1>19. e.gen # d.gen => "secret" \in c.locks \/ d.gen = 0
    <2>1. writes => c.kind \in {"integration", "clear"}
      BY <1>1, <1>5 DEF Honest, Undecided
    <2>2. writes /\ c.gen # 0 => "secret" \in c.locks
      BY <2>1 DEF Honest, Holding
    <2> QED
      BY <2>2, <1>9, <1>10
  <1>20. TablesBacked(e, seen)
    <2>1. e.gen = 0 => e.secret = Pairs!None
      <3>1. e.gen = 0 => d.gen = 0 /\ ~writes
        BY <1>2, <1>9
      <3>2. ~writes => secret = d.secret
        BY <1>4, <1>5
      <3> QED
        BY <3>1, <3>2, <1>9 DEF TablesBacked
    <2>2. Backed(<<url, secret>>, seen)
      <3>1. CASE c.kind = "integration"
        <4>1. c.gen = d.gen
          <5>1. CASE writes
            BY <5>1, <1>10
          <5>2. CASE ~writes
            <6>1. c.secret = Pairs!None
              BY <5>2, <1>5
            <6>2. c.gen # 0
              BY <3>1, <6>1 DEF Honest, Undecided
            <6> QED
              BY <3>1, <6>2 DEF Honest, Holding
          <5> QED
            BY <5>1, <5>2
        <4>2. Completed(c, d) \in seen
          BY <3>1, <4>1, <1>13 DEF Honest, Undecided
        <4>3. Completed(c, d) = <<url, secret>>
          BY <3>1, <1>3, <1>4 DEF Completed
        <4> QED
          BY <4>2, <4>3 DEF Backed
      <3>2. CASE c.kind = "reset"
        <4>1. url = Pairs!None /\ <<url, secret>>[1] = url
          BY <3>2, <1>3 DEF Honest, Undecided
        <4> QED
          BY <4>1 DEF Backed
      <3>3. CASE c.kind = "clear"
        <4>1. secret = Pairs!None /\ <<url, secret>>[2] = secret
          BY <3>3, <1>4 DEF Honest, Undecided
        <4> QED
          BY <4>1 DEF Backed
      <3>4. CASE c.kind = "public"
        <4>1. c.url = Pairs!None /\ c.secret = Pairs!None
          BY <3>4 DEF Honest, Undecided
        <4>2. url = d.url /\ secret = d.secret
          BY <3>4, <4>1, <1>3, <1>4
        <4> QED
          BY <4>2 DEF TablesBacked
      <3> QED
        BY <3>1, <3>2, <3>3, <3>4, <1>1
    <2> QED
      BY <2>1, <2>2, <1>9 DEF TablesBacked
  <1> QED
    BY <1>8, <1>14, <1>15, <1>16, <1>17, <1>18, <1>19, <1>20

\* What a request knows survives a change of the tables that its locks permit.
LEMMA OthersStayHonest ==
  ASSUME PairBounds, NEW d \in DbRow, NEW e \in DbRow, NEW c \in ClaimRow, NEW seen,
         Honest(c, d, seen), e.version >= d.version, e.gen >= d.gen,
         e.version = d.version => e.url = d.url,
         e.gen = d.gen => e.secret = d.secret,
         e.version # d.version => "pointer" \notin c.locks,
         e.gen # d.gen => "secret" \notin c.locks
  PROVE  Honest(c, e, seen)
  <1>1. /\ d.version \in Nat /\ d.gen \in Nat /\ c.version \in Nat /\ c.gen \in Nat
        /\ e.version \in Nat /\ e.gen \in Nat
    BY ConfigurationAssumption DEF DbRow, ClaimRow, PairBounds, Version
  <1>2. Holding(c, e)
    BY DEF Honest, Holding
  <1>3. Undecided(c, e, seen)
    <2> SUFFICES ASSUME c.step \in {"tested", "locked", "ready"} PROVE Undecided(c, e, seen)
      BY DEF Undecided
    <2>1. c.version <= e.version /\ c.gen <= e.gen
      BY <1>1 DEF Honest, Undecided
    <2>2. ASSUME c.kind = "integration", c.version = e.version, c.gen = e.gen
          PROVE  Completed(c, e) \in seen
      <3>1. c.version = d.version /\ c.gen = d.gen
        BY <2>2, <1>1 DEF Honest, Undecided
      <3>2. Completed(c, e) = Completed(c, d)
        BY <2>2, <3>1 DEF Completed
      <3> QED
        BY <3>1, <3>2, <2>2 DEF Honest, Undecided
    <2> QED
      BY <2>1, <2>2 DEF Honest, Undecided
  <1> QED
    BY <1>2, <1>3 DEF Honest

LEMMA PairFacts ==
  ASSUME PairInv, NEW r \in Request
  PROVE  /\ claim[r] \in ClaimRow /\ Honest(claim[r], db, tested) /\ db \in DbRow
         /\ tested \in SUBSET Pairs!Pair /\ client \in Pairs!Pair
         /\ secrets \in [Process -> 0..MaxGen] /\ envelope \in [Process -> 0..MaxGen]
         /\ TablesBacked(db, tested) /\ Installed(client, tested)
  BY DEF PairInv, PairTypes

LEMMA BeginPublicHonest ==
  ASSUME PairBounds, PairInv, NEW r \in Request, NEW kind \in {"public", "reset"},
         Pairs!BeginPublic(r, kind)
  PROVE  PairInv'
  <1>1. PICK to : to = Pairs!Seen(kind, "tested")
    OBVIOUS
  <1>2. /\ claim' = [claim EXCEPT ![r] = to] /\ db.version < MaxVersion
        /\ db' = db /\ secrets' = secrets /\ client' = client /\ envelope' = envelope
        /\ tested' = tested
    BY <1>1 DEF Pairs!BeginPublic, Pairs!Goes
  <1>3. /\ Pairs!NoClaim \in ClaimRow /\ Pairs!NoClaim.locks = {}
        /\ Pairs!NoClaim.url = Pairs!None /\ Pairs!NoClaim.secret = Pairs!None
    BY PairFacts, BlankClaim
  <1>4. db.version \in Version /\ db.gen \in 0..MaxGen
    BY PairFacts DEF DbRow
  <1>5. /\ to \in ClaimRow /\ to.kind = kind /\ to.step = "tested" /\ to.version = db.version
        /\ to.gen = db.gen /\ to.locks = {} /\ to.url = Pairs!None /\ to.secret = Pairs!None
    BY <1>1, <1>3, <1>4 DEF Pairs!Seen, ClaimRow
  <1>6. db.version \in Nat /\ db.gen \in Nat
    BY <1>4, ConfigurationAssumption DEF PairBounds, Version
  <1>7. Honest(to, db, tested)
    BY <1>2, <1>5, <1>6 DEF Honest, Undecided, Holding
  <1> QED
    BY <1>2, <1>5, <1>7, PairFacts, RequestHonest

LEMMA BeginIntegrationHonest ==
  ASSUME PairBounds, PairInv, NEW r \in Request, NEW c \in Candidate,
         Pairs!BeginIntegration(r, c[1], c[2])
  PROVE  PairInv'
  <1>1. PICK seen : seen = Pairs!Seen("integration", "tested")
    OBVIOUS
  <1>2. PICK to : to = [seen EXCEPT !.url = c[1], !.secret = c[2]]
    OBVIOUS
  <1>3. PICK pair : pair = Pairs!Tested(c[1], c[2])
    OBVIOUS
  <1>4. /\ claim' = [claim EXCEPT ![r] = to] /\ db.version < MaxVersion /\ db.gen < MaxGen
        /\ Pairs!None \notin {pair[1], pair[2]}
        /\ db' = db /\ secrets' = secrets /\ client' = client /\ envelope' = envelope
        /\ tested' = tested \cup {pair}
    BY <1>1, <1>2, <1>3 DEF Pairs!BeginIntegration, Pairs!Goes
  <1>5. Pairs!NoClaim \in ClaimRow /\ Pairs!NoClaim.locks = {}
    BY PairFacts, BlankClaim
  <1>6. /\ db.version \in Version /\ db.gen \in 0..MaxGen
        /\ db.url \in Url \cup {Pairs!None} /\ db.secret \in Secret \cup {Pairs!None}
    BY PairFacts DEF DbRow
  <1>7. c[1] \in Url \cup {Pairs!None} /\ c[2] \in Secret \cup {Pairs!None}
    BY DEF PairBounds, Pairs!Pair
  <1>8. /\ seen \in ClaimRow /\ seen.kind = "integration" /\ seen.step = "tested"
        /\ seen.version = db.version /\ seen.gen = db.gen /\ seen.locks = {}
    BY <1>1, <1>5, <1>6 DEF Pairs!Seen, ClaimRow
  <1>9. /\ to \in ClaimRow /\ to.kind = "integration" /\ to.step = "tested"
        /\ to.version = db.version /\ to.gen = db.gen /\ to.locks = {}
        /\ to.url = c[1] /\ to.secret = c[2]
    BY <1>2, <1>7, <1>8 DEF ClaimRow
  <1>10. pair = Completed(to, db) /\ pair \in Pairs!Pair
    BY <1>3, <1>6, <1>7, <1>9 DEF Completed, Pairs!Tested, Pairs!Pair
  <1>11. db.version \in Nat /\ db.gen \in Nat
    BY <1>6, ConfigurationAssumption DEF PairBounds, Version
  <1>12. to.gen = 0 => to.secret # Pairs!None
    <2>1. to.gen = 0 => db.secret = Pairs!None
      BY <1>9, PairFacts DEF TablesBacked
    <2>2. to.secret = Pairs!None => pair[2] = db.secret
      BY <1>10 DEF Completed
    <2> QED
      BY <2>1, <2>2, <1>4
  <1>13. Honest(to, db, tested')
    <2>1. Completed(to, db) \in tested'
      BY <1>4, <1>10
    <2> QED
      BY <2>1, <1>4, <1>9, <1>11, <1>12 DEF Honest, Undecided, Holding
  <1>14. tested' \in SUBSET Pairs!Pair /\ tested \subseteq tested' /\ Installed(client, tested')
    BY <1>4, <1>10, PairFacts DEF Installed
  <1> QED
    BY <1>4, <1>9, <1>13, <1>14, PairFacts, RequestHonest

LEMMA BeginClearHonest ==
  ASSUME PairBounds, PairInv, NEW r \in Request, Pairs!BeginClear(r)
  PROVE  PairInv'
  <1>1. PICK to : to = Pairs!Seen("clear", "locked")
    OBVIOUS
  <1>2. /\ claim' = [claim EXCEPT ![r] = to] /\ db.gen < MaxGen
        /\ db' = db /\ secrets' = secrets /\ client' = client /\ envelope' = envelope
        /\ tested' = tested
    BY <1>1 DEF Pairs!BeginClear, Pairs!Goes
  <1>3. /\ Pairs!NoClaim \in ClaimRow /\ Pairs!NoClaim.locks = {}
        /\ Pairs!NoClaim.url = Pairs!None /\ Pairs!NoClaim.secret = Pairs!None
    BY PairFacts, BlankClaim
  <1>4. db.version \in Version /\ db.gen \in 0..MaxGen
    BY PairFacts DEF DbRow
  <1>5. /\ to \in ClaimRow /\ to.kind = "clear" /\ to.step = "locked" /\ to.version = db.version
        /\ to.gen = db.gen /\ to.locks = {} /\ to.url = Pairs!None /\ to.secret = Pairs!None
    BY <1>1, <1>3, <1>4 DEF Pairs!Seen, ClaimRow
  <1>6. db.version \in Nat /\ db.gen \in Nat
    BY <1>4, ConfigurationAssumption DEF PairBounds, Version
  <1>7. Honest(to, db, tested)
    BY <1>2, <1>5, <1>6 DEF Honest, Undecided, Holding
  <1> QED
    BY <1>2, <1>5, <1>7, PairFacts, RequestHonest

\* A request that is refused, or is done, forgets what it knew.
LEMMA RefusedHonest ==
  ASSUME PairBounds, PairInv, NEW r \in Request, Pairs!Refused(r),
         db' = db, tested' = tested, secrets' = secrets, envelope' = envelope,
         client' \in Pairs!Pair, Installed(client', tested)
  PROVE  PairInv'
  <1>1. claim' = [claim EXCEPT ![r] = Pairs!NoClaim]
    BY DEF Pairs!Refused, Pairs!Goes
  <1>2. /\ Pairs!NoClaim \in ClaimRow /\ Pairs!NoClaim.locks = {}
        /\ Honest(Pairs!NoClaim, db, tested)
    BY PairFacts, BlankClaim
  <1> QED
    BY <1>1, <1>2, PairFacts, RequestHonest

LEMMA LockPointerHonest ==
  ASSUME PairBounds, PairInv, NEW r \in Request, Pairs!LockPointer(r)
  PROVE  PairInv'
  <1>1. /\ claim[r].step = "tested" /\ Pairs!IsFree(r, "pointer")
        /\ db' = db /\ secrets' = secrets /\ client' = client /\ envelope' = envelope
        /\ tested' = tested
    BY DEF Pairs!LockPointer
  <1>2. CASE db.version # claim[r].version
    BY <1>1, <1>2, PairFacts, RefusedHonest DEF Pairs!LockPointer
  <1>3. CASE db.version = claim[r].version
    <2>1. PICK to : to = [claim[r] EXCEPT !.locks = {"pointer"},
                            !.step = IF claim[r].kind = "integration" THEN "locked" ELSE "ready"]
      OBVIOUS
    <2>2. claim' = [claim EXCEPT ![r] = to]
      BY <1>3, <2>1 DEF Pairs!LockPointer, Pairs!Goes
    <2>3. claim[r] \in ClaimRow /\ Honest(claim[r], db, tested)
      BY PairFacts
    <2>4. /\ to \in ClaimRow /\ to.locks = {"pointer"}
          /\ to.step = (IF claim[r].kind = "integration" THEN "locked" ELSE "ready")
          /\ to.kind = claim[r].kind /\ to.version = claim[r].version /\ to.gen = claim[r].gen
          /\ to.url = claim[r].url /\ to.secret = claim[r].secret
      BY <2>1, <2>3 DEF ClaimRow
    <2>5. Completed(to, db) = Completed(claim[r], db)
      BY <2>4 DEF Completed
    <2>6. claim[r].kind # "clear"
      BY <1>1, <2>3 DEF Honest, Undecided
    <2>7. Undecided(to, db, tested)
      BY <1>1, <2>3, <2>4, <2>5, <2>6 DEF Honest, Undecided
    <2>8. Holding(to, db)
      BY <1>3, <2>4, <2>6 DEF Holding
    <2>9. \A q \in Request \ {r} : to.locks \cap claim[q].locks = {}
      BY <1>1, <2>4 DEF Pairs!IsFree
    <2>10. Honest(to, db, tested)
      BY <2>4, <2>7, <2>8 DEF Honest
    <2> QED
      BY <1>1, <2>2, <2>4, <2>9, <2>10, PairFacts, RequestHonest
  <1> QED
    BY <1>2, <1>3

LEMMA LockSecretHonest ==
  ASSUME PairBounds, PairInv, NEW r \in Request, Pairs!LockSecret(r)
  PROVE  PairInv'
  <1>1. /\ claim[r].step = "locked" /\ Pairs!IsFree(r, "secret")
        /\ db' = db /\ secrets' = secrets /\ client' = client /\ envelope' = envelope
        /\ tested' = tested
    BY DEF Pairs!LockSecret
  <1>2. CASE db.gen # claim[r].gen
    BY <1>1, <1>2, PairFacts, RefusedHonest DEF Pairs!LockSecret
  <1>3. CASE db.gen = claim[r].gen
    <2>1. PICK more : more = IF db.gen = 0 THEN {} ELSE {"secret"}
      OBVIOUS
    <2>2. PICK to : to = [claim[r] EXCEPT !.step = "ready", !.locks = @ \cup more]
      OBVIOUS
    <2>3. claim' = [claim EXCEPT ![r] = to]
      BY <1>3, <2>1, <2>2 DEF Pairs!LockSecret, Pairs!Goes
    <2>4. claim[r] \in ClaimRow /\ Honest(claim[r], db, tested)
      BY PairFacts
    <2>5. /\ to \in ClaimRow /\ to.locks = claim[r].locks \cup more /\ to.step = "ready"
          /\ to.kind = claim[r].kind /\ to.version = claim[r].version /\ to.gen = claim[r].gen
          /\ to.url = claim[r].url /\ to.secret = claim[r].secret
      BY <2>1, <2>2, <2>4 DEF ClaimRow
    <2>6. Completed(to, db) = Completed(claim[r], db)
      BY <2>5 DEF Completed
    <2>7. Undecided(to, db, tested)
      BY <1>1, <2>4, <2>5, <2>6 DEF Honest, Undecided
    <2>8. Holding(to, db)
      BY <1>1, <1>3, <2>1, <2>4, <2>5 DEF Honest, Holding
    <2>9. \A q \in Request \ {r} : to.locks \cap claim[q].locks = {}
      <3>1. \A q \in Request \ {r} : claim[r].locks \cap claim[q].locks = {}
        BY DEF PairInv
      <3>2. \A q \in Request \ {r} : more \cap claim[q].locks = {}
        BY <1>1, <2>1 DEF Pairs!IsFree
      <3> QED
        BY <2>5, <3>1, <3>2
    <2>10. Honest(to, db, tested)
      BY <2>5, <2>7, <2>8 DEF Honest
    <2> QED
      BY <1>1, <2>3, <2>5, <2>9, <2>10, PairFacts, RequestHonest
  <1> QED
    BY <1>2, <1>3

\* A change of the tables, and of the requests only where one is over or committed.
LEMMA TablesMove ==
  ASSUME PairBounds, PairInv, NEW e \in DbRow, db' = e, TablesBacked(e, tested),
         e.version >= db.version, e.gen >= db.gen,
         e.version = db.version => e.url = db.url,
         e.gen = db.gen => e.secret = db.secret,
         claim' \in [Request -> ClaimRow],
         \A q \in Request :
           \/ Honest(claim'[q], e, tested) /\ claim'[q].locks = {}
           \/ /\ claim'[q] = claim[q]
              /\ e.version # db.version => "pointer" \notin claim[q].locks
              /\ e.gen # db.gen => "secret" \notin claim[q].locks,
         secrets' = secrets, client' = client, envelope' = envelope, tested' = tested
  PROVE  PairInv'
  <1>1. PairTypes'
    BY DEF PairInv, PairTypes
  <1>2. TablesBacked(db', tested') /\ Installed(client', tested')
    BY DEF PairInv
  <1>3. ASSUME NEW q \in Request PROVE Honest(claim'[q], db', tested')
    <2>1. CASE claim'[q] = claim[q] /\ (e.version # db.version => "pointer" \notin claim[q].locks)
               /\ (e.gen # db.gen => "secret" \notin claim[q].locks)
      <3>1. Honest(claim[q], e, tested)
        BY <2>1, PairFacts, OthersStayHonest
      <3> QED
        BY <2>1, <3>1
    <2>2. CASE Honest(claim'[q], e, tested)
      BY <2>2
    <2> QED
      BY <2>1, <2>2
  <1>4. ASSUME NEW p \in Request, NEW q \in Request, p # q
        PROVE  claim'[p].locks \cap claim'[q].locks = {}
    <2>1. claim'[p].locks \in {{}, claim[p].locks} /\ claim'[q].locks \in {{}, claim[q].locks}
      OBVIOUS
    <2>2. claim[p].locks \cap claim[q].locks = {}
      BY <1>4 DEF PairInv
    <2> QED
      BY <2>1, <2>2
  <1> QED
    BY <1>1, <1>2, <1>3, <1>4 DEF PairInv

LEMMA CommitHonest ==
  ASSUME PairBounds, PairInv, NEW r \in Request, Pairs!Commit(r)
  PROVE  PairInv'
  <1>1. PICK e : e = Pairs!Written(r)
    OBVIOUS
  <1>2. PICK to : to = IF claim[r].kind \in {"public", "reset"} THEN Pairs!NoClaim
                       ELSE [Pairs!NoClaim EXCEPT !.step = "committed", !.kind = claim[r].kind,
                                                  !.url = e.url]
    OBVIOUS
  <1>3. /\ claim[r].step = "ready" /\ ~Pairs!Collides(r) /\ db' = e
        /\ claim' = [claim EXCEPT ![r] = to]
        /\ secrets' = secrets /\ client' = client /\ envelope' = envelope /\ tested' = tested
    BY <1>1, <1>2 DEF Pairs!Commit, Pairs!Goes
  <1>4. PICK c \in ClaimRow : c = claim[r]
    BY PairFacts
  <1>5. /\ e \in DbRow /\ TablesBacked(e, tested)
        /\ e.version >= db.version /\ e.gen >= db.gen
        /\ e.version = db.version => e.url = db.url
        /\ e.gen = db.gen => e.secret = db.secret
        /\ e.version # db.version => "pointer" \in c.locks
        /\ e.gen # db.gen => "secret" \in c.locks \/ db.gen = 0
    BY <1>1, <1>3, <1>4, PairFacts, WrittenRow
  <1>6. /\ Pairs!NoClaim \in ClaimRow /\ Pairs!NoClaim.locks = {}
        /\ Honest(Pairs!NoClaim, e, tested)
    BY <1>5, BlankClaim
  <1>7. to \in ClaimRow /\ to.locks = {} /\ Honest(to, e, tested)
    <2>1. CASE claim[r].kind \in {"public", "reset"}
      BY <2>1, <1>2, <1>6
    <2>2. CASE claim[r].kind \notin {"public", "reset"}
      <3>1. to = [Pairs!NoClaim EXCEPT !.step = "committed", !.kind = c.kind, !.url = e.url]
        BY <2>2, <1>2, <1>4
      <3>2. e.url \in Url \cup {Pairs!None} /\ c.kind \in {"public", "reset", "integration", "clear"}
        BY <1>4, <1>5 DEF DbRow, ClaimRow
      <3>3. to \in ClaimRow /\ to.locks = {} /\ to.step = "committed"
        BY <3>1, <3>2, <1>6 DEF ClaimRow
      <3> QED
        BY <3>3 DEF Honest, Undecided, Holding
    <2> QED
      BY <2>1, <2>2
  <1>8. \A q \in Request : claim'[q] = IF q = r THEN to ELSE claim[q]
    BY <1>3 DEF PairInv, PairTypes
  <1>9. claim' \in [Request -> ClaimRow]
    BY <1>3, <1>7 DEF PairInv, PairTypes
  <1>10. ASSUME NEW q \in Request, q # r
         PROVE  /\ e.version # db.version => "pointer" \notin claim[q].locks
                /\ e.gen # db.gen => "secret" \notin claim[q].locks
    <2>1. c.locks \cap claim[q].locks = {}
      BY <1>4, <1>10 DEF PairInv
    <2>2. db.gen = 0 => "secret" \notin claim[q].locks
      BY PairFacts DEF Honest, Holding
    <2> QED
      BY <2>1, <2>2, <1>5
  <1> QED
    BY <1>3, <1>5, <1>7, <1>8, <1>9, <1>10, TablesMove

LEMMA RotateHonest ==
  ASSUME PairBounds, PairInv, Pairs!Rotate
  PROVE  PairInv'
  <1>1. db \in DbRow /\ claim \in [Request -> ClaimRow] /\ TablesBacked(db, tested)
    BY DEF PairInv, PairTypes
  <1>2. PICK e : e = [db EXCEPT !.gen = @ + 1]
    OBVIOUS
  <1>3. /\ db' = e /\ db.gen \in 1..(MaxGen - 1)
        /\ \A r \in Request : "secret" \notin claim[r].locks
        /\ claim' = claim /\ secrets' = secrets /\ client' = client /\ envelope' = envelope
        /\ tested' = tested
    BY <1>2 DEF Pairs!Rotate
  <1>4. MaxGen \in Nat /\ db.gen \in Nat /\ db.gen < MaxGen /\ db.gen + 1 \in 0..MaxGen
    BY <1>3 DEF PairBounds
  <1>5. /\ e \in DbRow /\ e.version = db.version /\ e.url = db.url /\ e.secret = db.secret
        /\ e.gen = db.gen + 1
    BY <1>1, <1>2, <1>4 DEF DbRow
  <1>6. db.version \in Nat
    BY <1>1, ConfigurationAssumption DEF DbRow, Version
  <1>7. TablesBacked(e, tested)
    BY <1>1, <1>3, <1>4, <1>5 DEF TablesBacked
  <1>8. /\ e.version >= db.version /\ e.gen >= db.gen /\ e.gen # db.gen
    BY <1>4, <1>5, <1>6
  <1> QED
    BY <1>1, <1>3, <1>5, <1>7, <1>8, TablesMove

\* After its commit a route changes nothing of what the tables or other requests know.
LEMMA RouteHonest ==
  ASSUME PairBounds, PairInv, NEW r \in Request,
         Pairs!Fetch(r) \/ Pairs!Refresh(r) \/ Pairs!ReadPair(r)
  PROVE  PairInv'
  <1>1. /\ claim[r] \in ClaimRow /\ Honest(claim[r], db, tested) /\ db \in DbRow
        /\ db.gen \in 0..MaxGen /\ 0 \in 0..MaxGen
    BY PairFacts DEF DbRow, PairBounds
  <1>2. CASE Pairs!Fetch(r)
    <2>1. PICK to : to = [claim[r] EXCEPT !.step = "fetched", !.gen = db.gen]
      OBVIOUS
    <2>2. /\ claim[r].step = "committed" /\ claim' = [claim EXCEPT ![r] = to]
          /\ db' = db /\ secrets' = secrets /\ client' = client /\ envelope' = envelope
          /\ tested' = tested
      BY <1>2, <2>1 DEF Pairs!Fetch, Pairs!Goes
    <2>3. to \in ClaimRow /\ to.step = "fetched" /\ to.locks = claim[r].locks
      BY <1>1, <2>1 DEF ClaimRow
    <2>4. to.locks = {}
      BY <1>1, <2>2, <2>3 DEF Honest, Holding
    <2>5. Honest(to, db, tested)
      BY <2>3, <2>4 DEF Honest, Undecided, Holding
    <2> QED
      BY <2>2, <2>3, <2>4, <2>5, PairFacts, RequestHonest
  <1>3. CASE Pairs!Refresh(r)
    <2>1. PICK to : to = [claim[r] EXCEPT !.step = "refreshed", !.gen = 0]
      OBVIOUS
    <2>2. /\ claim[r].step = "fetched" /\ claim' = [claim EXCEPT ![r] = to]
          /\ secrets' = [secrets EXCEPT ![Api] = claim[r].gen]
          /\ db' = db /\ client' = client /\ envelope' = envelope /\ tested' = tested
      BY <1>3, <2>1 DEF Pairs!Refresh, Pairs!Goes
    <2>3. to \in ClaimRow /\ to.step = "refreshed" /\ to.locks = claim[r].locks
      BY <1>1, <2>1 DEF ClaimRow
    <2>4. to.locks = {}
      BY <1>1, <2>2, <2>3 DEF Honest, Holding
    <2>5. Honest(to, db, tested)
      BY <2>3, <2>4 DEF Honest, Undecided, Holding
    <2>6. secrets' \in [Process -> 0..MaxGen]
      BY <1>1, <2>2, PairFacts DEF ClaimRow
    <2> QED
      BY <2>2, <2>3, <2>4, <2>5, <2>6, PairFacts, RequestHonest
  <1>4. CASE Pairs!ReadPair(r)
    <2>1. PICK pair : pair = Pairs!Snapshot(r)
      OBVIOUS
    <2>2. PICK to : to = [Pairs!NoClaim EXCEPT !.step = "read", !.pair = pair]
      OBVIOUS
    <2>3. /\ claim' = [claim EXCEPT ![r] = to]
          /\ db' = db /\ secrets' = secrets /\ client' = client /\ envelope' = envelope
          /\ tested' = tested
      BY <1>4, <2>1, <2>2 DEF Pairs!ReadPair, Pairs!Goes
    <2>4. Pairs!NoClaim \in ClaimRow /\ Pairs!NoClaim.locks = {} /\ Pairs!NoPair \in Pairs!Pair
      BY <1>1, BlankClaim
    <2>5. pair \in Pairs!Pair /\ Backed(pair, tested)
      <3>1. CASE pair = Pairs!NoPair
        BY <3>1, <2>4 DEF Backed, Pairs!NoPair
      <3>2. CASE pair = <<db.url, db.secret>>
        <4>1. pair \in Pairs!Pair
          BY <3>2, <1>1 DEF DbRow, Pairs!Pair
        <4> QED
          BY <3>2, <4>1, PairFacts DEF TablesBacked
      <3> QED
        BY <3>1, <3>2, <2>1 DEF Pairs!Snapshot
    <2>6. to \in ClaimRow /\ to.step = "read" /\ to.locks = {} /\ to.pair = pair
      BY <2>2, <2>4, <2>5 DEF ClaimRow
    <2>7. Honest(to, db, tested)
      BY <2>5, <2>6 DEF Honest, Undecided, Holding
    <2> QED
      BY <2>3, <2>6, <2>7, PairFacts, RequestHonest
  <1> QED
    BY <1>2, <1>3, <1>4

LEMMA InstallClientHonest ==
  ASSUME PairBounds, PairInv, NEW r \in Request, Pairs!InstallClient(r)
  PROVE  PairInv'
  <1>1. PICK pair : pair = claim[r].pair
    OBVIOUS
  <1>2. /\ claim[r].step = "read" /\ Pairs!Refused(r)
        /\ client' = IF Pairs!None \in {pair[1], pair[2]} THEN Pairs!NoPair ELSE pair
        /\ db' = db /\ secrets' = secrets /\ envelope' = envelope /\ tested' = tested
    BY <1>1 DEF Pairs!InstallClient, Pairs!Refused
  <1>3. pair \in Pairs!Pair /\ Backed(pair, tested) /\ Pairs!NoPair \in Pairs!Pair
    BY <1>1, <1>2, PairFacts, BlankClaim DEF ClaimRow, Honest
  <1>4. client' \in Pairs!Pair /\ Installed(client', tested)
    <2>1. Pairs!None \notin {pair[1], pair[2]} => pair \in tested
      BY <1>3 DEF Backed
    <2> QED
      BY <2>1, <1>2, <1>3 DEF Installed
  <1> QED
    BY <1>2, <1>4, RefusedHonest

LEMMA PairInvStep ==
  ASSUME PairBounds, PairInv, [Pairs!Next]_pairs
  PROVE  PairInv'
  <1>1. ASSUME NEW r \in Request, Pairs!RequestStep(r) PROVE PairInv'
    <2>1. CASE \E kind \in {"public", "reset"} : Pairs!BeginPublic(r, kind)
      BY <2>1, BeginPublicHonest
    <2>2. CASE \E c \in Candidate : Pairs!BeginIntegration(r, c[1], c[2])
      BY <2>2, BeginIntegrationHonest
    <2>3. CASE Pairs!BeginClear(r)
      BY <2>3, BeginClearHonest
    <2>4. CASE Pairs!LockPointer(r) \/ Pairs!LockSecret(r)
      BY <2>4, LockPointerHonest, LockSecretHonest
    <2>5. CASE Pairs!Commit(r)
      BY <2>5, CommitHonest
    <2>6. CASE Pairs!InsertFails(r)
      BY <2>6, RefusedHonest, PairFacts DEF Pairs!InsertFails
    <2>7. CASE Pairs!Fetch(r) \/ Pairs!Refresh(r) \/ Pairs!ReadPair(r)
      BY <2>7, RouteHonest
    <2>8. CASE Pairs!InstallClient(r)
      BY <2>8, InstallClientHonest
    <2> QED
      BY <1>1, <2>1, <2>2, <2>3, <2>4, <2>5, <2>6, <2>7, <2>8 DEF Pairs!RequestStep
  <1>2. CASE Pairs!Rotate
    BY <1>2, RotateHonest
  <1>3. ASSUME NEW p \in Process, Pairs!Restart(p) PROVE PairInv'
    <2>1. db.gen \in 0..MaxGen /\ secrets \in [Process -> 0..MaxGen] /\ envelope \in [Process -> 0..MaxGen]
      BY DEF PairInv, PairTypes, DbRow
    <2> QED
      BY <1>3, <2>1, ProcessHonest DEF Pairs!Restart
  <1>4. ASSUME NEW p \in Process, Pairs!StartJob(p) PROVE PairInv'
    <2>1. secrets \in [Process -> 0..MaxGen] /\ envelope \in [Process -> 0..MaxGen]
      BY DEF PairInv, PairTypes
    <2> QED
      BY <1>4, <2>1, ProcessHonest DEF Pairs!StartJob
  <1>5. CASE UNCHANGED pairs
    BY <1>5, ProcessHonest DEF PairInv, PairTypes, pairs
  <1> QED
    BY <1>1, <1>2, <1>3, <1>4, <1>5 DEF Pairs!Next

LEMMA TypeOfPairs == PairTypes => Pairs!TypeOK
  BY DEF PairTypes, Pairs!TypeOK, DbRow, ClaimRow, Version

\* A credential is never stored, or used by the API, with an address it was not tested
\* with (update_integration, read_integration_settings_snapshot), for any number of
\* requests, processes, generations and candidates.
THEOREM PairsAreTestedHolds ==
  ASSUME PairBounds PROVE Spec /\ Pairs!Spec => []PairsAreTested
  <1>1. Pairs!Init => PairInv
    BY PairInvInit
  <1>2. PairInv /\ [Pairs!Next]_pairs => PairInv'
    BY PairInvStep
  <1>3. PairInv => Pairs!TypeOK /\ Pairs!PairsAreTested
    <2> SUFFICES ASSUME PairInv PROVE Pairs!TypeOK /\ Pairs!PairsAreTested
      OBVIOUS
    <2>1. Pairs!TypeOK
      BY TypeOfPairs DEF PairInv
    <2>2. Pairs!None \notin {db.url, db.secret} => <<db.url, db.secret>> \in tested
      <3>1. <<db.url, db.secret>>[1] = db.url /\ <<db.url, db.secret>>[2] = db.secret
        OBVIOUS
      <3> QED
        BY <3>1 DEF PairInv, TablesBacked, Backed
    <2>3. client # Pairs!NoPair => client \in tested
      BY DEF PairInv, Installed
    <2> QED
      BY <2>1, <2>2, <2>3 DEF Pairs!PairsAreTested
  <1> QED
    BY <1>1, <1>2, <1>3, TypeCorrect, PTL DEF Pairs!Spec, Pairs!vars, pairs, PairsAreTested
=============================================================================
