----------------------------- MODULE Credentials -----------------------------
(***************************************************************************)
(* The address and the managed credential of one integration: concurrent   *)
(* requests that test a pair and commit it under the versions they have    *)
(* seen, the rotation of the encryption key, the API's client, and the     *)
(* credential each process caches for the jobs it starts.                  *)
(***************************************************************************)
EXTENDS Naturals, FiniteSets

CONSTANTS
  Process,      \* processes with a credential cache
  Api,          \* the one that serves the routes
  Request,      \* requests the API handles concurrently
  Url, Secret,  \* addresses and credentials of the integration
  Candidate,    \* what its users submit: an address, a credential or both
  MaxVersion,   \* bound: configuration revisions
  MaxGen        \* bound: generations of the credential

None == "none"

VARIABLES
  db,        \* the committed tables
  claim,     \* the requests in progress
  secrets,   \* the credential generation each process serves
  client,    \* the API's client of the integration
  envelope,  \* the generation the last contained job of a process was given
  tested     \* history: the pairs that were tested together

vars == <<db, claim, secrets, client, envelope, tested>>

Pair == (Url \cup {None}) \X (Secret \cup {None})

TypeOK ==
  /\ db \in [version : 1..MaxVersion, url : Url \cup {None}, gen : 0..MaxGen,
             secret : Secret \cup {None}]
  /\ claim \in [Request ->
       [step : {"idle", "tested", "locked", "ready", "committed", "fetched", "refreshed", "read"},
        kind : {"public", "reset", "integration", "clear"},
        version : 1..MaxVersion, gen : 0..MaxGen,
        url : Url \cup {None}, secret : Secret \cup {None}, pair : Pair,
        locks : SUBSET {"pointer", "secret"}]]
  /\ secrets \in [Process -> 0..MaxGen]
  /\ client \in Pair
  /\ envelope \in [Process -> 0..MaxGen]
  /\ tested \subseteq Pair

NoPair  == <<None, None>>
NoClaim == [step |-> "idle", kind |-> "public", version |-> 1, gen |-> 0, url |-> None,
            secret |-> None, pair |-> NoPair, locks |-> {}]

Init ==
  /\ db = [version |-> 1, url |-> None, gen |-> 0, secret |-> None]
  /\ claim = [r \in Request |-> NoClaim]
  /\ secrets = [p \in Process |-> 0]
  /\ client = NoPair
  /\ envelope = [p \in Process |-> 0]
  /\ tested = {}

-----------------------------------------------------------------------------
(* Requests. *)

Goes(r, to) == claim' = [claim EXCEPT ![r] = to]
Refused(r)  == Goes(r, NoClaim)

IsFree(r, lock) == \A q \in Request \ {r} : lock \notin claim[q].locks

\* A request with the version and the generation it has seen.
Seen(kind, step) ==
  [NoClaim EXCEPT !.kind = kind, !.step = step, !.version = db.version, !.gen = db.gen]

\* PUT and DELETE /config: an ordinary setting, or the address of the integration
\* back to its default; never a new address.
BeginPublic(r, kind) ==
  /\ claim[r].step = "idle" /\ db.version < MaxVersion
  /\ Goes(r, Seen(kind, "tested"))
  /\ UNCHANGED <<db, secrets, client, envelope, tested>>

\* Variant: what is stored is tested once more, and not the candidate.
TestedStored(url, secret) ==
  <<IF db.url = None THEN url ELSE db.url, IF db.secret = None THEN secret ELSE db.secret>>

\* The candidate, completed with what is stored.
Tested(url, secret) ==
  <<IF url = None THEN db.url ELSE url, IF secret = None THEN db.secret ELSE secret>>

\* PUT /integrations: one snapshot, and a test of the pair.  A new address wants a
\* new credential.
BeginIntegration(r, url, secret) ==
  /\ claim[r].step = "idle" /\ db.version < MaxVersion /\ db.gen < MaxGen
  /\ None \notin {Tested(url, secret)[1], Tested(url, secret)[2]}
  /\ (url # None /\ secret = None) => url = db.url
  /\ Goes(r, [Seen("integration", "tested") EXCEPT !.url = url, !.secret = secret])
  /\ tested' = tested \cup {Tested(url, secret)}
  /\ UNCHANGED <<db, secrets, client, envelope>>

\* DELETE /integrations/credential, with the generation the client has seen.
BeginClear(r) ==
  /\ claim[r].step = "idle" /\ db.gen < MaxGen
  /\ Goes(r, Seen("clear", "locked"))
  /\ UNCHANGED <<db, secrets, client, envelope, tested>>

\* update_configuration: the pointer is locked and its version compared.
LockPointer(r) ==
  /\ claim[r].step = "tested" /\ IsFree(r, "pointer")
  /\ IF db.version # claim[r].version THEN Refused(r)
     ELSE Goes(r, [claim[r] EXCEPT !.locks = {"pointer"},
                     !.step = IF claim[r].kind = "integration" THEN "locked" ELSE "ready"])
  /\ UNCHANGED <<db, secrets, client, envelope, tested>>

\* replace_managed_secret, clear_managed_secret, require_managed_secret_generation:
\* the row is locked, unless there is none yet, and its generation compared.
LockSecret(r) ==
  /\ claim[r].step = "locked" /\ IsFree(r, "secret")
  /\ IF db.gen # claim[r].gen THEN Refused(r)
     ELSE Goes(r, [claim[r] EXCEPT
                     !.step = "ready", !.locks = @ \cup IF db.gen = 0 THEN {} ELSE {"secret"}])
  /\ UNCHANGED <<db, secrets, client, envelope, tested>>

WritesSecret(r) == claim[r].kind = "clear" \/ claim[r].secret # None

\* Two first rows of one credential: the table's key admits one.
Collides(r) == WritesSecret(r) /\ claim[r].gen = 0 /\ db.gen # 0

\* What the commit leaves in the tables; an update without a difference writes
\* no revision.
Written(r) ==
  LET url == CASE claim[r].kind = "reset" -> None
               [] claim[r].url # None     -> claim[r].url
               [] OTHER                   -> db.url
  IN  [version |-> IF claim[r].kind = "public" \/ url # db.url THEN db.version + 1
                   ELSE db.version,
       url     |-> url,
       gen     |-> IF WritesSecret(r) THEN db.gen + 1 ELSE db.gen,
       secret  |-> CASE claim[r].kind = "clear"  -> None
                     [] claim[r].secret # None -> claim[r].secret
                     [] OTHER                  -> db.secret]

\* An ordinary update has nothing more to do with the integration.
Commit(r) ==
  /\ claim[r].step = "ready" /\ ~Collides(r)
  /\ db' = Written(r)
  /\ Goes(r, IF claim[r].kind \in {"public", "reset"} THEN NoClaim
             ELSE [NoClaim EXCEPT !.step = "committed", !.kind = claim[r].kind, !.url = db'.url])
  /\ UNCHANGED <<secrets, client, envelope, tested>>

InsertFails(r) ==
  /\ claim[r].step = "ready" /\ Collides(r)
  /\ Refused(r)
  /\ UNCHANGED <<db, secrets, client, envelope, tested>>

\* Variant: the address is what this request committed, the credential is read anew.
SnapshotSplit(r) == <<claim[r].url, db.secret>>

\* read_integration_settings_snapshot is one statement.
Snapshot(r) == IF claim[r].kind = "clear" THEN NoPair ELSE <<db.url, db.secret>>

\* After the commit a route reads the credentials of the API's cache anew ...
Fetch(r) ==
  /\ claim[r].step = "committed"
  /\ Goes(r, [claim[r] EXCEPT !.step = "fetched", !.gen = db.gen])
  /\ UNCHANGED <<db, secrets, client, envelope, tested>>

\* ... installs them, without a lock around the two ...
Refresh(r) ==
  /\ claim[r].step = "fetched"
  /\ secrets' = [secrets EXCEPT ![Api] = claim[r].gen]
  /\ Goes(r, [claim[r] EXCEPT !.step = "refreshed", !.gen = 0])
  /\ UNCHANGED <<db, client, envelope, tested>>

\* ... and reads the pair for its new client.
ReadPair(r) ==
  /\ claim[r].step = "refreshed"
  /\ Goes(r, [NoClaim EXCEPT !.step = "read", !.pair = Snapshot(r)])
  /\ UNCHANGED <<db, secrets, client, envelope, tested>>

\* _replace_runtime_integration: the client is connected, then installed; half a
\* pair makes none.
InstallClient(r) ==
  /\ claim[r].step = "read"
  /\ client' = IF None \in {claim[r].pair[1], claim[r].pair[2]} THEN NoPair ELSE claim[r].pair
  /\ Goes(r, NoClaim)
  /\ UNCHANGED <<db, secrets, envelope, tested>>

-----------------------------------------------------------------------------
(* The rotation and the other processes. *)

\* rotate_managed_secrets, from the maintenance command: the same value again.
Rotate ==
  /\ db.gen \in 1..(MaxGen - 1) /\ \A r \in Request : "secret" \notin claim[r].locks
  /\ db' = [db EXCEPT !.gen = @ + 1]
  /\ UNCHANGED <<claim, secrets, client, envelope, tested>>

\* A process starts again and reads every credential.
Restart(p) ==
  /\ p # Api /\ secrets[p] # db.gen
  /\ secrets' = [secrets EXCEPT ![p] = db.gen]
  /\ UNCHANGED <<db, claim, client, envelope, tested>>

\* A worker starts a contained job: the envelope holds what its process serves.
StartJob(p) ==
  /\ p # Api /\ envelope[p] # secrets[p]
  /\ envelope' = [envelope EXCEPT ![p] = secrets[p]]
  /\ UNCHANGED <<db, claim, secrets, client, tested>>

RequestStep(r) ==
  \/ (\E kind \in {"public", "reset"} : BeginPublic(r, kind))
  \/ (\E c \in Candidate : BeginIntegration(r, c[1], c[2]))
  \/ BeginClear(r) \/ LockPointer(r) \/ LockSecret(r)
  \/ Commit(r) \/ InsertFails(r)
  \/ Fetch(r) \/ Refresh(r) \/ ReadPair(r) \/ InstallClient(r)

Next ==
  \/ \E r \in Request : RequestStep(r)
  \/ Rotate
  \/ \E p \in Process : Restart(p) \/ StartJob(p)

Spec == Init /\ [][Next]_vars

-----------------------------------------------------------------------------
(* What must hold. *)

\* A credential is never stored, or used by the API, with an address it was not
\* tested with: neither concurrent requests nor a rotation put together a pair
\* of one request's address and another's credential.
PairsAreTested ==
  /\ None \notin {db.url, db.secret} => <<db.url, db.secret>> \in tested
  /\ client # NoPair => client \in tested

=============================================================================
