----------------------------- MODULE QueueProofs -----------------------------
(***************************************************************************)
(* What holds of the way of a job into its handler, for any number of      *)
(* submitters, requests, deliveries, files and permits.                    *)
(*                                                                         *)
(* JobSubmission: every piece of work is there once, a batch is there as a *)
(* whole, and no submissions wait for each other in a circle.  None is     *)
(* inductive.  The invariant (IInv) says what a transaction has locked     *)
(* when it asks for a row (Local), that two transactions have locked and   *)
(* made different things (Apart), that the rows it has made, or is about   *)
(* to make, are not there yet (Outside), and how the keys of the table are *)
(* made of one another (Table).                                            *)
(*                                                                         *)
(* SafetyGates: protected executions exclude each other as their policies  *)
(* say, no lock is forgotten, and no circle of deliveries waits.  That two *)
(* executions are compatible follows from what the database allows to be   *)
(* locked together, from what a live handle lists, and from the            *)
(* requirements of the policies.  GatesInv joins the three; Ordered is     *)
(* what the canonical order adds.                                          *)
(***************************************************************************)
EXTENDS Queue, FiniteSetTheorems, WellFoundedInduction, TLAPS

-----------------------------------------------------------------------------
(* Keys and locks. *)

HealLock == <<"heal">>

\* What the program locks as an idempotency key, and the keys of children.
RootKey(key) ==
  \/ Len(key) = 1 /\ key # HealLock
  \/ Len(key) = 2 /\ key = <<"retry", key[2]>>
  \/ Len(key) = 3 /\ key = <<"schedule", key[2], key[3]>>

IsRetry(key)         == Len(key) = 2 /\ key = <<"retry", key[2]>>
Under(key, root)     == Len(key) = 3 /\ key = ChildKey(root, key[3])
IsScope(lock, owner) == Len(lock) = 4 /\ lock = <<"active", lock[2], lock[3], owner>>

-----------------------------------------------------------------------------
(* One session: what its transaction t, the rows J and their fates F are. *)

Claims(t) == t.locks \cup t.want

\* A batch whose children are, or are about to be, asked for.
InBatch(t) == t.step = "parent" \/ t.parent # 0

\* A key nobody else asks for while t has locked the keys owned.
Owns(t, owned, key) ==
  IF InBatch(t) THEN Under(key, t.batch.key) ELSE RootKey(key) /\ key \in owned

Ended(j, J, F) ==
  IF j.kind \in BatchKind THEN \A c \in Children(j.id, J) : F[c.id] # "active" \/ c.retry
                          ELSE F[j.id] # "active"

IsHeal(j) == j.kind = "poster_heal" /\ Scheduled(j)

\* A scheduled heal is being created.
HealOpen(t) ==
  /\ IsHeal(t.batch)
  /\ t.step \in {"parent", "lookup", "overlap"} \/ t.new # {}

\* t is a record with these fields.
Fields(t) ==
  t \in [step : {t.step}, locks : {t.locks}, want : {t.want}, rows : {t.rows}, todo : {t.todo},
         batch : {t.batch}, parent : {t.parent}, new : {t.new}, reused : {t.reused},
         active : {t.active}]

Course(t) ==
  /\ Fields(t)
  /\ t.step \in {"idle", "lookup", "overlap", "parent", "heal", "commit"}
  /\ t.step = "idle" => t = Idle
  /\ t.step = "commit" => t.todo = <<>> /\ t.want = {} /\ t.new \cup t.reused # {}
  /\ t.step \in {"lookup", "overlap"} => t.todo # <<>>
  /\ t.step = "heal" => t.todo = <<>>
  /\ t.rows \subseteq Id
  /\ t.parent # 0 => t.step \in {"lookup", "overlap", "commit"}
  /\ t.parent = 0 /\ t.step \in {"lookup", "overlap"} => Len(t.todo) = 1

Asked(t) ==
  /\ t.todo \in Seq(Range(t.todo))
  /\ \A i \in DOMAIN t.todo :
       /\ t.todo[i].kind \in WorkKind
       /\ Owns(t, Claims(t), t.todo[i].key)
       /\ InBatch(t) => \A k \in DOMAIN t.todo \ {i} : t.todo[k].subject # t.todo[i].subject

\* The rows inserted, but for a parent.
ChildRow(t, j) == j \in t.new /\ j.kind \notin BatchKind

Inserted(t) ==
  /\ IsFiniteSet(t.new)
  /\ t.new # {} => t.parent # 0 \/ t.step = "commit"
  /\ t.parent = 0 => \A j \in t.new : j.kind \notin BatchKind
  /\ \A j \in t.new : ChildRow(t, j) =>
       /\ j.parent = t.parent /\ ~j.retry
       /\ Owns(t, t.locks, j.key)
       /\ Policy(j.kind) # "allow" => OverlapScope(j, j.parent) \in t.locks

\* The parent p, the children it has and those to come.
Family(t, p) ==
  /\ p \in t.new /\ p.id = t.parent
  /\ p.kind = t.batch.kind /\ p.key = t.batch.key /\ p.parent = 0 /\ ~p.retry
  /\ p.total = Cardinality(t.new \ {p}) + Len(t.todo)
  /\ \A j \in t.new \ {p} :
       /\ j.kind \notin BatchKind
       /\ \A i \in DOMAIN t.todo : t.todo[i].subject # j.subject
       /\ \A k \in t.new \ {p, j} : j.subject # k.subject

Batched(t) ==
  /\ InBatch(t) => /\ t.batch.kind \in BatchKind /\ RootKey(t.batch.key)
                   /\ t.batch.key \in Claims(t)
  /\ t.parent # 0 => \E p \in t.new : Family(t, p)

\* The locks of a transaction come in one order: the heal, a key, scopes.
Locked(t) ==
  /\ \A l \in Claims(t) : RootKey(l) \/ l = HealLock \/ IsScope(l, t.parent)
  /\ \A l \in t.want :
       /\ t.want = {l}
       /\ l = HealLock => t.step = "heal" /\ t.locks = {} /\ t.rows = {}
       /\ RootKey(l) => t.step \in {"parent", "lookup"} /\ t.parent = 0 /\ t.locks \subseteq {HealLock}
       /\ IsScope(l, t.parent) => t.step = "overlap"
  /\ t.parent = 0 /\ t.step # "commit" /\ (t.step = "overlap" => t.want # {}) =>
       \A l \in t.locks : ~IsScope(l, t.parent)
  /\ t.step = "overlap" => /\ OverlapScope(Head(t.todo), t.parent) \in Claims(t)
                           /\ Policy(Head(t.todo).kind) # "allow"
  /\ t.step = "heal" => /\ Claims(t) = {HealLock} /\ IsHeal(t.batch)
                        /\ RootKey(t.batch.key) /\ Len(t.batch.key) = 3
  /\ HealOpen(t) => HealLock \in t.locks

Local(t) == Course(t) /\ Asked(t) /\ Inserted(t) /\ Batched(t) /\ Locked(t)

\* What the transaction knows of the rows others may change.
Outside(t, J, F) ==
  /\ t.new \cap J = {}
  /\ t.step = "overlap" => \A j \in J \cup t.new : j.key # Head(t.todo).key
  /\ t.step # "commit" =>
       \A i \in t.rows : (\E p \in J : p.kind \in BatchKind /\ p.id = i) \/ (\E c \in t.new : c.id = i)
  /\ \A l \in Claims(t) : IsRetry(l) => \E p \in J : p.kind \in BatchKind /\ p.id = l[2]
  /\ HealOpen(t) => \A j \in J : IsHeal(j) => Ended(j, J, F)
  /\ \A j \in t.active : j.id \in t.rows /\ ~Ended(j, J, F)

-----------------------------------------------------------------------------
(* All rows. *)

RowOK(j) ==
  /\ j.id \in Id /\ j.kind \in BatchKind \cup WorkKind /\ j.parent \in Id \cup {0}
  /\ j.version \in 1..MaxVersion /\ j.total \in Nat /\ j.retry \in BOOLEAN

Own(p, J) == {c \in Children(p.id, J) : ~c.retry}

\* A committed batch is whole, and its children have different subjects.
Whole(p, J) ==
  /\ Cardinality(Own(p, J)) = p.total
  /\ \A c \in Own(p, J) : c.version = p.version
  /\ \A c, d \in Own(p, J) : c.subject = d.subject => c = d

Table(J, F) ==
  /\ IsFiniteSet(J)
  /\ F \in [Id -> {"active", "done", "failed"}]
  /\ \A i \in Id : F[i] # "active" => \E j \in J : j.id = i /\ j.kind \notin BatchKind
  /\ \A j \in J : j.parent # 0 => \E p \in J : p.id = j.parent /\ p.kind \in BatchKind
  /\ \A j \in J : j.kind \in BatchKind => j.parent = 0 /\ ~j.retry /\ Whole(j, J)
  /\ \A j \in J : j.retry /\ j.parent # 0 => F[j.id] = "active"
  /\ \A j, k \in J : IsHeal(j) /\ IsHeal(k) /\ ~Ended(j, J, F) /\ ~Ended(k, J, F) => j = k

\* Two rows that would be the same work.
Same(j, k) ==
  /\ j.kind = k.kind /\ j.subject = k.subject /\ j.parent = k.parent
  /\ j.kind \notin BatchKind /\ Policy(j.kind) # "allow"
  /\ Policy(j.kind) = "coalesce_equivalent" => j.body = k.body /\ j.version = k.version

Distinct(A, F) ==
  /\ \A j \in A : RowOK(j)
  /\ \A j, k \in A : j.id = k.id => j = k
  /\ \A j, k \in A : j.key = k.key => j = k
  /\ \A j, k \in A : F[j.id] = "active" /\ F[k.id] = "active" /\ ~j.retry /\ ~k.retry /\ Same(j, k) => j = k

Sessions ==
  /\ tx = [s \in Submitter |-> tx[s]]
  /\ \A s \in Submitter : Local(tx[s]) /\ Outside(tx[s], jobs, fate)

Apart ==
  \A s, u \in Submitter : s # u => tx[s].locks \cap tx[u].locks = {} /\ tx[s].new \cap tx[u].new = {}

IInv ==
  /\ Sessions /\ Apart /\ Table(jobs, fate) /\ Distinct(jobs \cup NewRows, fate)
  /\ version \in 1..MaxVersion /\ calls \in 0..MaxCall

-----------------------------------------------------------------------------
(* Keys. *)

LEMMA KeyShapes ==
  /\ \A key : RootKey(key) => key # HealLock /\ \A root : ~Under(key, root)
  /\ \A key, owner : RootKey(key) => ~IsScope(key, owner)
  /\ \A owner : ~IsScope(HealLock, owner)
  /\ \A key, root, other : Under(key, root) /\ Under(key, other) => root = other
  /\ \A key, owner, other : IsScope(key, owner) /\ IsScope(key, other) => owner = other
<1>1. \A key : RootKey(key) => key # HealLock /\ \A root : ~Under(key, root)
  BY DEF RootKey, Under, ChildKey, HealLock
<1>2. \A key, owner : RootKey(key) => ~IsScope(key, owner)
  BY DEF RootKey, IsScope
<1>3. \A owner : ~IsScope(HealLock, owner)
  BY DEF IsScope, HealLock
<1>4. \A key, root, other : Under(key, root) /\ Under(key, other) => root = other
  BY DEF Under, ChildKey
<1>5. \A key, owner, other : IsScope(key, owner) /\ IsScope(key, other) => owner = other
  BY DEF IsScope
<1> QED  BY <1>1, <1>2, <1>3, <1>4, <1>5

LEMMA MadeKeys ==
  /\ \A i : RootKey(<<"retry", i>>) /\ IsRetry(<<"retry", i>>) /\ <<"retry", i>>[2] = i
  /\ \A x, d : /\ RootKey(<<"schedule", x, d>>) /\ ~IsRetry(<<"schedule", x, d>>)
               /\ Len(<<"schedule", x, d>>) = 3 /\ <<"schedule", x, d>>[1] = "schedule"
  /\ \A r \in Single \cup Bulk : RootKey(r.key) /\ ~IsRetry(r.key)
  /\ \A root, x : Under(ChildKey(root, x), root)
  /\ \A intent, owner : IsScope(OverlapScope(intent, owner), owner)
  /\ ~IsRetry(HealLock)
  /\ \A lock, owner : IsScope(lock, owner) => ~IsRetry(lock)
<1>1. \A i : RootKey(<<"retry", i>>) /\ IsRetry(<<"retry", i>>) /\ <<"retry", i>>[2] = i
  BY DEF RootKey, IsRetry
<1>2. \A x, d : /\ RootKey(<<"schedule", x, d>>) /\ ~IsRetry(<<"schedule", x, d>>)
                /\ Len(<<"schedule", x, d>>) = 3 /\ <<"schedule", x, d>>[1] = "schedule"
  BY DEF RootKey, IsRetry
<1>3. \A r \in Single \cup Bulk : RootKey(r.key) /\ ~IsRetry(r.key)
  BY JobSubmissionAssumption DEF RootKey, IsRetry, HealLock
<1>4. \A root, x : Under(ChildKey(root, x), root)
  BY DEF Under, ChildKey
<1>5. \A intent, owner : IsScope(OverlapScope(intent, owner), owner)
  BY DEF IsScope, OverlapScope
<1>6. ~IsRetry(HealLock) /\ \A lock, owner : IsScope(lock, owner) => ~IsRetry(lock)
  BY DEF IsRetry, IsScope, HealLock
<1> QED  BY <1>1, <1>2, <1>3, <1>4, <1>5, <1>6

LEMMA Kinds ==
  /\ BatchKind \cap WorkKind = {}
  /\ \A kind : Policy(kind) \in {"allow", "reject_conflict", "coalesce_equivalent"}
BY DEF BatchKind, WorkKind, UnsafeKind, Policy

-----------------------------------------------------------------------------
(* Transactions that begin or end. *)

LEMMA SeqRange ==
  ASSUME NEW S, NEW q \in Seq(S)
  PROVE  q \in Seq(Range(q))
<1>1. q \in [1..Len(q) -> Range(q)]
  BY DEF Range
<1> QED  BY <1>1

LEMMA IdleFields ==
  /\ Fields(Idle) /\ Idle.step = "idle" /\ Idle.locks = {} /\ Idle.want = {} /\ Idle.rows = {}
  /\ Idle.todo = <<>> /\ Idle.batch = NoIntent /\ Idle.parent = 0 /\ Idle.new = {}
  /\ Idle.reused = {} /\ Idle.active = {}
BY DEF Idle, Fields

LEMMA NoHeal == ~IsHeal(NoIntent)
BY DEF IsHeal, NoIntent, Intent, None

LEMMA IdleSession == Local(Idle) /\ \A J, F : Outside(Idle, J, F)
<1> USE IdleFields, NoHeal
<1>1. Course(Idle)
  BY DEF Course
<1>2. Asked(Idle)
  <2>1. <<>> \in Seq(Range(<<>>)) /\ DOMAIN <<>> = {}  OBVIOUS
  <2> QED  BY <2>1 DEF Asked
<1>3. Inserted(Idle)
  BY FS_EmptySet DEF Inserted
<1>4. Batched(Idle) /\ Locked(Idle)
  BY DEF Batched, Locked, InBatch, Claims, HealOpen
<1>5. \A J, F : Outside(Idle, J, F)
  BY DEF Outside, HealOpen, Claims
<1> QED  BY <1>1, <1>2, <1>3, <1>4, <1>5 DEF Local

\* One request, before its key is locked.
LEMMA AskSession ==
  ASSUME NEW intent, intent.kind \in WorkKind,
         RootKey(intent.key), ~IsRetry(intent.key), NEW J, NEW F
  PROVE  LET t == [Idle EXCEPT !.step = "lookup", !.want = {intent.key}, !.todo = <<intent>>]
         IN  Local(t) /\ Outside(t, J, F) /\ t.locks = {} /\ t.new = {}
<1> DEFINE t == [Idle EXCEPT !.step = "lookup", !.want = {intent.key}, !.todo = <<intent>>]
<1>1. /\ Fields(t) /\ t.step = "lookup" /\ t.locks = {} /\ t.want = {intent.key} /\ t.rows = {}
      /\ t.todo = <<intent>> /\ t.batch = NoIntent /\ t.parent = 0 /\ t.new = {}
      /\ t.reused = {} /\ t.active = {}
  BY DEF Idle, Fields
<1>2. /\ Len(<<intent>>) = 1 /\ DOMAIN <<intent>> = {1} /\ <<intent>>[1] = intent
      /\ <<intent>> # <<>> /\ <<intent>> \in Seq({intent})
  OBVIOUS
<1> HIDE DEF t
<1>3. Course(t)
  BY <1>1, <1>2 DEF Course
<1>4. Asked(t)
  <2>1. <<intent>> \in Seq(Range(<<intent>>))  BY <1>2, SeqRange
  <2>2. ~InBatch(t)  BY <1>1 DEF InBatch
  <2> QED  BY <1>1, <1>2, <2>1, <2>2 DEF Asked, Owns, Claims
<1>5. Inserted(t)
  BY <1>1, FS_EmptySet DEF Inserted
<1>6. Batched(t) /\ Locked(t)
  BY <1>1, KeyShapes, NoHeal DEF Batched, Locked, InBatch, Claims, HealOpen
<1>7. Outside(t, J, F)
  BY <1>1, NoHeal DEF Outside, HealOpen, Claims
<1> QED  BY <1>1, <1>3, <1>4, <1>5, <1>6, <1>7 DEF Local, t

\* A batch, before the key of its parent is locked.
LEMMA ParentSession ==
  ASSUME NEW t, Fields(t), t.step = "parent", t.parent = 0, t.new = {}, t.rows \subseteq Id,
         t.locks \subseteq {HealLock}, t.want = {t.batch.key}, RootKey(t.batch.key),
         t.batch.kind \in BatchKind, IsHeal(t.batch) => HealLock \in t.locks,
         NEW S, t.todo \in Seq(S),
         \A i \in DOMAIN t.todo :
           /\ t.todo[i].kind \in WorkKind /\ Under(t.todo[i].key, t.batch.key)
           /\ \A k \in DOMAIN t.todo \ {i} : t.todo[k].subject # t.todo[i].subject
  PROVE  Local(t)
<1>1. Course(t)
  BY DEF Course
<1>2. Asked(t)
  BY SeqRange DEF Asked, Owns, InBatch
<1>3. Inserted(t)
  BY FS_EmptySet DEF Inserted
<1>4. Batched(t)
  BY DEF Batched, Claims
<1>5. \A l \in t.locks : l = HealLock
  OBVIOUS
<1>6. Locked(t)
  BY <1>5, KeyShapes DEF Locked, Claims, HealOpen
<1> QED  BY <1>1, <1>2, <1>3, <1>4, <1>6 DEF Local

\* The lock a transaction waits for is granted.
LEMMA LockSession ==
  ASSUME NEW t, Local(t), NEW lock \in t.want, NEW J, NEW F, Outside(t, J, F)
  PROVE  LET u == [t EXCEPT !.locks = t.locks \cup {lock}, !.want = {}]
         IN  Local(u) /\ Outside(u, J, F) /\ u.locks = t.locks \cup {lock} /\ u.new = t.new
<1> DEFINE u == [t EXCEPT !.locks = t.locks \cup {lock}, !.want = {}]
<1>1. Fields(t)
  BY DEF Local, Course
<1>2. /\ Fields(u) /\ u.step = t.step /\ u.locks = t.locks \cup {lock} /\ u.want = {}
      /\ u.rows = t.rows /\ u.todo = t.todo /\ u.batch = t.batch /\ u.parent = t.parent
      /\ u.new = t.new /\ u.reused = t.reused /\ u.active = t.active
  BY <1>1 DEF Fields
<1> HIDE DEF u
<1>3. t.want = {lock} /\ t.step \notin {"idle", "commit"}
  BY IdleFields DEF Local, Course, Locked
<1>4. Claims(u) = Claims(t) /\ InBatch(u) = InBatch(t) /\ HealOpen(u) = HealOpen(t)
  BY <1>2, <1>3 DEF Claims, InBatch, HealOpen
<1>5. Course(u)
  BY <1>2, <1>3 DEF Local, Course
<1>6. Asked(u)
  BY <1>2, <1>4 DEF Local, Asked, Owns
<1>7. Inserted(u)
  BY <1>2, <1>4 DEF Local, Inserted, Owns, ChildRow
<1>8. Batched(u)
  <2>1. \A p : Family(t, p) => Family(u, p)
    BY <1>2 DEF Family
  <2> QED  BY <1>2, <1>4, <2>1 DEF Local, Batched
<1>9. Locked(u)
  <2>1. \A l \in Claims(u) : RootKey(l) \/ l = HealLock \/ IsScope(l, u.parent)
    BY <1>2, <1>4 DEF Local, Locked
  <2>2. u.parent = 0 /\ u.step # "commit" /\ (u.step = "overlap" => u.want # {}) =>
          \A l \in u.locks : ~IsScope(l, u.parent)
    BY <1>2, <1>3 DEF Local, Locked
  <2> QED  BY <1>2, <1>4, <2>1, <2>2 DEF Local, Locked
<1>10. Outside(u, J, F)
  BY <1>2, <1>4 DEF Outside
<1> QED  BY <1>2, <1>5, <1>6, <1>7, <1>8, <1>9, <1>10 DEF Local, u

\* A transaction that has an answer without inserting anything.
LEMMA AnsweredSession ==
  ASSUME NEW t, Local(t), t.want = {}, t.new = {}, t.parent = 0,
         NEW u, Fields(u), u.step = "commit", u.todo = <<>>, u.want = {}, u.locks = t.locks,
         u.batch = t.batch, u.parent = 0, u.new = {}, u.reused # {}, u.rows \subseteq Id
  PROVE  Local(u)
<1>1. Course(u)
  BY DEF Course
<1>2. Asked(u)
  <2>1. <<>> \in Seq(Range(<<>>)) /\ DOMAIN <<>> = {}  OBVIOUS
  <2> QED  BY <2>1 DEF Asked
<1>3. Inserted(u) /\ Batched(u)
  BY FS_EmptySet DEF Inserted, Batched, InBatch
<1>4. Claims(u) \subseteq Claims(t) /\ ~HealOpen(u)
  BY DEF Claims, HealOpen
<1>5. Locked(u)
  BY <1>4 DEF Local, Locked
<1> QED  BY <1>1, <1>2, <1>3, <1>5 DEF Local

\* The overlap scope of the next intent is asked for.
LEMMA ScopeSession ==
  ASSUME NEW t, Local(t), t.step = "lookup", t.want = {},
         Policy(Head(t.todo).kind) # "allow", NEW J, NEW F, Outside(t, J, F),
         \A j \in J \cup t.new : j.key # Head(t.todo).key
  PROVE  LET u == [t EXCEPT !.step = "overlap", !.want = {OverlapScope(Head(t.todo), t.parent)}]
         IN  Local(u) /\ Outside(u, J, F) /\ u.locks = t.locks /\ u.new = t.new
<1> DEFINE scope == OverlapScope(Head(t.todo), t.parent)
           u == [t EXCEPT !.step = "overlap", !.want = {scope}]
<1> HIDE DEF scope
<1>1. Fields(t)
  BY DEF Local, Course
<1>2. /\ Fields(u) /\ u.step = "overlap" /\ u.locks = t.locks /\ u.want = {scope}
      /\ u.rows = t.rows /\ u.todo = t.todo /\ u.batch = t.batch /\ u.parent = t.parent
      /\ u.new = t.new /\ u.reused = t.reused /\ u.active = t.active
  BY <1>1 DEF Fields
<1> HIDE DEF u
<1>3. IsScope(scope, t.parent) /\ scope # HealLock /\ ~RootKey(scope) /\ ~IsRetry(scope)
  BY MadeKeys, KeyShapes DEF scope
<1>4. Claims(u) = Claims(t) \cup {scope} /\ InBatch(u) = InBatch(t) /\ HealOpen(u) = HealOpen(t)
  BY <1>2 DEF Claims, InBatch, HealOpen
<1>5. Course(u)
  BY <1>2 DEF Local, Course
<1>6. Asked(u)
  BY <1>2, <1>4 DEF Local, Asked, Owns
<1>7. Inserted(u)
  BY <1>2, <1>4 DEF Local, Inserted, Owns, ChildRow
<1>8. Batched(u)
  <2>1. \A p : Family(t, p) => Family(u, p)
    BY <1>2 DEF Family
  <2> QED  BY <1>2, <1>4, <2>1 DEF Local, Batched
<1>9. Locked(u)
  BY <1>2, <1>3, <1>4 DEF Local, Locked, scope
<1>10. Outside(u, J, F)
  BY <1>2, <1>3, <1>4 DEF Outside
<1> QED  BY <1>2, <1>5, <1>6, <1>7, <1>8, <1>9, <1>10 DEF Local, u, scope

LEMMA TailFacts ==
  ASSUME NEW S, NEW q \in Seq(S), q # <<>>
  PROVE  /\ Head(q) = q[1] /\ 1 \in DOMAIN q /\ Len(q) \in Nat \ {0} /\ DOMAIN q = 1..Len(q)
         /\ Tail(q) \in Seq(S) /\ Len(Tail(q)) = Len(q) - 1
         /\ \A i \in DOMAIN Tail(q) : i + 1 \in DOMAIN q \ {1} /\ Tail(q)[i] = q[i + 1]
         /\ \A i, k \in DOMAIN Tail(q) : i # k => i + 1 # k + 1
         /\ Len(q) = 1 <=> Tail(q) = <<>>
<1>1. /\ Head(q) = q[1] /\ 1 \in DOMAIN q /\ Len(q) \in Nat \ {0} /\ DOMAIN q = 1..Len(q)
      /\ Tail(q) \in Seq(S) /\ Len(Tail(q)) = Len(q) - 1
  OBVIOUS
<1>2. Len(q) = 1 <=> Tail(q) = <<>>
  <2>1. \A r \in Seq(S) : Len(r) = 0 <=> r = <<>>
    OBVIOUS
  <2> DEFINE r == Tail(q)
  <2>2. r \in Seq(S) /\ Len(r) = Len(q) - 1 /\ Len(q) \in Nat  BY <1>1
  <2> HIDE DEF r
  <2>3. Len(r) = 0 <=> r = <<>>  BY <2>1, <2>2
  <2>4. Len(q) = 1 <=> Len(r) = 0  BY <2>2
  <2> QED  BY <2>3, <2>4 DEF r
<1>3. \A i \in DOMAIN Tail(q) : i + 1 \in DOMAIN q \ {1} /\ Tail(q)[i] = q[i + 1]
  OBVIOUS
<1>4. \A i, k \in DOMAIN Tail(q) : i # k => i + 1 # k + 1
  <2>1. DOMAIN Tail(q) \subseteq Nat  BY <1>1
  <2> QED  BY <2>1
<1> QED  BY <1>1, <1>2, <1>3, <1>4

\* The next intent becomes the row r.
LEMMA CreatedSession ==
  ASSUME NEW t, Local(t), t.step \in {"lookup", "overlap"}, t.want = {},
         Policy(Head(t.todo).kind) # "allow" => t.step = "overlap",
         NEW r, r \notin t.new, ~r.retry, r.parent = t.parent, r.kind = Head(t.todo).kind,
         r.subject = Head(t.todo).subject, r.key = Head(t.todo).key,
         NEW u, Fields(u), u.todo = Tail(t.todo),
         u.step = IF Len(t.todo) = 1 THEN "commit" ELSE "lookup",
         u.locks = t.locks, u.want = {}, u.batch = t.batch, u.parent = t.parent,
         u.new = t.new \cup {r}, u.rows \subseteq Id
  PROVE  Local(u)
<1> DEFINE q == t.todo
<1>1. q \in Seq(Range(q)) /\ q # <<>>
  BY DEF Local, Asked, Course
<1>2. /\ Head(q) = q[1] /\ 1 \in DOMAIN q /\ Len(q) \in Nat \ {0}
      /\ Len(Tail(q)) = Len(q) - 1 /\ Tail(q) \in Seq(Range(Tail(q)))
      /\ \A i \in DOMAIN Tail(q) : i + 1 \in DOMAIN q \ {1} /\ Tail(q)[i] = q[i + 1]
      /\ \A i, k \in DOMAIN Tail(q) : i # k => i + 1 # k + 1
      /\ Len(q) = 1 <=> Tail(q) = <<>>
  <2> HIDE DEF q
  <2>1. Tail(q) \in Seq(Range(q))  BY <1>1, TailFacts
  <2>2. Tail(q) \in Seq(Range(Tail(q)))  BY <2>1, SeqRange
  <2> QED  BY <1>1, <2>2, TailFacts
<1>3. InBatch(u) = InBatch(t) /\ Claims(u) = Claims(t) /\ Claims(t) = t.locks
  BY DEF InBatch, Claims
<1>4. Course(u)
  <2>1. t.parent = 0 => Len(q) = 1
    BY DEF Local, Course
  <2> QED  BY <1>2, <2>1 DEF Local, Course
<1>5. Asked(u)
  <2> SUFFICES ASSUME NEW i \in DOMAIN Tail(q)
      PROVE  /\ Tail(q)[i].kind \in WorkKind
             /\ Owns(t, Claims(t), Tail(q)[i].key)
             /\ InBatch(t) => \A k \in DOMAIN Tail(q) \ {i} : Tail(q)[k].subject # Tail(q)[i].subject
    BY <1>2, <1>3 DEF Asked, Owns
  <2> QED  BY <1>2 DEF Local, Asked
<1>6. Owns(u, u.locks, r.key)
  BY <1>2, <1>3 DEF Local, Asked, Owns
<1>7. Policy(r.kind) # "allow" => OverlapScope(r, r.parent) \in u.locks
  BY <1>3 DEF Local, Locked, OverlapScope
<1>8. Inserted(u)
  <2>1. IsFiniteSet(u.new)
    BY FS_AddElement DEF Local, Inserted
  <2>2. u.parent = 0 => u.step = "commit" /\ \A j \in u.new : j.kind \notin BatchKind
    BY <1>2, <1>1, Kinds DEF Local, Course, Inserted, Asked
  <2>3. \A j \in u.new : ChildRow(u, j) => /\ j.parent = u.parent /\ ~j.retry
                                           /\ Owns(u, u.locks, j.key)
                                           /\ Policy(j.kind) # "allow" => OverlapScope(j, j.parent) \in u.locks
    BY <1>3, <1>6, <1>7 DEF Local, Inserted, ChildRow, Owns
  <2> QED  BY <2>1, <2>2, <2>3 DEF Inserted
<1>9. ASSUME NEW p, Family(t, p), InBatch(t) PROVE Family(u, p)
  <2>1. /\ p # r /\ u.new \ {p} = (t.new \ {p}) \cup {r} /\ r \notin t.new \ {p}
        /\ IsFiniteSet(t.new \ {p})
    BY <1>9, FS_RemoveElement DEF Family, Local, Inserted
  <2>2. Cardinality(u.new \ {p}) = Cardinality(t.new \ {p}) + 1
    BY <2>1, FS_AddElement
  <2>3. Cardinality(t.new \ {p}) \in Nat
    BY <2>1, FS_CardinalityType
  <2>4. p.total = Cardinality(u.new \ {p}) + Len(u.todo)
    BY <1>2, <1>9, <2>2, <2>3 DEF Family
  <2>5. r.kind \notin BatchKind /\ \A i \in DOMAIN u.todo : u.todo[i].subject # r.subject
    BY <1>2, <1>9, Kinds DEF Local, Asked
  <2>6. \A j \in t.new \ {p} : j.subject # r.subject /\ \A i \in DOMAIN u.todo : u.todo[i].subject # j.subject
    BY <1>2, <1>9 DEF Family
  <2> QED  BY <1>9, <2>1, <2>4, <2>5, <2>6 DEF Family
<1>10. Batched(u)
  BY <1>3, <1>9 DEF Local, Batched, InBatch
<1>11. HealOpen(u) => HealOpen(t)
  BY DEF HealOpen
<1>12. Locked(u)
  BY <1>2, <1>3, <1>4, <1>11 DEF Local, Locked, Course
<1> QED  BY <1>4, <1>5, <1>8, <1>10, <1>12 DEF Local

\* The parent p of a batch is inserted.
LEMMA ParentCreated ==
  ASSUME NEW t, Local(t), t.step = "parent", t.want = {},
         NEW p, p.id # 0, p.kind = t.batch.kind, p.key = t.batch.key,
         p.parent = 0, ~p.retry, p.total = Len(t.todo),
         NEW u, Fields(u), u.todo = t.todo, u.step = IF Len(t.todo) = 0 THEN "commit" ELSE "lookup",
         u.locks = t.locks, u.want = {}, u.batch = t.batch, u.parent = p.id, u.new = {p},
         u.rows = t.rows
  PROVE  Local(u)
<1>1. t.todo \in Seq(Range(t.todo)) /\ t.parent = 0 /\ t.rows \subseteq Id
  BY DEF Local, Asked, Course
<1>2. Len(t.todo) \in Nat /\ (Len(t.todo) = 0 <=> t.todo = <<>>)
  BY <1>1
<1>3. InBatch(u) /\ InBatch(t) /\ Claims(u) = Claims(t) /\ Claims(t) = t.locks
  BY DEF InBatch, Claims
<1>4. Course(u)
  BY <1>1, <1>2 DEF Course
<1>5. Asked(u)
  BY <1>3 DEF Local, Asked, Owns
<1>6. t.batch.kind \in BatchKind /\ RootKey(t.batch.key) /\ t.batch.key \in Claims(t)
  BY <1>3 DEF Local, Batched
<1>7. Inserted(u)
  BY <1>6, FS_Singleton DEF Inserted, ChildRow
<1>8. Family(u, p)
  <2>1. u.new \ {p} = {}  OBVIOUS
  <2>2. Cardinality(u.new \ {p}) = 0
    BY <2>1, FS_EmptySet
  <2>3. p.total = Cardinality(u.new \ {p}) + Len(u.todo)
    BY <1>2, <2>2
  <2> QED  BY <2>1, <2>3 DEF Family
<1>9. Batched(u)
  BY <1>3, <1>6, <1>8 DEF Batched
<1>10. HealOpen(u) => HealOpen(t)
  BY DEF HealOpen
<1>11. Locked(u)
  <2>1. \A l \in Claims(t) : (RootKey(l) \/ l = HealLock) /\ ~IsScope(l, t.parent)
    BY <1>1, <1>3, KeyShapes DEF Local, Locked
  <2> QED  BY <1>2, <1>3, <1>10, <2>1 DEF Local, Locked
<1> QED  BY <1>4, <1>5, <1>7, <1>9, <1>11 DEF Local

-----------------------------------------------------------------------------
(* Steps of one session. *)

LEMMA DistinctFewer ==
  ASSUME NEW A, NEW B, A \subseteq B, NEW F, Distinct(B, F)
  PROVE  Distinct(A, F)
BY DEF Distinct

\* The session s comes to t, and nothing else changes.
LEMMA OneStep ==
  ASSUME IInv, NEW s \in Submitter, NEW t, Set(s, t), UNCHANGED <<jobs, fate, version>>,
         calls' \in 0..MaxCall, Local(t), Outside(t, jobs, fate),
         \A u \in Submitter \ {s} : t.locks \cap tx[u].locks = {} /\ t.new \cap tx[u].new = {},
         Distinct(jobs \cup NewRows \cup t.new, fate)
  PROVE  IInv'
<1>1. /\ tx' = [u \in Submitter |-> tx'[u]]
      /\ tx'[s] = t /\ \A u \in Submitter \ {s} : tx'[u] = tx[u]
  BY DEF IInv, Sessions, Set
<1>2. Sessions'
  <2> SUFFICES ASSUME NEW u \in Submitter
      PROVE  Local(tx'[u]) /\ Outside(tx'[u], jobs, fate)
    BY <1>1 DEF Sessions
  <2> QED  BY <1>1 DEF IInv, Sessions
<1>3. Apart'
  BY <1>1 DEF IInv, Apart
<1>4. Table(jobs, fate)'
  BY DEF IInv
<1>5. Distinct(jobs \cup NewRows, fate)'
  <2>1. NewRows' \subseteq NewRows \cup t.new
    BY <1>1 DEF NewRows
  <2>2. (jobs \cup NewRows)' \subseteq jobs \cup NewRows \cup t.new
    BY <2>1
  <2>3. Distinct((jobs \cup NewRows)', fate)
    BY <2>2, DistinctFewer
  <2> QED  BY <2>3
<1> QED  BY <1>2, <1>3, <1>4, <1>5 DEF IInv

\* Nothing is inserted and no lock is granted.
LEMMA QuietStep ==
  ASSUME IInv, NEW s \in Submitter, NEW t, Set(s, t), UNCHANGED <<jobs, fate, version>>,
         calls' \in 0..MaxCall, Local(t), Outside(t, jobs, fate),
         t.locks \subseteq tx[s].locks, t.new \subseteq tx[s].new
  PROVE  IInv'
<1>1. \A u \in Submitter \ {s} : t.locks \cap tx[u].locks = {} /\ t.new \cap tx[u].new = {}
  BY DEF IInv, Apart
<1>2. t.new \subseteq NewRows
  BY DEF NewRows
<1>3. Distinct(jobs \cup NewRows \cup t.new, fate)
  <2>1. jobs \cup NewRows \cup t.new = jobs \cup NewRows  BY <1>2
  <2> QED  BY <2>1 DEF IInv
<1> QED  BY <1>1, <1>3, OneStep

LEMMA SessionFacts ==
  ASSUME IInv, NEW s \in Submitter
  PROVE  /\ Local(tx[s]) /\ Outside(tx[s], jobs, fate) /\ Fields(tx[s])
         /\ tx[s].step = "idle" => tx[s] = Idle
         /\ calls \in 0..MaxCall
BY DEF IInv, Sessions, Local, Course

LEMMA CountKeeps ==
  ASSUME IInv, Count
  PROVE  calls' \in 0..MaxCall
BY JobSubmissionAssumption DEF IInv, Count

LEMMA RollBackKeeps ==
  ASSUME IInv, NEW s \in Submitter, RollBack(s)
  PROVE  IInv'
BY QuietStep, IdleSession, IdleFields, SessionFacts DEF RollBack

LEMMA BeginSingleKeeps ==
  ASSUME IInv, NEW s \in Submitter, NEW r \in Single, BeginSingle(s, r)
  PROVE  IInv'
<1> DEFINE t == [Idle EXCEPT !.step = "lookup", !.want = {r.key}, !.todo = <<r>>]
<1>1. RootKey(r.key) /\ ~IsRetry(r.key) /\ r.kind \in WorkKind
  BY MadeKeys, JobSubmissionAssumption
<1>2. Local(t) /\ Outside(t, jobs, fate) /\ t.locks = {} /\ t.new = {}
  BY <1>1, AskSession
<1>3. Set(s, t)
  BY DEF BeginSingle, KeyLocks
<1> HIDE DEF t
<1> QED  BY <1>2, <1>3, QuietStep, CountKeeps DEF BeginSingle

LEMMA BeginBatchKeeps ==
  ASSUME IInv, NEW s \in Submitter, NEW r \in Bulk, BeginBatch(s, r)
  PROVE  IInv'
<1> DEFINE t == Batch(r.kind, r.key, r.children)
<1>1. /\ Fields(t) /\ t.step = "parent" /\ t.locks = {} /\ t.want = {r.key} /\ t.rows = {}
      /\ t.todo = r.children /\ t.batch = Intent(r.kind, "batch", None, r.key) /\ t.parent = 0
      /\ t.new = {} /\ t.reused = {} /\ t.active = {}
  BY DEF Batch, Idle, Fields, KeyLocks
<1>2. /\ t.batch.kind = r.kind /\ t.batch.key = r.key
  BY <1>1 DEF Intent
<1>3. RootKey(r.key) /\ ~IsRetry(r.key) /\ r.kind \in BatchKind /\ r.key[1] # "schedule"
  BY MadeKeys, JobSubmissionAssumption
<1>4. ~IsHeal(t.batch)
  BY <1>2, <1>3 DEF IsHeal, Scheduled
<1>5. r.children \in Seq(Range(r.children))
  BY JobSubmissionAssumption
<1>6. \A i \in DOMAIN r.children :
        /\ r.children[i].kind \in WorkKind /\ Under(r.children[i].key, r.key)
        /\ \A k \in DOMAIN r.children \ {i} : r.children[k].subject # r.children[i].subject
  BY JobSubmissionAssumption, MadeKeys
<1>7. Set(s, t) /\ UNCHANGED <<jobs, fate, version>> /\ Count
  BY DEF BeginBatch
<1> HIDE DEF t
<1>8. Local(t)
  BY <1>1, <1>2, <1>3, <1>4, <1>5, <1>6, ParentSession
<1>9. Outside(t, jobs, fate)
  BY <1>1, <1>3, <1>4 DEF Outside, Claims, HealOpen
<1> QED  BY <1>1, <1>7, <1>8, <1>9, QuietStep, CountKeeps

LEMMA ListingFacts ==
  ASSUME NEW rows, IsFiniteSet(rows), NEW list \in Listings(rows)
  PROVE  /\ Cardinality(rows) \in Nat /\ DOMAIN list = 1..Cardinality(rows)
         /\ \A i \in DOMAIN list : list[i] \in rows
         /\ \A i, k \in DOMAIN list : i # k => list[i] # list[k]
BY FS_CardinalityType DEF Listings, IsInjective

LEMMA MappedSeq ==
  ASSUME NEW n \in Nat, NEW f, f = [i \in 1..n |-> f[i]]
  PROVE  f \in Seq(Range(f)) /\ DOMAIN f = 1..n
<1>1. DOMAIN f = 1..n
  OBVIOUS
<1>2. f \in [1..n -> Range(f)]
  BY <1>1 DEF Range
<1> QED  BY <1>1, <1>2

LEMMA BeginRetryBatchKeeps ==
  ASSUME IInv, NEW s \in Submitter, NEW p \in jobs, BeginRetryBatch(s, p)
  PROVE  IInv'
<1> DEFINE failed == {c \in Children(p.id, jobs) : fate[c.id] = "failed"}
           key    == <<"retry", p.id>>
           todo(list) == [i \in DOMAIN list |->
                            Intent(list[i].kind, list[i].subject, list[i].body,
                                   ChildKey(key, list[i].id))]
<1>1. PICK list \in Listings(failed) :
        Set(s, [Batch(p.kind, key, todo(list)) EXCEPT !.rows = {p.id}])
  BY DEF BeginRetryBatch
<1>2. p.kind \in BatchKind /\ UNCHANGED <<jobs, fate, version>> /\ Count
  BY DEF BeginRetryBatch
<1>3. p.id \in Id /\ p.id # 0 /\ IsFiniteSet(failed) /\ Whole(p, jobs)
  <2>1. p.id \in Id  BY DEF IInv, Distinct, RowOK
  <2>2. IsFiniteSet(jobs)  BY DEF IInv, Table
  <2>3. IsFiniteSet(failed)  BY <2>2, FS_Subset DEF Children
  <2> QED  BY <1>2, <2>1, <2>3, JobSubmissionAssumption DEF Id, IInv, Table
<1>4. /\ Cardinality(failed) \in Nat /\ DOMAIN list = 1..Cardinality(failed)
      /\ \A i \in DOMAIN list : list[i] \in failed
      /\ \A i, k \in DOMAIN list : i # k => list[i] # list[k]
  <2> HIDE DEF failed
  <2> QED  BY <1>3, ListingFacts
<1>5. \A c \in failed : c \in Own(p, jobs) /\ c.kind \in WorkKind
  <2> SUFFICES ASSUME NEW c \in failed PROVE ~c.retry /\ c.kind \in WorkKind
    BY DEF Own
  <2>1. c \in jobs /\ c.parent = p.id /\ fate[c.id] = "failed"  BY DEF Children
  <2>2. c.kind \in BatchKind \cup WorkKind /\ c.retry \in BOOLEAN  BY <2>1 DEF IInv, Distinct, RowOK
  <2> QED  BY <1>3, <2>1, <2>2 DEF IInv, Table
<1>6. \A i \in DOMAIN list :
        /\ list[i].kind \in WorkKind
        /\ \A k \in DOMAIN list \ {i} : list[k].subject # list[i].subject
  BY <1>3, <1>4, <1>5 DEF Whole
<1> DEFINE asked == todo(list)
<1>7. /\ DOMAIN asked = 1..Cardinality(failed)
      /\ asked = [i \in 1..Cardinality(failed) |-> asked[i]]
      /\ \A i \in DOMAIN list : /\ asked[i].kind = list[i].kind /\ asked[i].subject = list[i].subject
                                /\ asked[i].key = ChildKey(key, list[i].id)
  BY <1>4 DEF Intent
<1> HIDE DEF failed, asked
<1>8. asked \in Seq(Range(asked))
  BY <1>4, <1>7, MappedSeq
<1> DEFINE b == Batch(p.kind, key, asked)
           t == [b EXCEPT !.rows = {p.id}]
<1>9. /\ Fields(t) /\ t.step = "parent" /\ t.locks = {} /\ t.want = {key} /\ t.rows = {p.id}
      /\ t.todo = asked /\ t.batch = Intent(p.kind, "batch", None, key) /\ t.parent = 0
      /\ t.new = {} /\ t.reused = {} /\ t.active = {}
  BY DEF Batch, Idle, Fields, KeyLocks
<1>10. t.batch.kind = p.kind /\ t.batch.key = key
  BY <1>9 DEF Intent
<1>11. RootKey(key) /\ IsRetry(key) /\ key[2] = p.id /\ key[1] # "schedule"
  BY MadeKeys
<1>12. Set(s, t)
  BY <1>1 DEF asked
<1> HIDE DEF t, b
<1>13. ~IsHeal(t.batch)
  BY <1>10, <1>11 DEF IsHeal, Scheduled
<1>14. \A i \in DOMAIN asked :
         /\ asked[i].kind \in WorkKind /\ Under(asked[i].key, key)
         /\ \A k \in DOMAIN asked \ {i} : asked[k].subject # asked[i].subject
  BY <1>4, <1>6, <1>7, MadeKeys
<1> HIDE DEF key
<1>15. Local(t)
  BY <1>2, <1>3, <1>8, <1>9, <1>10, <1>11, <1>13, <1>14, ParentSession
<1>16. Outside(t, jobs, fate)
  BY <1>2, <1>9, <1>11, <1>13 DEF Outside, Claims, HealOpen
<1> QED  BY <1>2, <1>9, <1>12, <1>15, <1>16, QuietStep, CountKeeps

LEMMA HealSession ==
  ASSUME NEW batch, IsHeal(batch), RootKey(batch.key), Len(batch.key) = 3, NEW J, NEW F
  PROVE  LET t == [Idle EXCEPT !.step = "heal", !.want = {HealLock}, !.batch = batch]
         IN  Local(t) /\ Outside(t, J, F) /\ t.locks = {} /\ t.new = {}
<1> DEFINE t == [Idle EXCEPT !.step = "heal", !.want = {HealLock}, !.batch = batch]
<1>1. /\ Fields(t) /\ t.step = "heal" /\ t.locks = {} /\ t.want = {HealLock} /\ t.rows = {}
      /\ t.todo = <<>> /\ t.batch = batch /\ t.parent = 0 /\ t.new = {}
      /\ t.reused = {} /\ t.active = {}
  BY DEF Idle, Fields
<1> HIDE DEF t
<1>2. Course(t)
  BY <1>1 DEF Course
<1>3. Asked(t)
  <2>1. <<>> \in Seq(Range(<<>>)) /\ DOMAIN <<>> = {}  OBVIOUS
  <2> QED  BY <1>1, <2>1 DEF Asked
<1>4. Inserted(t) /\ Batched(t)
  BY <1>1, FS_EmptySet DEF Inserted, Batched, InBatch
<1>5. Locked(t)
  BY <1>1, KeyShapes DEF Locked, Claims, HealOpen
<1>6. Outside(t, J, F)
  BY <1>1, MadeKeys DEF Outside, Claims, HealOpen
<1> QED  BY <1>1, <1>2, <1>3, <1>4, <1>5, <1>6 DEF Local, t

LEMMA BeginScheduledKeeps ==
  ASSUME IInv, NEW s \in Scheduler, NEW schedule \in Catalog, NEW m \in Minute,
         BeginScheduled(s, schedule, m)
  PROVE  IInv'
<1>1. s \in Submitter  BY JobSubmissionAssumption
<1>2. UNCHANGED <<jobs, fate, version>> /\ Count  BY DEF BeginScheduled
<1>3. PICK due \in NormalizeDue(schedule, m) :
        LET key == <<"schedule", schedule, due>>
        IN  IF schedule = "poster-heal"
            THEN Set(s, [Idle EXCEPT !.step = "heal", !.want = {HealLock},
                                     !.batch = Intent("poster_heal", "batch", None, key)])
            ELSE Set(s, [Idle EXCEPT !.step = "lookup", !.want = {key},
                          !.todo = <<Intent(Produced(schedule), schedule, None, key)>>])
  BY DEF BeginScheduled, KeyLocks, HealLock
<1> DEFINE key == <<"schedule", schedule, due>>
<1>4. RootKey(key) /\ ~IsRetry(key) /\ Len(key) = 3 /\ key[1] = "schedule"
  BY MadeKeys
<1>5. CASE schedule = "poster-heal"
  <2> DEFINE batch == Intent("poster_heal", "batch", None, key)
             t == [Idle EXCEPT !.step = "heal", !.want = {HealLock}, !.batch = batch]
  <2>1. IsHeal(batch) /\ RootKey(batch.key) /\ Len(batch.key) = 3
    BY <1>4 DEF IsHeal, Scheduled, Intent
  <2>2. Set(s, t)  BY <1>3, <1>5
  <2> HIDE DEF batch
  <2>3. Local(t) /\ Outside(t, jobs, fate) /\ t.locks = {} /\ t.new = {}
    BY <2>1, HealSession
  <2> HIDE DEF t
  <2> QED  BY <1>1, <1>2, <2>2, <2>3, QuietStep, CountKeeps
<1>6. CASE schedule # "poster-heal"
  <2> DEFINE intent == Intent(Produced(schedule), schedule, None, key)
             t == [Idle EXCEPT !.step = "lookup", !.want = {intent.key}, !.todo = <<intent>>]
  <2>1. intent.key = key /\ intent.kind = Produced(schedule)  BY DEF Intent
  <2>2. Produced(schedule) \in WorkKind
    BY DEF Produced, WorkKind, UnsafeKind
  <2>3. Set(s, t)  BY <1>3, <1>6, <2>1
  <2> HIDE DEF intent, key
  <2>4. Local(t) /\ Outside(t, jobs, fate) /\ t.locks = {} /\ t.new = {}
    BY <1>4, <2>1, <2>2, AskSession
  <2> HIDE DEF t
  <2> QED  BY <1>1, <1>2, <2>3, <2>4, QuietStep, CountKeeps
<1> QED  BY <1>5, <1>6

LEMMA TakeLockKeeps ==
  ASSUME IInv, NEW s \in Submitter, TakeLock(s)
  PROVE  IInv'
<1>1. PICK lock \in tx[s].want :
        LockFree(s, lock) /\ Set(s, [tx[s] EXCEPT !.locks = tx[s].locks \cup {lock}, !.want = {}])
  BY DEF TakeLock
<1> DEFINE t == [tx[s] EXCEPT !.locks = tx[s].locks \cup {lock}, !.want = {}]
<1>2. Local(t) /\ Outside(t, jobs, fate) /\ t.locks = tx[s].locks \cup {lock} /\ t.new = tx[s].new
  BY SessionFacts, LockSession
<1>3. Set(s, t)  BY <1>1
<1> HIDE DEF t
<1>4. \A u \in Submitter \ {s} : t.locks \cap tx[u].locks = {} /\ t.new \cap tx[u].new = {}
  BY <1>1, <1>2 DEF LockFree, IInv, Apart
<1>5. Distinct(jobs \cup NewRows \cup t.new, fate)
  <2>1. jobs \cup NewRows \cup t.new = jobs \cup NewRows  BY <1>2 DEF NewRows
  <2> QED  BY <2>1 DEF IInv
<1>6. UNCHANGED <<jobs, fate, version, calls>>  BY DEF TakeLock
<1> QED  BY <1>2, <1>3, <1>4, <1>5, <1>6, OneStep, SessionFacts

-----------------------------------------------------------------------------
(* Answers. *)

LEMMA OverIsEnded == \A j : Over(j) = Ended(j, jobs, fate)
BY DEF Over, Ended

LEMMA RowFacts ==
  ASSUME IInv, NEW j \in jobs \cup NewRows
  PROVE  RowOK(j) /\ j.id \in Id /\ j.id # 0
<1>1. RowOK(j)  BY DEF IInv, Distinct
<1>2. \A i \in Id : i # 0  BY JobSubmissionAssumption DEF Id
<1> QED  BY <1>1, <1>2 DEF RowOK

LEMMA SeenRows ==
  ASSUME IInv, NEW s \in Submitter
  PROVE  /\ Seen(s) \subseteq jobs \cup NewRows /\ tx[s].new \subseteq NewRows
         /\ \A j \in jobs \cup NewRows : RowOK(j) /\ j.id \in Id /\ j.id # 0
BY RowFacts DEF Seen, NewRows

\* What is looked for in a batch that is being created is not there: a batch
\* names each subject once, and nobody else knows its parent.
LEMMA NoReuse ==
  ASSUME IInv, NEW s \in Submitter, tx[s].step \in {"lookup", "overlap"}, tx[s].parent # 0,
         NEW j \in Seen(s), j.parent = tx[s].parent, j.subject = Current(s).subject
  PROVE  FALSE
<1> DEFINE t == tx[s]
<1>1. PICK p \in t.new : Family(t, p)
  BY SessionFacts DEF Local, Batched
<1>2. t.todo \in Seq(Range(t.todo)) /\ t.todo # <<>>
  BY SessionFacts DEF Local, Asked, Course
<1>3. Current(s) = t.todo[1] /\ 1 \in DOMAIN t.todo
  BY <1>2 DEF Current
<1>4. CASE j \in t.new
  <2>1. j # p  BY <1>1 DEF Family
  <2> QED  BY <1>1, <1>3, <1>4, <2>1 DEF Family
<1>5. CASE j \in jobs
  <2>1. PICK q \in jobs : q.id = j.parent
    BY <1>5 DEF IInv, Table
  <2>2. q = p
    BY <1>1, <2>1, SeenRows DEF IInv, Distinct, Family
  <2> QED  BY <1>1, <2>1, <2>2, SessionFacts DEF Outside
<1> QED  BY <1>4, <1>5 DEF Seen

LEMMA AnsweredKeeps ==
  ASSUME IInv, NEW s \in Submitter, tx[s].want = {}, tx[s].new = {}, tx[s].parent = 0,
         NEW u, Fields(u), Set(s, u), UNCHANGED <<jobs, fate, version, calls>>,
         u.step = "commit", u.todo = <<>>, u.want = {}, u.locks = tx[s].locks,
         u.batch = tx[s].batch, u.parent = 0, u.new = {}, u.reused # {}, u.rows \subseteq Id,
         \A j \in u.active : j.id \in u.rows /\ ~Ended(j, jobs, fate)
  PROVE  IInv'
<1>1. Local(tx[s]) /\ Outside(tx[s], jobs, fate) /\ calls \in 0..MaxCall
  BY SessionFacts
<1>2. Local(u)
  BY <1>1, AnsweredSession
<1>3. Outside(u, jobs, fate)
  BY <1>1 DEF Outside, Claims, HealOpen
<1> QED  BY <1>1, <1>2, <1>3, QuietStep

LEMMA RepeatKeeps ==
  ASSUME IInv, NEW s \in Submitter, Repeat(s)
  PROVE  IInv'
<1> DEFINE t == tx[s]
<1>1. t.step = "lookup" /\ t.want = {}
  BY DEF Repeat, Ready
<1>2. PICK j \in WithKey(s, Current(s).key) :
        IF SameIntent(s, j, Current(s)) THEN Reuse(s, j) ELSE RollBack(s)
  BY DEF Repeat
<1>3. CASE ~SameIntent(s, j, Current(s))
  BY <1>2, <1>3, RollBackKeeps
<1>4. CASE SameIntent(s, j, Current(s))
  <2>1. t.parent = 0
    BY <1>1, <1>2, <1>4, NoReuse DEF SameIntent, WithKey
  <2>2. Len(t.todo) = 1 /\ t.new = {} /\ Fields(t) /\ t.rows \subseteq Id
    BY <1>1, <2>1, SessionFacts DEF Local, Course, Inserted
  <2> DEFINE u == Advance([t EXCEPT !.reused = t.reused \cup {j}])
  <2>3. Set(s, u) /\ UNCHANGED <<jobs, fate, version, calls>>
    BY <1>2, <1>4 DEF Reuse
  <2>4. /\ Fields(u) /\ u.step = "commit" /\ u.todo = <<>> /\ u.want = t.want /\ u.locks = t.locks
        /\ u.batch = t.batch /\ u.parent = t.parent /\ u.new = t.new /\ u.reused = t.reused \cup {j}
        /\ u.rows = t.rows /\ u.active = t.active
    BY <2>2 DEF Advance, Fields
  <2> HIDE DEF u
  <2>5. \A k \in u.active : k.id \in u.rows /\ ~Ended(k, jobs, fate)
    BY <2>4, SessionFacts DEF Outside
  <2> QED  BY <1>1, <2>1, <2>2, <2>3, <2>4, <2>5, AnsweredKeeps
<1> QED  BY <1>3, <1>4

LEMMA OldestFacts ==
  ASSUME IInv, NEW rows, rows \subseteq jobs \cup NewRows, rows # {}
  PROVE  Oldest(rows) \in rows
<1> DEFINE ids == {j.id : j \in rows}
<1>1. ids \subseteq Nat /\ ids # {}
  <2>1. \A j \in rows : j.id \in Nat
    BY JobSubmissionAssumption DEF IInv, Distinct, RowOK, Id
  <2> QED  BY <2>1
<1>2. PICK n \in ids : \A m \in ids : n <= m
  <2> HIDE DEF ids
  <2>1. PICK n \in ids : \A m \in ids : ~ (<<m, n>> \in OpToRel(<, Nat))
    BY <1>1, NatLessThanWellFounded, WFMin
  <2>2. \A m \in ids : ~ (m < n)
    BY <1>1, <2>1 DEF OpToRel
  <2> QED  BY <1>1, <2>2
<1>3. \E j \in rows : \A k \in rows : j.id <= k.id
  BY <1>2
<1> QED  BY <1>3 DEF Oldest

LEMMA OverlapFacts ==
  ASSUME IInv, NEW s \in Submitter, tx[s].step = "overlap"
  PROVE  /\ \A j \in Overlaps(s, Current(s)) : j \in jobs \cup NewRows /\ j.id \in Id
         /\ LockedRows(Overlaps(s, Current(s))) \subseteq Id
         /\ tx[s].parent # 0 => Overlaps(s, Current(s)) = {}
<1>1. \A j \in Overlaps(s, Current(s)) : j \in jobs \cup NewRows /\ j.id \in Id
  BY SeenRows DEF Overlaps
<1>2. LockedRows(Overlaps(s, Current(s))) \subseteq Id
  BY <1>1 DEF LockedRows
<1>3. ASSUME tx[s].parent # 0, NEW j \in Overlaps(s, Current(s)) PROVE FALSE
  BY <1>3, NoReuse DEF Overlaps
<1> QED  BY <1>1, <1>2, <1>3

LEMMA CoalesceKeeps ==
  ASSUME IInv, NEW s \in Submitter, Coalesce(s)
  PROVE  IInv'
<1> DEFINE t == tx[s]
           found == Overlaps(s, Current(s))
           same == Equivalent(s, Current(s))
           j == Oldest(same)
           u == Advance([t EXCEPT !.reused = t.reused \cup {j}, !.active = t.active \cup {j},
                                  !.rows = t.rows \cup LockedRows(found)])
<1>1. /\ t.step = "overlap" /\ t.want = {} /\ same # {} /\ Set(s, u)
      /\ UNCHANGED <<jobs, fate, version, calls>>
  BY DEF Coalesce, Ready
<1>2. same \subseteq found /\ found \subseteq jobs \cup NewRows /\ LockedRows(found) \subseteq Id
  BY <1>1, OverlapFacts DEF Equivalent
<1>3. j \in same
  BY <1>1, <1>2, OldestFacts
<1>4. j \in found /\ ~Over(j) /\ j.id \in LockedRows(found) /\ t.parent = 0
  BY <1>1, <1>2, <1>3, OverlapFacts DEF Overlaps, LockedRows
<1>5. Len(t.todo) = 1 /\ t.new = {} /\ Fields(t) /\ t.rows \subseteq Id
  BY <1>1, <1>4, SessionFacts DEF Local, Course, Inserted
<1>6. \A k \in t.active : k.id \in t.rows /\ ~Ended(k, jobs, fate)
  BY SessionFacts DEF Outside
<1>7. ~Ended(j, jobs, fate)
  BY <1>4, OverIsEnded
<1> HIDE DEF j, found, same
<1>8. /\ Fields(u) /\ u.step = "commit" /\ u.todo = <<>> /\ u.want = t.want /\ u.locks = t.locks
      /\ u.batch = t.batch /\ u.parent = t.parent /\ u.new = t.new /\ u.reused = t.reused \cup {j}
      /\ u.rows = t.rows \cup LockedRows(found) /\ u.active = t.active \cup {j}
  BY <1>5 DEF Advance, Fields
<1> HIDE DEF u
<1>9. u.rows \subseteq Id /\ \A k \in u.active : k.id \in u.rows /\ ~Ended(k, jobs, fate)
  BY <1>2, <1>4, <1>5, <1>6, <1>7, <1>8
<1> QED  BY <1>1, <1>4, <1>5, <1>8, <1>9, AnsweredKeeps

LEMMA FinishKeeps ==
  ASSUME IInv, NEW s \in Submitter, tx[s].step \in {"parent", "heal"}, tx[s].want = {},
         NEW p, NEW found \in SUBSET Seen(s), Finish(s, p, found), \A j \in found : ~Over(j)
  PROVE  IInv'
<1> DEFINE t == tx[s]
           u == [t EXCEPT !.reused = {p}, !.active = found, !.step = "commit", !.todo = <<>>,
                          !.rows = t.rows \cup LockedRows(found)]
<1>1. t.parent = 0 /\ t.new = {} /\ Fields(t) /\ t.rows \subseteq Id
  BY SessionFacts DEF Local, Course, Inserted
<1>2. Set(s, u) /\ UNCHANGED <<jobs, fate, version, calls>>
  BY DEF Finish
<1>3. LockedRows(found) \subseteq Id /\ \A j \in found : j.id \in LockedRows(found) /\ ~Ended(j, jobs, fate)
  BY SeenRows, OverIsEnded DEF LockedRows
<1>4. /\ Fields(u) /\ u.step = "commit" /\ u.todo = <<>> /\ u.want = t.want /\ u.locks = t.locks
      /\ u.batch = t.batch /\ u.parent = t.parent /\ u.new = t.new /\ u.reused = {p}
      /\ u.rows = t.rows \cup LockedRows(found) /\ u.active = found
  BY <1>1 DEF Fields
<1> HIDE DEF u
<1> QED  BY <1>1, <1>2, <1>3, <1>4, AnsweredKeeps

LEMMA RepeatBatchKeeps ==
  ASSUME IInv, NEW s \in Submitter, RepeatBatch(s)
  PROVE  IInv'
<1>1. tx[s].step = "parent" /\ tx[s].want = {}
  BY DEF RepeatBatch, Ready
<1>2. PICK p : Finish(s, p, {}) \/ RollBack(s)
  BY DEF RepeatBatch
<1> QED  BY <1>1, <1>2, FinishKeeps, RollBackKeeps

LEMMA HealAnsweredKeeps ==
  ASSUME IInv, NEW s \in Submitter, HealAnswered(s)
  PROVE  IInv'
<1>1. tx[s].step = "heal" /\ tx[s].want = {}
  BY DEF HealAnswered, Ready
<1>2. CASE \E j : Finish(s, j, {})
  BY <1>1, <1>2, FinishKeeps
<1>3. CASE \E j \in ActiveHeals(s) : Finish(s, j, {j})
  BY <1>1, <1>3, FinishKeeps DEF ActiveHeals
<1> QED  BY <1>2, <1>3 DEF HealAnswered

LEMMA AskScopeKeeps ==
  ASSUME IInv, NEW s \in Submitter, AskScope(s)
  PROVE  IInv'
<1> DEFINE t == tx[s]
           u == [t EXCEPT !.step = "overlap", !.want = {OverlapScope(Head(t.todo), t.parent)}]
<1>1. /\ t.step = "lookup" /\ t.want = {} /\ Policy(Head(t.todo).kind) # "allow" /\ Set(s, u)
      /\ UNCHANGED <<jobs, fate, version, calls>>
  BY DEF AskScope, Ready, Current
<1>2. \A j \in jobs \cup t.new : j.key # Head(t.todo).key
  BY DEF AskScope, WithKey, Seen, Current
<1>3. Local(u) /\ Outside(u, jobs, fate) /\ u.locks = t.locks /\ u.new = t.new
  BY <1>1, <1>2, SessionFacts, ScopeSession
<1> HIDE DEF u
<1> QED  BY <1>1, <1>3, SessionFacts, QuietStep

-----------------------------------------------------------------------------
(* Creation. *)

\* A key that is, or derives from, one of these locks.
Held(key, owned) == \E root \in owned : RootKey(root) /\ (key = root \/ Under(key, root))

LEMMA HeldApart ==
  ASSUME NEW key, NEW L, NEW M, Held(key, L), Held(key, M)
  PROVE  L \cap M # {}
<1>1. PICK root \in L : RootKey(root) /\ (key = root \/ Under(key, root))
  BY DEF Held
<1>2. PICK other \in M : RootKey(other) /\ (key = other \/ Under(key, other))
  BY DEF Held
<1>3. root = other
  BY <1>1, <1>2, KeyShapes
<1> QED  BY <1>3

\* Locks are no keys but when a key was waited for.
LEMMA BatchKeyHeld ==
  ASSUME NEW t, Local(t), t.want = {} \/ t.parent # 0 \/ t.step = "overlap", InBatch(t)
  PROVE  RootKey(t.batch.key) /\ t.batch.key \in t.locks
<1>1. RootKey(t.batch.key) /\ t.batch.key \in Claims(t)
  BY DEF Local, Batched
<1>2. t.batch.key \notin t.want
  BY <1>1 DEF Local, Locked
<1> QED  BY <1>1, <1>2 DEF Claims

LEMMA RowHeld ==
  ASSUME NEW t, Local(t), NEW j \in t.new
  PROVE  Held(j.key, t.locks)
<1>1. CASE j.kind \in BatchKind
  <2>1. t.parent # 0
    BY <1>1 DEF Local, Inserted
  <2>2. j.key = t.batch.key
    BY <1>1, <2>1 DEF Local, Batched, Family
  <2> QED  BY <2>1, <2>2, BatchKeyHeld DEF Held, InBatch
<1>2. CASE j.kind \notin BatchKind
  <2>1. Owns(t, t.locks, j.key)
    BY <1>2 DEF Local, Inserted, ChildRow
  <2>2. InBatch(t) => RootKey(t.batch.key) /\ t.batch.key \in t.locks
    BY BatchKeyHeld DEF Local, Inserted, Course
  <2> QED  BY <2>1, <2>2 DEF Owns, Held
<1> QED  BY <1>1, <1>2

LEMMA AskedHeld ==
  ASSUME NEW t, Local(t), t.step \in {"lookup", "overlap"}, t.want = {} \/ t.step = "overlap"
  PROVE  Held(Head(t.todo).key, t.locks)
<1>1. t.todo \in Seq(Range(t.todo)) /\ t.todo # <<>>
  BY DEF Local, Asked, Course
<1>2. Head(t.todo) = t.todo[1] /\ 1 \in DOMAIN t.todo
  BY <1>1
<1>3. Owns(t, Claims(t), Head(t.todo).key)
  BY <1>2 DEF Local, Asked
<1>4. CASE InBatch(t)
  BY <1>3, <1>4, BatchKeyHeld DEF Owns, Held
<1>5. CASE ~InBatch(t)
  <2>1. RootKey(Head(t.todo).key) /\ Head(t.todo).key \in Claims(t)
    BY <1>3, <1>5 DEF Owns
  <2>2. Head(t.todo).key \notin t.want
    BY <2>1 DEF Local, Locked
  <2> QED  BY <2>1, <2>2 DEF Claims, Held
<1> QED  BY <1>4, <1>5

LEMMA DistinctMore ==
  ASSUME NEW A, NEW F, Distinct(A, F), NEW r, RowOK(r),
         \A j \in A : j.id # r.id /\ j.key # r.key,
         \A j \in A : F[j.id] = "active" /\ ~j.retry /\ ~r.retry => ~Same(j, r) /\ ~Same(r, j)
  PROVE  Distinct(A \cup {r}, F)
BY DEF Distinct

\* A row whose key s holds meets the others' rows only where s can see them.
LEMMA KeyIsNew ==
  ASSUME IInv, NEW s \in Submitter, NEW key, Held(key, tx[s].locks),
         \A j \in Seen(s) : j.key # key
  PROVE  \A j \in jobs \cup NewRows : j.key # key
<1> SUFFICES ASSUME NEW u \in Submitter \ {s}, NEW j \in tx[u].new, j.key = key PROVE FALSE
  BY DEF Seen, NewRows
<1>1. Held(key, tx[u].locks)
  BY SessionFacts, RowHeld
<1> QED  BY <1>1, HeldApart DEF IInv, Apart

LEMMA NewIdFacts ==
  ASSUME Room
  PROVE  NewId \in Id /\ \A j \in jobs \cup NewRows : j.id # NewId
BY DEF Room, NewId

\* A row of s is told from the others' rows by its number.
LEMMA NewRowApart ==
  ASSUME IInv, NEW s \in Submitter, NEW r, \A j \in jobs \cup NewRows : j.id # r.id
  PROVE  /\ r \notin jobs /\ r \notin tx[s].new
         /\ \A u \in Submitter \ {s} : (tx[s].new \cup {r}) \cap tx[u].new = {}
BY DEF IInv, Apart, NewRows

LEMMA CreateKeeps ==
  ASSUME IInv, NEW s \in Submitter, NEW rows, rows \subseteq Id,
         tx[s].step \in {"lookup", "overlap"}, tx[s].want = {},
         Policy(Current(s).kind) # "allow" => tx[s].step = "overlap",
         tx[s].parent # 0 => rows = {},
         \A j \in Seen(s) : j.key # Current(s).key,
         \A j \in Seen(s) : fate[j.id] = "active" => 
            LET r == Row(NewId, Current(s), tx[s].parent, 0, FALSE) IN ~Same(j, r),
         Create(s, Current(s), rows)
  PROVE  IInv'
<1> DEFINE t == tx[s]
           intent == Current(s)
           r == Row(NewId, intent, t.parent, 0, FALSE)
           u == Advance([t EXCEPT !.new = t.new \cup {r}, !.rows = t.rows \cup rows])
<1>1. Set(s, u) /\ UNCHANGED <<jobs, fate, version, calls>> /\ Room
  BY DEF Create
<1>2. Local(t) /\ Outside(t, jobs, fate) /\ Fields(t) /\ t.todo \in Seq(Range(t.todo)) /\ t.todo # <<>>
  BY SessionFacts DEF Local, Asked, Course
<1>3. intent = Head(t.todo) /\ intent.kind \in WorkKind
  <2>1. Head(t.todo) = t.todo[1] /\ 1 \in DOMAIN t.todo  BY <1>2
  <2> QED  BY <1>2, <2>1 DEF Local, Asked, Current
<1>4. /\ r.id = NewId /\ r.kind = intent.kind /\ r.subject = intent.subject /\ r.body = intent.body
      /\ r.key = intent.key /\ r.parent = t.parent /\ r.version = version /\ r.total = 0
      /\ r.retry = FALSE
  BY DEF Row
<1> HIDE DEF r
<1>5. r.id \in Id /\ \A j \in jobs \cup NewRows : j.id # r.id
  BY <1>1, <1>4, NewIdFacts
<1>6. \A j \in jobs \cup NewRows : j.key # r.key
  BY <1>2, <1>3, <1>4, AskedHeld, KeyIsNew
<1>7. /\ Fields(u) /\ u.todo = Tail(t.todo) /\ u.locks = t.locks /\ u.want = {}
      /\ u.step = IF Len(t.todo) = 1 THEN "commit" ELSE "lookup"
      /\ u.batch = t.batch /\ u.parent = t.parent /\ u.new = t.new \cup {r}
      /\ u.rows = t.rows \cup rows /\ u.active = t.active
  <2>1. Len(t.todo) = 1 => Tail(t.todo) = <<>>
    BY <1>2, TailFacts
  <2> QED  BY <1>2, <2>1 DEF Advance, Fields
<1> HIDE DEF u
<1>8. t.rows \subseteq Id /\ t.parent \in Id \cup {0}
  <2>1. t.rows \subseteq Id  BY <1>2 DEF Local, Course
  <2>2. t.parent # 0 => \E p \in t.new : p.id = t.parent
    BY <1>2 DEF Local, Batched, Family
  <2> QED  BY <2>1, <2>2, SeenRows
<1>9. r \notin t.new
  BY <1>5, NewRowApart
<1>10. Local(u)
  BY <1>2, <1>3, <1>4, <1>7, <1>8, <1>9, CreatedSession
<1>11. Outside(u, jobs, fate)
  <2>1. u.new \cap jobs = {}
    BY <1>2, <1>5, <1>7, NewRowApart DEF Outside
  <2>2. u.step # "commit" => t.parent # 0 /\ u.rows = t.rows
    BY <1>2, <1>7 DEF Local, Course
  <2>3. u.step # "commit" => \A i \in u.rows :
           (\E p \in jobs : p.kind \in BatchKind /\ p.id = i) \/ (\E c \in u.new : c.id = i)
    BY <1>2, <1>7, <2>2 DEF Outside
  <2>4. Claims(u) \subseteq Claims(t) /\ (HealOpen(u) => HealOpen(t)) /\ u.step # "overlap"
    BY <1>7 DEF Claims, HealOpen
  <2> QED  BY <1>2, <1>7, <2>1, <2>3, <2>4 DEF Outside
<1>12. \A v \in Submitter \ {s} : u.locks \cap tx[v].locks = {} /\ u.new \cap tx[v].new = {}
  BY <1>5, <1>7, NewRowApart DEF IInv, Apart
<1>13. ASSUME NEW j \in jobs \cup NewRows, fate[j.id] = "active", ~j.retry, Same(j, r)
       PROVE  FALSE
  <2>1. j \notin Seen(s)
    BY <1>13 DEF r
  <2>2. PICK v \in Submitter \ {s} : j \in tx[v].new
    BY <2>1 DEF Seen, NewRows
  <2>3. /\ j.kind \notin BatchKind /\ Policy(j.kind) # "allow"
        /\ j.kind = r.kind /\ j.subject = r.subject /\ j.parent = r.parent
    BY <1>13 DEF Same
  <2>4. OverlapScope(j, j.parent) \in tx[v].locks
    BY <2>2, <2>3, SessionFacts DEF Local, Inserted, ChildRow
  <2>5. OverlapScope(intent, t.parent) \in t.locks
    BY <1>2, <1>3, <1>4, <2>3 DEF Local, Locked, Claims
  <2>6. OverlapScope(j, j.parent) = OverlapScope(intent, t.parent)
    BY <1>4, <2>3 DEF OverlapScope
  <2> QED  BY <2>2, <2>4, <2>5, <2>6 DEF IInv, Apart
<1>14. \A j : Same(r, j) => Same(j, r)
  BY DEF Same
<1>15. RowOK(r)
  <2>1. version \in 1..MaxVersion  BY DEF IInv
  <2>2. r.id \in Id /\ r.kind \in BatchKind \cup WorkKind  BY <1>3, <1>4, <1>5
  <2>3. r.parent \in Id \cup {0} /\ r.version \in 1..MaxVersion  BY <1>4, <1>8, <2>1
  <2>4. r.total \in Nat  BY <1>4
  <2>5. r.retry \in BOOLEAN  BY <1>4, Zenon
  <2> QED  BY <2>2, <2>3, <2>4, <2>5, Zenon DEF RowOK
<1>16. Distinct(jobs \cup NewRows \cup {r}, fate)
  BY <1>5, <1>6, <1>13, <1>14, <1>15, DistinctMore DEF IInv
<1>17. Distinct(jobs \cup NewRows \cup u.new, fate)
  <2>1. jobs \cup NewRows \cup u.new = jobs \cup NewRows \cup {r}
    BY <1>7 DEF NewRows
  <2> QED  BY <1>16, <2>1
<1> QED  BY <1>1, <1>10, <1>11, <1>12, <1>17, SessionFacts, OneStep

LEMMA CreateAllowedKeeps ==
  ASSUME IInv, NEW s \in Submitter, CreateAllowed(s)
  PROVE  IInv'
<1>1. /\ tx[s].step = "lookup" /\ tx[s].want = {} /\ WithKey(s, Current(s).key) = {}
      /\ Policy(Current(s).kind) = "allow" /\ Create(s, Current(s), {})
  BY DEF CreateAllowed, Ready
<1>2. \A j \in Seen(s) : j.key # Current(s).key
  BY <1>1 DEF WithKey
<1>3. \A j : ~Same(j, Row(NewId, Current(s), tx[s].parent, 0, FALSE))
  BY <1>1 DEF Same, Row
<1> QED  BY <1>1, <1>2, <1>3, CreateKeeps

LEMMA CreateNewKeeps ==
  ASSUME IInv, NEW s \in Submitter, CreateNew(s)
  PROVE  IInv'
<1> DEFINE found == Overlaps(s, Current(s))
           r == Row(NewId, Current(s), tx[s].parent, 0, FALSE)
<1>1. /\ tx[s].step = "overlap" /\ tx[s].want = {} /\ Equivalent(s, Current(s)) = {}
      /\ found = {} \/ Policy(Current(s).kind) # "reject_conflict"
  BY DEF CreateNew, Ready
<1>2. CASE Unresolved(s, Current(s))
  BY <1>2, RollBackKeeps DEF Unresolved
<1>3. CASE Create(s, Current(s), LockedRows(found))
  <2>1. LockedRows(found) \subseteq Id /\ (tx[s].parent # 0 => LockedRows(found) = {})
    BY <1>1, OverlapFacts DEF LockedRows
  <2>2. \A j \in Seen(s) : j.key # Current(s).key
    BY <1>1, SessionFacts DEF Outside, Seen, Current
  <2>3. ASSUME NEW j \in Seen(s), fate[j.id] = "active", Same(j, r) PROVE FALSE
    <3>1. /\ r.kind = Current(s).kind /\ r.subject = Current(s).subject
          /\ r.body = Current(s).body /\ r.parent = tx[s].parent /\ r.version = version
      BY DEF Row
    <3> HIDE DEF r
    <3>2. /\ j.kind = Current(s).kind /\ j.subject = Current(s).subject
          /\ j.parent = tx[s].parent /\ j.kind \notin BatchKind /\ Policy(j.kind) # "allow"
          /\ Policy(j.kind) = "coalesce_equivalent" => j.body = Current(s).body /\ j.version = version
      BY <2>3, <3>1 DEF Same
    <3>3. j \in found
      BY <2>3, <3>2 DEF Overlaps, Over
    <3>4. Policy(j.kind) = "coalesce_equivalent"
      BY <1>1, <3>2, <3>3, Kinds
    <3>5. j \in Equivalent(s, Current(s))
      BY <3>2, <3>3, <3>4 DEF Equivalent
    <3> QED  BY <1>1, <3>5
  <2> QED  BY <1>1, <1>3, <2>1, <2>2, <2>3, CreateKeeps
<1> QED  BY <1>2, <1>3 DEF CreateNew

LEMMA RefusalKeeps ==
  ASSUME IInv, NEW s \in Submitter, Conflict(s) \/ Inconsistent(s)
  PROVE  IInv'
BY RollBackKeeps DEF Conflict, Inconsistent

LEMMA CreateParentKeeps ==
  ASSUME IInv, NEW s \in Submitter, CreateParent(s)
  PROVE  IInv'
<1> DEFINE t == tx[s]
           n == Len(t.todo)
           p == Row(NewId, t.batch, 0, n, FALSE)
           u == [t EXCEPT !.parent = NewId, !.new = {p},
                          !.step = IF n = 0 THEN "commit" ELSE "lookup"]
<1>1. /\ t.step = "parent" /\ t.want = {} /\ WithKey(s, t.batch.key) = {} /\ Room
      /\ Set(s, u) /\ UNCHANGED <<jobs, fate, version, calls>>
  BY DEF CreateParent, Ready
<1>2. Local(t) /\ Outside(t, jobs, fate) /\ Fields(t) /\ t.todo \in Seq(Range(t.todo))
  BY SessionFacts DEF Local, Asked
<1>3. t.new = {} /\ t.parent = 0
  BY <1>1, <1>2 DEF Local, Course, Inserted
<1>4. /\ p.id = NewId /\ p.kind = t.batch.kind /\ p.key = t.batch.key /\ p.parent = 0
      /\ p.version = version /\ p.total = n /\ p.retry = FALSE
  BY DEF Row
<1> HIDE DEF p
<1>5. p.id \in Id /\ \A j \in jobs \cup NewRows : j.id # p.id
  BY <1>1, <1>4, NewIdFacts
<1>6. t.batch.kind \in BatchKind /\ RootKey(t.batch.key) /\ t.batch.key \in t.locks
  BY <1>1, <1>2 DEF Local, Batched, InBatch, Claims
<1>7. \A j \in jobs \cup NewRows : j.key # p.key
  <2>1. Held(p.key, t.locks)
    BY <1>4, <1>6 DEF Held
  <2>2. \A j \in Seen(s) : j.key # p.key
    BY <1>1, <1>4 DEF WithKey
  <2> QED  BY <2>1, <2>2, KeyIsNew
<1>8. /\ Fields(u) /\ u.todo = t.todo /\ u.locks = t.locks /\ u.want = {}
      /\ u.step = (IF n = 0 THEN "commit" ELSE "lookup")
      /\ u.batch = t.batch /\ u.parent = p.id /\ u.new = {p}
      /\ u.rows = t.rows /\ u.active = t.active
  BY <1>1, <1>2, <1>4 DEF Fields
<1> HIDE DEF u
<1>9. p.id # 0
  BY <1>5, JobSubmissionAssumption DEF Id
<1>10. Local(u)
  BY <1>1, <1>2, <1>4, <1>8, <1>9, ParentCreated
<1>11. Outside(u, jobs, fate)
  <2>1. u.new \cap jobs = {}
    BY <1>5, <1>8
  <2>2. \A i \in u.rows : \E q \in jobs : q.kind \in BatchKind /\ q.id = i
    BY <1>1, <1>2, <1>3, <1>8 DEF Outside
  <2>3. Claims(u) \subseteq Claims(t) /\ (HealOpen(u) => HealOpen(t)) /\ u.step # "overlap"
    BY <1>1, <1>8 DEF Claims, HealOpen
  <2> QED  BY <1>2, <1>8, <2>1, <2>2, <2>3 DEF Outside
<1>12. \A v \in Submitter \ {s} : u.locks \cap tx[v].locks = {} /\ u.new \cap tx[v].new = {}
  BY <1>5, <1>8, NewRowApart DEF IInv, Apart
<1>13. \A j : ~Same(j, p) /\ ~Same(p, j)
  BY <1>4, <1>6 DEF Same
<1>14. RowOK(p)
  <2>1. n \in Nat  BY <1>2
  <2> QED  BY <1>4, <1>5, <1>6, <2>1 DEF RowOK, IInv
<1>15. Distinct(jobs \cup NewRows \cup u.new, fate)
  BY <1>5, <1>7, <1>8, <1>13, <1>14, DistinctMore DEF IInv
<1> QED  BY <1>1, <1>10, <1>11, <1>12, <1>15, SessionFacts, OneStep

LEMMA HealDiscoversKeeps ==
  ASSUME IInv, NEW s \in Submitter, HealDiscovers(s)
  PROVE  IInv'
<1> DEFINE t == tx[s]
           key == t.batch.key
           todo(list) == [i \in DOMAIN list |->
                            Intent("poster_restore", list[i], None, ChildKey(key, list[i]))]
<1>1. PICK found \in SUBSET Missing : \E list \in Listings(found) :
        Set(s, [t EXCEPT !.step = "parent", !.want = {key}, !.todo = todo(list)])
  BY DEF HealDiscovers, KeyLocks
<1>2. PICK list \in Listings(found) :
        Set(s, [t EXCEPT !.step = "parent", !.want = {key}, !.todo = todo(list)])
  BY <1>1
<1>3. /\ t.step = "heal" /\ t.want = {} /\ ActiveHeals(s) = {}
      /\ UNCHANGED <<jobs, fate, version, calls>>
  BY DEF HealDiscovers, Ready
<1>4. Local(t) /\ Outside(t, jobs, fate) /\ Fields(t)
  BY SessionFacts
<1>5. /\ t.locks = {HealLock} /\ IsHeal(t.batch) /\ RootKey(key) /\ Len(key) = 3
      /\ t.parent = 0 /\ t.new = {} /\ t.rows \subseteq Id
  BY <1>3, <1>4 DEF Local, Locked, Claims, Course, Inserted
<1>6. /\ Cardinality(found) \in Nat /\ DOMAIN list = 1..Cardinality(found)
      /\ \A i, k \in DOMAIN list : i # k => list[i] # list[k]
  <2>1. IsFiniteSet(found)  BY FS_Subset, JobSubmissionAssumption
  <2> QED  BY <2>1, ListingFacts
<1> DEFINE asked == todo(list)
<1>7. /\ DOMAIN asked = 1..Cardinality(found)
      /\ asked = [i \in 1..Cardinality(found) |-> asked[i]]
      /\ \A i \in DOMAIN list : /\ asked[i].kind = "poster_restore" /\ asked[i].subject = list[i]
                                /\ asked[i].key = ChildKey(key, list[i])
  BY <1>6 DEF Intent
<1> DEFINE u == [t EXCEPT !.step = "parent", !.want = {key}, !.todo = asked]
<1>8. Set(s, u)
  BY <1>2
<1> HIDE DEF asked
<1>9. asked \in Seq(Range(asked))
  BY <1>6, <1>7, MappedSeq
<1>10. /\ Fields(u) /\ u.step = "parent" /\ u.locks = t.locks /\ u.want = {key} /\ u.rows = t.rows
       /\ u.todo = asked /\ u.batch = t.batch /\ u.parent = 0
       /\ u.new = {} /\ u.active = t.active
  BY <1>4, <1>5 DEF Fields
<1> HIDE DEF u
<1>11. "poster_restore" \in WorkKind /\ "poster_heal" \in BatchKind
  BY DEF WorkKind, UnsafeKind, BatchKind
<1>12. \A i \in DOMAIN asked :
         /\ asked[i].kind \in WorkKind /\ Under(asked[i].key, key)
         /\ \A k \in DOMAIN asked \ {i} : asked[k].subject # asked[i].subject
  BY <1>6, <1>7, <1>11, MadeKeys
<1>13. t.batch.kind \in BatchKind
  BY <1>5, <1>11 DEF IsHeal
<1>14. Local(u)
  <2>1. u.batch.key = key  BY <1>10
  <2> HIDE DEF key
  <2> QED  BY <1>5, <1>9, <1>10, <1>12, <1>13, <2>1, ParentSession
<1>15. \A j \in jobs : IsHeal(j) => Ended(j, jobs, fate)
  BY <1>3, OverIsEnded DEF ActiveHeals, Seen, IsHeal
<1>16. Outside(u, jobs, fate)
  <2>1. Claims(u) = Claims(t) \cup {key} /\ ~IsRetry(key)
    BY <1>3, <1>5, <1>10 DEF Claims, IsRetry
  <2> HIDE DEF key
  <2>2. \A l \in Claims(u) : IsRetry(l) => \E p \in jobs : p.kind \in BatchKind /\ p.id = l[2]
    BY <1>4, <2>1 DEF Outside
  <2>3. \A i \in u.rows : \E p \in jobs : p.kind \in BatchKind /\ p.id = i
    BY <1>3, <1>4, <1>5, <1>10 DEF Outside
  <2>4. \A j \in u.active : j.id \in u.rows /\ ~Ended(j, jobs, fate)
    BY <1>4, <1>10 DEF Outside
  <2> QED  BY <1>10, <1>15, <2>2, <2>3, <2>4 DEF Outside
<1> QED  BY <1>3, <1>5, <1>8, <1>10, <1>14, <1>16, SessionFacts, QuietStep

-----------------------------------------------------------------------------
(* Commits, and what others do to committed rows. *)

\* A scheduled heal that is being created is its transaction's parent.
LEMMA HealRow ==
  ASSUME NEW t, Local(t), NEW j \in t.new, j.kind \in BatchKind
  PROVE  t.parent # 0 /\ Family(t, j) /\ (IsHeal(j) => HealOpen(t) /\ HealLock \in t.locks)
<1>1. t.parent # 0
  BY DEF Local, Inserted
<1>2. Family(t, j)
  BY <1>1 DEF Local, Batched, Family
<1>3. IsHeal(j) => HealOpen(t)
  BY <1>2 DEF Family, HealOpen, IsHeal, Scheduled
<1> QED  BY <1>1, <1>2, <1>3 DEF Local, Locked

LEMMA CommitRows ==
  ASSUME IInv, NEW s \in Submitter
  PROVE  LET new == tx[s].new
             J   == jobs \cup new
         IN  /\ \A p \in jobs : Children(p.id, J) = Children(p.id, jobs)
             /\ \A p \in jobs : \A F : Ended(p, J, F) = Ended(p, jobs, F)
             /\ \A p \in new : p.kind \in BatchKind => Children(p.id, J) = new \ {p}
<1> DEFINE t == tx[s]
           J == jobs \cup t.new
<1>1. Local(t) /\ t.new \cap jobs = {}
  BY SessionFacts DEF Outside
<1>2. \A i, k \in J : i.id = k.id => i = k
  BY SeenRows DEF IInv, Distinct
<1>3. \A p \in jobs : Children(p.id, J) = Children(p.id, jobs)
  <2> SUFFICES ASSUME NEW p \in jobs, NEW c \in t.new, c.parent = p.id PROVE FALSE
    BY DEF Children
  <2>1. p.id # 0  BY SeenRows
  <2>2. c.kind \notin BatchKind  BY <1>1, <2>1, HealRow DEF Family
  <2>3. c.parent = t.parent  BY <1>1, <2>2 DEF Local, Inserted, ChildRow
  <2>4. PICK q \in t.new : q.id = t.parent  BY <1>1, <2>1, <2>3 DEF Local, Batched, Family
  <2> QED  BY <1>1, <1>2, <2>3, <2>4
<1>4. \A p \in jobs : \A F : Ended(p, J, F) = Ended(p, jobs, F)
  BY <1>3 DEF Ended
<1>5. ASSUME NEW p \in t.new, p.kind \in BatchKind PROVE Children(p.id, J) = t.new \ {p}
  <2>1. Family(t, p) /\ t.parent # 0  BY <1>1, <1>5, HealRow
  <2>2. \A c \in t.new \ {p} : c.parent = p.id
    BY <1>1, <2>1 DEF Family, Local, Inserted, ChildRow
  <2>3. p.parent # p.id  BY <2>1 DEF Family
  <2>4. ASSUME NEW c \in jobs, c.parent = p.id PROVE FALSE
    <3>1. PICK q \in jobs : q.id = c.parent  BY <2>1, <2>4 DEF IInv, Table, Family
    <3> QED  BY <1>1, <1>2, <2>4, <3>1
  <2> QED  BY <2>2, <2>3, <2>4 DEF Children
<1> QED  BY <1>3, <1>4, <1>5

\* More children keep a parent from being over.
LEMMA EndedFewer ==
  ASSUME NEW J, NEW K, J \subseteq K, NEW F, NEW j, Ended(j, K, F)
  PROVE  Ended(j, J, F)
BY DEF Ended, Children

\* What another session knows still holds when rows are added to the table.
LEMMA OutsideMore ==
  ASSUME NEW t, NEW J, NEW K, J \subseteq K, NEW F, Outside(t, J, F),
         t.new \cap K = {},
         t.step = "overlap" => \A j \in K \ J : j.key # Head(t.todo).key,
         HealOpen(t) => \A j \in K : IsHeal(j) => Ended(j, K, F)
  PROVE  Outside(t, K, F)
<1>1. t.step = "overlap" => \A j \in K \cup t.new : j.key # Head(t.todo).key
  BY DEF Outside
<1>2. \A j \in t.active : j.id \in t.rows /\ ~Ended(j, K, F)
  BY EndedFewer DEF Outside
<1>3. t.step # "commit" =>
       \A i \in t.rows : (\E p \in K : p.kind \in BatchKind /\ p.id = i) \/ (\E c \in t.new : c.id = i)
  BY DEF Outside
<1>4. \A l \in Claims(t) : IsRetry(l) => \E p \in K : p.kind \in BatchKind /\ p.id = l[2]
  BY DEF Outside
<1> QED  BY <1>1, <1>2, <1>3, <1>4 DEF Outside

\* The parent that is committed has all its children.
LEMMA CommitWhole ==
  ASSUME IInv, NEW s \in Submitter, tx[s].step = "commit", Consistent(s),
         NEW p \in tx[s].new, p.kind \in BatchKind
  PROVE  p.parent = 0 /\ ~p.retry /\ Whole(p, jobs \cup tx[s].new)
<1> DEFINE t == tx[s]
           J == jobs \cup t.new
<1>1. Local(t) /\ Family(t, p) /\ t.parent # 0
  BY SessionFacts, HealRow
<1>2. Own(p, J) = t.new \ {p}
  <2>1. Children(p.id, J) = t.new \ {p}  BY CommitRows
  <2>2. \A c \in t.new \ {p} : ~c.retry  BY <1>1 DEF Family, Local, Inserted, ChildRow
  <2> QED  BY <2>1, <2>2 DEF Own
<1>3. Cardinality(t.new \ {p}) = p.total
  <2>1. t.todo = <<>>  BY <1>1 DEF Local, Course
  <2>2. Len(t.todo) = 0  BY <2>1
  <2>3. Cardinality(t.new \ {p}) \in Nat
    BY <1>1, FS_RemoveElement, FS_CardinalityType DEF Local, Inserted
  <2> QED  BY <1>1, <2>2, <2>3 DEF Family
<1>4. \A c \in t.new \ {p} : c.version = p.version
  BY <1>1 DEF Consistent, Family
<1>5. \A c, d \in t.new \ {p} : c.subject = d.subject => c = d
  BY <1>1 DEF Family
<1> QED  BY <1>1, <1>2, <1>3, <1>4, <1>5 DEF Whole, Family

\* Two scheduled heals are not open at a time.
LEMMA OneHeal ==
  ASSUME IInv, NEW s \in Submitter, NEW u \in Submitter \ {s}, HealOpen(tx[s])
  PROVE  ~HealOpen(tx[u])
BY SessionFacts DEF IInv, Apart, Local, Locked

LEMMA CommitKeeps ==
  ASSUME IInv, NEW s \in Submitter, Commit(s)
  PROVE  IInv'
<1> DEFINE t == tx[s]
           J == jobs \cup t.new
<1>1. /\ t.step = "commit" /\ Consistent(s) /\ jobs' = J /\ Set(s, Idle)
      /\ UNCHANGED <<fate, version, calls>>
  BY DEF Commit
<1>2. Local(t) /\ Outside(t, jobs, fate)
  BY SessionFacts
<1>3. /\ tx' = [u \in Submitter |-> tx'[u]]
      /\ tx'[s] = Idle /\ \A u \in Submitter \ {s} : tx'[u] = tx[u]
  BY <1>1 DEF IInv, Sessions, Set
<1>4. /\ \A p \in jobs : Children(p.id, J) = Children(p.id, jobs)
      /\ \A p \in jobs : Ended(p, J, fate) = Ended(p, jobs, fate)
  BY CommitRows
<1>5. ASSUME NEW u \in Submitter \ {s} PROVE Outside(tx[u], J, fate)
  <2>1. Local(tx[u]) /\ Outside(tx[u], jobs, fate)
    BY SessionFacts
  <2>2. tx[u].new \cap J = {}
    BY <2>1 DEF Outside, IInv, Apart
  <2>3. ASSUME tx[u].step = "overlap", NEW j \in t.new, j.key = Head(tx[u].todo).key PROVE FALSE
    <3>1. Held(j.key, t.locks)  BY <1>2, RowHeld
    <3>2. Held(j.key, tx[u].locks)  BY <2>1, <2>3, AskedHeld
    <3> QED  BY <3>1, <3>2, HeldApart DEF IInv, Apart
  <2>4. ASSUME HealOpen(tx[u]), NEW j \in J, IsHeal(j) PROVE Ended(j, J, fate)
    <3>1. j.kind \in BatchKind  BY <2>4 DEF IsHeal, BatchKind
    <3>2. j \in jobs  BY <1>2, <2>4, <3>1, HealRow, OneHeal
    <3> QED  BY <1>4, <2>1, <2>4, <3>2 DEF Outside
  <2> QED  BY <2>1, <2>2, <2>3, <2>4, OutsideMore
<1>6. Sessions'
  <2> SUFFICES ASSUME NEW u \in Submitter PROVE Local(tx'[u]) /\ Outside(tx'[u], J, fate)
    BY <1>1, <1>3 DEF Sessions
  <2>1. CASE u = s
    BY <1>3, <2>1, IdleSession
  <2>2. CASE u # s
    BY <1>3, <1>5, <2>2, SessionFacts
  <2> QED  BY <2>1, <2>2
<1>7. Apart'
  BY <1>3, IdleFields DEF IInv, Apart
<1>8. Table(J, fate)
  <2>1. IsFiniteSet(J)
    BY <1>2, FS_Union DEF IInv, Table, Local, Inserted
  <2>2. /\ fate \in [Id -> {"active", "done", "failed"}]
        /\ \A i \in Id : fate[i] # "active" => \E j \in J : j.id = i /\ j.kind \notin BatchKind
    BY DEF IInv, Table
  <2>3. ASSUME NEW j \in J, j.parent # 0 PROVE \E p \in J : p.id = j.parent /\ p.kind \in BatchKind
    <3>1. CASE j \in jobs
      BY <2>3, <3>1 DEF IInv, Table
    <3>2. CASE j \in t.new
      <4>1. j.kind \notin BatchKind  BY <1>2, <2>3, <3>2, HealRow DEF Family
      <4>2. j.parent = t.parent  BY <1>2, <3>2, <4>1 DEF Local, Inserted, ChildRow
      <4>3. t.batch.kind \in BatchKind  BY <1>2, <2>3, <4>2 DEF Local, Batched, InBatch
      <4>4. PICK p \in t.new : Family(t, p)  BY <1>2, <2>3, <4>2 DEF Local, Batched
      <4> QED  BY <4>2, <4>3, <4>4 DEF Family
    <3> QED  BY <3>1, <3>2
  <2>4. ASSUME NEW j \in J, j.kind \in BatchKind PROVE j.parent = 0 /\ ~j.retry /\ Whole(j, J)
    <3>1. CASE j \in jobs
      <4>1. j.parent = 0 /\ ~j.retry /\ Whole(j, jobs)  BY <2>4, <3>1 DEF IInv, Table
      <4>2. Own(j, J) = Own(j, jobs)  BY <1>4, <3>1 DEF Own
      <4> QED  BY <4>1, <4>2 DEF Whole
    <3>2. CASE j \in t.new
      BY <1>1, <2>4, <3>2, CommitWhole
    <3> QED  BY <3>1, <3>2
  <2>5. ASSUME NEW j \in J, j.retry, j.parent # 0 PROVE fate[j.id] = "active"
    <3>1. j \notin t.new  BY <1>2, <2>5, HealRow DEF Family, Local, Inserted, ChildRow
    <3> QED  BY <2>5, <3>1 DEF IInv, Table
  <2>6. ASSUME NEW j \in J, NEW k \in J, IsHeal(j), IsHeal(k), ~Ended(j, J, fate), ~Ended(k, J, fate)
        PROVE  j = k
    <3>1. j.kind \in BatchKind /\ k.kind \in BatchKind  BY <2>6 DEF IsHeal, BatchKind
    <3>2. ASSUME NEW h \in jobs, IsHeal(h), ~Ended(h, J, fate) PROVE ~HealOpen(t)
      BY <1>2, <1>4, <3>2 DEF Outside
    <3>3. CASE j \in jobs /\ k \in jobs
      BY <1>4, <2>6, <3>3 DEF IInv, Table
    <3>4. CASE j \in t.new
      <4>1. HealOpen(t) /\ Family(t, j)  BY <1>2, <2>6, <3>1, <3>4, HealRow
      <4>2. k \in t.new  BY <2>6, <3>2, <4>1
      <4> QED  BY <3>1, <4>1, <4>2 DEF Family
    <3>5. CASE k \in t.new
      <4>1. HealOpen(t) /\ Family(t, k)  BY <1>2, <2>6, <3>1, <3>5, HealRow
      <4>2. j \in t.new  BY <2>6, <3>2, <4>1
      <4> QED  BY <3>1, <4>1, <4>2 DEF Family
    <3> QED  BY <3>3, <3>4, <3>5
  <2> QED  BY <2>1, <2>2, <2>3, <2>4, <2>5, <2>6 DEF Table
<1>9. Distinct(jobs \cup NewRows, fate)'
  <2>1. NewRows' \subseteq NewRows /\ t.new \subseteq NewRows
    BY <1>3, IdleFields DEF NewRows
  <2>2. Distinct(J \cup NewRows', fate)
    BY <2>1, DistinctFewer DEF IInv
  <2> QED  BY <1>1, <2>2
<1> QED  BY <1>1, <1>6, <1>7, <1>8, <1>9 DEF IInv

LEMMA EndKeeps ==
  ASSUME IInv, NEW j \in jobs, NEW how \in {"done", "failed"}, End(j, how)
  PROVE  IInv'
<1>1. /\ j.kind \notin BatchKind /\ fate[j.id] = "active" /\ fate' = [fate EXCEPT ![j.id] = how]
      /\ \A p \in jobs : j.parent = p.id => Cardinality(Children(p.id, jobs)) = p.total
      /\ \A s \in Submitter : {j.id, j.parent} \cap tx[s].rows = {}
      /\ UNCHANGED <<jobs, tx, version, calls>>
  BY DEF End
<1> DEFINE F == fate'
<1>2. j.id \in Id /\ fate \in [Id -> {"active", "done", "failed"}]
  BY RowFacts DEF IInv, Table
<1>3. /\ F \in [Id -> {"active", "done", "failed"}] /\ F[j.id] # "active"
      /\ \A i \in Id \ {j.id} : F[i] = fate[i]
  BY <1>1, <1>2
<1> HIDE DEF F
<1>4. \A k \in jobs \cup NewRows : F[k.id] = "active" => fate[k.id] = "active"
  BY <1>1, <1>3, RowFacts
<1>5. \A k \in jobs \cup NewRows : k.id = j.id => k = j
  BY DEF IInv, Distinct
<1>6. \A k \in jobs : Ended(k, jobs, fate) => Ended(k, jobs, F)
  BY <1>4 DEF Ended, Children
<1>7. ASSUME NEW s \in Submitter PROVE Outside(tx[s], jobs, F)
  <2> DEFINE t == tx[s]
  <2>1. Outside(t, jobs, fate)  BY SessionFacts
  <2>2. HealOpen(t) => \A k \in jobs : IsHeal(k) => Ended(k, jobs, F)
    BY <1>6, <2>1 DEF Outside
  <2>3. ASSUME NEW k \in t.active PROVE k.id \in t.rows /\ ~Ended(k, jobs, F)
    <3>1. k.id \in t.rows /\ ~Ended(k, jobs, fate) /\ k.id \in Id
      BY <2>1, <2>3, SessionFacts DEF Outside, Local, Course
    <3>2. k.id # j.id /\ k.id # j.parent  BY <1>1, <3>1
    <3>3. CASE k.kind \notin BatchKind
      BY <1>3, <3>1, <3>2, <3>3 DEF Ended
    <3>4. CASE k.kind \in BatchKind
      <4>1. PICK c \in Children(k.id, jobs) : fate[c.id] = "active" /\ ~c.retry
        BY <3>1, <3>4 DEF Ended
      <4>2. c.id # j.id  BY <1>5, <3>2, <4>1 DEF Children
      <4>3. c.id \in Id  BY <4>1, RowFacts DEF Children
      <4>4. F[c.id] = "active"  BY <1>3, <4>1, <4>2, <4>3
      <4>5. ASSUME Ended(k, jobs, F) PROVE F[c.id] # "active" \/ c.retry
        BY <3>4, <4>1, <4>5 DEF Ended
      <4> QED  BY <3>1, <4>1, <4>4, <4>5
    <3> QED  BY <3>1, <3>3, <3>4
  <2> QED  BY <2>1, <2>2, <2>3 DEF Outside
<1>8. Sessions'
  BY <1>1, <1>7, SessionFacts DEF F, Sessions, IInv
<1>9. Apart'
  BY <1>1 DEF IInv, Apart
<1>10. Table(jobs, F)
  <2>1. ASSUME NEW i \in Id, F[i] # "active" PROVE \E k \in jobs : k.id = i /\ k.kind \notin BatchKind
    BY <1>1, <1>3, <2>1 DEF IInv, Table
  <2>2. ASSUME NEW k \in jobs, k.retry, k.parent # 0 PROVE F[k.id] = "active"
    <3>1. CASE k # j
      BY <1>3, <1>5, <2>2, <3>1, RowFacts DEF IInv, Table
    <3>2. CASE k = j
      <4>1. PICK p \in jobs : p.id = j.parent /\ p.kind \in BatchKind
        BY <2>2, <3>2 DEF IInv, Table
      <4> DEFINE C == Children(p.id, jobs)
                 O == Own(p, jobs)
      <4>2. Cardinality(C) = p.total /\ Cardinality(O) = p.total
        BY <1>1, <4>1 DEF IInv, Table, Whole
      <4>3. O \subseteq C /\ j \in C /\ j \notin O
        BY <2>2, <3>2, <4>1 DEF Own, Children
      <4>4. IsFiniteSet(C)
        BY FS_Subset DEF IInv, Table, Children
      <4> HIDE DEF C, O
      <4>5. O \subseteq C \ {j}  BY <4>3
      <4>6. IsFiniteSet(C \ {j}) /\ Cardinality(C \ {j}) = Cardinality(C) - 1 /\ Cardinality(C) \in Nat
        BY <4>3, <4>4, FS_RemoveElement, FS_CardinalityType
      <4>7. Cardinality(O) <= Cardinality(C \ {j}) /\ Cardinality(O) \in Nat
        BY <4>5, <4>6, FS_Subset, FS_CardinalityType
      <4> QED  BY <4>2, <4>6, <4>7
    <3> QED  BY <3>1, <3>2
  <2>3. ASSUME NEW k \in jobs, NEW h \in jobs, IsHeal(k), IsHeal(h), ~Ended(k, jobs, F), ~Ended(h, jobs, F)
        PROVE  k = h
    BY <1>6, <2>3 DEF IInv, Table
  <2> QED  BY <1>3, <2>1, <2>2, <2>3 DEF IInv, Table
<1>11. Distinct(jobs \cup NewRows, F)
  BY <1>4 DEF IInv, Distinct
<1>12. NewRows' = NewRows  BY <1>1 DEF NewRows
<1> QED  BY <1>1, <1>8, <1>9, <1>10, <1>11, <1>12 DEF F, IInv

LEMMA RetryByUserKeeps ==
  ASSUME IInv, NEW j \in jobs, RetryByUser(j)
  PROVE  IInv'
<1> DEFINE key == <<"retry", j.id>>
           r == Row(NewId, Intent(j.kind, j.subject, j.body, key), j.parent, 0, TRUE)
           J == jobs \cup {r}
<1>1. /\ j.kind \notin BatchKind /\ Room /\ \A k \in jobs : k.key # key
      /\ jobs' = J /\ Count /\ UNCHANGED <<fate, tx, version>>
  BY DEF RetryByUser
<1>2. /\ r.id = NewId /\ r.kind = j.kind /\ r.subject = j.subject /\ r.body = j.body
      /\ r.key = key /\ r.parent = j.parent /\ r.version = version /\ r.total = 0 /\ r.retry = TRUE
  BY DEF Row, Intent
<1> HIDE DEF r
<1>3. r.id \in Id /\ \A k \in jobs \cup NewRows : k.id # r.id
  BY <1>1, <1>2, NewIdFacts
<1>4. RootKey(key) /\ IsRetry(key) /\ key[2] = j.id
  BY MadeKeys
<1> HIDE DEF key
\* Only the retry of a batch locks a key of this form.
<1>5. ASSUME NEW s \in Submitter, Held(key, tx[s].locks) PROVE FALSE
  <2>1. key \in tx[s].locks  BY <1>4, <1>5, KeyShapes DEF Held
  <2>2. PICK p \in jobs : p.kind \in BatchKind /\ p.id = j.id
    BY <1>4, <2>1, SessionFacts DEF Outside, Claims
  <2> QED  BY <1>1, <2>2 DEF IInv, Distinct
<1>6. \A k \in jobs \cup NewRows : k.key # r.key
  BY <1>1, <1>2, <1>5, SessionFacts, RowHeld DEF NewRows
<1>7. \A k \in jobs : Own(k, J) = Own(k, jobs)
  BY <1>2 DEF Own, Children
<1>8. \A k : Ended(k, J, fate) = Ended(k, jobs, fate)
  BY <1>2 DEF Ended, Children
<1>9. ASSUME NEW s \in Submitter PROVE Outside(tx[s], J, fate)
  <2>1. Local(tx[s]) /\ Outside(tx[s], jobs, fate)  BY SessionFacts
  <2>2. tx[s].new \cap J = {}
    BY <1>3, <2>1 DEF Outside, NewRows
  <2>3. tx[s].step = "overlap" => r.key # Head(tx[s].todo).key
    BY <1>2, <1>5, <2>1, AskedHeld
  <2>4. ASSUME HealOpen(tx[s]), NEW k \in J, IsHeal(k) PROVE Ended(k, J, fate)
    <3>1. k.kind \in BatchKind  BY <2>4 DEF IsHeal, BatchKind
    <3>2. k \in jobs  BY <1>1, <1>2, <3>1
    <3> QED  BY <1>8, <2>1, <2>4, <3>2 DEF Outside
  <2> QED  BY <2>1, <2>2, <2>3, <2>4, OutsideMore
<1>10. Sessions'
  BY <1>1, <1>9, SessionFacts DEF Sessions, IInv
<1>11. Apart'
  BY <1>1 DEF IInv, Apart
<1>12. Table(J, fate)
  <2>1. IsFiniteSet(J)  BY FS_AddElement DEF IInv, Table
  <2>2. \A i \in Id : fate[i] # "active" => \E k \in J : k.id = i /\ k.kind \notin BatchKind
    BY DEF IInv, Table
  <2>3. \A k \in J : k.parent # 0 => \E p \in J : p.id = k.parent /\ p.kind \in BatchKind
    BY <1>2 DEF IInv, Table
  <2>4. ASSUME NEW k \in J, k.kind \in BatchKind PROVE k.parent = 0 /\ ~k.retry /\ Whole(k, J)
    <3>1. k \in jobs  BY <1>1, <1>2, <2>4
    <3>2. k.parent = 0 /\ ~k.retry /\ Whole(k, jobs)  BY <2>4, <3>1 DEF IInv, Table
    <3> QED  BY <1>7, <3>1, <3>2 DEF Whole
  <2>5. fate[r.id] = "active"
    BY <1>3 DEF IInv, Table
  <2>6. \A k \in J : k.retry /\ k.parent # 0 => fate[k.id] = "active"
    BY <2>5 DEF IInv, Table
  <2>7. ~IsHeal(r)
    BY <1>1, <1>2 DEF IsHeal, BatchKind
  <2>8. \A k, h \in J : IsHeal(k) /\ IsHeal(h) /\ ~Ended(k, J, fate) /\ ~Ended(h, J, fate) => k = h
    BY <1>8, <2>7 DEF IInv, Table
  <2> QED  BY <2>1, <2>2, <2>3, <2>4, <2>6, <2>8 DEF IInv, Table
<1>13. RowOK(r)
  <2>1. RowOK(j)  BY RowFacts
  <2>2. version \in 1..MaxVersion  BY DEF IInv
  <2>3. r.kind \in BatchKind \cup WorkKind /\ r.parent \in Id \cup {0}
    BY <1>2, <2>1, Zenon DEF RowOK
  <2>4. r.total \in Nat  BY <1>2
  <2>5. r.retry \in BOOLEAN  BY <1>2, Zenon
  <2> QED  BY <1>2, <1>3, <2>2, <2>3, <2>4, <2>5, Zenon DEF RowOK
<1>14. Distinct(jobs \cup NewRows \cup {r}, fate)
  BY <1>2, <1>3, <1>6, <1>13, DistinctMore DEF IInv
<1>15. (jobs \cup NewRows)' = jobs \cup NewRows \cup {r}
  BY <1>1 DEF NewRows
<1>16. calls' \in 0..MaxCall  BY <1>1, CountKeeps
<1> QED  BY <1>1, <1>10, <1>11, <1>12, <1>14, <1>15, <1>16 DEF IInv

LEMMA ReconfigureKeeps ==
  ASSUME IInv, Reconfigure
  PROVE  IInv'
<1>1. UNCHANGED <<jobs, fate, tx, calls>> /\ version' \in 1..MaxVersion
  BY JobSubmissionAssumption DEF IInv, Reconfigure
<1> QED  BY <1>1 DEF IInv, Sessions, Apart, NewRows

LEMMA InitInv == Init => IInv
<1> SUFFICES ASSUME Init PROVE IInv  OBVIOUS
<1>1. /\ jobs = {} /\ fate = [i \in Id |-> "active"] /\ tx = [s \in Submitter |-> Idle]
      /\ version = 1 /\ calls = 0
  BY DEF Init
<1>2. Sessions
  BY <1>1, IdleSession DEF Sessions
<1>3. Apart
  BY <1>1, IdleFields DEF Apart
<1>4. Table(jobs, fate)
  BY <1>1, FS_EmptySet DEF Table
<1>5. jobs \cup NewRows = {}
  BY <1>1, IdleFields DEF NewRows
<1>6. Distinct(jobs \cup NewRows, fate)
  BY <1>5 DEF Distinct
<1> QED  BY <1>1, <1>2, <1>3, <1>4, <1>6, JobSubmissionAssumption DEF IInv

LEMMA NextInv == IInv /\ [Next]_vars => IInv'
<1> SUFFICES ASSUME IInv, [Next]_vars PROVE IInv'  OBVIOUS
<1>1. CASE UNCHANGED vars
  BY <1>1 DEF vars, IInv, Sessions, Apart, NewRows
<1>2. ASSUME NEW s \in Submitter, SubmitterStep(s) PROVE IInv'
  BY <1>2, BeginSingleKeeps, BeginBatchKeeps, BeginRetryBatchKeeps, TakeLockKeeps, RepeatKeeps,
     CreateAllowedKeeps, AskScopeKeeps, CoalesceKeeps, CreateNewKeeps, RefusalKeeps,
     RepeatBatchKeeps, CreateParentKeeps, HealAnsweredKeeps, HealDiscoversKeeps, CommitKeeps
     DEF SubmitterStep
<1>3. CASE Next
  BY <1>2, <1>3, BeginScheduledKeeps, RetryByUserKeeps, EndKeeps, ReconfigureKeeps DEF Next
<1> QED  BY <1>1, <1>3

LEMMA AlwaysInv == Spec => []IInv
BY InitInv, NextInv, PTL DEF Spec

-----------------------------------------------------------------------------
(* Nothing is accepted twice. *)

LEMMA AnswersLast == IInv => AnswerStillActive
BY OverIsEnded, SessionFacts DEF AnswerStillActive, Outside

LEMMA OneActiveHeal ==
  ASSUME IInv, NEW j \in jobs \cup NewRows, NEW k \in jobs \cup NewRows,
         IsHeal(j), IsHeal(k), ~Over(j), ~Over(k)
  PROVE  j = k
<1>1. j.kind \in BatchKind /\ k.kind \in BatchKind
  BY DEF IsHeal, BatchKind
<1>2. ~Ended(j, jobs, fate) /\ ~Ended(k, jobs, fate)
  BY OverIsEnded
<1>3. ASSUME NEW s \in Submitter, NEW h \in tx[s].new, IsHeal(h), h.kind \in BatchKind,
             NEW i \in jobs \cup NewRows, IsHeal(i), i.kind \in BatchKind, ~Ended(i, jobs, fate)
      PROVE  h = i
  <2>1. HealOpen(tx[s]) /\ Family(tx[s], h)
    BY <1>3, HealRow, SessionFacts
  <2>2. i \notin jobs
    BY <1>3, <2>1, SessionFacts DEF Outside
  <2>3. PICK u \in Submitter : i \in tx[u].new
    BY <2>2 DEF NewRows
  <2>4. HealOpen(tx[u])
    BY <1>3, <2>3, HealRow, SessionFacts
  <2>5. u = s
    BY <2>1, <2>4, OneHeal
  <2> QED  BY <1>3, <2>1, <2>3, <2>5 DEF Family
<1>4. CASE j \in jobs /\ k \in jobs
  BY <1>2, <1>4 DEF IInv, Table
<1>5. CASE j \notin jobs
  BY <1>1, <1>2, <1>3, <1>5 DEF NewRows
<1>6. CASE k \notin jobs
  BY <1>1, <1>2, <1>3, <1>6 DEF NewRows
<1> QED  BY <1>4, <1>5, <1>6

LEMMA InvUnique == IInv => UniqueWork
<1> SUFFICES ASSUME IInv, NEW j \in All, NEW k \in All \ {j}
    PROVE  /\ j.id # k.id /\ j.key # k.key
           /\ (~Over(j) /\ ~Over(k) /\ ~j.retry /\ ~k.retry /\ j.kind = k.kind) =>
                /\ (j.subject = k.subject /\ j.parent = k.parent) =>
                     CASE j.kind \in BatchKind \/ Policy(j.kind) = "allow" -> TRUE
                       [] Policy(j.kind) = "reject_conflict" -> FALSE
                       [] OTHER -> j.body # k.body \/ j.version # k.version
                /\ j.kind = "poster_heal" => ~(Scheduled(j) /\ Scheduled(k))
  BY AnswersLast DEF UniqueWork
<1>1. All = jobs \cup NewRows  BY DEF All
<1>2. j.id # k.id /\ j.key # k.key
  BY <1>1 DEF IInv, Distinct
<1>3. ASSUME ~Over(j), ~Over(k), ~j.retry, ~k.retry, j.kind = k.kind,
             j.subject = k.subject, j.parent = k.parent,
             j.kind \notin BatchKind, Policy(j.kind) # "allow"
      PROVE  Policy(j.kind) # "reject_conflict" /\ (j.body # k.body \/ j.version # k.version)
  <2>1. fate[j.id] = "active" /\ fate[k.id] = "active"
    BY <1>3 DEF Over
  <2>2. ~Same(j, k)
    BY <1>1, <1>3, <2>1 DEF IInv, Distinct
  <2> QED  BY <1>3, <2>2, Kinds DEF Same
<1>4. ASSUME ~Over(j), ~Over(k), j.kind = k.kind, j.kind = "poster_heal", Scheduled(j), Scheduled(k)
      PROVE  FALSE
  BY <1>1, <1>4, OneActiveHeal DEF IsHeal
<1>5. ASSUME ~Over(j), ~Over(k), ~j.retry, ~k.retry, j.kind = k.kind,
             j.subject = k.subject, j.parent = k.parent
      PROVE  CASE j.kind \in BatchKind \/ Policy(j.kind) = "allow" -> TRUE
               [] Policy(j.kind) = "reject_conflict" -> FALSE
               [] OTHER -> j.body # k.body \/ j.version # k.version
  <2>1. CASE j.kind \in BatchKind \/ Policy(j.kind) = "allow"
    <3>1. j.kind \in BatchKind => Policy(j.kind) # "reject_conflict"
      BY DEF BatchKind, UnsafeKind, Policy
    <3> QED  BY <2>1, <3>1
  <2>2. CASE ~(j.kind \in BatchKind \/ Policy(j.kind) = "allow")
    BY <1>3, <1>5, <2>2
  <2> QED  BY <2>1, <2>2
<1> QED  BY <1>2, <1>4, <1>5

\* However submissions interleave, nothing is accepted twice, and no answer is
\* work that is over: the locks on keys, scopes and rows do what they are for.
THEOREM UniqueWorkHolds == Spec => []UniqueWork
BY AlwaysInv, InvUnique, PTL

-----------------------------------------------------------------------------
(* Batches are whole. *)

LEMMA InvTypeOK == IInv => TypeOK
<1> SUFFICES ASSUME IInv PROVE TypeOK  OBVIOUS
<1>1. \A j \in jobs \cup NewRows :
        [id |-> j.id, kind |-> j.kind, parent |-> j.parent, version |-> j.version,
         total |-> j.total, retry |-> j.retry] \in RowType
  BY RowFacts DEF RowOK, RowType
<1>2. fate \in [Id -> {"active", "done", "failed"}] /\ version \in 1..MaxVersion /\ calls \in 0..MaxCall
  BY DEF IInv, Table
<1>3. ASSUME NEW s \in Submitter
      PROVE  /\ tx[s].step \in {"idle", "lookup", "overlap", "parent", "heal", "commit"}
             /\ tx[s].step = "idle" => tx[s] = Idle
             /\ tx[s].step = "commit" => tx[s].todo = <<>> /\ tx[s].new \cup tx[s].reused # {}
             /\ tx[s].rows \subseteq Id /\ tx[s].new \cap jobs = {}
  BY SessionFacts DEF Local, Course, Outside
<1> QED  BY <1>1, <1>2, <1>3 DEF TypeOK

LEMMA InvWhole == IInv => BatchIsWhole
<1> SUFFICES ASSUME IInv, NEW p \in jobs, p.kind \in BatchKind
    PROVE  LET own == {c \in Children(p.id, jobs) : ~c.retry}
           IN  Cardinality(own) = p.total /\ \A c \in own : c.version = p.version
  BY InvTypeOK DEF BatchIsWhole
<1>1. Whole(p, jobs)  BY DEF IInv, Table
<1> QED  BY <1>1 DEF Whole, Own

\* A committed batch has the children it counts, under one configuration.
THEOREM BatchIsWholeHolds == Spec => []BatchIsWhole
BY AlwaysInv, InvWhole, PTL

-----------------------------------------------------------------------------
(* Nobody waits in a circle. *)

\* Rows are waited for in sessions that only have to commit.
LEMMA RowWait ==
  ASSUME IInv, NEW s \in Submitter, NEW u \in Submitter \ {s}, tx[s].step = "overlap",
         NEW j \in Overlaps(s, Current(s)), j.id \in tx[u].rows
  PROVE  tx[u].step = "commit"
<1> SUFFICES ASSUME tx[u].step # "commit" PROVE FALSE  OBVIOUS
<1>1. Local(tx[s]) /\ Outside(tx[s], jobs, fate) /\ Outside(tx[u], jobs, fate)
  BY SessionFacts
<1>2. j \in Seen(s) /\ j \in jobs \cup NewRows /\ j.kind = Current(s).kind
  BY SeenRows DEF Overlaps
<1>3. Current(s).kind \in WorkKind
  <2>1. tx[s].todo \in Seq(Range(tx[s].todo)) /\ tx[s].todo # <<>>
    BY <1>1 DEF Local, Asked, Course
  <2>2. Current(s) = tx[s].todo[1] /\ 1 \in DOMAIN tx[s].todo
    BY <2>1 DEF Current
  <2> QED  BY <1>1, <2>2 DEF Local, Asked
<1>4. j.kind \notin BatchKind
  BY <1>2, <1>3, Kinds
<1>5. ASSUME NEW p \in jobs, p.kind \in BatchKind, p.id = j.id PROVE FALSE
  BY <1>2, <1>4, <1>5 DEF IInv, Distinct
<1>6. PICK c \in tx[u].new : c.id = j.id
  BY <1>1, <1>5 DEF Outside
<1>7. c = j
  BY <1>2, <1>6 DEF IInv, Distinct, NewRows
<1> QED  BY <1>1, <1>2, <1>6, <1>7 DEF Seen, Outside, IInv, Apart

\* How far a transaction that waits has come: heal, key, scope, rows.
Place(t) == IF HealLock \in t.want THEN 0
            ELSE IF \E l \in t.want : RootKey(l) THEN 1
            ELSE IF t.want # {} THEN 2 ELSE 3

\* Whoever holds the scope that another wants has all its locks: two batches ask
\* for different scopes, and a single request for one.
LEMMA ScopeIsLast ==
  ASSUME IInv, NEW s \in Submitter, NEW u \in Submitter \ {s},
         NEW l \in tx[s].want, l \in tx[u].locks, IsScope(l, tx[s].parent)
  PROVE  tx[u].want = {}
<1> DEFINE t == tx[s]
           v == tx[u]
<1> SUFFICES ASSUME NEW m \in v.want PROVE FALSE  OBVIOUS
<1>1. Local(t) /\ Local(v)
  BY SessionFacts
<1>2. ~RootKey(l) /\ l # HealLock
  BY KeyShapes
<1>3. IsScope(l, v.parent)
  BY <1>1, <1>2 DEF Local, Locked, Claims
<1>4. t.parent = v.parent
  BY <1>3, KeyShapes
<1>5. m # HealLock /\ ~RootKey(m)
  BY <1>1, <1>2 DEF Local, Locked
<1>6. v.step = "overlap" /\ v.want # {}
  BY <1>1, <1>5 DEF Local, Locked, Claims
<1>7. v.parent # 0
  BY <1>1, <1>3, <1>6 DEF Local, Locked
<1>8. PICK p \in t.new : p.id = t.parent
  BY <1>1, <1>4, <1>7 DEF Local, Batched, Family
<1>9. PICK q \in v.new : q.id = v.parent
  BY <1>1, <1>7 DEF Local, Batched, Family
<1>10. p = q
  BY <1>4, <1>8, <1>9 DEF IInv, Distinct, NewRows
<1> QED  BY <1>8, <1>9, <1>10 DEF IInv, Apart

\* Whoever is waited for, and waits, has come further.
LEMMA WaitsClimb ==
  ASSUME IInv, NEW s \in Submitter, NEW u \in Submitter, NEW v \in Submitter,
         WaitsFor(s, u), WaitsFor(u, v)
  PROVE  Place(tx[s]) < Place(tx[u])
<1>1. s # u  BY DEF WaitsFor
<1>2. Local(tx[s]) /\ Local(tx[u])
  BY SessionFacts
<1>3. tx[u].step # "commit"
  BY <1>2 DEF WaitsFor, Ready, Local, Course
<1>4. PICK l \in tx[s].want : l \in tx[u].locks
  <2> SUFFICES ASSUME tx[s].want \cap tx[u].locks = {} PROVE FALSE  OBVIOUS
  <2>1. tx[s].step = "overlap" /\ \E j \in Overlaps(s, Current(s)) : j.id \in tx[u].rows
    BY DEF WaitsFor, Ready
  <2> QED  BY <1>1, <1>3, <2>1, RowWait
<1>5. tx[s].want = {l}
  BY <1>2, <1>4 DEF Local, Locked
<1>6. \A m \in tx[u].want : tx[u].want = {m} /\ m # HealLock
  BY <1>2, <1>4 DEF Local, Locked
<1>7. CASE l = HealLock
  <2>1. Place(tx[s]) = 0  BY <1>5, <1>7 DEF Place
  <2>2. HealLock \notin tx[u].want  BY <1>6
  <2> QED  BY <2>1, <2>2 DEF Place
<1>8. CASE l # HealLock /\ RootKey(l)
  <2>1. Place(tx[s]) = 1  BY <1>5, <1>8 DEF Place
  <2>2. \A m \in tx[u].want : ~RootKey(m)
    BY <1>2, <1>4, <1>8 DEF Local, Locked
  <2> QED  BY <2>1, <2>2, <1>6 DEF Place
<1>9. CASE l # HealLock /\ ~RootKey(l)
  <2>1. IsScope(l, tx[s].parent)
    BY <1>2, <1>4, <1>9 DEF Local, Locked, Claims
  <2>2. tx[u].want = {}
    BY <1>1, <1>4, <2>1, ScopeIsLast
  <2>3. Place(tx[s]) = 2  BY <1>5, <1>9 DEF Place
  <2> QED  BY <2>2, <2>3 DEF Place
<1> QED  BY <1>7, <1>8, <1>9

\* A chain of submissions, each waiting for the next, has at most five members.
LEMMA WaitingEnds ==
  ASSUME IInv, NEW s0 \in Submitter, NEW s1 \in Submitter, NEW s2 \in Submitter,
         NEW s3 \in Submitter, NEW s4 \in Submitter, NEW s5 \in Submitter,
         WaitsFor(s0, s1), WaitsFor(s1, s2), WaitsFor(s2, s3), WaitsFor(s3, s4),
         WaitsFor(s4, s5)
  PROVE  FALSE
<1>1. /\ Place(tx[s0]) < Place(tx[s1]) /\ Place(tx[s1]) < Place(tx[s2])
      /\ Place(tx[s2]) < Place(tx[s3]) /\ Place(tx[s3]) < Place(tx[s4])
  BY WaitsClimb
<1>2. \A s \in Submitter : Place(tx[s]) \in {0, 1, 2, 3}
  BY DEF Place
<1>3. /\ Place(tx[s0]) \in {0, 1, 2, 3} /\ Place(tx[s1]) \in {0, 1, 2, 3}
      /\ Place(tx[s2]) \in {0, 1, 2, 3} /\ Place(tx[s3]) \in {0, 1, 2, 3}
      /\ Place(tx[s4]) \in {0, 1, 2, 3}
  BY <1>2
<1> QED  BY <1>1, <1>3

LEMMA InvNoCircle == IInv => NoCircularSubmission
<1> SUFFICES ASSUME IInv, NEW group \in SUBSET Submitter, group # {},
                    \A s \in group : \E u \in group : WaitsFor(s, u)
    PROVE  FALSE
  BY DEF NoCircularSubmission
<1>1. PICK s0 : s0 \in group
  OBVIOUS
<1>2. PICK s1 \in group : WaitsFor(s0, s1)
  BY <1>1
<1>3. PICK s2 \in group : WaitsFor(s1, s2)
  OBVIOUS
<1>4. PICK s3 \in group : WaitsFor(s2, s3)
  OBVIOUS
<1>5. PICK s4 \in group : WaitsFor(s3, s4)
  OBVIOUS
<1>6. PICK s5 \in group : WaitsFor(s4, s5)
  OBVIOUS
<1>7. {s0, s1, s2, s3, s4, s5} \subseteq Submitter
  BY <1>1
<1> QED  BY <1>2, <1>3, <1>4, <1>5, <1>6, <1>7, WaitingEnds

\* No group of submissions waits for itself, whatever order their requests have:
\* PostgreSQL has no deadlock to break.
THEOREM NoCircularSubmissionHolds == Spec => []NoCircularSubmission
BY AlwaysInv, InvNoCircle, PTL

-----------------------------------------------------------------------------
(* The gates: what a delivery holds, and what it needs. *)

(* What a delivery needs is what its policy requires. *)
RequiredBy(d) ==
  run[d].stage # "idle" =>
    \E permit \in Permit :
      run[d].need = Gates!Requirements(run[d].policy, run[d].file, permit)

(* The handle lists locks, all of them while the delivery acquires or executes. *)
HandleOf(d) ==
  /\ run[d].held \subseteq run[d].need
  /\ run[d].session = "live" => run[d].held \subseteq locks[d]
  /\ Gates!Acquiring(d) /\ run[d].session = "live" => locks[d] = run[d].held
  /\ run[d].stage = "executing" => run[d].held = run[d].need
  /\ Gates!Protected(d) => locks[d] = run[d].need
  /\ locks[d] # {} => run[d].session = "live"
  /\ run[d].stage = "idle" => run[d].session = "none"

(* What is held comes before what is still to be locked. *)
Ordered(d) == \A r \in run[d].held, s \in Gates!Todo(d) : Gates!Before(r, s)

Compatible ==
  \A d, e \in Delivery : d # e => \A r \in locks[d], s \in locks[e] : ~Gates!Conflict(r, s)

RunRow ==
  [stage : {"idle", "checking", "asking", "waiting", "executing", "unwinding"},
   policy : Policies \cup {"none"}, file : File \cup {"none"},
   need : SUBSET Gates!Need, held : SUBSET Gates!Need,
   session : {"none", "live", "broken", "closed"}, cancelled : BOOLEAN, expired : BOOLEAN,
   outcome : {"none", "cancelled", "timeout", "connection_lost", "error", "done"}]

Shape == run \in [Delivery -> RunRow] /\ locks \in [Delivery -> SUBSET Gates!Need]

GatesInv ==
  /\ Shape
  /\ \A d \in Delivery : RequiredBy(d) /\ HandleOf(d) /\ Ordered(d)
  /\ Compatible

(* No requirement is outside the gates, and the gates of one policy differ in kind. *)
LEMMA RequirementsInNeed ==
  ASSUME NEW policy \in Policies, NEW permit \in Permit,
         NEW file \in IF policy = "media_write" THEN File ELSE {"none"}
  PROVE  /\ Gates!Requirements(policy, file, permit) \subseteq Gates!Need
         /\ file \in File \cup {"none"}
  BY QueueAssumption
  DEF Gates!SafetyGatesAssumption, Gates!Requirements, Gates!Requirement,
      Gates!SharedMaintenance, Gates!Need, Gates!MediaFile, Gates!MediaWrite, Gates!Maintenance,
      Gates!AllPolicies

(* The kinds of the gates are numbers. *)
LEMMA KindsAreNumbers == \A r \in Gates!Need : r.kind \in {10, 20, 40} /\ r.kind \in Int
  BY DEF Gates!Need, Gates!MediaFile, Gates!MediaWrite, Gates!Maintenance

(* A step that leaves a delivery's needs, handle, session and locks alone, and moves it *)
(* within acquire, keeps the invariant.                                                *)
Move(d, r) ==
  /\ run' = [run EXCEPT ![d] = r] /\ r \in RunRow
  /\ r.policy = run[d].policy /\ r.file = run[d].file /\ r.need = run[d].need
  /\ r.held = run[d].held /\ r.session = run[d].session
  /\ run[d].stage # "idle"
  /\ \/ r.stage \in {"checking", "asking", "waiting"} /\ Gates!Acquiring(d)
     \/ r.stage = "unwinding"
  /\ locks' = locks

LEMMA MoveKeeps ==
  ASSUME GatesInv, NEW d \in Delivery, NEW r, Move(d, r)
  PROVE  GatesInv'
  <1>1. /\ run'[d] = r /\ \A e \in Delivery \ {d} : run'[e] = run[e]
        /\ Shape'
    BY DEF GatesInv, Shape, Move
  <1>2. \A e \in Delivery : RequiredBy(e)'
    BY <1>1 DEF GatesInv, RequiredBy, Move
  <1>3. \A e \in Delivery : HandleOf(e)'
    BY <1>1 DEF GatesInv, HandleOf, Move, Gates!Acquiring, Gates!Protected
  <1>4. \A e \in Delivery : Ordered(e)'
    BY <1>1 DEF GatesInv, Ordered, Move, Gates!Todo
  <1>5. Compatible'
    BY DEF GatesInv, Compatible, Move
  <1> QED BY <1>1, <1>2, <1>3, <1>4, <1>5 DEF GatesInv

(* A free gate conflicts with no lock of another session. *)
LEMMA LockCompatible ==
  ASSUME GatesInv, NEW d \in Delivery, NEW taken,
         locks'[d] \subseteq locks[d] \cup taken,
         \A e \in Delivery \ {d} : locks'[e] = locks[e],
         \A r \in taken : Gates!Free(d, r)
  PROVE  Compatible'
  <1>1. \A e \in Delivery \ {d}, r \in taken :
          \A s \in locks[e] : ~Gates!Conflict(r, s) /\ ~Gates!Conflict(s, r)
    BY DEF Gates!Free, Gates!LocksOfOthers, Gates!Conflict
  <1> QED BY <1>1 DEF GatesInv, Compatible

(* Fewer locks are as compatible as before. *)
LEMMA FewerCompatible ==
  ASSUME GatesInv, \A d \in Delivery : locks'[d] \subseteq locks[d]
  PROVE  Compatible'
  BY DEF GatesInv, Compatible

(* A delivery that is gone holds nothing. *)
LEMMA GoneKeeps ==
  ASSUME GatesInv, NEW d \in Delivery, run' = [run EXCEPT ![d] = Gates!NotRunning],
         locks' = [locks EXCEPT ![d] = {}]
  PROVE  GatesInv'
  <1>1. Gates!NotRunning \in RunRow
    BY DEF Gates!NotRunning, RunRow
  <1>2. /\ run'[d] = Gates!NotRunning /\ locks'[d] = {}
        /\ \A e \in Delivery \ {d} : run'[e] = run[e] /\ locks'[e] = locks[e]
        /\ Shape'
    BY <1>1 DEF GatesInv, Shape
  <1>3. \A e \in Delivery : RequiredBy(e)'
    BY <1>2 DEF GatesInv, RequiredBy, Gates!NotRunning
  <1>4. \A e \in Delivery : HandleOf(e)'
    BY <1>2 DEF GatesInv, HandleOf, Gates!NotRunning, Gates!Acquiring, Gates!Protected
  <1>5. \A e \in Delivery : Ordered(e)'
    BY <1>2 DEF GatesInv, Ordered, Gates!NotRunning, Gates!Todo
  <1>6. Compatible'
    <2>1. \A e \in Delivery : locks'[e] \subseteq locks[e]
      BY <1>2
    <2> QED BY <2>1, FewerCompatible
  <1> QED BY <1>2, <1>3, <1>4, <1>5, <1>6 DEF GatesInv

LEMMA BeginKeeps ==
  ASSUME GatesInv, NEW d \in Delivery, Gates!Begin(d) PROVE GatesInv'
  <1>1. PICK policy \in Policies, permit \in Permit :
          \E file \in IF policy = "media_write" THEN File ELSE {"none"} :
            run' = [run EXCEPT ![d] =
              [Gates!NotRunning EXCEPT !.stage = "checking", !.session = "live",
                 !.policy = policy, !.file = file,
                 !.need = Gates!Requirements(policy, file, permit)]]
    BY DEF Gates!Begin
  <1>2. PICK file \in IF policy = "media_write" THEN File ELSE {"none"} :
          run' = [run EXCEPT ![d] =
            [Gates!NotRunning EXCEPT !.stage = "checking", !.session = "live",
               !.policy = policy, !.file = file,
               !.need = Gates!Requirements(policy, file, permit)]]
    BY <1>1
  <1> DEFINE r == [Gates!NotRunning EXCEPT !.stage = "checking", !.session = "live",
                     !.policy = policy, !.file = file,
                     !.need = Gates!Requirements(policy, file, permit)]
  <1>3. /\ r \in RunRow /\ r.stage = "checking" /\ r.session = "live" /\ r.held = {}
        /\ r.policy = policy /\ r.file = file /\ r.need = Gates!Requirements(policy, file, permit)
    <2>1. /\ Gates!Requirements(policy, file, permit) \in SUBSET Gates!Need
          /\ file \in File \cup {"none"}
      BY RequirementsInNeed
    <2> QED BY <2>1 DEF RunRow, Gates!NotRunning
  <1> HIDE DEF r
  <1>4. /\ run'[d] = r /\ \A e \in Delivery \ {d} : run'[e] = run[e]
        /\ locks' = locks /\ locks[d] = {} /\ Shape'
    BY <1>2, <1>3 DEF GatesInv, Shape, Gates!Begin, HandleOf, r
  <1>5. \A e \in Delivery : RequiredBy(e)'
    BY <1>3, <1>4 DEF GatesInv, RequiredBy
  <1>6. \A e \in Delivery : HandleOf(e)'
    BY ZenonT(40), <1>3, <1>4 DEF GatesInv, HandleOf, Gates!Acquiring, Gates!Protected
  <1>7. \A e \in Delivery : Ordered(e)'
    BY <1>3, <1>4 DEF GatesInv, Ordered, Gates!Todo
  <1>8. Compatible'
    BY <1>4, FewerCompatible
  <1> QED BY <1>4, <1>5, <1>6, <1>7, <1>8 DEF GatesInv

LEMMA LockKeeps ==
  ASSUME GatesInv, NEW d \in Delivery, Gates!Lock(d) PROVE GatesInv'
  <1>1. PICK r \in Gates!Wanted(d) :
          /\ Gates!Free(d, r)
          /\ locks' = [locks EXCEPT ![d] = @ \cup {r}]
          /\ run' = IF Gates!Todo(d) = {r}
                    THEN [Gates!Leave(d, "executing", "none") EXCEPT ![d].held = @ \cup {r}]
                    ELSE [run EXCEPT ![d].held = @ \cup {r}, ![d].stage = "checking"]
    BY DEF Gates!Lock
  <1>2. /\ run[d].stage = "asking" /\ run[d].session = "live" /\ run[d] \in RunRow
        /\ r \in Gates!Todo(d) /\ \A s \in Gates!Todo(d) \ {r} : Gates!Before(r, s)
        /\ run[d].held \subseteq run[d].need /\ locks[d] = run[d].held
        /\ run[d].need \subseteq Gates!Need
    BY <1>1 DEF Gates!Lock, GatesInv, HandleOf, Gates!Acquiring, Shape, RunRow, Gates!Wanted
  <1>3. /\ run'[d].held = run[d].held \cup {r} /\ run'[d].session = "live"
        /\ run'[d].need = run[d].need
        /\ run'[d].policy = run[d].policy /\ run'[d].file = run[d].file
        /\ run'[d].stage = IF Gates!Todo(d) = {r} THEN "executing" ELSE "checking"
        /\ \A e \in Delivery \ {d} : run'[e] = run[e]
        /\ run'[d] \in RunRow
    BY <1>1, <1>2 DEF Gates!Leave, GatesInv, Shape, RunRow, Gates!Todo
  <1>4. /\ locks'[d] = run[d].held \cup {r} /\ \A e \in Delivery \ {d} : locks'[e] = locks[e]
        /\ locks' \in [Delivery -> SUBSET Gates!Need]
    BY <1>1, <1>2 DEF GatesInv, Shape, Gates!Todo
  <1>5. Shape'
    BY <1>1, <1>3, <1>4 DEF GatesInv, Shape, Gates!Leave
  <1>6. \A e \in Delivery : RequiredBy(e)'
    BY <1>2, <1>3 DEF GatesInv, RequiredBy
  <1>7. Gates!Todo(d)' = Gates!Todo(d) \ {r}
    BY <1>3 DEF Gates!Todo
  <1>8. \A e \in Delivery : HandleOf(e)'
    <2>1. HandleOf(d)'
      BY <1>2, <1>3, <1>4 DEF HandleOf, Gates!Acquiring, Gates!Protected, Gates!Todo
    <2>2. ASSUME NEW e \in Delivery \ {d} PROVE HandleOf(e)'
      BY <1>3, <1>4 DEF GatesInv, HandleOf, Gates!Acquiring, Gates!Protected
    <2> QED BY <2>1, <2>2
  <1>9. \A e \in Delivery : Ordered(e)'
    <2>1. Ordered(d)'
      BY <1>2, <1>3, <1>7 DEF GatesInv, Ordered
    <2> QED BY <2>1, <1>3 DEF GatesInv, Ordered, Gates!Todo
  <1>10. Compatible'
    <2> DEFINE taken == {r}
    <2>1. \A s \in taken : Gates!Free(d, s)
      BY <1>1
    <2>2. locks'[d] \subseteq locks[d] \cup taken
      BY <1>2, <1>4
    <2> HIDE DEF taken
    <2> QED BY <1>4, <2>1, <2>2, LockCompatible
  <1> QED BY <1>5, <1>6, <1>8, <1>9, <1>10 DEF GatesInv

LEMMA UnlockKeeps ==
  ASSUME GatesInv, NEW d \in Delivery, Gates!Unlock(d) PROVE GatesInv'
  <1>1. PICK r \in Gates!Last(d) : /\ run' = [run EXCEPT ![d].held = @ \ {r}]
                              /\ locks' = [locks EXCEPT ![d] = @ \ {r}]
    BY DEF Gates!Unlock
  <1>2. /\ run[d].stage = "unwinding" /\ run[d].session = "live" /\ run[d] \in RunRow
        /\ r \in run[d].held /\ \A s \in run[d].held \ {r} : Gates!Before(s, r)
        /\ run[d].held \subseteq run[d].need /\ run[d].held \subseteq locks[d]
    BY <1>1 DEF Gates!Unlock, GatesInv, HandleOf, Shape, Gates!Last
  <1>3. /\ run'[d] = [run[d] EXCEPT !.held = run[d].held \ {r}]
        /\ run'[d].held = run[d].held \ {r} /\ run'[d].session = "live"
        /\ run'[d].need = run[d].need
        /\ run'[d].policy = run[d].policy /\ run'[d].file = run[d].file
        /\ run'[d].stage = "unwinding"
        /\ \A e \in Delivery \ {d} : run'[e] = run[e]
        /\ locks'[d] = locks[d] \ {r} /\ \A e \in Delivery \ {d} : locks'[e] = locks[e]
    BY <1>1, <1>2 DEF GatesInv, Shape, RunRow
  <1>4. Shape'
    <2>1. run'[d] \in RunRow
      BY <1>2, <1>3 DEF RunRow
    <2> QED BY <1>1, <2>1 DEF GatesInv, Shape
  <1>5. \A e \in Delivery : RequiredBy(e)'
    <2>1. RequiredBy(d)'
      BY <1>2, <1>3 DEF GatesInv, RequiredBy
    <2>2. ASSUME NEW e \in Delivery \ {d} PROVE RequiredBy(e)'
      BY <1>3 DEF GatesInv, RequiredBy
    <2> QED BY <2>1, <2>2
  <1>6. \A e \in Delivery : HandleOf(e)'
    <2>1. HandleOf(d)'
      BY <1>2, <1>3 DEF HandleOf, Gates!Acquiring, Gates!Protected
    <2>2. ASSUME NEW e \in Delivery \ {d} PROVE HandleOf(e)'
      BY <1>3 DEF GatesInv, HandleOf, Gates!Acquiring, Gates!Protected
    <2> QED BY <2>1, <2>2
  <1>7. \A e \in Delivery : Ordered(e)'
    <2>1. Ordered(d)'
      BY <1>2, <1>3 DEF GatesInv, Ordered, Gates!Todo
    <2> QED BY <2>1, <1>3 DEF GatesInv, Ordered, Gates!Todo
  <1>8. Compatible'
    <2>1. \A e \in Delivery : locks'[e] \subseteq locks[e]
      BY <1>3
    <2> QED BY <2>1, FewerCompatible
  <1> QED BY <1>4, <1>5, <1>6, <1>7, <1>8 DEF GatesInv

LEMMA InterruptedKeeps ==
  ASSUME GatesInv, NEW d \in Delivery, Gates!Interrupted(d) PROVE GatesInv'
  <1>1. PICK taken \in SUBSET Gates!Wanted(d) :
          /\ taken # {} => run[d].stage = "asking" /\ run[d].session = "live"
          /\ \A r \in taken : Gates!Free(d, r)
          /\ locks' = [locks EXCEPT ![d] = @ \cup taken]
    BY DEF Gates!Interrupted
  <1>2. /\ Gates!Acquiring(d) /\ run[d] \in RunRow /\ taken \subseteq Gates!Need
        /\ run' = Gates!Leave(d, "unwinding", "error")
    BY <1>1 DEF Gates!Interrupted, Gates!Unwind, GatesInv, Shape, RunRow, Gates!Wanted,
                Gates!Todo
  <1>3. /\ run'[d].held = run[d].held /\ run'[d].session = run[d].session
        /\ run'[d].need = run[d].need /\ run'[d].stage = "unwinding"
        /\ run'[d].policy = run[d].policy /\ run'[d].file = run[d].file
        /\ run'[d] \in RunRow
        /\ \A e \in Delivery \ {d} : run'[e] = run[e]
        /\ locks'[d] = locks[d] \cup taken /\ \A e \in Delivery \ {d} : locks'[e] = locks[e]
    BY <1>1, <1>2 DEF Gates!Leave, GatesInv, Shape, RunRow
  <1>4. Shape'
    BY <1>1, <1>2, <1>3 DEF GatesInv, Shape, Gates!Leave
  <1>5. \A e \in Delivery : RequiredBy(e)'
    BY <1>2, <1>3 DEF GatesInv, RequiredBy, Gates!Acquiring
  <1>6. \A e \in Delivery : HandleOf(e)'
    <2>1. HandleOf(d)'
      BY <1>1, <1>2, <1>3 DEF GatesInv, HandleOf, Gates!Acquiring, Gates!Protected
    <2>2. ASSUME NEW e \in Delivery \ {d} PROVE HandleOf(e)'
      BY <1>3 DEF GatesInv, HandleOf, Gates!Acquiring, Gates!Protected
    <2> QED BY <2>1, <2>2
  <1>7. \A e \in Delivery : Ordered(e)'
    BY <1>3 DEF GatesInv, Ordered, Gates!Todo
  <1>8. Compatible'
    <2>1. locks'[d] \subseteq locks[d] \cup taken
      BY <1>3
    <2> QED BY <1>1, <1>3, <2>1, LockCompatible
  <1> QED BY <1>4, <1>5, <1>6, <1>7, <1>8 DEF GatesInv

LEMMA SessionLostKeeps ==
  ASSUME GatesInv, NEW d \in Delivery, Gates!SessionLost(d) PROVE GatesInv'
  <1>1. /\ run[d] \in RunRow /\ run[d].session = "live" /\ run[d].stage # "idle"
        /\ locks' = [locks EXCEPT ![d] = {}]
    BY DEF Gates!SessionLost, Gates!Abandon, GatesInv, Shape, HandleOf
  <1>2. PICK session \in {"broken", "closed"} : run' = [run EXCEPT ![d].session = session]
    BY DEF Gates!SessionLost
  <1>3. /\ run'[d].held = run[d].held /\ run'[d].session = session
        /\ run'[d].need = run[d].need /\ run'[d].stage = run[d].stage
        /\ run'[d].policy = run[d].policy /\ run'[d].file = run[d].file
        /\ run'[d] \in RunRow
        /\ \A e \in Delivery \ {d} : run'[e] = run[e]
        /\ locks'[d] = {} /\ \A e \in Delivery \ {d} : locks'[e] = locks[e]
    BY <1>1, <1>2 DEF GatesInv, Shape, RunRow
  <1>4. Shape'
    BY <1>1, <1>2, <1>3 DEF GatesInv, Shape
  <1>5. \A e \in Delivery : RequiredBy(e)'
    BY <1>3 DEF GatesInv, RequiredBy
  <1>6. \A e \in Delivery : HandleOf(e)'
    <2>1. HandleOf(d)'
      BY <1>1, <1>2, <1>3 DEF GatesInv, HandleOf, Gates!Acquiring, Gates!Protected
    <2>2. ASSUME NEW e \in Delivery \ {d} PROVE HandleOf(e)'
      BY <1>3 DEF GatesInv, HandleOf, Gates!Acquiring, Gates!Protected
    <2> QED BY <2>1, <2>2
  <1>7. \A e \in Delivery : Ordered(e)'
    BY <1>3 DEF GatesInv, Ordered, Gates!Todo
  <1>8. Compatible'
    <2>1. \A e \in Delivery : locks'[e] \subseteq locks[e]
      BY <1>3
    <2> QED BY <2>1, FewerCompatible
  <1> QED BY <1>4, <1>5, <1>6, <1>7, <1>8 DEF GatesInv

(* The steps that only move a delivery, or set one of its flags. *)
LEMMA QuietKeeps ==
  ASSUME GatesInv, NEW d \in Delivery,
         \/ Gates!CheckCancelled(d) \/ Gates!Refused(d) \/ Gates!Poll(d) \/ Gates!AskInVain(d)
         \/ Gates!Return(d) \/ Gates!Cancel(d) \/ Gates!Expire(d)
  PROVE  GatesInv'
  <1>1. run[d] \in RunRow /\ run \in [Delivery -> RunRow]
    BY DEF GatesInv, Shape
  <1>2. ASSUME NEW stage \in {"asking", "waiting", "checking"}, Gates!Acquiring(d),
               Gates!Goto(d, stage), locks' = locks
        PROVE  GatesInv'
    <2> DEFINE r == [run[d] EXCEPT !.stage = stage]
    <2>1. Move(d, r)
      BY <1>1, <1>2 DEF Gates!Goto, Move, RunRow, Gates!Acquiring
    <2> HIDE DEF r
    <2> QED BY <2>1, MoveKeeps
  <1>3. ASSUME NEW outcome \in {"cancelled", "timeout", "done"}, run[d].stage # "idle",
               Gates!Unwind(d, outcome), locks' = locks
        PROVE  GatesInv'
    <2> DEFINE r == [run[d] EXCEPT !.stage = "unwinding", !.outcome = outcome,
                                   !.cancelled = FALSE, !.expired = FALSE]
    <2>1. Move(d, r)
      BY <1>1, <1>3 DEF Gates!Unwind, Gates!Leave, Move, RunRow
    <2> HIDE DEF r
    <2> QED BY <2>1, MoveKeeps
  <1>4. CASE Gates!CheckCancelled(d) \/ Gates!Refused(d) \/ Gates!Poll(d) \/ Gates!Return(d)
    BY <1>2, <1>3, <1>4 DEF Gates!CheckCancelled, Gates!Refused, Gates!Poll, Gates!Return,
                            Gates!Acquiring
  <1>5. CASE Gates!Cancel(d)
    <2> DEFINE r == [run[d] EXCEPT !.cancelled = TRUE]
    <2>1. Move(d, r)
      BY <1>1, <1>5 DEF Gates!Cancel, Move, RunRow, Gates!Acquiring
    <2> HIDE DEF r
    <2> QED BY <2>1, MoveKeeps
  <1>6. CASE Gates!Expire(d)
    <2> DEFINE r == [run[d] EXCEPT !.expired = TRUE]
    <2>1. Move(d, r)
      BY <1>1, <1>6 DEF Gates!Expire, Move, RunRow, Gates!Acquiring
    <2> HIDE DEF r
    <2> QED BY <2>1, MoveKeeps
  <1>7. CASE Gates!AskInVain(d)
    <2>1. PICK outcome \in {"connection_lost", "error"} :
            run' = [Gates!Leave(d, "unwinding", outcome) EXCEPT ![d].session = "closed"]
      BY <1>7 DEF Gates!AskInVain
    <2>2. /\ run[d].stage = "asking" /\ run[d].session # "live" /\ locks' = locks
          /\ locks[d] = {}
      BY <1>7 DEF Gates!AskInVain, GatesInv, HandleOf
    <2>3. /\ run'[d].held = run[d].held /\ run'[d].session = "closed"
          /\ run'[d].need = run[d].need /\ run'[d].stage = "unwinding"
          /\ run'[d].policy = run[d].policy /\ run'[d].file = run[d].file
          /\ run' \in [Delivery -> RunRow]
          /\ \A e \in Delivery \ {d} : run'[e] = run[e]
      BY ZenonT(40), <1>1, <2>1 DEF Gates!Leave, RunRow
    <2>4. \A e \in Delivery : RequiredBy(e)' /\ Ordered(e)'
      BY <2>2, <2>3 DEF GatesInv, RequiredBy, Ordered, Gates!Todo
    <2>5. \A e \in Delivery : HandleOf(e)'
      BY <2>2, <2>3 DEF GatesInv, HandleOf, Gates!Acquiring, Gates!Protected
    <2> QED BY <2>2, <2>3, <2>4, <2>5 DEF GatesInv, Shape, Compatible
  <1> QED BY <1>4, <1>5, <1>6, <1>7

LEMMA GatesStep == ASSUME GatesInv, [Gates!Next]_gates PROVE GatesInv'
  <1>1. CASE UNCHANGED gates
    BY <1>1 DEF gates, GatesInv, Shape, RequiredBy, HandleOf, Ordered, Compatible,
                Gates!Acquiring, Gates!Protected, Gates!Todo
  <1>2. ASSUME NEW d \in Delivery, Gates!Close(d) \/ Gates!Crash(d) PROVE GatesInv'
    BY <1>2, GoneKeeps DEF Gates!Close, Gates!Crash, Gates!Abandon
  <1>3. ASSUME NEW d \in Delivery, Gates!Reap(d) PROVE GatesInv'
    BY <1>3 DEF Gates!Reap, GatesInv, Shape, RequiredBy, HandleOf, Ordered, Compatible,
                Gates!Acquiring, Gates!Protected, Gates!Todo
  <1> QED
    BY <1>1, <1>2, <1>3, BeginKeeps, LockKeeps, UnlockKeeps, InterruptedKeeps,
       SessionLostKeeps, QuietKeeps
    DEF Gates!Next, Gates!Acquire, Gates!Release, Gates!Disturb

LEMMA GatesInitially == Gates!Init => GatesInv
  BY DEF Gates!Init, GatesInv, Shape, RunRow, Gates!NotRunning, RequiredBy, HandleOf, Ordered,
         Compatible, Gates!Acquiring, Gates!Protected, Gates!Todo

\* Locks, handles and policies agree as the inductive invariant says, after every
\* step of every delivery and every loss of a session.
THEOREM GatesInvariant == Gates!Spec => []GatesInv
  BY GatesInitially, GatesStep, PTL DEF Gates!Spec, Gates!vars, gates

-----------------------------------------------------------------------------
(* What follows *)

(* What the invariant leaves open of the types: the sessions of waiting deliveries, *)
(* the locks of lost sessions and the bound.                                       *)
Attended(d) == run[d].session = "none" => run[d].stage = "idle"

LEMMA AttendedStep ==
  ASSUME GatesInv, NEW d \in Delivery, NEW e \in Delivery, Attended(e),
         Gates!Begin(d) \/ Gates!Acquire(d) \/ Gates!Return(d) \/ Gates!Release(d)
           \/ Gates!Disturb(d) \/ Gates!Reap(d)
  PROVE  Attended(e)'
  <1>1. /\ run[d] \in RunRow /\ run \in [Delivery -> RunRow]
    BY DEF GatesInv, Shape
  <1>2. CASE d # e
    BY <1>1, <1>2
    DEF Gates!Begin, Gates!Acquire, Gates!CheckCancelled, Gates!Lock, Gates!Refused, Gates!Poll,
        Gates!AskInVain, Gates!Return, Gates!Release, Gates!Unlock, Gates!Close, Gates!Disturb,
        Gates!Cancel, Gates!Expire, Gates!Interrupted, Gates!SessionLost, Gates!Crash,
        Gates!Reap, Gates!Goto, Gates!Leave, Gates!Unwind, Attended
  <1>3. CASE d = e /\ (Gates!Begin(d) \/ Gates!Close(d) \/ Gates!Crash(d) \/ Gates!Reap(d))
    <2>1. CASE Gates!Begin(d)
      <3>1. PICK policy, file, permit :
              run' = [run EXCEPT ![d] =
                        [Gates!NotRunning EXCEPT !.stage = "checking", !.session = "live",
                           !.policy = policy, !.file = file,
                           !.need = Gates!Requirements(policy, file, permit)]]
        BY <2>1 DEF Gates!Begin
      <3>2. run'[d].session = "live"
        BY <1>1, <3>1 DEF Gates!NotRunning
      <3> QED
        BY <1>3, <3>2 DEF Attended
    <2>2. CASE Gates!Close(d) \/ Gates!Crash(d) \/ Gates!Reap(d)
      BY <1>1, <1>3, <2>2 DEF Gates!Close, Gates!Crash, Gates!Reap, Gates!NotRunning, Attended
    <2> QED
      BY <1>3, <2>1, <2>2
  <1>4. CASE d = e /\ (Gates!CheckCancelled(d) \/ Gates!Poll(d) \/ Gates!Return(d)
             \/ Gates!Cancel(d) \/ Gates!Expire(d))
    <2>1. run'[d].session = run[d].session /\ run[d].stage # "idle"
      BY <1>1, <1>4 DEF Gates!CheckCancelled, Gates!Poll, Gates!Return, Gates!Cancel,
                        Gates!Expire, Gates!Goto, Gates!Leave, Gates!Unwind, RunRow,
                        Gates!Acquiring
    <2> QED
      BY <1>4, <2>1 DEF Attended
  <1>5. CASE d = e /\ (Gates!Lock(d) \/ Gates!Refused(d) \/ Gates!Unlock(d))
    <2>1. CASE Gates!Lock(d)
      <3>1. PICK r : run' = IF Gates!Todo(d) = {r}
                 THEN [Gates!Leave(d, "executing", "none") EXCEPT ![d].held = @ \cup {r}]
                 ELSE [run EXCEPT ![d].held = @ \cup {r}, ![d].stage = "checking"]
        BY <2>1 DEF Gates!Lock
      <3>2. DOMAIN Gates!Leave(d, "executing", "none") = Delivery
            /\ Gates!Leave(d, "executing", "none")[d].session = run[d].session
        BY <1>1 DEF Gates!Leave, RunRow
      <3>3. run'[d].session = run[d].session
        BY <1>1, <3>1, <3>2 DEF Gates!Leave, RunRow
      <3> QED
        BY <1>5, <2>1, <3>3 DEF Gates!Lock, Attended
    <2>2. CASE Gates!Refused(d) \/ Gates!Unlock(d)
      <3>1. run'[d].session = run[d].session /\ run[d].stage # "idle"
        BY <1>1, <2>2 DEF Gates!Refused, Gates!Unlock, Gates!Goto, Gates!Leave, Gates!Unwind,
                          RunRow
      <3> QED
        BY <1>5, <3>1 DEF Attended
    <2> QED
      BY <1>5, <2>1, <2>2
  <1>6. CASE d = e /\ (Gates!AskInVain(d) \/ Gates!Interrupted(d) \/ Gates!SessionLost(d))
    BY <1>1, <1>6 DEF Gates!AskInVain, Gates!Interrupted, Gates!SessionLost, Gates!Acquiring,
                      Gates!Goto, Gates!Leave, Gates!Unwind, Attended, RunRow
  <1> QED
    BY <1>2, <1>3, <1>4, <1>5, <1>6 DEF Gates!Acquire, Gates!Release, Gates!Disturb

LEMMA LossesStep ==
  ASSUME Gates!TypeOK, NEW d \in Delivery,
         Gates!Begin(d) \/ Gates!Acquire(d) \/ Gates!Return(d) \/ Gates!Release(d)
           \/ Gates!Disturb(d) \/ Gates!Reap(d)
  PROVE  leftover' \in [Delivery -> SUBSET Gates!Need] /\ losses' \in 0 .. MaxLoss
  <1>1. /\ leftover \in [Delivery -> SUBSET Gates!Need]
        /\ locks \in [Delivery -> SUBSET Gates!Need]
        /\ losses \in 0 .. MaxLoss
    BY DEF Gates!TypeOK
  <1>2. CASE UNCHANGED <<leftover, losses>>
    BY <1>1, <1>2
  <1>3. CASE Gates!Interrupted(d) \/ Gates!SessionLost(d) \/ Gates!Crash(d) \/ Gates!Reap(d)
    BY <1>1, <1>3, QueueAssumption
    DEF Gates!SafetyGatesAssumption, Gates!Interrupted, Gates!SessionLost, Gates!Crash,
        Gates!Reap, Gates!Abandon, Gates!Lose
  <1> QED
    BY <1>2, <1>3 DEF Gates!Begin, Gates!Acquire, Gates!CheckCancelled, Gates!Lock,
                      Gates!Refused, Gates!Poll, Gates!AskInVain, Gates!Return, Gates!Release,
                      Gates!Unlock, Gates!Close, Gates!Disturb, Gates!Cancel, Gates!Expire

LEMMA TypeStep ==
  ASSUME GatesInv, Gates!TypeOK, [Gates!Next]_gates, GatesInv'
  PROVE Gates!TypeOK'
  <1>1. CASE UNCHANGED gates
    BY <1>1 DEF gates, Gates!TypeOK
  <1>2. ASSUME NEW d \in Delivery,
               Gates!Begin(d) \/ Gates!Acquire(d) \/ Gates!Return(d) \/ Gates!Release(d)
                 \/ Gates!Disturb(d) \/ Gates!Reap(d)
        PROVE  Gates!TypeOK'
    <2>1. \A e \in Delivery : Attended(e)'
      BY <1>2, AttendedStep DEF Gates!TypeOK, Attended
    <2>2. leftover' \in [Delivery -> SUBSET Gates!Need] /\ losses' \in 0 .. MaxLoss
      BY <1>2, LossesStep
    <2> QED
      BY <2>1, <2>2 DEF Gates!TypeOK, Attended, GatesInv, Shape, RunRow, HandleOf
  <1> QED
    BY <1>1, <1>2 DEF Gates!Next

(* The rows keep their types: a waiting delivery has a session, and the locks of lost *)
(* sessions are locks of the gates.                                                   *)
THEOREM TypeCorrect == Gates!Spec => []Gates!TypeOK
  <1>1. Gates!Init => Gates!TypeOK
    BY QueueAssumption DEF Gates!SafetyGatesAssumption, Gates!Init, Gates!TypeOK,
                           Gates!NotRunning
  <1> QED
    BY <1>1, GatesInvariant, TypeStep, PTL DEF Gates!Spec, Gates!vars, gates

LEMMA CompatibleExecutions == GatesInv => Gates!Exclusion
  <1> SUFFICES ASSUME GatesInv, NEW d \in Delivery, NEW e \in Delivery, d # e,
                      Gates!Protected(d), Gates!Protected(e)
               PROVE  /\ run[d].policy # "exclusive"
                      /\ run[d].policy = "media_write" /\ run[e].policy = "media_write" =>
                           run[d].file # run[e].file
    BY DEF Gates!Exclusion
  <1>1. /\ locks[d] = run[d].need /\ locks[e] = run[e].need
        /\ \A r \in run[d].need, s \in run[e].need : ~Gates!Conflict(r, s)
    BY DEF GatesInv, HandleOf, Compatible
  <1>2. PICK p \in Permit : run[d].need = Gates!Requirements(run[d].policy, run[d].file, p)
    BY DEF GatesInv, RequiredBy, Gates!Protected
  <1>3. PICK q \in Permit : run[e].need = Gates!Requirements(run[e].policy, run[e].file, q)
    BY DEF GatesInv, RequiredBy, Gates!Protected
  <1>4. run[d].policy # "exclusive"
    <2>1. PICK mode \in {"shared", "exclusive"} :
            Gates!Requirement(Gates!Maintenance, "global", mode) \in run[e].need
      <3>1. CASE run[e].policy = "exclusive"
        BY <1>3, <3>1 DEF Gates!Requirements
      <3>2. CASE run[e].policy # "exclusive"
        BY <1>3, <3>2 DEF Gates!Requirements, Gates!SharedMaintenance
      <3> QED BY <3>1, <3>2
    <2>2. run[d].policy = "exclusive" =>
            Gates!Requirement(Gates!Maintenance, "global", "exclusive") \in run[d].need
      BY <1>2 DEF Gates!Requirements
    <2> QED BY <1>1, <2>1, <2>2 DEF Gates!Conflict, Gates!Requirement
  <1>5. ASSUME run[d].policy = "media_write", run[e].policy = "media_write"
        PROVE  run[d].file # run[e].file
    <2>1. /\ Gates!Requirement(Gates!MediaFile, run[d].file, "exclusive") \in run[d].need
          /\ Gates!Requirement(Gates!MediaFile, run[e].file, "exclusive") \in run[e].need
      BY <1>2, <1>3, <1>5 DEF Gates!Requirements
    <2> QED BY <1>1, <2>1 DEF Gates!Conflict, Gates!Requirement
  <1> QED BY <1>4, <1>5

(* Protected executions exclude each other: safety_gates.py, held over the handler. *)
THEOREM ExclusionHolds == Gates!Spec => []Exclusion
  BY GatesInvariant, CompatibleExecutions, PTL DEF Exclusion

LEMMA HandlesKnowTheirLocks == GatesInv => Gates!NoLockForgotten
  BY DEF GatesInv, HandleOf, Gates!NoLockForgotten

(* No path out of acquire or release leaves a lock behind. *)
THEOREM LocksAreReturned == Gates!Spec => []NoLockForgotten
  BY GatesInvariant, HandlesKnowTheirLocks, PTL DEF NoLockForgotten

(* Whoever waits wants a kind of gate, and whoever it waits for already holds that      *)
(* kind: when that one waits too, it waits for a later kind.                            *)
LEMMA WaitsGoUp ==
  ASSUME GatesInv, NEW d \in Delivery, NEW e \in Delivery, NEW f \in Delivery,
         NEW r \in Gates!Wanted(d), NEW s \in locks[e], Gates!Conflict(r, s),
         Gates!WaitsFor(e, f)
  PROVE  \E t \in Gates!Wanted(e), u \in locks[f] : Gates!Conflict(t, u) /\ r.kind < t.kind
  <1>1. PICK t \in Gates!Wanted(e), u \in locks[f] : Gates!Conflict(t, u)
    BY DEF Gates!WaitsFor
  <1>2. locks[e] = run[e].held /\ Ordered(e)
    BY DEF GatesInv, HandleOf, Gates!WaitsFor
  <1>3. s.kind < t.kind
    BY <1>1, <1>2 DEF Ordered, Gates!Before, Gates!Wanted
  <1> QED BY <1>1, <1>3 DEF Gates!Conflict

(* There are three kinds, so a chain of waits has at most three links. *)
LEMMA NoLongChain ==
  ASSUME GatesInv, NEW d0 \in Delivery, NEW d1 \in Delivery, NEW d2 \in Delivery,
         NEW d3 \in Delivery, NEW d4 \in Delivery,
         Gates!WaitsFor(d0, d1), Gates!WaitsFor(d1, d2), Gates!WaitsFor(d2, d3),
         Gates!WaitsFor(d3, d4)
  PROVE  FALSE
  <1>1. PICK r0 \in Gates!Wanted(d0), s0 \in locks[d1] : Gates!Conflict(r0, s0)
    BY DEF Gates!WaitsFor
  <1>2. PICK r1 \in Gates!Wanted(d1),
        s1 \in locks[d2] : Gates!Conflict(r1, s1) /\ r0.kind < r1.kind
    BY <1>1, WaitsGoUp
  <1>3. PICK r2 \in Gates!Wanted(d2),
        s2 \in locks[d3] : Gates!Conflict(r2, s2) /\ r1.kind < r2.kind
    BY <1>2, WaitsGoUp
  <1>4. PICK r3 \in Gates!Wanted(d3),
        s3 \in locks[d4] : Gates!Conflict(r3, s3) /\ r2.kind < r3.kind
    BY <1>3, WaitsGoUp
  <1>5. {r0, r1, r2, r3} \subseteq Gates!Need
    BY DEF GatesInv, Shape, RunRow, Gates!Wanted, Gates!Todo
  <1> QED BY <1>2, <1>3, <1>4, <1>5, KindsAreNumbers

LEMMA WaitsEnd == GatesInv => Gates!NoCircularWait
  <1> SUFFICES ASSUME GatesInv, NEW group \in SUBSET Delivery, group # {},
                      \A d \in group : \E e \in group \ {d} : Gates!WaitsFor(d, e)
               PROVE  FALSE
    BY DEF Gates!NoCircularWait
  <1>1. PICK d0 : d0 \in group
    OBVIOUS
  <1>2. PICK d1 \in group : Gates!WaitsFor(d0, d1)
    BY <1>1
  <1>3. PICK d2 \in group : Gates!WaitsFor(d1, d2)
    OBVIOUS
  <1>4. PICK d3 \in group : Gates!WaitsFor(d2, d3)
    OBVIOUS
  <1>5. PICK d4 \in group : Gates!WaitsFor(d3, d4)
    OBVIOUS
  <1>6. {d0, d1, d2, d3, d4} \subseteq Delivery
    BY <1>1
  <1> QED BY <1>2, <1>3, <1>4, <1>5, <1>6, NoLongChain

(* The canonical order of the gates leaves no circle of waiting deliveries. *)
THEOREM WaitsAreAcyclic == Gates!Spec => []NoCircularWait
  BY GatesInvariant, WaitsEnd, PTL DEF NoCircularWait

(* Only a refused delivery whose deadline has passed times out. *)
LEMMA OnlyRefusedTimesOut ==
  ASSUME GatesInv, NEW d \in Delivery, Gates!Next,
         run'[d].outcome = "timeout", run[d].outcome # "timeout"
  PROVE  Gates!Refused(d)
  <1>1. run \in [Delivery -> RunRow]
    BY DEF GatesInv, Shape
  <1>2. PICK e \in Delivery :
          Gates!Begin(e) \/ Gates!Acquire(e) \/ Gates!Return(e) \/ Gates!Release(e)
            \/ Gates!Disturb(e) \/ Gates!Reap(e)
    BY DEF Gates!Next
  <1>3. \/ \E r : run' = [run EXCEPT ![e] = r] /\ r.outcome \in {"none", run[e].outcome}
        \/ \E outcome \in {"none", "cancelled", "connection_lost", "error", "done"} :
             run'[e].outcome = outcome /\ \A f \in Delivery \ {e} : run'[f] = run[f]
        \/ UNCHANGED run
        \/ Gates!Refused(e) /\ \A f \in Delivery \ {e} : run'[f] = run[f]
    <2>1. CASE Gates!Begin(e) \/ Gates!Close(e) \/ Gates!Crash(e)
      BY ZenonT(40), <1>1, <2>1 DEF Gates!Begin, Gates!Close, Gates!Crash, Gates!NotRunning
    <2>2. CASE Gates!CheckCancelled(e) \/ Gates!Return(e) \/ Gates!Interrupted(e)
               \/ Gates!AskInVain(e)
      BY <1>1, <2>2
      DEF Gates!CheckCancelled, Gates!Return, Gates!Interrupted, Gates!AskInVain, Gates!Unwind,
          Gates!Leave, Gates!Goto, RunRow
    <2>3. CASE Gates!Lock(e)
      BY SMTT(30), <1>1, <2>3 DEF Gates!Lock, Gates!Leave, RunRow
    <2>4. CASE Gates!Refused(e)
      BY <1>1, <2>4 DEF Gates!Refused, Gates!Unwind, Gates!Leave, Gates!Goto, RunRow
    <2>5. CASE Gates!Poll(e) \/ Gates!Unlock(e) \/ Gates!Cancel(e) \/ Gates!Expire(e)
               \/ Gates!SessionLost(e) \/ Gates!Reap(e)
      BY <1>1, <2>5 DEF Gates!Poll, Gates!Unlock, Gates!Cancel, Gates!Expire, Gates!SessionLost,
                        Gates!Reap, Gates!Goto, RunRow
    <2> QED BY <1>2, <2>1, <2>2, <2>3, <2>4, <2>5 DEF Gates!Acquire, Gates!Release,
                                                      Gates!Disturb
  <1> QED BY <1>1, <1>3

(* A delivery that times out faces a gate that another session holds. *)
THEOREM TimeoutsAreHonest == Gates!Spec => Gates!TimesOutOnlyWhenBusy
  <1>1. GatesInv /\ [Gates!Next]_gates =>
          [\A d \in Delivery : run'[d].outcome = "timeout" /\ run[d].outcome # "timeout" =>
             \E r \in Gates!Wanted(d) : ~Gates!Free(d, r)]_gates
    BY OnlyRefusedTimesOut DEF Gates!Refused
  <1> QED BY <1>1, GatesInvariant, PTL DEF Gates!Spec, Gates!vars, gates,
                                           Gates!TimesOutOnlyWhenBusy
=============================================================================
