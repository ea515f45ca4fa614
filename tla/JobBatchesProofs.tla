--------------------------- MODULE JobBatchesProofs ---------------------------
(***************************************************************************)
(* Proofs about JobBatches: what a parent's verdict rests on, for any      *)
(* number of children, commands and retries.                               *)
(*                                                                         *)
(* The inductive invariant has two halves.  Sessions says what an open     *)
(* transaction holds and how its copies relate to the committed rows: a    *)
(* child's own row is current because its lock is held, the batch row may  *)
(* be stale but never claims more than the committed one, and the children *)
(* a cancel did not page have ended or are successors.  Story says what    *)
(* the committed rows mean.  A commit that projects (ProjectedStory) needs *)
(* only the first half's word for its copies.                              *)
(***************************************************************************)
EXTENDS JobBatches, FiniteSetTheorems, TLAPS

-----------------------------------------------------------------------------
(* The sessions. *)

Locked == \A s, u \in Session : s # u => tx[s].holds \cap tx[u].holds = {}

AtRest == \A s \in Session : tx[s].step = "idle" => tx[s] = Idle

\* No child spent its deferral budget or was retried by itself.
Clean == \A c \in Child : ~children[c].exhausted /\ ~children[c].successor

\* A copy of the batch row claims no more than the row.
Seen(seen) ==
  /\ seen.mode = batch.mode /\ seen.created <= batch.created
  /\ seen.mode = "fixed" => seen.sealed
  /\ Clean => seen.terminal <= batch.terminal

\* The transaction of a child: only its own row is loaded, and it is current.
ChildTx(c) ==
  tx[c].step # "idle" =>
    /\ tx[c].work \in ChildWork /\ tx[c].step \in {"batch", "parent"}
    /\ c \in tx[c].holds /\ (tx[c].step = "parent" => "batch" \in tx[c].holds)
    /\ tx[c].changed = {c}
    /\ \A d \in Child : tx[c].rows[d].phase = "absent" <=> d # c
    /\ Seen(tx[c].seen) /\ (tx[c].seen.sealed => batch.sealed)
    /\ children[c].phase \in {"queued", "running", "stopping"}
    /\ tx[c].rows[c].phase = "terminal" <=> tx[c].rows[c].outcome # "none"
    /\ tx[c].rows[c].outcome \in Endings \cup {"none", "cancelled"}
    /\ tx[c].rows[c].successor = children[c].successor
    /\ tx[c].rows[c].desired \in {children[c].desired, "cancel"}

\* The producer's copy of the batch row is the row, and what it adds is new.
ProducerTx ==
  LET t == tx[Producer] IN
  t.step # "idle" =>
    /\ t.work \in {"append", "seal"} /\ "batch" \in t.holds
    /\ t.seen = batch /\ ~batch.sealed
    /\ t.work = "seal" => t.changed = {}
    /\ t.work = "append" => \E c \in Child : /\ t.changed = {c} /\ t.rows[c] = QueuedChild
                                             /\ children[c].phase = "absent"

\* What a cancel knows of child c while it pages.
Paging(t, c) ==
  /\ t.rows[c].phase # "absent" <=> c \in t.changed \cup t.todo
  /\ c \in t.todo => t.rows[c].outcome = "none"
  /\ c \in t.changed \cup t.todo =>
       children[c].phase # "absent" /\ t.rows[c].successor = children[c].successor
  /\ c \notin t.changed \cup t.todo =>
       children[c].phase \in {"terminal", "absent"} \/ children[c].successor
  /\ c \in t.changed =>
       /\ children[c].phase # "terminal" /\ t.rows[c].desired = "cancel"
       /\ t.rows[c].phase = "terminal" <=> t.rows[c].outcome # "none"
       /\ t.rows[c].outcome \in {"none", "cancelled"}

\* A command holds the parent, and pages the children under the batch row.
UserTx ==
  LET t == tx[User] IN
  t.step # "idle" =>
    /\ t.work \in {"cancel", "priority"} /\ t.step \in {"batch", "paging"}
    /\ "parent" \in t.holds /\ Seen(t.seen)
    /\ t.step = "batch" => t.changed = {} /\ t.todo = {}
    /\ t.step = "paging" => "batch" \in t.holds /\ t.changed \subseteq t.holds
    /\ t.work = "priority" => t.changed = {}
    /\ t.step = "paging" /\ t.work = "cancel" =>
         t.seen.sealed /\ \A c \in Child : Paging(t, c)

Sessions ==
  /\ Locked /\ AtRest
  /\ \A c \in Child : ChildTx(c)
  /\ ProducerTx /\ UserTx

-----------------------------------------------------------------------------
(* The committed rows. *)

AbsentIsNew ==
  \A c \in Child : children[c].phase = "absent" =>
                     ~children[c].successor /\ ~children[c].exhausted

\* The outcomes a child ends with by itself, or spends its budget or is cancelled with.
EndsAsKnown == \A c \in Child : children[c].outcome \in Endings \cup {"none", "cancelled", "failed"}

FixedIsSealed == batch.mode = "fixed" => batch.sealed

Backed ==
  parent.phase = "terminal" =>
    /\ batch.sealed
    /\ \A c \in Counted : children[c].phase = "terminal"
    /\ parent.outcome \in {Aggregate({children[c].outcome : c \in Counted}, b) : b \in BOOLEAN}

\* The count of ends is exact, and the last of them reached the parent.
Told ==
  Clean =>
    /\ batch.terminal = Cardinality(Ended(children))
    /\ (batch.mode = "fixed" /\ \A c \in Present(children) : children[c].phase = "terminal")
         => parent.phase = "terminal"

Story ==
  /\ AbsentIsNew /\ EndsAsKnown /\ FixedIsSealed /\ CreatedTotalExact
  /\ Backed /\ CancelReachesEveryChild /\ Told

IInv == TypeOK /\ Sessions /\ Story

-----------------------------------------------------------------------------
(* Counting children. *)

LEMMA Sizes ==
  ASSUME NEW S \in SUBSET Child, NEW T \in SUBSET S
  PROVE  /\ IsFiniteSet(S) /\ IsFiniteSet(T)
         /\ Cardinality(S) \in Nat /\ Cardinality(T) \in Nat
         /\ Cardinality(T) <= Cardinality(S)
         /\ Cardinality(T) = Cardinality(S) => T = S
<1>1. IsFiniteSet(S) /\ IsFiniteSet(T)
  BY JobBatchesAssumption, FS_Subset
<1>2. Cardinality(T) <= Cardinality(S) /\ (Cardinality(T) = Cardinality(S) => T = S)
  BY <1>1, FS_Subset
<1>3. Cardinality(S) \in Nat /\ Cardinality(T) \in Nat
  BY <1>1, FS_CardinalityType
<1> QED
  BY <1>1, <1>2, <1>3

\* Where a batch of no superseded child offers a retry, a child is there for it.
LEMMA AggregateRetryable ==
  ASSUME NEW outcomes \in SUBSET (AllOutcomes \ {"superseded"}), NEW cancelled \in BOOLEAN,
         Aggregate(outcomes, cancelled) \in {"failed", "cancelled", "partially_succeeded"}
  PROVE  \E o \in outcomes : Retryable(o)
<1> DEFINE Has(some) == outcomes \cap some # {}
<1>1. Has({"partially_succeeded"}) \/ Has({"failed", "dead_letter", "unsafe"}) \/ Has({"cancelled"})
  BY DEF Aggregate
<1> QED
  BY <1>1 DEF Retryable

-----------------------------------------------------------------------------
(* What the committed rows mean after a change. *)

\* A change of one child that has not ended, with no word to its parent.
Aside(c, row) ==
  /\ row \in ChildRow /\ row.phase # "absent"
  /\ row.phase = "terminal" <=> row.outcome # "none"
  /\ row.phase = "terminal" => row.exhausted
  /\ row.outcome \in {"none", "failed"}
  /\ children[c].phase # "terminal"
  /\ children[c].phase # "absent" => row.successor = children[c].successor
  /\ children[c].phase = "absent" => row.successor
  /\ children[c].exhausted => row.exhausted
  /\ row.phase = "terminal" \/ row.desired \in {children[c].desired, "cancel"} \/ row.successor

LEMMA AsideStory ==
  ASSUME TypeOK, Story, UNCHANGED <<parent, batch>>,
         NEW c \in Child, NEW row, children' = [children EXCEPT ![c] = row], Aside(c, row)
  PROVE  /\ Story'
         /\ children' \in [Child -> ChildRow]
         /\ \A d \in Child : children'[d].phase = "terminal" <=> children'[d].outcome # "none"
         /\ Clean' => Clean
<1>1. /\ children \in [Child -> ChildRow]
      /\ \A d \in Child : children[d].phase = "terminal" <=> children[d].outcome # "none"
  BY DEF TypeOK
<1>2. /\ children'[c] = row /\ \A d \in Child \ {c} : children'[d] = children[d]
      /\ children' \in [Child -> ChildRow]
  BY <1>1 DEF Aside
<1>3. \A d \in Child : children'[d].phase = "terminal" <=> children'[d].outcome # "none"
  BY <1>1, <1>2 DEF Aside
<1>4. Clean' => Clean
  BY <1>2 DEF Clean, Aside, Story, AbsentIsNew
<1>5. Counted' = Counted
  BY <1>2 DEF Counted, Present, Aside
<1>6. \A d \in Counted : children[d].phase = "terminal" => children'[d] = children[d]
  BY <1>2 DEF Aside, Counted, Present
<1>7. AbsentIsNew' /\ EndsAsKnown' /\ FixedIsSealed' /\ CreatedTotalExact'
  BY <1>2, <1>5 DEF Story, AbsentIsNew, EndsAsKnown, FixedIsSealed, CreatedTotalExact, Aside
<1>8. Backed'
  <2> SUFFICES ASSUME parent.phase = "terminal" PROVE Backed'
    BY DEF Backed
  <2>1. \A d \in Counted : children[d].phase = "terminal" /\ children'[d] = children[d]
    BY <1>6 DEF Story, Backed
  <2>2. {children'[d].outcome : d \in Counted} = {children[d].outcome : d \in Counted}
    BY <2>1
  <2> QED
    BY <1>5, <2>1, <2>2 DEF Story, Backed
<1>9. CancelReachesEveryChild'
  BY <1>2, <1>5 DEF Story, CancelReachesEveryChild, Aside, Counted, Present
<1>10. Told'
  <2> SUFFICES ASSUME Clean' PROVE Told'
    BY DEF Told
  <2>1. row.phase # "terminal" /\ ~row.exhausted
    BY <1>2 DEF Clean, Aside
  <2>2. Ended(children') = Ended(children)
    BY <1>1, <1>2, <1>3, <2>1 DEF Ended, Aside
  <2>3. c \in Present(children')
    BY <1>2 DEF Present, Aside
  <2> QED
    BY <1>2, <1>4, <2>1, <2>2, <2>3 DEF Story, Told
<1> QED
  BY <1>2, <1>3, <1>4, <1>7, <1>8, <1>9, <1>10 DEF Story

\* The rows a projection reads, and the table ks once it commits: they agree on
\* phases and outcomes, and the same children are there as before.
Read(rows, ks) ==
  /\ rows \in [Child -> ChildRow] /\ ks \in [Child -> ChildRow]
  /\ \A c \in Child :
       /\ rows[c].phase = ks[c].phase /\ rows[c].outcome = ks[c].outcome
       /\ ks[c].phase = "terminal" <=> ks[c].outcome # "none"
       /\ ks[c].phase = "absent" <=> children[c].phase = "absent"
       /\ ks[c].successor = children[c].successor /\ ks[c].exhausted = children[c].exhausted
       /\ children[c].phase = "terminal" => ks[c].phase = "terminal" /\ ks[c].outcome = children[c].outcome
       /\ ks[c].outcome \in Endings \cup {"none", "cancelled", "failed"}

LEMMA ProjectedStory ==
  ASSUME TypeOK, Story,
         NEW seen \in BatchRow, Seen(seen), NEW rows, Read(rows, children'),
         NEW wish \in {"run", "cancel"},
         NEW row \in BatchRow, row = batch \/ row = [batch EXCEPT !.sealed = TRUE],
         seen.sealed => row.sealed,
         Projectable(seen, rows),
         parent' = ProjectedParent(seen, rows, wish),
         batch' = ProjectedBatch(row, seen, rows)
  PROVE  /\ AbsentIsNew' /\ EndsAsKnown' /\ FixedIsSealed' /\ CreatedTotalExact' /\ Backed' /\ Told'
         /\ parent' \in ParentRow /\ batch' \in BatchRow /\ batch'.terminal <= batch'.created
         /\ batch'.mode = batch.mode /\ batch'.created = batch.created
         /\ (batch.sealed => batch'.sealed) /\ batch'.sealed = row.sealed
         /\ (Clean' => Clean) /\ (Clean => batch.terminal <= batch'.terminal)
         /\ Counted' = Counted
<1>0. /\ children \in [Child -> ChildRow] /\ batch \in BatchRow /\ parent \in ParentRow
      /\ batch.terminal <= batch.created /\ batch.created \in Nat /\ batch.terminal \in Nat
      /\ seen.created \in Nat /\ seen.terminal \in Nat
      /\ row.mode = batch.mode /\ row.created = batch.created /\ row.terminal = batch.terminal
      /\ batch.sealed => row.sealed
  BY DEF TypeOK, BatchRow
<1>1. /\ Present(rows) \in SUBSET Child /\ Ended(rows) \in SUBSET Present(rows)
      /\ Present(rows) = Present(children) /\ Present(children') = Present(children)
      /\ Ended(rows) = Ended(children') /\ Ended(children) \in SUBSET Ended(children')
  BY <1>0 DEF Read, Present, Ended, TypeOK
<1>2. Counted' = Counted /\ Counted \in SUBSET Present(rows)
  BY <1>1 DEF Counted, Read, Present
<1>3. /\ batch' \in BatchRow /\ batch'.mode = batch.mode /\ batch'.created = batch.created
      /\ batch'.sealed = row.sealed
      /\ batch'.terminal = IF Cardinality(Ended(rows)) = seen.terminal THEN batch.terminal
                           ELSE Cardinality(Ended(rows))
  <2>1. Cardinality(Ended(rows)) \in Nat
    BY <1>1, Sizes
  <2> QED
    BY <1>0, <2>1 DEF ProjectedBatch, BatchRow
<1>4. batch'.terminal <= batch'.created
  <2>1. Cardinality(Ended(rows)) <= Cardinality(Present(rows)) /\ Cardinality(Ended(rows)) \in Nat
    BY <1>1, Sizes
  <2>2. Cardinality(Present(rows)) <= batch.created
    BY DEF Projectable, Seen
  <2>3. CASE Cardinality(Ended(rows)) = seen.terminal
    BY <1>0, <1>3, <2>3
  <2>4. CASE Cardinality(Ended(rows)) # seen.terminal
    BY <1>0, <1>3, <2>1, <2>2, <2>4 DEF Projectable
  <2> QED
    BY <2>3, <2>4
<1>5. AbsentIsNew' /\ EndsAsKnown' /\ FixedIsSealed' /\ CreatedTotalExact'
  BY <1>0, <1>2, <1>3 DEF Story, AbsentIsNew, EndsAsKnown, FixedIsSealed, CreatedTotalExact, Read
<1>6. Clean' => Clean
  BY DEF Clean, Read
<1>7. ASSUME Over(seen, rows)
      PROVE  /\ Ended(rows) = Present(rows) /\ Counted = Present(rows) /\ row.sealed
  <2>1. Ended(rows) = Present(rows)
    BY <1>1, <1>7, Sizes DEF Over, Projectable
  <2>2. Cardinality(Counted) = batch.created
    BY DEF Story, CreatedTotalExact
  <2>3. Cardinality(Counted) <= Cardinality(Present(rows)) /\ Cardinality(Counted) \in Nat
        /\ Cardinality(Present(rows)) \in Nat
    BY <1>1, <1>2, Sizes
  <2>4. Cardinality(Counted) = Cardinality(Present(rows))
    BY <2>2, <2>3 DEF Projectable, Seen
  <2>5. Counted = Present(rows)
    BY <1>1, <1>2, <2>4, Sizes
  <2> QED
    BY <1>7, <2>1, <2>5 DEF Over
<1>8. Backed'
  <2>1. CASE ~Over(seen, rows)
    BY <2>1 DEF ProjectedParent, Backed
  <2>2. CASE Over(seen, rows)
    <3>1. \A c \in Counted : children'[c].phase = "terminal" /\ children'[c].outcome = rows[c].outcome
      BY <1>7, <2>2 DEF Ended, Read
    <3>2. parent'.outcome = Aggregate({rows[c].outcome : c \in Present(rows)}, wish = "cancel")
      BY <2>2 DEF ProjectedParent
    <3>3. {rows[c].outcome : c \in Present(rows)} = {children'[c].outcome : c \in Counted}
      BY <1>7, <2>2, <3>1
    <3> QED
      BY <1>2, <1>3, <1>7, <2>2, <3>1, <3>2, <3>3 DEF Backed
  <2> QED
    BY <2>1, <2>2
<1>9. Clean => batch.terminal <= batch'.terminal
  <2> SUFFICES ASSUME Clean PROVE batch.terminal <= batch'.terminal
    OBVIOUS
  <2>1. batch.terminal = Cardinality(Ended(children))
    BY DEF Story, Told
  <2>2. Cardinality(Ended(children)) <= Cardinality(Ended(rows)) /\ Cardinality(Ended(rows)) \in Nat
    <3>1. Ended(rows) \in SUBSET Child /\ Ended(children) \in SUBSET Ended(rows)
      BY <1>1
    <3> QED
      BY <3>1, Sizes
  <2> QED
    BY <1>0, <1>3, <2>1, <2>2
<1>10. Told'
  <2> SUFFICES ASSUME Clean' PROVE Told'
    BY DEF Told
  <2>1. batch'.terminal = Cardinality(Ended(children'))
    <3>1. batch.terminal = Cardinality(Ended(children)) /\ seen.terminal <= batch.terminal
      BY <1>6 DEF Story, Told, Seen
    <3>2. Cardinality(Ended(children)) <= Cardinality(Ended(rows))
      <4>1. Ended(rows) \in SUBSET Child /\ Ended(children) \in SUBSET Ended(rows)
        BY <1>1
      <4> QED
        BY <4>1, Sizes
    <3> QED
      BY <1>0, <1>1, <1>3, <3>1, <3>2
  <2>2. ASSUME batch'.mode = "fixed", \A c \in Present(children') : children'[c].phase = "terminal"
        PROVE  parent'.phase = "terminal"
    <3>1. seen.sealed
      BY <1>3, <2>2 DEF Seen
    <3>2. Ended(rows) = Present(rows)
      BY <1>1, <2>2 DEF Ended, Present, Read
    <3>3. Over(seen, rows)
      BY <3>1, <3>2 DEF Over, Projectable
    <3> QED
      BY <3>3 DEF ProjectedParent
  <2> QED
    BY <2>1, <2>2 DEF Told
<1>11. parent' \in ParentRow
  <2>1. \A outcomes : \A b \in BOOLEAN : Aggregate(outcomes, b) \in AllOutcomes
    BY DEF Aggregate, AllOutcomes
  <2> QED
    BY <2>1 DEF ProjectedParent, ParentRow
<1> QED
  BY <1>0, <1>2, <1>3, <1>4, <1>5, <1>6, <1>8, <1>9, <1>10, <1>11

\* A change of no child's row and of no more than the parent's attention.
LEMMA QuietStory ==
  ASSUME TypeOK, Story, UNCHANGED <<batch, children>>, NEW a \in {"none", "failed", "transport_link"},
         parent' = parent \/ parent' = [parent EXCEPT !.attention = a]
  PROVE  Story' /\ parent' \in ParentRow
<1>1. /\ parent' \in ParentRow /\ parent'.phase = parent.phase /\ parent'.outcome = parent.outcome
      /\ parent'.desired = parent.desired
  BY DEF TypeOK, ParentRow
<1>2. Counted' = Counted /\ Ended(children') = Ended(children) /\ Present(children') = Present(children)
      /\ Clean' = Clean
  BY DEF Counted, Present, Ended, Clean
<1>3. AbsentIsNew' /\ EndsAsKnown' /\ FixedIsSealed' /\ CreatedTotalExact' /\ CancelReachesEveryChild'
  BY <1>1, <1>2 DEF Story, AbsentIsNew, EndsAsKnown, FixedIsSealed, CreatedTotalExact,
                    CancelReachesEveryChild
<1>4. Backed'
  <2> SUFFICES ASSUME parent.phase = "terminal" PROVE Backed'
    BY <1>1 DEF Backed
  <2>1. {children'[c].outcome : c \in Counted'} = {children[c].outcome : c \in Counted}
    BY <1>2
  <2> QED
    BY <1>1, <1>2, <2>1 DEF Story, Backed
<1>5. Told'
  BY <1>1, <1>2 DEF Story, Told
<1> QED
  BY <1>1, <1>3, <1>4, <1>5 DEF Story

-----------------------------------------------------------------------------
(* What the sessions that do not act keep. *)

\* The batch row only grows, as long as no child disturbs its count.
Grows ==
  /\ batch'.mode = batch.mode /\ batch.created <= batch'.created
  /\ batch.sealed => batch'.sealed
  /\ Clean' => Clean /\ batch.terminal <= batch'.terminal

LEMMA SeenKept ==
  ASSUME TypeOK, TypeOK', Grows, NEW seen \in BatchRow, Seen(seen)
  PROVE  Seen(seen)'
<1>1. /\ seen.created \in Nat /\ seen.terminal \in Nat /\ batch.created \in Nat
      /\ batch'.created \in Nat /\ batch.terminal \in Nat /\ batch'.terminal \in Nat
  BY DEF TypeOK, BatchRow
<1> QED
  BY <1>1 DEF Seen, Grows

\* How the row of a child the user's command has not changed may change.
Moved(c) ==
  /\ c \notin tx[User].changed /\ children[c].phase # "terminal" /\ children'[c].phase # "absent"
  /\ children[c].phase = "absent" => children'[c].successor
  /\ children[c].phase # "absent" => children'[c].successor = children[c].successor

LEMMA SessionsKept ==
  ASSUME TypeOK, TypeOK', Sessions, Locked', AtRest', Grows,
         \A c \in Child : \/ ChildTx(c)'
                          \/ /\ tx'[c] = tx[c]
                             /\ tx[c].step # "idle" => children'[c] = children[c],
         \/ ProducerTx'
         \/ /\ tx'[Producer] = tx[Producer]
            /\ tx[Producer].step # "idle" =>
                 batch' = batch /\ \A c \in tx[Producer].changed : children'[c] = children[c],
         \/ UserTx'
         \/ /\ tx'[User] = tx[User]
            /\ tx[User].step = "paging" => \A c \in Child : children'[c] = children[c] \/ Moved(c)
  PROVE  Sessions'
<1>0. \A s \in Session : tx[s].seen \in BatchRow
  BY DEF TypeOK, TxRow
<1>1. ASSUME NEW c \in Child PROVE ChildTx(c)'
  <2> SUFFICES ASSUME tx'[c] = tx[c], tx[c].step # "idle", children'[c] = children[c]
               PROVE  ChildTx(c)'
    BY DEF ChildTx
  <2>1. Seen(tx[c].seen)
    BY DEF Sessions, ChildTx
  <2>2. Seen(tx[c].seen)'
    <3>1. PICK seen : seen = tx[c].seen
      OBVIOUS
    <3>2. Seen(seen)'
      BY <1>0, <2>1, <3>1, SeenKept DEF Session
    <3> QED
      BY <3>1, <3>2 DEF Seen
  <2> QED
    BY <2>2 DEF Sessions, ChildTx, Grows
<1>2. ProducerTx'
  <2> SUFFICES ASSUME tx'[Producer] = tx[Producer], tx[Producer].step # "idle", batch' = batch,
                      \A c \in tx[Producer].changed : children'[c] = children[c]
               PROVE  ProducerTx'
    BY DEF ProducerTx
  <2> QED
    BY DEF Sessions, ProducerTx
<1>3. UserTx'
  <2> SUFFICES ASSUME tx'[User] = tx[User], tx[User].step # "idle",
                      tx[User].step = "paging" =>
                        \A c \in Child : children'[c] = children[c] \/ Moved(c)
               PROVE  UserTx'
    BY DEF UserTx
  <2>1. Seen(tx[User].seen)'
    <3>1. PICK seen : seen = tx[User].seen
      OBVIOUS
    <3>2. Seen(seen)'
      BY <1>0, <3>1, SeenKept DEF Session, Sessions, UserTx
    <3> QED
      BY <3>1, <3>2 DEF Seen
  <2>2. ASSUME tx[User].step = "paging", tx[User].work = "cancel", NEW c \in Child
        PROVE  Paging(tx[User], c)'
    <3>1. Paging(tx[User], c) /\ (children'[c] = children[c] \/ Moved(c))
      BY <2>2 DEF Sessions, UserTx
    <3> QED
      BY <3>1 DEF Paging, Moved
  <2> QED
    BY <2>1, <2>2 DEF Sessions, UserTx
<1> QED
  BY <1>1, <1>2, <1>3 DEF Sessions

\* A session takes locks that are free, or is done.
LEMMA Opened ==
  ASSUME TypeOK, Sessions, NEW s \in Session, NEW t \in TxRow, Open(s, t), t.step # "idle",
         \A r \in t.holds : r \in tx[s].holds \/ Free(r)
  PROVE  /\ Locked' /\ AtRest' /\ tx' \in [Session -> TxRow] /\ tx'[s] = t
         /\ \A u \in Session \ {s} : tx'[u] = tx[u]
<1>1. tx \in [Session -> TxRow]
  BY DEF TypeOK
<1>2. /\ tx' \in [Session -> TxRow] /\ tx'[s] = t
      /\ \A u \in Session \ {s} : tx'[u] = tx[u]
  BY <1>1 DEF Open
<1>3. AtRest'
  BY <1>2 DEF Sessions, AtRest
<1>4. ASSUME NEW u \in Session \ {s} PROVE t.holds \cap tx[u].holds = {}
  BY DEF Sessions, Locked, Free
<1>5. Locked'
  <2> SUFFICES ASSUME NEW u \in Session, NEW v \in Session, u # v
               PROVE  tx'[u].holds \cap tx'[v].holds = {}
    BY DEF Locked
  <2>1. CASE u = s
    BY <1>2, <1>4, <2>1
  <2>2. CASE v = s
    BY <1>2, <1>4, <2>2
  <2>3. CASE u # s /\ v # s
    BY <1>2, <2>3 DEF Sessions, Locked
  <2> QED
    BY <2>1, <2>2, <2>3
<1> QED
  BY <1>2, <1>3, <1>5

LEMMA IdleRow ==
  Idle \in TxRow /\ QueuedChild \in ChildRow /\ AbsentChild \in ChildRow /\ EmptyBatch \in BatchRow
<1>1. QueuedChild \in ChildRow /\ AbsentChild \in ChildRow /\ EmptyBatch \in BatchRow
  BY DEF QueuedChild, AbsentChild, ChildRow, EmptyBatch, BatchRow, AllModes
<1> QED
  BY <1>1 DEF Idle, TxRow

LEMMA Closed ==
  ASSUME TypeOK, Sessions, NEW s \in Session, Close(s)
  PROVE  /\ Locked' /\ AtRest' /\ tx' \in [Session -> TxRow] /\ tx'[s] = Idle
         /\ \A u \in Session \ {s} : tx'[u] = tx[u]
<1>1. tx \in [Session -> TxRow] /\ Idle \in TxRow /\ Idle.holds = {}
  BY IdleRow DEF TypeOK, Idle
<1>2. /\ tx' \in [Session -> TxRow] /\ tx'[s] = Idle
      /\ \A u \in Session \ {s} : tx'[u] = tx[u]
  BY <1>1 DEF Close
<1>3. AtRest'
  BY <1>2 DEF Sessions, AtRest
<1>4. Locked'
  BY <1>1, <1>2 DEF Sessions, Locked
<1> QED
  BY <1>2, <1>3, <1>4

\* Who holds the batch row keeps the producer out, and a command from paging.
LEMMA HoldsBatch ==
  ASSUME TypeOK, Sessions, NEW s \in Session, "batch" \in tx[s].holds
  PROVE  /\ s # Producer => tx[Producer].step = "idle"
         /\ s # User => tx[User].step # "paging"
<1>1. \A u \in Session \ {s} : "batch" \notin tx[u].holds
  BY DEF Sessions, Locked
<1> QED
  BY <1>1 DEF Sessions, ProducerTx, UserTx, Session

\* Nobody works on a child whose row is free.
LEMMA FreeRow ==
  ASSUME TypeOK, Sessions, NEW c \in Child, Free(c)
  PROVE  tx[c].step = "idle" /\ (tx[User].step = "paging" => c \notin tx[User].changed)
BY DEF Free, Sessions, ChildTx, UserTx, Session

\* A step that changes neither the batch row nor a child.
LEMMA SameRows ==
  ASSUME TypeOK, UNCHANGED <<batch, children>>
  PROVE  Grows /\ Clean' = Clean
BY DEF Grows, Clean, TypeOK, BatchRow

-----------------------------------------------------------------------------
(* Every step preserves the invariant. *)

LEMMA IInvInit == Init => IInv
<1> SUFFICES ASSUME Init PROVE IInv
  OBVIOUS
<1>1. /\ tx = [s \in Session |-> Idle] /\ Idle.holds = {} /\ Idle.step = "idle"
      /\ spent = [commands |-> 0, retries |-> [c \in Child |-> 0]]
      /\ Idle \in TxRow /\ QueuedChild \in ChildRow /\ AbsentChild \in ChildRow
      /\ EmptyBatch \in BatchRow
      /\ QueuedChild.phase = "queued" /\ AbsentChild.phase = "absent"
      /\ QueuedChild.outcome = "none" /\ AbsentChild.outcome = "none"
      /\ ~QueuedChild.successor /\ ~AbsentChild.successor
      /\ ~QueuedChild.exhausted /\ ~AbsentChild.exhausted
  BY IdleRow DEF Init, Idle, QueuedChild, AbsentChild
<1>2. Sessions
  BY <1>1 DEF Sessions, Locked, AtRest, ChildTx, ProducerTx, UserTx, Session
<1>3. tx \in [Session -> TxRow] /\ spent \in [commands : Nat, retries : [Child -> Nat]]
  BY <1>1
<1>4. ASSUME CreateFixed PROVE TypeOK /\ Story
  <2>1. PICK chosen \in SUBSET Child :
          /\ children = [c \in Child |-> IF c \in chosen THEN QueuedChild ELSE AbsentChild]
          /\ tickets = [c \in Child |-> IF c \in chosen THEN "queued" ELSE "none"]
          /\ batch = [mode |-> "fixed", sealed |-> TRUE, created |-> Cardinality(chosen),
                      terminal |-> 0]
          /\ parent = [phase |-> IF chosen = {} THEN "terminal" ELSE "queued",
                       outcome |-> IF chosen = {} THEN "no_change" ELSE "none",
                       desired |-> "run", attention |-> "none"]
    BY <1>4 DEF CreateFixed
  <2>2. Cardinality(chosen) \in Nat
    BY Sizes
  <2>3. /\ batch \in BatchRow /\ batch.mode = "fixed" /\ batch.sealed /\ batch.terminal = 0
        /\ batch.created = Cardinality(chosen)
    BY <2>1, <2>2 DEF BatchRow, AllModes
  <2>4. /\ parent \in ParentRow /\ (parent.phase = "terminal" <=> chosen = {})
        /\ (chosen = {} => parent.outcome = "no_change") /\ parent.desired = "run"
    BY <2>1 DEF ParentRow, AllOutcomes
  <2>5. /\ children \in [Child -> ChildRow] /\ tickets \in [Child -> {"none", "queued", "picked", "failed", "withdrawn", "gone"}]
        /\ \A c \in Child : /\ children[c].phase = IF c \in chosen THEN "queued" ELSE "absent"
                            /\ children[c].outcome = "none" /\ ~children[c].successor
                            /\ ~children[c].exhausted
    BY <1>1, <2>1
  <2>6. TypeOK
    BY <1>3, <2>2, <2>3, <2>4, <2>5 DEF TypeOK
  <2>7. Counted = chosen /\ Present(children) = chosen /\ Ended(children) = {}
    BY <2>5 DEF Counted, Present, Ended
  <2>8. Backed
    <3> SUFFICES ASSUME chosen = {} PROVE Backed
      BY <2>4 DEF Backed
    <3>1. {children[c].outcome : c \in Counted} = {}
      BY <2>7
    <3>2. Aggregate({}, TRUE) = "no_change"
      BY DEF Aggregate
    <3> QED
      BY <2>3, <2>4, <2>7, <3>1, <3>2 DEF Backed
  <2>9. Told
    BY <2>3, <2>4, <2>5, <2>7, FS_EmptySet DEF Told
  <2> QED
    BY <2>3, <2>4, <2>5, <2>6, <2>7, <2>8, <2>9
    DEF Story, AbsentIsNew, EndsAsKnown, FixedIsSealed, CreatedTotalExact, CancelReachesEveryChild
<1>5. ASSUME OpenDynamic PROVE TypeOK /\ Story
  <2>1. /\ batch = EmptyBatch /\ batch.mode = "dynamic" /\ batch.terminal = 0 /\ batch.created = 0
        /\ parent \in ParentRow /\ parent.phase = "queued" /\ parent.desired = "run"
        /\ children \in [Child -> ChildRow]
        /\ tickets \in [Child -> {"none", "queued", "picked", "failed", "withdrawn", "gone"}]
        /\ \A c \in Child : children[c] = AbsentChild
    BY <1>1, <1>5 DEF OpenDynamic, EmptyBatch, ParentRow
  <2>2. TypeOK
    BY <1>1, <1>3, <2>1 DEF TypeOK
  <2>3. Counted = {} /\ Ended(children) = {}
    BY <1>1, <2>1 DEF Counted, Present, Ended
  <2> QED
    BY <1>1, <2>1, <2>2, <2>3, FS_EmptySet
    DEF Story, AbsentIsNew, EndsAsKnown, FixedIsSealed, CreatedTotalExact, CancelReachesEveryChild,
        Backed, Told
<1> QED
  BY <1>2, <1>4, <1>5 DEF Init, IInv

\* A step that changes only the parent's attention and tickets.
LEMMA TicketStep ==
  ASSUME IInv, UNCHANGED <<batch, children, tx, spent>>,
         NEW a \in {"none", "failed", "transport_link"},
         parent' = parent \/ parent' = [parent EXCEPT !.attention = a],
         tickets' \in [Child -> {"none", "queued", "picked", "failed", "withdrawn", "gone"}]
  PROVE  IInv'
<1>1. Story' /\ parent' \in ParentRow
  BY QuietStory DEF IInv
<1>2. TypeOK'
  BY <1>1 DEF IInv, TypeOK
<1>3. Locked' /\ AtRest'
  BY DEF IInv, Sessions, Locked, AtRest
<1>4. Sessions'
  BY <1>2, <1>3, SameRows, SessionsKept DEF IInv
<1> QED
  BY <1>1, <1>2, <1>4 DEF IInv

\* A step of session s that changes only its own transaction.
LEMMA SessionStep ==
  ASSUME IInv, UNCHANGED <<parent, batch, children>>,
         tickets' \in [Child -> {"none", "queued", "picked", "failed", "withdrawn", "gone"}],
         spent' \in [commands : Nat, retries : [Child -> Nat]],
         NEW s \in Session, NEW t \in TxRow, Open(s, t),
         \/ t = Idle
         \/ t.step # "idle" /\ \A r \in t.holds : r \in tx[s].holds \/ Free(r),
         s \in Child => ChildTx(s)', s = Producer => ProducerTx', s = User => UserTx'
  PROVE  IInv'
<1>1. Story'
  BY QuietStory DEF IInv
<1>2. /\ Locked' /\ AtRest' /\ tx' \in [Session -> TxRow]
      /\ \A u \in Session \ {s} : tx'[u] = tx[u]
  BY Opened, Closed DEF IInv, Close, Open
<1>3. TypeOK'
  BY <1>2 DEF IInv, TypeOK
<1>4. /\ User \in Session /\ Producer \in Session /\ Child \subseteq Session
  BY DEF Session
<1>5. Sessions'
  BY <1>2, <1>3, <1>4, SameRows, SessionsKept DEF IInv
<1> QED
  BY <1>1, <1>3, <1>5 DEF IInv

\* A rollback leaves the rows as they are.
LEMMA RolledBack ==
  ASSUME IInv, NEW s \in Session, RollBack(s)
  PROVE  IInv'
<1>1. tx' \in [Session -> TxRow] /\ tx'[s] = Idle /\ Open(s, Idle) /\ Idle \in TxRow
      /\ Idle.step = "idle"
  BY Closed, IdleRow DEF IInv, RollBack, Close, Open, Idle
<1>2. tickets' \in [Child -> {"none", "queued", "picked", "failed", "withdrawn", "gone"}]
  BY DEF RollBack, IInv, TypeOK
<1>3. (s \in Child => ChildTx(s)') /\ (s = Producer => ProducerTx') /\ (s = User => UserTx')
  BY <1>1 DEF ChildTx, ProducerTx, UserTx
<1>4. UNCHANGED <<parent, batch, children, spent>> /\ spent \in [commands : Nat, retries : [Child -> Nat]]
  BY DEF RollBack, IInv, TypeOK
<1> QED
  BY <1>1, <1>2, <1>3, <1>4, SessionStep

\* A step that changes the row of one child nobody works on.
LEMMA AsideStep ==
  ASSUME IInv, UNCHANGED <<parent, batch, tx>>,
         tickets' \in [Child -> {"none", "queued", "picked", "failed", "withdrawn", "gone"}],
         spent' \in [commands : Nat, retries : [Child -> Nat]],
         NEW c \in Child, NEW row, children' = [children EXCEPT ![c] = row], Aside(c, row),
         tx[c].step = "idle", tx[User].step = "paging" => c \notin tx[User].changed,
         c \notin tx[Producer].changed
  PROVE  IInv'
<1>1. /\ Story' /\ children' \in [Child -> ChildRow]
      /\ \A d \in Child : children'[d].phase = "terminal" <=> children'[d].outcome # "none"
      /\ Clean' => Clean
  BY AsideStory DEF IInv
<1>2. TypeOK'
  BY <1>1 DEF IInv, TypeOK
<1>3. Locked' /\ AtRest'
  BY DEF IInv, Sessions, Locked, AtRest
<1>4. Grows
  BY <1>1 DEF Grows, IInv, TypeOK, BatchRow
<1>5. \A d \in Child : d # c => children'[d] = children[d]
  BY <1>1 DEF IInv, TypeOK
<1>6. tx[User].step = "paging" => Moved(c)
  <2>1. children'[c] = row
    BY DEF IInv, TypeOK
  <2> QED
    BY <2>1 DEF Moved, Aside
<1>7. \A d \in tx[Producer].changed : d \in Child
  BY DEF IInv, TypeOK, TxRow, Session
<1>8. Sessions'
  BY <1>2, <1>3, <1>4, <1>5, <1>6, <1>7, SessionsKept DEF IInv
<1> QED
  BY <1>1, <1>2, <1>8 DEF IInv

\* Children rows the producer's open transaction has not added are not in it.
LEMMA NotAppended ==
  ASSUME IInv, NEW c \in Child, children[c].phase # "absent"
  PROVE  c \notin tx[Producer].changed
<1>1. CASE tx[Producer].step = "idle"
  BY <1>1 DEF IInv, Sessions, AtRest, Session, Idle
<1>2. CASE tx[Producer].step # "idle"
  BY <1>2 DEF IInv, Sessions, ProducerTx
<1> QED
  BY <1>1, <1>2

LEMMA AsideSteps ==
  ASSUME IInv, NEW c \in Child,
         \/ StopChild(c) \/ ExhaustDeferral(c) \/ RetryChild(c)
         \/ \E d \in Child : RetryByUser(c, d)
  PROVE  IInv'
<1>0. /\ children \in [Child -> ChildRow]
      /\ \A d \in Child : children[d].phase = "terminal" <=> children[d].outcome # "none"
      /\ tickets \in [Child -> {"none", "queued", "picked", "failed", "withdrawn", "gone"}]
      /\ spent \in [commands : Nat, retries : [Child -> Nat]]
      /\ \A d \in Child : children[d].phase = "absent" => ~children[d].successor
  BY DEF IInv, TypeOK, Story, AbsentIsNew
<1>1. CommandSent => spent' \in [commands : Nat, retries : [Child -> Nat]]
  BY <1>0 DEF CommandSent
<1>2. ASSUME StopChild(c) PROVE IInv'
  <2> DEFINE row == [children[c] EXCEPT !.desired = "cancel", !.phase = "stopping"]
  <2>1. children' = [children EXCEPT ![c] = row]
    BY <1>0, <1>2 DEF StopChild
  <2>2. Aside(c, row)
    BY <1>0, <1>2 DEF StopChild, Aside, ChildRow
  <2>3. tx[c].step = "idle" /\ (tx[User].step = "paging" => c \notin tx[User].changed)
    BY <1>2, FreeRow DEF IInv, StopChild
  <2>4. /\ tickets' \in [Child -> {"none", "queued", "picked", "failed", "withdrawn", "gone"}]
        /\ UNCHANGED <<parent, batch, tx>> /\ children[c].phase # "absent"
    BY <1>0, <1>2 DEF StopChild
  <2> HIDE DEF row
  <2> QED
    BY <1>1, <1>2, <2>1, <2>2, <2>3, <2>4, NotAppended, AsideStep DEF StopChild
<1>3. ASSUME ExhaustDeferral(c) PROVE IInv'
  <2> DEFINE row == [children[c] EXCEPT !.phase = "terminal", !.outcome = "failed",
                                        !.exhausted = TRUE]
  <2>1. children' = [children EXCEPT ![c] = row]
    BY <1>0, <1>3 DEF ExhaustDeferral
  <2>2. Aside(c, row)
    BY <1>0, <1>3 DEF ExhaustDeferral, Aside, ChildRow, AllOutcomes
  <2>3. tx[c].step = "idle" /\ (tx[User].step = "paging" => c \notin tx[User].changed)
    BY <1>3, FreeRow DEF IInv, ExhaustDeferral
  <2>4. UNCHANGED <<parent, batch, tickets, tx, spent>> /\ children[c].phase # "absent"
    BY <1>3 DEF ExhaustDeferral
  <2> HIDE DEF row
  <2> QED
    BY <1>0, <2>1, <2>2, <2>3, <2>4, NotAppended, AsideStep
<1>4. ASSUME RetryChild(c) PROVE IInv'
  <2> DEFINE row == [children[c] EXCEPT !.phase = "queued"]
  <2>1. children' = [children EXCEPT ![c] = row]
    BY <1>0, <1>4 DEF RetryChild
  <2>2. Aside(c, row)
    BY <1>0, <1>4 DEF RetryChild, Aside, ChildRow
  <2>3. tx[c].step = "idle" /\ (tx[User].step = "paging" => c \notin tx[User].changed)
    BY <1>4, FreeRow DEF IInv, RetryChild
  <2>4. /\ tickets' \in [Child -> {"none", "queued", "picked", "failed", "withdrawn", "gone"}]
        /\ spent' \in [commands : Nat, retries : [Child -> Nat]]
        /\ UNCHANGED <<parent, batch, tx>> /\ children[c].phase # "absent"
    BY <1>0, <1>4 DEF RetryChild
  <2> HIDE DEF row
  <2> QED
    BY <2>1, <2>2, <2>3, <2>4, NotAppended, AsideStep
<1>5. ASSUME NEW d \in Child, RetryByUser(c, d) PROVE IInv'
  <2> DEFINE row == [QueuedChild EXCEPT !.successor = TRUE]
  <2>1. children' = [children EXCEPT ![d] = row]
    BY <1>5 DEF RetryByUser
  <2>2. Aside(d, row)
    BY <1>0, <1>5 DEF RetryByUser, Aside, ChildRow, QueuedChild, IInv, Story, AbsentIsNew
  <2>3. tx[d].step = "idle" /\ tx[User].step # "paging"
    BY <1>5 DEF RetryByUser, Idling, Free, IInv, Sessions, UserTx, Session
  <2>4. /\ tickets' \in [Child -> {"none", "queued", "picked", "failed", "withdrawn", "gone"}]
        /\ UNCHANGED <<parent, batch, tx>> /\ d \notin tx[Producer].changed
    BY <1>0, <1>5 DEF RetryByUser
  <2> HIDE DEF row
  <2> QED
    BY <1>1, <1>5, <2>1, <2>2, <2>3, <2>4, AsideStep DEF RetryByUser
<1> QED
  BY <1>2, <1>3, <1>4, <1>5

\* The transactions of a child begin with its row as it is.
LEMMA BeginChildStep ==
  ASSUME IInv, NEW c \in Child, NEW work \in ChildWork, NEW row \in ChildRow,
         BeginChild(c, work, row), spent' \in [commands : Nat, retries : [Child -> Nat]],
         children[c].phase \in {"queued", "running", "stopping"}, row.phase # "absent",
         row.phase = "terminal" <=> row.outcome # "none",
         row.outcome \in Endings \cup {"none", "cancelled"},
         row.successor = children[c].successor, row.desired \in {children[c].desired, "cancel"}
  PROVE  IInv'
<1> DEFINE t == [Idle EXCEPT !.work = work, !.step = "batch", !.holds = {c}, !.seen = batch,
                             !.rows = Loaded(c, row), !.changed = {c}]
<1>1. Open(c, t) /\ UNCHANGED <<parent, batch, children, tickets>> /\ Free(c)
  BY DEF BeginChild
<1>2. /\ Idle \in TxRow /\ AbsentChild \in ChildRow /\ AbsentChild.phase = "absent"
      /\ Idle.rows = [d \in Child |-> AbsentChild] /\ batch \in BatchRow
  BY IdleRow DEF Idle, AbsentChild, IInv, TypeOK
<1>3. /\ Loaded(c, row) \in [Child -> ChildRow] /\ Loaded(c, row)[c] = row
      /\ \A d \in Child : d # c => Loaded(c, row)[d] = AbsentChild
  BY <1>2 DEF Loaded
<1>4. /\ t \in TxRow /\ t.work = work /\ t.step = "batch" /\ t.holds = {c} /\ t.seen = batch
      /\ t.rows = Loaded(c, row) /\ t.changed = {c}
  BY <1>2, <1>3 DEF TxRow, ChildWork, Row
<1>5. tx'[c] = t
  BY <1>1 DEF Open, IInv, TypeOK, Session
<1>6. Seen(batch)'
  BY <1>1 DEF Seen, IInv, Story, FixedIsSealed, TypeOK, BatchRow
<1>7. ChildTx(c)'
  <2>1. Seen(tx[c].seen)'
    BY <1>1, <1>4, <1>5, <1>6 DEF Seen
  <2> QED
    BY <1>1, <1>2, <1>3, <1>4, <1>5, <2>1 DEF ChildTx
<1>8. /\ c \in Session /\ c # Producer /\ c # User
      /\ tickets' \in [Child -> {"none", "queued", "picked", "failed", "withdrawn", "gone"}]
  BY <1>1, JobBatchesAssumption DEF Session, IInv, TypeOK
<1> HIDE DEF t
<1> QED
  BY <1>1, <1>4, <1>7, <1>8, SessionStep

LEMMA ChildBegins ==
  ASSUME IInv, NEW c \in Child,
         \/ BeginStart(c) \/ BeginWithdraw(c) \/ RecoverCancelled(c)
         \/ \E o \in AllOutcomes : BeginEnd(c, o)
  PROVE  IInv'
<1>0. /\ children[c] \in ChildRow /\ (children[c].phase = "terminal" <=> children[c].outcome # "none")
      /\ spent \in [commands : Nat, retries : [Child -> Nat]] /\ Endings \subseteq AllOutcomes
  BY JobBatchesAssumption DEF IInv, TypeOK
<1>1. ASSUME BeginStart(c) PROVE IInv'
  <2> DEFINE row == [children[c] EXCEPT !.phase = "running"]
  <2>1. row \in ChildRow /\ row.phase = "running" /\ row.outcome = "none"
        /\ row.successor = children[c].successor /\ row.desired = children[c].desired
    BY <1>0, <1>1 DEF ChildRow, BeginStart
  <2>2. BeginChild(c, "start", row) /\ children[c].phase = "queued" /\ spent' = spent
    BY <1>1 DEF BeginStart
  <2> HIDE DEF row
  <2> QED
    BY <1>0, <2>1, <2>2, BeginChildStep DEF ChildWork
<1>2. ASSUME BeginWithdraw(c) PROVE IInv'
  <2> DEFINE row == [children[c] EXCEPT !.desired = "cancel", !.phase = "terminal",
                                        !.outcome = "cancelled"]
  <2>1. row \in ChildRow /\ row.phase = "terminal" /\ row.outcome = "cancelled"
        /\ row.successor = children[c].successor /\ row.desired = "cancel"
    BY <1>0 DEF ChildRow, AllOutcomes
  <2>2. BeginChild(c, "withdraw", row) /\ children[c].phase = "queued"
        /\ spent' \in [commands : Nat, retries : [Child -> Nat]]
    BY <1>0, <1>2 DEF BeginWithdraw, CommandSent
  <2> HIDE DEF row
  <2> QED
    BY <2>1, <2>2, BeginChildStep DEF ChildWork
<1>3. ASSUME NEW o \in AllOutcomes, BeginEnd(c, o) \/ (RecoverCancelled(c) /\ o = "cancelled")
      PROVE  IInv'
  <2> DEFINE row == [children[c] EXCEPT !.phase = "terminal", !.outcome = o]
  <2>1. row \in ChildRow /\ row.phase = "terminal" /\ row.outcome = o
        /\ row.successor = children[c].successor /\ row.desired = children[c].desired
    BY <1>0 DEF ChildRow
  <2>2. BeginChild(c, "end", row) /\ children[c].phase \in {"running", "stopping"} /\ spent' = spent
    BY <1>3 DEF BeginEnd, RecoverCancelled, Abandoned
  <2>3. o \in Endings \cup {"cancelled"} /\ o # "none"
    BY <1>3 DEF BeginEnd, AllOutcomes
  <2> HIDE DEF row
  <2> QED
    BY <1>0, <2>1, <2>2, <2>3, BeginChildStep DEF ChildWork
<1>4. "cancelled" \in AllOutcomes
  BY DEF AllOutcomes
<1> QED
  BY <1>1, <1>2, <1>3, <1>4

LEMMA LockBatchStep ==
  ASSUME IInv, NEW s \in Session, LockBatch(s)
  PROVE  IInv'
<1> DEFINE t == [tx[s] EXCEPT !.holds = @ \cup {"batch"}, !.step = "parent"]
<1>0. s \in Child
  BY DEF LockBatch, IInv, Sessions, ProducerTx, UserTx, ChildWork, Session
<1>1. Open(s, t) /\ UNCHANGED <<parent, batch, children, tickets, spent>> /\ Free("batch")
  BY DEF LockBatch
<1>2. tx[s] \in TxRow /\ tx[s].step = "batch"
  BY DEF IInv, TypeOK, LockBatch
<1>3. /\ t \in TxRow /\ t.work = tx[s].work /\ t.step = "parent" /\ t.holds = tx[s].holds \cup {"batch"}
      /\ t.seen = tx[s].seen /\ t.rows = tx[s].rows /\ t.changed = tx[s].changed
  BY <1>2 DEF TxRow, Row
<1>4. tx'[s] = t
  BY <1>1 DEF Open, IInv, TypeOK
<1> HIDE DEF t
<1>5. Seen(tx[s].seen)'
  BY <1>0, <1>1, <1>2, <1>3, <1>4 DEF IInv, Sessions, ChildTx, Seen, Clean
<1>6. ChildTx(s)'
  BY <1>0, <1>1, <1>2, <1>3, <1>4, <1>5 DEF IInv, Sessions, ChildTx
<1>7. /\ s # Producer /\ s # User /\ spent' \in [commands : Nat, retries : [Child -> Nat]]
      /\ tickets' \in [Child -> {"none", "queued", "picked", "failed", "withdrawn", "gone"}]
  BY <1>0, <1>1, JobBatchesAssumption DEF IInv, TypeOK
<1> QED
  BY <1>1, <1>3, <1>6, <1>7, SessionStep

LEMMA ProduceStep ==
  ASSUME IInv, BeginSeal \/ \E c \in Child : BeginAppend(c)
  PROVE  IInv'
<1>1. PICK work \in {"append", "seal"}, changed \in SUBSET Child :
        /\ BeginProduce(work, changed)
        /\ work = "seal" => changed = {}
        /\ work = "append" => \E c \in Child : changed = {c} /\ children[c].phase = "absent"
  BY DEF BeginSeal, BeginAppend
<1> DEFINE rows == [c \in Child |-> IF c \in changed THEN QueuedChild ELSE AbsentChild]
           t == [Idle EXCEPT !.work = work, !.step = "parent", !.holds = {"batch"},
                             !.seen = batch, !.changed = changed, !.rows = rows]
<1>2. /\ Open(Producer, t) /\ Free("batch") /\ ~batch.sealed
      /\ UNCHANGED <<parent, batch, children, tickets, spent>>
  BY <1>1 DEF BeginProduce, OpenForAppend
<1>3. rows \in [Child -> ChildRow] /\ \A c \in changed : rows[c] = QueuedChild
  BY IdleRow
<1>4. batch \in BatchRow /\ Idle \in TxRow
  BY IdleRow DEF IInv, TypeOK
<1>5. /\ t.work = work /\ t.step = "parent" /\ t.holds = {"batch"} /\ t.seen = batch
      /\ t.changed = changed /\ t.rows = rows
  BY DEF Idle
<1>6. t \in TxRow
  BY <1>3, <1>4 DEF TxRow, Row, Idle
<1>7. tx'[Producer] = t
  BY <1>2 DEF Open, IInv, TypeOK, Session
<1> HIDE DEF t, rows
<1>8. ProducerTx'
  BY <1>1, <1>2, <1>3, <1>5, <1>7 DEF ProducerTx
<1>9. /\ Producer \in Session /\ Producer \notin Child /\ Producer # User
      /\ spent' \in [commands : Nat, retries : [Child -> Nat]]
      /\ tickets' \in [Child -> {"none", "queued", "picked", "failed", "withdrawn", "gone"}]
  BY <1>2, JobBatchesAssumption DEF Session, IInv, TypeOK
<1> QED
  BY <1>2, <1>5, <1>6, <1>8, <1>9, SessionStep

LEMMA BeginCommandStep ==
  ASSUME IInv, BeginCancel \/ BeginPriority
  PROVE  IInv'
<1>1. PICK work \in {"cancel", "priority"} : BeginCommand(work)
  BY DEF BeginCancel, BeginPriority
<1> DEFINE t == [Idle EXCEPT !.work = work, !.step = "batch", !.holds = {"parent"}, !.seen = batch]
<1>2. /\ Open(User, t) /\ Free("parent") /\ UNCHANGED <<parent, batch, children, tickets>>
      /\ spent' \in [commands : Nat, retries : [Child -> Nat]]
  BY <1>1 DEF BeginCommand, CommandSent, IInv, TypeOK
<1>3. batch \in BatchRow /\ Idle \in TxRow
  BY IdleRow DEF IInv, TypeOK
<1>4. /\ t \in TxRow /\ t.work = work /\ t.step = "batch" /\ t.holds = {"parent"} /\ t.seen = batch
      /\ t.changed = {} /\ t.todo = {}
  BY <1>3 DEF TxRow, Row, Idle
<1>5. tx'[User] = t
  BY <1>2 DEF Open, IInv, TypeOK, Session
<1>6. Seen(batch)'
  BY <1>2 DEF Seen, IInv, Story, FixedIsSealed, TypeOK, BatchRow
<1>7. Seen(tx[User].seen)'
  BY <1>2, <1>4, <1>5, <1>6 DEF Seen
<1> HIDE DEF t
<1>8. UserTx'
  BY <1>4, <1>5, <1>7 DEF UserTx
<1>9. /\ User \in Session /\ User \notin Child /\ Producer # User
      /\ tickets' \in [Child -> {"none", "queued", "picked", "failed", "withdrawn", "gone"}]
  BY <1>2, JobBatchesAssumption DEF Session, IInv, TypeOK
<1> QED
  BY <1>2, <1>4, <1>8, <1>9, SessionStep

\* The page holds exactly the children that have not ended.
LEMMA LockForCommandStep ==
  ASSUME IInv, LockForCommand
  PROVE  IInv'
<1> DEFINE paged == Paged(tx[User].work)
           rows == [c \in Child |-> IF c \in paged THEN children[c] ELSE AbsentChild]
           t == [tx[User] EXCEPT !.holds = @ \cup {"batch"}, !.step = "paging", !.todo = paged,
                                 !.seen.sealed = @ \/ tx[User].work = "cancel", !.rows = rows]
<1>1. /\ Open(User, t) /\ Free("batch") /\ tx[User].step = "batch"
      /\ UNCHANGED <<parent, batch, children, tickets, spent>>
  BY DEF LockForCommand
<1>2. /\ tx[User] \in TxRow /\ tx[User].seen \in BatchRow /\ children \in [Child -> ChildRow]
      /\ tx[User].work \in {"cancel", "priority"} /\ tx[User].changed = {}
      /\ "parent" \in tx[User].holds /\ Seen(tx[User].seen)
      /\ \A c \in Child : children[c].phase = "terminal" <=> children[c].outcome # "none"
  BY <1>1 DEF IInv, TypeOK, TxRow, Session, Sessions, UserTx
<1>3. /\ rows \in [Child -> ChildRow] /\ paged \in SUBSET Child
      /\ \A c \in Child : rows[c] = IF c \in paged THEN children[c] ELSE AbsentChild
  BY <1>2, IdleRow DEF Paged, Present
<1>4. /\ t.work = tx[User].work /\ t.step = "paging" /\ t.holds = tx[User].holds \cup {"batch"}
      /\ t.seen = [tx[User].seen EXCEPT !.sealed = @ \/ tx[User].work = "cancel"]
      /\ t.changed = {} /\ t.todo = paged /\ t.rows = rows
  BY <1>2 DEF TxRow
<1>5. t.seen \in BatchRow /\ Seen(t.seen) /\ (t.work = "cancel" => t.seen.sealed)
  <2>1. PICK seen \in BatchRow : seen = tx[User].seen
    BY <1>2
  <2>2. PICK sealed \in BOOLEAN : sealed <=> seen.sealed \/ tx[User].work = "cancel"
    OBVIOUS
  <2>3. (seen.sealed \/ tx[User].work = "cancel") \in BOOLEAN /\ seen.sealed \in BOOLEAN
    BY <2>1 DEF BatchRow
  <2>4. (seen.sealed \/ tx[User].work = "cancel") = sealed
    BY <2>2, <2>3
  <2>5. t.seen = [seen EXCEPT !.sealed = sealed]
    BY <1>4, <2>1, <2>4
  <2> HIDE DEF t
  <2>6. /\ t.seen \in BatchRow /\ t.seen.mode = seen.mode /\ t.seen.created = seen.created
        /\ t.seen.terminal = seen.terminal /\ t.seen.sealed = sealed
    BY <2>1, <2>5 DEF BatchRow
  <2> QED
    BY <1>2, <1>4, <2>1, <2>2, <2>6 DEF Seen
<1>6. t \in TxRow
  BY <1>2, <1>3, <1>4, <1>5 DEF TxRow, Row
<1>7. tx'[User] = t
  BY <1>1 DEF Open, IInv, TypeOK, Session
<1>8. ASSUME t.work = "cancel", NEW c \in Child PROVE Paging(t, c)
  <2>1. c \in paged <=> children[c].phase \notin {"absent", "terminal"}
    BY <1>4, <1>8 DEF Paged, Present
  <2>2. AbsentChild.phase = "absent"
    BY DEF AbsentChild, QueuedChild
  <2> HIDE DEF t, rows, paged
  <2> QED
    BY <1>2, <1>3, <1>4, <2>1, <2>2 DEF Paging
<1> HIDE DEF t, rows, paged
<1>9. Seen(tx[User].seen)'
  BY <1>1, <1>5, <1>7 DEF Seen, Clean
<1>10. ASSUME t.work = "cancel", NEW c \in Child PROVE Paging(tx[User], c)'
  BY <1>1, <1>7, <1>8, <1>10 DEF Paging
<1>11. UserTx'
  BY <1>2, <1>4, <1>5, <1>7, <1>9, <1>10 DEF UserTx
<1>12. /\ User \in Session /\ User \notin Child /\ Producer # User
       /\ spent' \in [commands : Nat, retries : [Child -> Nat]]
       /\ tickets' \in [Child -> {"none", "queued", "picked", "failed", "withdrawn", "gone"}]
  BY <1>1, JobBatchesAssumption DEF Session, IInv, TypeOK
<1> QED
  BY <1>1, <1>4, <1>6, <1>11, <1>12, SessionStep

\* One more child is locked, and cancelled in the session's copy of its row.
LEMMA VisitStep ==
  ASSUME IInv, NEW c \in Child, CancelChild(c) \/ ReprioritizeChild(c)
  PROVE  IInv'
<1> DEFINE t == IF tx[User].work = "cancel"
                THEN [tx[User] EXCEPT !.holds = @ \cup {c}, !.todo = @ \ {c},
                                      !.rows[c] = CancelledRow(c), !.changed = @ \cup {c}]
                ELSE [tx[User] EXCEPT !.holds = @ \cup {c}, !.todo = @ \ {c}]
<1>1. /\ Open(User, t) /\ Free(c) /\ tx[User].step = "paging" /\ c \in tx[User].todo
      /\ tx[User].work = "cancel" => children[c].phase # "terminal"
      /\ UNCHANGED <<parent, batch, children, tickets, spent>>
  BY DEF CancelChild, ReprioritizeChild, Visit, Overwrites
<1>2. /\ tx[User] \in TxRow /\ tx[User].rows \in [Child -> ChildRow] /\ tx[User].rows[c] \in ChildRow
      /\ User \in Session
  BY DEF IInv, TypeOK, TxRow, Session
<1>3. /\ CancelledRow(c) \in ChildRow /\ CancelledRow(c).phase \in {"terminal", "stopping"}
      /\ CancelledRow(c).desired = "cancel"
      /\ CancelledRow(c).successor = tx[User].rows[c].successor
      /\ CancelledRow(c).outcome = IF CancelledRow(c).phase = "terminal" THEN "cancelled"
                                   ELSE tx[User].rows[c].outcome
  BY <1>2 DEF CancelledRow, ChildRow, AllOutcomes
<1>4. /\ t.work = tx[User].work /\ t.step = "paging" /\ t.holds = tx[User].holds \cup {c}
      /\ t.seen = tx[User].seen /\ t.todo = tx[User].todo \ {c}
      /\ t.work # "cancel" => t.changed = tx[User].changed /\ t.rows = tx[User].rows
      /\ t.work = "cancel" => /\ t.changed = tx[User].changed \cup {c}
                              /\ t.rows = [tx[User].rows EXCEPT ![c] = CancelledRow(c)]
  BY <1>1, <1>2 DEF TxRow
<1>5. t \in TxRow
  BY <1>2, <1>3, <1>4 DEF TxRow, Row
<1>6. tx'[User] = t
  BY <1>1 DEF Open, IInv, TypeOK, Session
<1>7. ASSUME t.work = "cancel", NEW d \in Child PROVE Paging(tx[User], d)'
  <2>1. Paging(tx[User], d) /\ Paging(tx[User], c)
    BY <1>1, <1>4, <1>7 DEF IInv, Sessions, UserTx
  <2> HIDE DEF t
  <2>2. CASE d = c
    <3>1. t.rows[c] = CancelledRow(c) /\ c \in t.changed /\ c \notin t.todo
      BY <1>2, <1>4, <1>7
    <3>2. tx[User].rows[c].outcome = "none" /\ children[c].phase # "absent"
          /\ tx[User].rows[c].successor = children[c].successor
      BY <1>1, <2>1 DEF Paging
    <3>3. Paging(t, c)
      BY <1>1, <1>3, <1>4, <1>7, <3>1, <3>2 DEF Paging
    <3> QED
      BY <1>1, <1>6, <2>2, <3>3 DEF Paging
  <2>3. CASE d # c
    <3>1. t.rows[d] = tx[User].rows[d] /\ (d \in t.changed <=> d \in tx[User].changed)
          /\ (d \in t.todo <=> d \in tx[User].todo)
      BY <1>2, <1>4, <1>7, <2>3
    <3>2. Paging(t, d)
      BY <2>1, <3>1 DEF Paging
    <3> QED
      BY <1>1, <1>6, <3>2 DEF Paging
  <2> QED
    BY <2>2, <2>3
<1> HIDE DEF t
<1>8. Seen(tx[User].seen)'
  BY <1>1, <1>4, <1>6 DEF IInv, Sessions, UserTx, Seen, Clean
<1>9. UserTx'
  BY <1>1, <1>2, <1>4, <1>6, <1>7, <1>8 DEF IInv, Sessions, UserTx
<1>10. /\ User \notin Child /\ Producer # User
       /\ spent' \in [commands : Nat, retries : [Child -> Nat]]
       /\ tickets' \in [Child -> {"none", "queued", "picked", "failed", "withdrawn", "gone"}]
  BY <1>1, JobBatchesAssumption DEF IInv, TypeOK
<1> QED
  BY <1>1, <1>2, <1>4, <1>5, <1>9, <1>10, SessionStep

\* A flushed row of a child that had no outcome: the copy, but for the error code.
FlushedFrom(row, r, before) ==
  /\ row \in ChildRow /\ row.phase = r.phase /\ row.outcome = r.outcome
  /\ row.desired = r.desired /\ row.successor = r.successor
  /\ row.exhausted = before.exhausted

LEMMA FlushedRow ==
  ASSUME NEW r \in ChildRow, NEW before \in ChildRow, before.outcome = "none",
         NEW row, row = [r EXCEPT !.outcome = IF @ = "none" THEN before.outcome ELSE @,
                                  !.exhausted = before.exhausted]
  PROVE  FlushedFrom(row, r, before)
<1>1. (IF r.outcome = "none" THEN before.outcome ELSE r.outcome) = r.outcome
  OBVIOUS
<1>2. row = [r EXCEPT !.outcome = r.outcome, !.exhausted = before.exhausted]
  BY <1>1
<1> QED
  BY <1>2 DEF ChildRow, FlushedFrom

\* The end of one child, as the projection sees it and as the table gets it.
LEMMA CommitChildStep ==
  ASSUME IInv, NEW c \in Child, CommitChild(c)
  PROVE  IInv'
<1> DEFINE t == tx[c]
           rows == Rows(c)
<1>1. /\ t.work \in ChildWork /\ t.step = "parent" /\ Projectable(t.seen, rows)
      /\ parent' = ProjectedParent(t.seen, rows, parent.desired)
      /\ batch' = ProjectedBatch(batch, t.seen, rows) /\ children' = Flushed(c)
      /\ Close(c) /\ UNCHANGED spent
      /\ tickets' = IF t.work = "withdraw" THEN [tickets EXCEPT ![c] = "gone"] ELSE tickets
  BY DEF CommitChild
<1>2. /\ t \in TxRow /\ t.seen \in BatchRow /\ t.rows \in [Child -> ChildRow]
      /\ children \in [Child -> ChildRow] /\ batch \in BatchRow /\ parent.desired \in {"run", "cancel"}
      /\ \A d \in Child : children[d].phase = "terminal" <=> children[d].outcome # "none"
      /\ c \in Session /\ c # User /\ c # Producer
  BY JobBatchesAssumption DEF IInv, TypeOK, TxRow, Session, ParentRow
<1>3. /\ "batch" \in t.holds /\ t.changed = {c} /\ Seen(t.seen)
      /\ \A d \in Child : t.rows[d].phase = "absent" <=> d # c
      /\ t.seen.sealed => batch.sealed
      /\ children[c].phase \in {"queued", "running", "stopping"}
      /\ t.rows[c].phase = "terminal" <=> t.rows[c].outcome # "none"
      /\ t.rows[c].outcome \in Endings \cup {"none", "cancelled"}
      /\ t.rows[c].successor = children[c].successor
      /\ t.rows[c].desired \in {children[c].desired, "cancel"}
  BY <1>1 DEF IInv, Sessions, ChildTx
<1>4. rows = [d \in Child |-> IF t.rows[d].phase = "absent" THEN children[d] ELSE t.rows[d]]
  BY DEF Rows
<1>5. rows \in [Child -> ChildRow] /\ rows[c] = t.rows[c] /\ \A d \in Child : d # c => rows[d] = children[d]
  BY <1>2, <1>3, <1>4
<1>6. children' = [d \in Child |->
                     IF d # c THEN children[d]
                     ELSE [t.rows[d] EXCEPT !.outcome = IF @ = "none" THEN children[d].outcome ELSE @,
                                            !.exhausted = children[d].exhausted]]
  BY <1>1, <1>3 DEF Flushed
<1>7. \A d \in Child : d # c => children'[d] = children[d]
  BY <1>6
<1>8. children'[c] = [t.rows[c] EXCEPT
                        !.outcome = IF @ = "none" THEN children[c].outcome ELSE @,
                        !.exhausted = children[c].exhausted]
  BY <1>6
<1> HIDE DEF t, rows
<1>9. /\ children'[c] \in ChildRow /\ children'[c].phase = rows[c].phase
      /\ children'[c].outcome = rows[c].outcome /\ children'[c].successor = children[c].successor
      /\ children'[c].exhausted = children[c].exhausted /\ children'[c].desired = rows[c].desired
      /\ rows[c].phase # "absent"
  <2>1. t.rows[c] \in ChildRow /\ children[c] \in ChildRow /\ children[c].outcome = "none"
    BY <1>2, <1>3
  <2>2. PICK r \in ChildRow, before \in ChildRow : r = t.rows[c] /\ before = children[c]
    BY <2>1
  <2>3. before.outcome = "none" /\ FlushedFrom(children'[c], r, before)
    BY <1>8, <2>1, <2>2, FlushedRow
  <2> QED
    BY <1>3, <1>5, <2>2, <2>3 DEF FlushedFrom
<1>10. children' \in [Child -> ChildRow]
  BY <1>2, <1>6, <1>7, <1>9
<1>11. Read(rows, children')
  BY <1>2, <1>3, <1>5, <1>7, <1>9, <1>10 DEF Read, IInv, Story, EndsAsKnown
<1>12. /\ AbsentIsNew' /\ EndsAsKnown' /\ FixedIsSealed' /\ CreatedTotalExact' /\ Backed' /\ Told'
       /\ parent' \in ParentRow /\ batch' \in BatchRow /\ batch'.terminal <= batch'.created
       /\ batch'.mode = batch.mode /\ batch'.created = batch.created
       /\ (batch.sealed => batch'.sealed)
       /\ (Clean' => Clean) /\ (Clean => batch.terminal <= batch'.terminal)
       /\ Counted' = Counted
  BY <1>1, <1>2, <1>3, <1>11, ProjectedStory DEF IInv
<1>13. CancelReachesEveryChild'
  <2>1. parent'.desired = parent.desired
    BY <1>1 DEF ProjectedParent
  <2> QED
    BY <1>3, <1>5, <1>7, <1>9, <1>12, <2>1 DEF IInv, Story, CancelReachesEveryChild, Counted, Present
<1>14. /\ Locked' /\ AtRest' /\ tx' \in [Session -> TxRow] /\ tx'[c] = Idle
       /\ \A u \in Session \ {c} : tx'[u] = tx[u]
  BY <1>1, <1>2, Closed DEF IInv
<1>15. TypeOK'
  <2>1. tickets' \in [Child -> {"none", "queued", "picked", "failed", "withdrawn", "gone"}]
    BY <1>1 DEF IInv, TypeOK
  <2>2. \A d \in Child : children'[d].phase = "terminal" <=> children'[d].outcome # "none"
    BY <1>11 DEF Read
  <2> QED
    BY <1>1, <1>10, <1>12, <1>14, <2>1, <2>2 DEF IInv, TypeOK
<1>16. Grows
  BY <1>2, <1>12 DEF Grows, BatchRow
<1>17. tx[Producer].step = "idle" /\ tx[User].step # "paging"
  BY <1>2, <1>3, HoldsBatch DEF IInv, t
<1>18. ChildTx(c)' /\ \A d \in Child : d # c => tx'[d] = tx[d]
  BY <1>14 DEF ChildTx, Idle, Session
<1>19. tx'[User] = tx[User] /\ tx'[Producer] = tx[Producer]
  BY <1>2, <1>14 DEF Session
<1>20. Sessions'
  BY <1>7, <1>14, <1>15, <1>16, <1>17, <1>18, <1>19, SessionsKept DEF IInv
<1> QED
  BY <1>12, <1>13, <1>15, <1>20 DEF IInv, Story

LEMMA CommitSealStep ==
  ASSUME IInv, CommitSeal
  PROVE  IInv'
<1> DEFINE sealed == [tx[Producer].seen EXCEPT !.sealed = TRUE]
           row == [batch EXCEPT !.sealed = TRUE]
<1>1. /\ tx[Producer].work = "seal" /\ Projectable(sealed, children)
      /\ parent' = ProjectedParent(sealed, children, parent.desired)
      /\ batch' = ProjectedBatch(row, sealed, children)
      /\ Close(Producer) /\ UNCHANGED <<children, tickets, spent>>
  BY DEF CommitSeal
<1>2. /\ tx[Producer].step # "idle" /\ Producer \in Session /\ Producer # User /\ Producer \notin Child
  BY <1>1, JobBatchesAssumption DEF IInv, Sessions, AtRest, Session, Idle
<1>3. tx[Producer].seen = batch /\ "batch" \in tx[Producer].holds
  BY <1>2 DEF IInv, Sessions, ProducerTx
<1>4. /\ batch \in BatchRow /\ children \in [Child -> ChildRow] /\ parent.desired \in {"run", "cancel"}
      /\ \A d \in Child : children[d].phase = "terminal" <=> children[d].outcome # "none"
  BY DEF IInv, TypeOK, ParentRow
<1>5. /\ sealed = row /\ row \in BatchRow /\ row.sealed /\ row.mode = batch.mode
      /\ row.created = batch.created /\ row.terminal = batch.terminal
  BY <1>3, <1>4 DEF BatchRow
<1>6. sealed \in BatchRow /\ Seen(sealed)
  BY <1>4, <1>5 DEF Seen, BatchRow
<1>7. Read(children, children')
  BY <1>1, <1>4 DEF Read, IInv, Story, EndsAsKnown
<1> HIDE DEF sealed
<1>8. /\ AbsentIsNew' /\ EndsAsKnown' /\ FixedIsSealed' /\ CreatedTotalExact' /\ Backed' /\ Told'
      /\ parent' \in ParentRow /\ batch' \in BatchRow /\ batch'.terminal <= batch'.created
      /\ batch'.mode = batch.mode /\ batch'.created = batch.created
      /\ (batch.sealed => batch'.sealed)
      /\ (Clean' => Clean) /\ (Clean => batch.terminal <= batch'.terminal)
      /\ Counted' = Counted
  <2>1. row = batch \/ row = [batch EXCEPT !.sealed = TRUE]
    OBVIOUS
  <2> HIDE DEF row
  <2> QED
    BY <1>1, <1>4, <1>5, <1>6, <1>7, <2>1, ProjectedStory DEF IInv
<1>9. CancelReachesEveryChild'
  <2>1. parent'.desired = parent.desired
    BY <1>1 DEF ProjectedParent
  <2> QED
    BY <1>1, <1>8, <2>1 DEF IInv, Story, CancelReachesEveryChild
<1>10. /\ Locked' /\ AtRest' /\ tx' \in [Session -> TxRow] /\ tx'[Producer] = Idle
       /\ \A u \in Session \ {Producer} : tx'[u] = tx[u]
  BY <1>1, <1>2, Closed DEF IInv
<1>11. TypeOK'
  BY <1>1, <1>8, <1>10 DEF IInv, TypeOK
<1>12. Grows
  BY <1>4, <1>8 DEF Grows, BatchRow
<1>13. ProducerTx'
  BY <1>10 DEF ProducerTx, Idle
<1>14. tx'[User] = tx[User] /\ \A d \in Child : tx'[d] = tx[d]
  BY <1>2, <1>10 DEF Session
<1>15. Sessions'
  BY <1>1, <1>10, <1>11, <1>12, <1>13, <1>14, SessionsKept DEF IInv
<1> QED
  BY <1>8, <1>9, <1>11, <1>15 DEF IInv, Story

\* What a cancel commits: the children it paged are told, the others had ended.
LEMMA CommitCancelStep ==
  ASSUME IInv, CommitCancel
  PROVE  IInv'
<1> DEFINE t == tx[User]
           rows == Rows(User)
           row == [batch EXCEPT !.sealed = TRUE]
<1>1. /\ t.work = "cancel" /\ t.step = "paging" /\ t.todo = {} /\ Projectable(t.seen, rows)
      /\ parent' = ProjectedParent(t.seen, rows, "cancel")
      /\ batch' = ProjectedBatch(row, t.seen, rows) /\ children' = Flushed(User)
      /\ Close(User) /\ UNCHANGED spent
      /\ tickets' = [c \in Child |-> IF c \notin t.changed THEN tickets[c]
                                     ELSE IF tickets[c] = "queued" THEN "gone" ELSE "withdrawn"]
  BY DEF CommitCancel, SealedByCancel
<1>2. /\ t \in TxRow /\ t.seen \in BatchRow /\ t.rows \in [Child -> ChildRow]
      /\ t.changed \in SUBSET Child
      /\ children \in [Child -> ChildRow] /\ batch \in BatchRow
      /\ \A d \in Child : children[d].phase = "terminal" <=> children[d].outcome # "none"
      /\ User \in Session /\ User \notin Child /\ Producer # User
  BY JobBatchesAssumption DEF IInv, TypeOK, TxRow, Session
<1>3. /\ "batch" \in t.holds /\ t.changed \subseteq t.holds /\ Seen(t.seen)
      /\ t.seen.sealed /\ \A c \in Child : Paging(t, c)
  BY <1>1 DEF IInv, Sessions, UserTx
<1>4. /\ rows = [d \in Child |-> IF t.rows[d].phase = "absent" THEN children[d] ELSE t.rows[d]]
      /\ children' = [d \in Child |->
                        IF d \notin t.changed THEN children[d]
                        ELSE [t.rows[d] EXCEPT
                                !.outcome = IF @ = "none" THEN children[d].outcome ELSE @,
                                !.exhausted = children[d].exhausted]]
  BY <1>1 DEF Rows, Flushed
<1>5. ASSUME NEW d \in Child, d \notin t.changed
      PROVE  /\ rows[d] = children[d] /\ children'[d] = children[d]
             /\ children[d].phase \in {"terminal", "absent"} \/ children[d].successor
  BY <1>1, <1>3, <1>4, <1>5 DEF Paging
<1>6. ASSUME NEW d \in Child, d \in t.changed
      PROVE  /\ rows[d] = t.rows[d]
             /\ children[d].phase \notin {"terminal", "absent"} /\ t.rows[d].phase # "absent"
             /\ t.rows[d].desired = "cancel" /\ t.rows[d].successor = children[d].successor
             /\ t.rows[d].phase = "terminal" <=> t.rows[d].outcome # "none"
             /\ t.rows[d].outcome \in {"none", "cancelled"}
  BY <1>3, <1>4, <1>6 DEF Paging
<1>7. ASSUME NEW d \in Child, d \in t.changed
      PROVE  /\ children'[d] \in ChildRow /\ children'[d].phase = rows[d].phase
             /\ children'[d].outcome = rows[d].outcome
             /\ children'[d].successor = children[d].successor
             /\ children'[d].exhausted = children[d].exhausted
             /\ children'[d].desired = "cancel" /\ rows[d] \in ChildRow
  <2>1. children'[d] = [t.rows[d] EXCEPT
                          !.outcome = IF @ = "none" THEN children[d].outcome ELSE @,
                          !.exhausted = children[d].exhausted]
    BY <1>4, <1>7
  <2>2. t.rows[d] \in ChildRow /\ children[d] \in ChildRow /\ children[d].outcome = "none"
    BY <1>2, <1>6, <1>7
  <2>3. PICK r \in ChildRow, before \in ChildRow : r = t.rows[d] /\ before = children[d]
    BY <2>2
  <2>4. before.outcome = "none" /\ FlushedFrom(children'[d], r, before)
    BY <2>1, <2>2, <2>3, FlushedRow
  <2> QED
    BY <1>6, <1>7, <2>3, <2>4 DEF FlushedFrom
<1> HIDE DEF t, rows
<1>8. children' \in [Child -> ChildRow] /\ rows \in [Child -> ChildRow]
  <2>1. \A d \in Child : children'[d] \in ChildRow /\ rows[d] \in ChildRow
    BY <1>2, <1>5, <1>7
  <2> QED
    BY <1>4, <2>1
<1>9. Read(rows, children')
  <2>1. ASSUME NEW d \in Child, d \in t.changed
        PROVE  /\ rows[d].phase = children'[d].phase /\ rows[d].outcome = children'[d].outcome
               /\ children'[d].phase = "terminal" <=> children'[d].outcome # "none"
               /\ children'[d].phase # "absent" /\ children[d].phase \notin {"terminal", "absent"}
               /\ children'[d].successor = children[d].successor
               /\ children'[d].exhausted = children[d].exhausted
               /\ children'[d].outcome \in {"none", "cancelled"}
    BY <1>6, <1>7, <2>1
  <2>2. ASSUME NEW d \in Child, d \notin t.changed
        PROVE  /\ rows[d] = children'[d] /\ children'[d] = children[d]
               /\ children[d].outcome \in Endings \cup {"none", "cancelled", "failed"}
    BY <1>5, <2>2 DEF IInv, Story, EndsAsKnown
  <2> QED
    BY <1>2, <1>8, <2>1, <2>2 DEF Read
<1>10. row \in BatchRow /\ row.sealed /\ row = [batch EXCEPT !.sealed = TRUE]
  BY <1>2 DEF BatchRow
<1> HIDE DEF row
<1>11. /\ AbsentIsNew' /\ EndsAsKnown' /\ FixedIsSealed' /\ CreatedTotalExact' /\ Backed' /\ Told'
       /\ parent' \in ParentRow /\ batch' \in BatchRow /\ batch'.terminal <= batch'.created
       /\ batch'.mode = batch.mode /\ batch'.created = batch.created
       /\ (batch.sealed => batch'.sealed) /\ batch'.sealed = row.sealed
       /\ (Clean' => Clean) /\ (Clean => batch.terminal <= batch'.terminal)
       /\ Counted' = Counted
  BY <1>1, <1>2, <1>3, <1>9, <1>10, ProjectedStory DEF IInv
<1>12. CancelReachesEveryChild'
  <2>1. ASSUME NEW d \in Counted' PROVE children'[d].phase = "terminal" \/ children'[d].desired = "cancel"
    <3>1. d \in Child /\ children[d].phase # "absent" /\ ~children[d].successor
      BY <1>11, <2>1 DEF Counted, Present
    <3> QED
      BY <1>5, <1>7, <3>1
  <2> QED
    BY <1>10, <1>11, <2>1 DEF CancelReachesEveryChild
<1>13. /\ Locked' /\ AtRest' /\ tx' \in [Session -> TxRow] /\ tx'[User] = Idle
       /\ \A u \in Session \ {User} : tx'[u] = tx[u]
  BY <1>1, <1>2, Closed DEF IInv
<1>14. TypeOK'
  <2>1. tickets' \in [Child -> {"none", "queued", "picked", "failed", "withdrawn", "gone"}]
    BY <1>1 DEF IInv, TypeOK
  <2>2. \A d \in Child : children'[d].phase = "terminal" <=> children'[d].outcome # "none"
    BY <1>9 DEF Read
  <2> QED
    BY <1>1, <1>8, <1>11, <1>13, <2>1, <2>2 DEF IInv, TypeOK
<1>15. Grows
  BY <1>2, <1>11 DEF Grows, BatchRow
<1>16. tx[Producer].step = "idle" /\ tx'[Producer] = tx[Producer]
  BY <1>2, <1>3, <1>13, HoldsBatch DEF IInv, Session, t
<1>17. UserTx'
  BY <1>13 DEF UserTx, Idle
<1>18. ASSUME NEW d \in Child PROVE tx'[d] = tx[d] /\ (tx[d].step # "idle" => children'[d] = children[d])
  <2>1. d \in Session /\ d # User
    BY <1>2 DEF Session
  <2>2. tx[d].step # "idle" => d \notin t.changed
    BY <1>2, <1>3, <2>1 DEF IInv, Sessions, ChildTx, Locked, t
  <2> QED
    BY <1>5, <1>13, <2>1, <2>2
<1>19. Sessions'
  BY <1>13, <1>14, <1>15, <1>16, <1>17, <1>18, SessionsKept DEF IInv
<1> QED
  BY <1>11, <1>12, <1>14, <1>19 DEF IInv, Story

\* An append: the batch is open, so it has no verdict and no cancel to slip under.
LEMMA CommitAppendStep ==
  ASSUME IInv, CommitAppend
  PROVE  IInv'
<1> DEFINE t == tx[Producer]
<1>1. /\ t.work = "append" /\ children' = Flushed(Producer) /\ batch' = CountAppended(batch)
      /\ Close(Producer) /\ UNCHANGED <<parent, spent>>
      /\ tickets' = [c \in Child |-> IF c \in t.changed THEN "queued" ELSE tickets[c]]
  BY DEF CommitAppend
<1>2. t.step # "idle" /\ Producer \in Session /\ Producer # User /\ Producer \notin Child
  BY <1>1, JobBatchesAssumption DEF IInv, Sessions, AtRest, Session, Idle
<1>3. PICK c \in Child : t.changed = {c} /\ t.rows[c] = QueuedChild /\ children[c].phase = "absent"
  BY <1>1, <1>2 DEF IInv, Sessions, ProducerTx
<1>4. "batch" \in t.holds /\ ~batch.sealed
  BY <1>2 DEF IInv, Sessions, ProducerTx
<1>5. /\ batch \in BatchRow /\ batch.created \in Nat /\ batch.terminal \in Nat
      /\ batch.terminal <= batch.created /\ children \in [Child -> ChildRow]
      /\ \A d \in Child : children[d].phase = "terminal" <=> children[d].outcome # "none"
      /\ parent \in ParentRow
  BY DEF IInv, TypeOK, BatchRow
<1>6. children[c].outcome = "none" /\ ~children[c].exhausted /\ ~children[c].successor
      /\ children[c].exhausted \in BOOLEAN
  BY <1>3, <1>5 DEF IInv, Story, AbsentIsNew, ChildRow
<1>7. children' = [d \in Child |->
                     IF d # c THEN children[d]
                     ELSE [t.rows[d] EXCEPT !.outcome = IF @ = "none" THEN children[d].outcome ELSE @,
                                            !.exhausted = children[d].exhausted]]
  BY <1>1, <1>3 DEF Flushed
<1>8. /\ children'[c] \in ChildRow /\ children'[c].phase = "queued" /\ children'[c].outcome = "none"
      /\ children'[c].desired = "run" /\ ~children'[c].successor /\ ~children'[c].exhausted
  <2>1. children'[c] = [QueuedChild EXCEPT
                          !.outcome = IF @ = "none" THEN children[c].outcome ELSE @,
                          !.exhausted = children[c].exhausted]
    BY <1>3, <1>7
  <2>2. FlushedFrom(children'[c], QueuedChild, children[c])
    <3>1. PICK before \in ChildRow : before = children[c]
      BY <1>5
    <3>2. FlushedFrom(children'[c], QueuedChild, before)
      BY <1>6, <2>1, <3>1, FlushedRow, IdleRow
    <3> QED
      BY <3>1, <3>2
  <2> QED
    BY <1>6, <2>2 DEF FlushedFrom, QueuedChild
<1> HIDE DEF t
<1>9. \A d \in Child : d # c => children'[d] = children[d]
  BY <1>7
<1>10. children' \in [Child -> ChildRow]
  BY <1>5, <1>7, <1>8, <1>9
<1>11. /\ batch' \in BatchRow /\ batch'.mode = batch.mode /\ batch'.sealed = batch.sealed
       /\ batch'.created = batch.created + 1 /\ batch'.terminal = batch.terminal
  BY <1>1, <1>5 DEF CountAppended, BatchRow
<1>12. Counted' = Counted \cup {c} /\ c \notin Counted
  BY <1>3, <1>8, <1>9 DEF Counted, Present
<1>13. CreatedTotalExact'
  <2>1. Counted \in SUBSET Child
    BY DEF Counted, Present
  <2>2. IsFiniteSet(Counted)
    BY <2>1, Sizes
  <2>3. Cardinality(Counted \cup {c}) = Cardinality(Counted) + 1
    BY <1>12, <2>2, FS_AddElement
  <2> QED
    BY <1>11, <1>12, <2>3 DEF IInv, Story, CreatedTotalExact
<1>14. Clean' => Clean
  BY <1>6, <1>9 DEF Clean
<1>15. parent.phase # "terminal" /\ parent.desired # "cancel" /\ batch.mode # "fixed"
  BY <1>4 DEF IInv, Story, Backed, CancelReachesEveryChild, FixedIsSealed
<1>16. Told'
  <2>1. Ended(children') = Ended(children)
    BY <1>6, <1>8, <1>9 DEF Ended
  <2> QED
    BY <1>11, <1>14, <1>15, <2>1 DEF IInv, Story, Told
<1>17. AbsentIsNew' /\ EndsAsKnown' /\ FixedIsSealed' /\ Backed' /\ CancelReachesEveryChild'
  BY <1>1, <1>8, <1>9, <1>11, <1>15
  DEF IInv, Story, AbsentIsNew, EndsAsKnown, FixedIsSealed, Backed, CancelReachesEveryChild
<1>18. /\ Locked' /\ AtRest' /\ tx' \in [Session -> TxRow] /\ tx'[Producer] = Idle
       /\ \A u \in Session \ {Producer} : tx'[u] = tx[u]
  BY <1>1, <1>2, Closed DEF IInv
<1>19. TypeOK'
  <2>1. tickets' \in [Child -> {"none", "queued", "picked", "failed", "withdrawn", "gone"}]
    BY <1>1 DEF IInv, TypeOK
  <2>2. \A d \in Child : children'[d].phase = "terminal" <=> children'[d].outcome # "none"
    BY <1>5, <1>8, <1>9
  <2>3. batch'.terminal <= batch'.created
    BY <1>5, <1>11
  <2> QED
    BY <1>1, <1>10, <1>11, <1>18, <2>1, <2>2, <2>3 DEF IInv, TypeOK
<1>20. Grows
  BY <1>5, <1>11, <1>14 DEF Grows
<1>21. ProducerTx'
  BY <1>18 DEF ProducerTx, Idle
<1>22. tx[User].step # "paging" /\ tx'[User] = tx[User]
  BY <1>2, <1>4, <1>18, HoldsBatch DEF IInv, Session, t
<1>23. tx[c].step = "idle"
  BY <1>3 DEF IInv, Sessions, ChildTx
<1>24. ASSUME NEW d \in Child PROVE tx'[d] = tx[d] /\ (tx[d].step # "idle" => children'[d] = children[d])
  BY <1>2, <1>9, <1>18, <1>23 DEF Session
<1>25. Sessions'
  BY <1>18, <1>19, <1>20, <1>21, <1>22, <1>24, SessionsKept DEF IInv
<1> QED
  BY <1>13, <1>16, <1>17, <1>19, <1>25 DEF IInv, Story

LEMMA TicketSteps ==
  ASSUME IInv,
         \/ FlagParent
         \/ \E c \in Child : Deliver(c) \/ Acknowledge(c) \/ Redeliver(c) \/ EndUnsettled(c)
  PROVE  IInv'
<1>1. /\ UNCHANGED <<batch, children, tx, spent>>
      /\ parent' = parent \/ parent' = [parent EXCEPT !.attention = "transport_link"]
      /\ tickets' \in [Child -> {"none", "queued", "picked", "failed", "withdrawn", "gone"}]
  BY DEF FlagParent, Deliver, Acknowledge, Redeliver, EndUnsettled, IInv, TypeOK
<1> QED
  BY <1>1, TicketStep

LEMMA CommitPriorityStep ==
  ASSUME IInv, CommitPriority
  PROVE  IInv'
<1>1. /\ Open(User, Idle) /\ UNCHANGED <<parent, batch, children, tickets, spent>>
      /\ User \in Session /\ User \notin Child /\ Producer # User /\ Idle \in TxRow
      /\ Idle.step = "idle"
  BY JobBatchesAssumption, IdleRow DEF CommitPriority, Close, Open, Session, Idle
<1>2. UserTx'
  BY <1>1 DEF Open, UserTx, IInv, TypeOK
<1>3. /\ spent' \in [commands : Nat, retries : [Child -> Nat]]
      /\ tickets' \in [Child -> {"none", "queued", "picked", "failed", "withdrawn", "gone"}]
  BY <1>1 DEF IInv, TypeOK
<1> QED
  BY <1>1, <1>2, <1>3, SessionStep

LEMMA IInvStep == IInv /\ [Next]_vars => IInv'
<1> SUFFICES ASSUME IInv, [Next]_vars PROVE IInv'
  OBVIOUS
<1>0. Child \subseteq Session /\ User \in Session /\ Producer \in Session
  BY DEF Session
<1>1. ASSUME NEW c \in Child, ChildStep(c) PROVE IInv'
  <2>1. CASE Deliver(c) \/ Acknowledge(c) \/ Redeliver(c) \/ EndUnsettled(c)
    BY <2>1, TicketSteps
  <2>2. CASE StopChild(c) \/ ExhaustDeferral(c) \/ RetryChild(c) \/ (\E d \in Child : RetryByUser(c, d))
    BY <2>2, AsideSteps
  <2>3. CASE \/ BeginStart(c) \/ BeginWithdraw(c) \/ RecoverCancelled(c)
            \/ \E o \in AllOutcomes : BeginEnd(c, o)
    BY <2>3, ChildBegins
  <2>4. CASE LockBatch(c)
    BY <1>0, <2>4, LockBatchStep
  <2>5. CASE CommitChild(c)
    BY <2>5, CommitChildStep
  <2>6. CASE ProjectionRefused(c)
    BY <1>0, <2>6, RolledBack DEF ProjectionRefused
  <2> QED
    BY <1>1, <2>1, <2>2, <2>3, <2>4, <2>5, <2>6 DEF ChildStep
<1>2. ASSUME UserStep PROVE IInv'
  <2>1. CASE BeginCancel \/ BeginPriority
    BY <2>1, BeginCommandStep
  <2>2. CASE LockForCommand
    BY <2>2, LockForCommandStep
  <2>3. ASSUME NEW c \in Child, CancelChild(c) \/ ReprioritizeChild(c) PROVE IInv'
    BY <2>3, VisitStep
  <2>4. ASSUME NEW c \in Child, CommandRefused(c) PROVE IInv'
    BY <1>0, <2>4, RolledBack DEF CommandRefused
  <2>5. CASE CommitCancel
    BY <2>5, CommitCancelStep
  <2>6. CASE CancelUnprojectable
    BY <1>0, <2>6, RolledBack DEF CancelUnprojectable
  <2>7. CASE CommitPriority
    BY <2>7, CommitPriorityStep
  <2> QED
    BY <1>2, <2>1, <2>2, <2>3, <2>4, <2>5, <2>6, <2>7 DEF UserStep
<1>3. CASE BeginSeal \/ \E c \in Child : BeginAppend(c)
  BY <1>3, ProduceStep
<1>4. CASE CommitAppend
  BY <1>4, CommitAppendStep
<1>5. CASE CommitSeal
  BY <1>5, CommitSealStep
<1>6. CASE SealUnprojectable
  BY <1>0, <1>6, RolledBack DEF SealUnprojectable
<1>7. CASE FlagParent
  BY <1>7, TicketSteps
<1>8. ASSUME NEW s \in Session, DeadlockAbort(s) PROVE IInv'
  BY <1>8, RolledBack DEF DeadlockAbort
<1>9. CASE UNCHANGED vars
  <2>1. UNCHANGED <<parent, batch, children, tickets, tx, spent>>
    BY <1>9 DEF vars
  <2>2. tickets' \in [Child -> {"none", "queued", "picked", "failed", "withdrawn", "gone"}]
    BY <2>1 DEF IInv, TypeOK
  <2> QED
    BY <2>1, <2>2, TicketStep
<1> QED
  BY <1>1, <1>2, <1>3, <1>4, <1>5, <1>6, <1>7, <1>8, <1>9 DEF Next

LEMMA IInvHolds == Spec => []IInv
BY IInvInit, IInvStep, PTL DEF Spec

-----------------------------------------------------------------------------
(* The theorems. *)

\* Once the cancellation of a batch has committed, the batch is closed and every
\* child it was given has ended or knows it is unwanted, whatever was appended,
\* started or ended while control.cancel was paging through the children.
THEOREM CancelReachesEveryChildHolds == Spec => []CancelReachesEveryChild
<1>1. IInv => CancelReachesEveryChild
  BY DEF IInv, Story
<1> QED
  BY <1>1, IInvHolds, PTL

\* The last of any number of concurrent ends of a fixed batch sees the others: the
\* parent is terminal and the batch row counts each child once, although
\* project_batch compares with a copy read before the row was locked.
THEOREM LastEndReachesParentHolds == Spec => []LastEndReachesParent
<1>1. ASSUME IInv, batch.mode = "fixed", AllEnded,
             \A c \in Present(children) : ~children[c].exhausted /\ ~children[c].successor
      PROVE  parent.phase = "terminal" /\ batch.terminal = Cardinality(Present(children))
  <2>1. Clean
    BY <1>1 DEF Clean, Present, IInv, Story, AbsentIsNew
  <2>2. Ended(children) = Present(children)
    BY <1>1 DEF AllEnded, Ended, Present, IInv, TypeOK
  <2> QED
    BY <1>1, <2>1, <2>2 DEF IInv, Story, Told, AllEnded
<1>2. IInv => LastEndReachesParent
  BY <1>1 DEF LastEndReachesParent
<1> QED
  BY <1>2, IInvHolds, PTL

\* A verdict is the children's: a terminal parent is sealed, its children have all
\* ended, and its outcome is the aggregate project_batch computes from theirs.
\* Where it offers a retry, _retryable_batch_child finds a child for it, as long as
\* no child ends "superseded" (today only the ML handlers return that outcome,
\* whose jobs are in no batch).
THEOREM ParentVerdictBackedHolds ==
  ASSUME "superseded" \notin Endings PROVE Spec => []ParentVerdictBacked
<1>1. ASSUME IInv, parent.phase = "terminal",
             parent.outcome \in {"failed", "cancelled", "partially_succeeded"}
      PROVE  \E c \in Present(children) : Retryable(children[c].outcome)
  <2> DEFINE outcomes == {children[c].outcome : c \in Counted}
  <2>1. PICK b \in BOOLEAN : parent.outcome = Aggregate(outcomes, b)
    BY <1>1 DEF IInv, Story, Backed
  <2>2. ASSUME NEW c \in Counted PROVE children[c].outcome \in AllOutcomes \ {"superseded"}
    <3>1. c \in Child /\ children[c].phase = "terminal" /\ children[c].outcome # "none"
      BY <1>1, <2>2 DEF IInv, Story, Backed, TypeOK, Counted, Present
    <3>2. children[c].outcome \in Endings \cup {"none", "cancelled", "failed"}
      BY <1>1, <3>1 DEF IInv, Story, EndsAsKnown
    <3> QED
      BY <3>1, <3>2, JobBatchesAssumption DEF AllOutcomes
  <2>3. outcomes \in SUBSET (AllOutcomes \ {"superseded"})
    BY <2>2
  <2>4. \E o \in outcomes : Retryable(o)
    <3> HIDE DEF outcomes
    <3> QED
      BY <1>1, <2>1, <2>3, AggregateRetryable
  <2>5. Counted \subseteq Present(children)
    BY DEF Counted
  <2> QED
    BY <2>4, <2>5
<1>2. IInv => ParentVerdictBacked
  BY <1>1 DEF ParentVerdictBacked, IInv, Story, Backed
<1> QED
  BY <1>2, IInvHolds, PTL
====
