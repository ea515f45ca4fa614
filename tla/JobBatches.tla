----------------------------- MODULE JobBatches -----------------------------
(***************************************************************************)
(* One canonical batch: a parent job without a ticket, its job_batches     *)
(* projection, and the children that carry the work.  Every transaction    *)
(* that ends a child also recomputes the parent; a producer appends and    *)
(* seals, and the user cancels the whole batch in one transaction.         *)
(*                                                                         *)
(* The transactions run at READ COMMITTED and meet on row locks: the       *)
(* parent's `jobs` row, its `job_batches` row and the children's `jobs`    *)
(* rows, taken in different orders by different transactions.  A step      *)
(* between two lock requests is an action of its own, a circle of waits is *)
(* broken by PostgreSQL, and a row a session has loaded once is not read   *)
(* again: an ORM SELECT ... FOR UPDATE locks the row but returns the       *)
(* object of the session's identity map as it was first loaded.            *)
(***************************************************************************)
EXTENDS Naturals, FiniteSets

CONSTANTS
  Child,        \* the children the batch may have
  User,         \* the session of a user's command on the parent
  Producer,     \* the session of whoever fills a dynamic batch
  Modes,        \* the kinds of batch a run starts with
  Endings,      \* outcomes an undisturbed child may end with
  MaxCommand,   \* bound: commands the user sends to the parent or to a child
  MaxRetry      \* bound: automatic retries of each child

AllModes   == {"fixed", "dynamic"}
\* `review_required` is the outcome of a grouped poster child that partially
\* succeeded with failed_count = 0.
AllOutcomes == {"succeeded", "partially_succeeded", "review_required", "no_change", "failed",
                "cancelled", "superseded", "dead_letter", "unsafe"}

ASSUME JobBatchesAssumption ==
  /\ IsFiniteSet(Child)
  /\ User # Producer /\ User \notin Child /\ Producer \notin Child
  /\ {"batch", "parent"} \cap Child = {}
  /\ Modes \subseteq AllModes /\ Endings \subseteq AllOutcomes
  /\ MaxCommand \in Nat /\ MaxRetry \in Nat

VARIABLES
  parent,    \* the parent's jobs row: phase, outcome, wish, attention
  batch,     \* its job_batches row: sealed, created_total, terminal_total
  children,  \* the children's jobs rows
  tickets,   \* the status of each child's PgQueuer ticket
  tx,        \* the transaction every session has open
  spent      \* bookkeeping: commands sent, retries of each child

vars == <<parent, batch, children, tickets, tx, spent>>

Session == Child \cup {User, Producer}
Row     == Child \cup {"batch", "parent"}

-----------------------------------------------------------------------------
(* Types. *)

ParentRow == [phase : {"queued", "running", "stopping", "terminal"},
              outcome : AllOutcomes \cup {"none"}, desired : {"run", "cancel"},
              attention : {"none", "failed", "transport_link"}]
BatchRow  == [mode : AllModes, sealed : BOOLEAN, created : Nat, terminal : Nat]
ChildRow  == [phase : {"absent", "queued", "running", "stopping", "terminal"},
              outcome : AllOutcomes \cup {"none"}, desired : {"run", "cancel"},
              exhausted : BOOLEAN,   \* the error code of a spent deferral budget
              successor : BOOLEAN]   \* retry_of_job_id: a user's retry of a sibling

\* The open transaction of a session: the locks it holds, its copy of the
\* job_batches row, and the children rows it has loaded and changed.
\* `step` is the row it waits for next ("paging": the children `todo`).
TxRow == [work : {"none", "start", "end", "withdraw", "append", "seal", "cancel", "priority"},
          step : {"idle", "batch", "parent", "paging"},
          holds : SUBSET Row, seen : BatchRow, rows : [Child -> ChildRow],
          changed : SUBSET Child, todo : SUBSET Child]

TypeOK ==
  /\ parent \in ParentRow
  /\ batch \in BatchRow
  /\ children \in [Child -> ChildRow]
  /\ \A c \in Child : children[c].phase = "terminal" <=> children[c].outcome # "none"
  /\ batch.terminal <= batch.created
  /\ tickets \in [Child -> {"none", "queued", "picked", "failed", "withdrawn", "gone"}]
  /\ tx \in [Session -> TxRow]
  /\ spent \in [commands : Nat, retries : [Child -> Nat]]

-----------------------------------------------------------------------------
(* The outcome of a batch. *)

Present(rows)  == {c \in Child : rows[c].phase # "absent"}
Ended(rows)    == {c \in Child : rows[c].outcome # "none"}

\* Children a batch retry selects; review-only children are not failures.
Retryable(outcome) ==
  outcome \in {"failed", "partially_succeeded", "cancelled", "dead_letter", "unsafe"}

\* `outcomes` is the set of outcomes the children have: the code's counts are
\* only ever compared with zero or with their sum.
Aggregate(outcomes, parentCancelled) ==
  LET Has(some) == outcomes \cap some # {}
  IN  IF Has({"partially_succeeded"}) THEN "partially_succeeded"
      ELSE IF Has({"succeeded", "no_change", "review_required"}) THEN
        IF Has({"failed", "dead_letter", "unsafe", "cancelled", "superseded"})
        THEN "partially_succeeded"
        ELSE IF Has({"succeeded", "review_required"}) THEN "succeeded" ELSE "no_change"
      ELSE IF Has({"unsafe"}) THEN "unsafe"
      ELSE IF Has({"failed", "dead_letter"}) THEN "failed"
      ELSE IF outcomes = {"cancelled"} /\ parentCancelled THEN "cancelled"
      ELSE IF outcomes = {"superseded"} THEN "superseded"
      ELSE IF Has({"cancelled"}) THEN "cancelled"
      ELSE "no_change"

NeedsAttention(rows) ==
  \E c \in Child : rows[c].outcome \in {"failed", "partially_succeeded", "dead_letter", "unsafe"}

\* The batch is over: no child can be added and every child has an outcome.
Over(seen, rows) == seen.sealed /\ Cardinality(Ended(rows)) = seen.created

\* The parent row project_batch computes from the children `rows`, the session's
\* copy `seen` of the batch row, and the parent's wish.
ProjectedParent(seen, rows, desired) ==
  LET over == Over(seen, rows)
  IN  [phase |-> IF over THEN "terminal"
                 ELSE IF desired = "cancel" THEN "stopping"
                 ELSE IF \E c \in Child : rows[c].phase \in {"running", "stopping", "terminal"}
                 THEN "running" ELSE "queued",
       outcome |-> IF ~over THEN "none"
                   ELSE Aggregate({rows[c].outcome : c \in Present(rows)}, desired = "cancel"),
       desired |-> desired,
       attention |-> IF NeedsAttention(rows) THEN "failed" ELSE "none"]

\* project_batch refuses a child set that is not the one the batch row counts.
Projectable(seen, rows) == Cardinality(Present(rows)) = seen.created

\* The update of the batch row: a column is written when it differs from the
\* session's copy, whatever the row holds by then.
ProjectedBatch(row, seen, rows) ==
  LET terminal == Cardinality(Ended(rows))
  IN  IF terminal = seen.terminal THEN row ELSE [row EXCEPT !.terminal = terminal]

-----------------------------------------------------------------------------
(* The initial state: a fixed batch is created with every child in one     *)
(* transaction; a dynamic one is opened empty.                             *)

QueuedChild == [phase |-> "queued", outcome |-> "none", desired |-> "run",
                exhausted |-> FALSE, successor |-> FALSE]
AbsentChild == [QueuedChild EXCEPT !.phase = "absent"]
EmptyBatch  == [mode |-> "dynamic", sealed |-> FALSE, created |-> 0, terminal |-> 0]

Idle == [work |-> "none", step |-> "idle", holds |-> {}, seen |-> EmptyBatch,
         rows |-> [c \in Child |-> AbsentChild], changed |-> {}, todo |-> {}]

CreateFixed ==
  \E chosen \in SUBSET Child :
    /\ children = [c \in Child |-> IF c \in chosen THEN QueuedChild ELSE AbsentChild]
    /\ tickets = [c \in Child |-> IF c \in chosen THEN "queued" ELSE "none"]
    /\ batch = [mode |-> "fixed", sealed |-> TRUE, created |-> Cardinality(chosen), terminal |-> 0]
    /\ parent = [phase |-> IF chosen = {} THEN "terminal" ELSE "queued",
                 outcome |-> IF chosen = {} THEN "no_change" ELSE "none",
                 desired |-> "run", attention |-> "none"]

OpenDynamic ==
  /\ children = [c \in Child |-> AbsentChild]
  /\ tickets = [c \in Child |-> "none"]
  /\ batch = EmptyBatch
  /\ parent = [phase |-> "queued", outcome |-> "none", desired |-> "run",
               attention |-> "none"]

Init ==
  /\ \/ "fixed" \in Modes /\ CreateFixed
     \/ "dynamic" \in Modes /\ OpenDynamic
  /\ tx = [s \in Session |-> Idle]
  /\ spent = [commands |-> 0, retries |-> [c \in Child |-> 0]]

-----------------------------------------------------------------------------
(* Row locks and transactions. *)

Free(r)   == \A s \in Session : r \notin tx[s].holds
Idling(s) == tx[s].step = "idle"

Open(s, t) == tx' = [tx EXCEPT ![s] = t]
Close(s)   == tx' = [tx EXCEPT ![s] = Idle]

\* What a query of session s returns for the children: a row it has loaded
\* comes from its identity map, any other from the committed table.
Rows(s) == [c \in Child |-> IF tx[s].rows[c].phase = "absent" THEN children[c]
                            ELSE tx[s].rows[c]]

\* What the table holds once the transaction of s commits: of the rows it has
\* changed, the columns it has changed.
Flushed(s) ==
  [c \in Child |->
    IF c \notin tx[s].changed THEN children[c]
    ELSE [tx[s].rows[c] EXCEPT !.outcome = IF @ = "none" THEN children[c].outcome ELSE @,
                               !.exhausted = children[c].exhausted]]

Wants(s) == CASE tx[s].step = "idle" -> {}
              [] tx[s].step = "paging" -> tx[s].todo
              [] OTHER -> {tx[s].step}

WaitsFor(s, u) == s # u /\ Wants(s) \cap tx[u].holds # {}

\* The transactions that change one child and project it into the parent.
ChildWork == {"start", "end", "withdraw"}

\* A session waiting for the job_batches row gets it; the row it has read
\* already (session.get) is not read again.
LockBatch(s) ==
  /\ tx[s].work \in ChildWork /\ tx[s].step = "batch" /\ Free("batch")
  /\ Open(s, [tx[s] EXCEPT !.holds = @ \cup {"batch"}, !.step = "parent"])
  /\ UNCHANGED <<parent, batch, children, tickets, spent>>

\* The transaction of s is rolled back.  A delivery that loses its own write
\* this way raises, and PgQueuer holds its ticket, if the ticket still exists.
RollBack(s) ==
  /\ Close(s)
  /\ tickets' = IF tx[s].work \in {"start", "end"}
                THEN [tickets EXCEPT ![s] = IF @ = "picked" THEN "failed" ELSE "gone"]
                ELSE tickets
  /\ UNCHANGED <<parent, batch, children, spent>>

\* PostgreSQL breaks a circle of two waiting transactions.
DeadlockAbort(s) ==
  /\ \E u \in Session : WaitsFor(s, u) /\ WaitsFor(u, s)
  /\ RollBack(s)

-----------------------------------------------------------------------------
(* The children's deliveries. *)

\* PgQueuer hands a child's ticket to a worker.
Deliver(c) ==
  /\ tickets[c] = "queued" /\ children[c].phase = "queued"
  /\ tickets' = [tickets EXCEPT ![c] = "picked"]
  /\ UNCHANGED <<parent, batch, children, tx, spent>>

\* Variant: the session had loaded the siblings with its own child.
LoadedWithSiblings(c, row) == [children EXCEPT ![c] = row]

\* The children rows a child's session has loaded before it projects: its own.
Loaded(c, row) == [Idle.rows EXCEPT ![c] = row]

\* A transaction on one child's row: it locks and changes the row, then reads
\* the batch row it is about to lock.
BeginChild(c, work, row) ==
  /\ Idling(c) /\ Free(c)
  /\ Open(c, [Idle EXCEPT !.work = work, !.step = "batch", !.holds = {c}, !.seen = batch,
                          !.rows = Loaded(c, row), !.changed = {c}])
  /\ UNCHANGED <<parent, batch, children, tickets>>

\* Admission starts an attempt of the child.
BeginStart(c) ==
  /\ tickets[c] = "picked" /\ children[c].phase = "queued" /\ children[c].desired = "run"
  /\ BeginChild(c, "start", [children[c] EXCEPT !.phase = "running"])
  /\ UNCHANGED spent

\* Variant: a terminal write always wants the wish to run.
BeginEndWanted(c, outcome) ==
  /\ tickets[c] \in {"picked", "withdrawn"}
  /\ children[c].phase \in {"running", "stopping"} /\ children[c].desired = "run"
  /\ outcome \in Endings
  /\ BeginChild(c, "end", [children[c] EXCEPT !.phase = "terminal", !.outcome = outcome])
  /\ UNCHANGED spent

\* The terminal write of the child's attempt, or of a delivery that finds it
\* cancelled before its admission: success and failure want the wish to run, an
\* uncertain publication does not.
BeginEnd(c, outcome) ==
  /\ tickets[c] \in {"picked", "withdrawn"}
  /\ children[c].phase \in {"running", "stopping"}
  /\ \/ outcome = "cancelled" /\ children[c].desired = "cancel"
     \/ outcome \in Endings /\ (children[c].desired = "run" \/ outcome = "unsafe")
  /\ BeginChild(c, "end", [children[c] EXCEPT !.phase = "terminal", !.outcome = outcome])
  /\ UNCHANGED spent

\* The delivery of a child that was told to stop ends without settling it: its
\* handler raised before it noticed, and neither a retry nor a failure is written
\* over the cancellation; or it had asked to be delivered again.  The ticket that
\* would be held or queued is gone with the cancellation.
EndUnsettled(c) ==
  /\ children[c].phase = "stopping" /\ tickets[c] = "withdrawn" /\ Idling(c)
  /\ tickets' = [tickets EXCEPT ![c] = "gone"]
  /\ UNCHANGED <<parent, batch, children, tx, spent>>

\* A child that was told to stop and that no delivery will settle any more.
Abandoned(c) == children[c].phase = "stopping" /\ tickets[c] = "gone"

\* recover_cancelled: the next incarnation of the worker finds the attempt the
\* abandoned child has left.
RecoverCancelled(c) ==
  /\ Abandoned(c) /\ children[c].desired = "cancel"
  /\ BeginChild(c, "end", [children[c] EXCEPT !.phase = "terminal", !.outcome = "cancelled"])
  /\ UNCHANGED spent

CommandSent == spent.commands < MaxCommand /\ spent' = [spent EXCEPT !.commands = @ + 1]

\* The user cancels one child whose ticket is still queued: it ends there.
BeginWithdraw(c) ==
  /\ tickets[c] = "queued" /\ children[c].phase = "queued"
  /\ BeginChild(c, "withdraw", [children[c] EXCEPT !.desired = "cancel", !.phase = "terminal",
                                                   !.outcome = "cancelled"])
  /\ CommandSent

\* The user cancels one child whose ticket is picked: its delivery is told, the
\* ticket row disappears, and the parent is not projected.
StopChild(c) ==
  /\ tickets[c] = "picked" /\ children[c].phase \in {"queued", "running"} /\ Free(c)
  /\ children' = [children EXCEPT ![c].desired = "cancel", ![c].phase = "stopping"]
  /\ tickets' = [tickets EXCEPT ![c] = "withdrawn"]
  /\ CommandSent
  /\ UNCHANGED <<parent, batch, tx>>

\* project_active_child, project_batch and the commit of a child's transaction.
CommitChild(c) ==
  /\ tx[c].work \in ChildWork /\ tx[c].step = "parent" /\ Free("parent")
  /\ Projectable(tx[c].seen, Rows(c))
  /\ parent' = ProjectedParent(tx[c].seen, Rows(c), parent.desired)
  /\ batch' = ProjectedBatch(batch, tx[c].seen, Rows(c))
  /\ children' = Flushed(c)
  /\ tickets' = IF tx[c].work = "withdraw" THEN [tickets EXCEPT ![c] = "gone"] ELSE tickets
  /\ Close(c)
  /\ UNCHANGED spent

\* project_batch raises inside the child's transaction.
ProjectionRefused(c) ==
  /\ tx[c].work \in ChildWork /\ tx[c].step = "parent" /\ Free("parent")
  /\ ~Projectable(tx[c].seen, Rows(c))
  /\ RollBack(c)

\* The admission deferral budget of a queued child is exhausted: the child ends
\* in a transaction that does not project it.
ExhaustDeferral(c) ==
  /\ children[c].phase = "queued" /\ children[c].desired = "run"
  /\ tickets[c] = "picked" /\ Idling(c) /\ Free(c)
  /\ children' = [children EXCEPT ![c].phase = "terminal", ![c].outcome = "failed",
                                     ![c].exhausted = TRUE]
  /\ UNCHANGED <<parent, batch, tickets, tx, spent>>

\* An automatic retry puts the child back in the queue; the parent is not told.
RetryChild(c) ==
  /\ children[c].phase = "running" /\ children[c].desired = "run"
  /\ tickets[c] = "picked" /\ Idling(c) /\ Free(c) /\ spent.retries[c] < MaxRetry
  /\ children' = [children EXCEPT ![c].phase = "queued"]
  /\ tickets' = [tickets EXCEPT ![c] = "queued"]
  /\ spent' = [spent EXCEPT !.retries[c] = @ + 1]
  /\ UNCHANGED <<parent, batch, tx>>

\* The user retries one ended child by itself: control.retry inserts a successor
\* under the same parent, waiting for the parent's row as every insert of a
\* reference does, and leaves the batch row as it is.
RetryByUser(c, d) ==
  /\ children[c].outcome \in {"failed", "cancelled"} /\ Idling(c) /\ Free(c) /\ Free("parent")
  /\ children[d].phase = "absent" /\ Idling(d) /\ d \notin tx[Producer].changed
  /\ children' = [children EXCEPT ![d] = [QueuedChild EXCEPT !.successor = TRUE]]
  /\ tickets' = [tickets EXCEPT ![d] = "queued"]
  /\ CommandSent
  /\ UNCHANGED <<parent, batch, tx>>

\* PgQueuer's reply: the ticket of an ended child disappears.
Acknowledge(c) ==
  /\ children[c].phase = "terminal" /\ tickets[c] \in {"picked", "withdrawn"}
  /\ tickets' = [tickets EXCEPT ![c] = "gone"]
  /\ UNCHANGED <<parent, batch, children, tx, spent>>

\* The worker that held a running child dies, and its successor is handed the
\* held ticket again (the JobDelivery module says under which conditions).
Redeliver(c) ==
  /\ children[c].phase \in {"running", "stopping"} /\ tickets[c] = "failed" /\ Idling(c)
  /\ tickets' = [tickets EXCEPT ![c] = "picked"]
  /\ UNCHANGED <<parent, batch, children, tx, spent>>

-----------------------------------------------------------------------------
(* The producer of a dynamic batch.  Its first read of the batch row is the *)
(* locking one, so its copy is the committed row.                           *)

\* Variant: the seal is not looked at again under the lock.
OpenForAppendSealed == TRUE

\* A generation that is sealed accepts no child.
OpenForAppend == ~batch.sealed

BeginProduce(work, changed) ==
  /\ Idling(Producer) /\ Free("batch") /\ OpenForAppend
  /\ Open(Producer, [Idle EXCEPT !.work = work, !.step = "parent", !.holds = {"batch"},
                                 !.seen = batch, !.changed = changed,
                                 !.rows = [c \in Child |-> IF c \in changed THEN QueuedChild
                                                           ELSE AbsentChild]])
  /\ UNCHANGED <<parent, batch, children, tickets, spent>>

BeginAppend(c) == children[c].phase = "absent" /\ BeginProduce("append", {c})

CountAppended(row) == [row EXCEPT !.created = @ + 1]

CommitAppend ==
  /\ tx[Producer].work = "append" /\ Free("parent")
  /\ children' = Flushed(Producer)
  /\ tickets' = [c \in Child |-> IF c \in tx[Producer].changed THEN "queued" ELSE tickets[c]]
  /\ batch' = CountAppended(batch)
  /\ Close(Producer)
  /\ UNCHANGED <<parent, spent>>

BeginSeal == BeginProduce("seal", {})

\* seal_dynamic_batch seals its copy of the row and projects the batch.
CommitSeal ==
  LET sealed == [tx[Producer].seen EXCEPT !.sealed = TRUE]
  IN  /\ tx[Producer].work = "seal" /\ Free("parent")
      /\ Projectable(sealed, children)
      /\ parent' = ProjectedParent(sealed, children, parent.desired)
      /\ batch' = ProjectedBatch([batch EXCEPT !.sealed = TRUE], sealed, children)
      /\ Close(Producer)
      /\ UNCHANGED <<children, tickets, spent>>

\* project_batch raises inside the seal.
SealUnprojectable ==
  /\ tx[Producer].work = "seal" /\ Free("parent")
  /\ ~Projectable(tx[Producer].seen, children)
  /\ RollBack(Producer)

-----------------------------------------------------------------------------
(* The user's commands on the parent. *)

\* control.cancel and control.change_priority lock the parent row, then read
\* the batch row they are about to lock.
BeginCommand(work) ==
  /\ Idling(User) /\ Free("parent")
  /\ Open(User, [Idle EXCEPT !.work = work, !.step = "batch", !.holds = {"parent"},
                             !.seen = batch])
  /\ CommandSent
  /\ UNCHANGED <<parent, batch, children, tickets>>

BeginCancel   == parent.phase # "terminal" /\ parent.desired # "cancel" /\ BeginCommand("cancel")
BeginPriority == parent.phase = "queued" /\ BeginCommand("priority")

\* The children a command pages through, as a plain SELECT finds them.
Paged(work) == {c \in Present(children) : IF work = "cancel" THEN children[c].phase # "terminal"
                                         ELSE children[c].phase = "queued"}

\* The command has the batch row: it seals its copy, if it cancels, and loads
\* the children it will go through.
LockForCommand ==
  LET paged == Paged(tx[User].work)
  IN  /\ tx[User].step = "batch" /\ Free("batch")
      /\ Open(User, [tx[User] EXCEPT
                       !.holds = @ \cup {"batch"}, !.step = "paging", !.todo = paged,
                       !.seen.sealed = @ \/ tx[User].work = "cancel",
                       !.rows = [c \in Child |-> IF c \in paged THEN children[c]
                                                 ELSE AbsentChild]])
      /\ UNCHANGED <<parent, batch, children, tickets, spent>>

\* The next child's row is locked; what the session knows of it is what it
\* loaded with the page.
Visit(c) == tx[User].step = "paging" /\ c \in tx[User].todo /\ Free(c)

\* The row cancel_known_ticket writes: a ticket still queued ends the child.
CancelledRow(c) ==
  IF tickets[c] = "queued"
  THEN [tx[User].rows[c] EXCEPT !.desired = "cancel", !.phase = "terminal",
                                !.outcome = "cancelled"]
  ELSE [tx[User].rows[c] EXCEPT !.desired = "cancel", !.phase = "stopping"]

\* The write would leave an outcome on a row that is not terminal, and the
\* table's constraint refuses it: the child ended after the page was read.
Overwrites(c) == children[c].phase = "terminal"

\* A ticket that is gone or held cannot be cancelled, one that is not queued
\* cannot change priority.
Accepts(c) == tickets[c] = "queued" \/ (tx[User].work = "cancel" /\ tickets[c] = "picked")

CancelChild(c) ==
  /\ tx[User].work = "cancel" /\ Visit(c) /\ Accepts(c) /\ ~Overwrites(c)
  /\ Open(User, [tx[User] EXCEPT !.holds = @ \cup {c}, !.todo = @ \ {c},
                                 !.rows[c] = CancelledRow(c), !.changed = @ \cup {c}])
  /\ UNCHANGED <<parent, batch, children, tickets, spent>>

ReprioritizeChild(c) ==
  /\ tx[User].work = "priority" /\ Visit(c) /\ Accepts(c)
  /\ Open(User, [tx[User] EXCEPT !.holds = @ \cup {c}, !.todo = @ \ {c}])
  /\ UNCHANGED <<parent, batch, children, tickets, spent>>

\* One child that refuses rolls the whole command back.
CommandRefused(c) ==
  /\ Visit(c)
  /\ ~Accepts(c) \/ Overwrites(c)
  /\ RollBack(User)

\* Variant: a cancelled batch stays open for more children.
SealedByCancelNot(row) == row

\* Cancelling a batch seals it.
SealedByCancel(row) == [row EXCEPT !.sealed = TRUE]

\* The last child is done: the cancel projects the batch and commits.
CommitCancel ==
  LET t == tx[User]
  IN  /\ t.work = "cancel" /\ t.step = "paging" /\ t.todo = {}
      /\ Projectable(t.seen, Rows(User))
      /\ parent' = ProjectedParent(t.seen, Rows(User), "cancel")
      /\ batch' = ProjectedBatch(SealedByCancel(batch), t.seen, Rows(User))
      /\ children' = Flushed(User)
      /\ tickets' = [c \in Child |-> IF c \notin t.changed THEN tickets[c]
                                     ELSE IF tickets[c] = "queued" THEN "gone" ELSE "withdrawn"]
      /\ Close(User)
      /\ UNCHANGED spent

\* project_batch raises inside the command's transaction.
CancelUnprojectable ==
  /\ tx[User].work = "cancel" /\ tx[User].step = "paging" /\ tx[User].todo = {}
  /\ ~Projectable(tx[User].seen, Rows(User))
  /\ RollBack(User)

CommitPriority ==
  /\ tx[User].work = "priority" /\ tx[User].step = "paging" /\ tx[User].todo = {}
  /\ Close(User)
  /\ UNCHANGED <<parent, batch, children, tickets, spent>>

\* The transport intent monitor finds no ticket for the parent, which never has
\* one, and says so on its row; it skips rows that are locked.
FlagParent ==
  /\ parent.phase # "terminal" /\ Free("parent")
  /\ parent' = [parent EXCEPT !.attention = "transport_link"]
  /\ UNCHANGED <<batch, children, tickets, tx, spent>>

-----------------------------------------------------------------------------
ChildStep(c) ==
  \/ Deliver(c) \/ BeginWithdraw(c) \/ StopChild(c) \/ BeginStart(c) \/ (\E o \in AllOutcomes : BeginEnd(c, o))
  \/ LockBatch(c) \/ CommitChild(c) \/ ProjectionRefused(c)
  \/ EndUnsettled(c) \/ RecoverCancelled(c)
  \/ ExhaustDeferral(c) \/ RetryChild(c) \/ Acknowledge(c) \/ Redeliver(c)
  \/ (\E d \in Child : RetryByUser(c, d))

UserStep ==
  \/ BeginCancel \/ BeginPriority \/ LockForCommand
  \/ (\E c \in Child : CancelChild(c) \/ ReprioritizeChild(c) \/ CommandRefused(c))
  \/ CommitCancel \/ CancelUnprojectable \/ CommitPriority

Next ==
  \/ \E c \in Child : ChildStep(c)
  \/ \E c \in Child : BeginAppend(c)
  \/ CommitAppend \/ BeginSeal \/ CommitSeal \/ SealUnprojectable
  \/ UserStep
  \/ FlagParent
  \/ \E s \in Session : DeadlockAbort(s)

Spec == Init /\ [][Next]_vars

\* The database grants a free lock and breaks a circle, a transaction goes on
\* once it can, and the handler of a running child returns.
Fairness ==
  /\ \A c \in Child :
       /\ WF_vars(LockBatch(c)) /\ WF_vars(CommitChild(c)) /\ WF_vars(ProjectionRefused(c))
       /\ WF_vars(\E o \in AllOutcomes : BeginEnd(c, o))
  /\ WF_vars(CommitAppend) /\ WF_vars(CommitSeal)
  /\ WF_vars(\E s \in Session : DeadlockAbort(s))

FairSpec == Spec /\ Fairness

-----------------------------------------------------------------------------
(* What must hold. *)

\* The children the batch was given: all but the successors of a user's retry.
Counted == {c \in Present(children) : ~children[c].successor}

\* created_total counts exactly the children the batch was given: a projection
\* that finds another number refuses, and with it every later end of a child.
CreatedTotalExact == batch.created = Cardinality(Counted)

\* A terminal batch is sealed, all its children have ended, and its outcome is
\* the aggregate of theirs: no append, late child or cancel slips under the
\* verdict project_batch wrote.  (A successor may be queued under it.)  Where
\* that outcome offers a retry, a child is there that the retry would select.
\* (With the type invariant and the count a projection compares with.)
ParentVerdictBacked ==
  /\ TypeOK /\ CreatedTotalExact
  /\ parent.phase = "terminal" =>
       /\ batch.sealed
       /\ \A c \in Counted : children[c].phase = "terminal"
       /\ Counted # {} => parent.outcome \in
            {Aggregate({children[c].outcome : c \in Counted}, b) : b \in BOOLEAN}
       /\ parent.outcome \in {"failed", "cancelled", "partially_succeeded"} =>
            \E c \in Present(children) : Retryable(children[c].outcome)

\* Once the cancellation of a batch has committed the batch is closed, and every
\* child is ended or knows it is unwanted, also one appended or started meanwhile.
CancelReachesEveryChild ==
  parent.desired = "cancel" =>
    batch.sealed /\ \A c \in Counted : children[c].phase = "terminal" \/ children[c].desired = "cancel"

Quiet == \A s \in Session : Idling(s)

AllEnded == batch.sealed /\ \A c \in Present(children) : children[c].phase = "terminal"

\* A batch whose children have all ended is terminal itself once no transaction
\* is open. This is for the batches the product creates, whose children are all
\* there from the beginning, unless a child spent its deferral budget or was
\* retried by itself: the last of several concurrent ends sees the others, however
\* their locks interleave, and the totals count each of them once.
LastEndReachesParent ==
  ( /\ batch.mode = "fixed" /\ AllEnded /\ Quiet
    /\ \A c \in Present(children) : ~children[c].exhausted /\ ~children[c].successor )
  => parent.phase = "terminal" /\ batch.terminal = Cardinality(Present(children))

\* A cancelled batch ends, whatever starts, ends or is appended meanwhile, with two
\* exceptions: a child of it is retried by itself, or a delivery that was told to
\* stop ended without settling its child, which then waits for a worker to restart
\* (and, where it has left no attempt, for ever).
CancelSettles ==
  (parent.desired = "cancel")
  ~> \/ parent.phase = "terminal"
     \/ \E c \in Child : children[c].successor \/ Abandoned(c)

=============================================================================
