------------------------------ MODULE JobEvents ------------------------------
(***************************************************************************)
(* The live activity stream: transactions that append rows to `job_events`, *)
(* the one tailer of an API instance that reads the rows back in id order, *)
(* the bounded queues it fans them out to, the SSE route that empties a     *)
(* queue into a browser, and the browser's progress store, whose native     *)
(* EventSource reconnects by itself.                                        *)
(*                                                                         *)
(* An action is what happens between two awaits: one transaction, one       *)
(* query, one frame, or one step of the browser or of the network.          *)
(***************************************************************************)
EXTENDS Integers, Sequences, FiniteSets, FiniteSetsExt

CONSTANTS
  Writer,         \* transactions that may be open at once
  Browser,        \* browser tabs that follow the activity stream
  BatchSize,      \* JOB_EVENT_TAIL_BATCH_SIZE
  QueueSize,      \* JOB_EVENT_CLIENT_QUEUE_SIZE
  ReplayLimit,    \* JOB_EVENT_REPLAY_LIMIT
  MaxEvent,       \* bound: ids the sequence hands out
  MaxDisruption,  \* bound: faults and departures of a behaviour
  Faults          \* what the environment of this run may do

AllFaults == {"listener_lost", "reconnect_refused", "api_restart", "drop", "leave", "purge"}

(* config.py refuses a replay limit beyond the client's queue. *)
ASSUME JobEventsAssumption ==
  /\ BatchSize \in Nat \ {0} /\ QueueSize \in Nat \ {0}
  /\ ReplayLimit \in 1 .. QueueSize
  /\ MaxEvent \in Nat \ {0} /\ MaxDisruption \in Nat
  /\ Faults \subseteq AllFaults
  /\ "free" \notin Browser

Event == 1 .. MaxEvent

VARIABLES
  sequence,    \* last id drawn from the job_events sequence
  open,        \* ids each uncommitted transaction has inserted
  rows,        \* ids of the committed rows
  overtaken,   \* history: ids still uncommitted when a larger id committed
  listener,    \* the tailer's LISTEN connection
  notices,     \* a committed NOTIFY is on its way to the listener
  tailer,      \* the tailer task: its step, cursor, wake event and fetched rows
  lock,        \* holder of _fanout_lock between awaits
  client,      \* the EventClient and SSE route of each browser
  browser,     \* each browser's EventSource and progress store
  disruptions  \* bookkeeping: faults and departures so far

vars == <<sequence, open, rows, overtaken, listener, notices, tailer, lock, client,
          browser, disruptions>>
tableVars == <<sequence, open, rows, overtaken>>
tailVars == <<listener, notices, tailer>>

-----------------------------------------------------------------------------
(* Frames, queues and cursors *)

EventFrame(e) == [cursor |-> e, reset |-> FALSE]
ResetFrame(high) == [cursor |-> high, reset |-> TRUE]
Frame == [cursor : 0 .. MaxEvent, reset : BOOLEAN]

High(ids) == IF ids = {} THEN 0 ELSE Max(ids)
Ascending(ids) ==
  CHOOSE s \in [1 .. Cardinality(ids) -> ids] :
    \A i, j \in 1 .. Cardinality(ids) : i < j => s[i] < s[j]
After(n) == {e \in rows : e > n}

NoClient == [step |-> "none", after |-> 0, high |-> 0, queue |-> <<>>, closed |-> FALSE]
Idle == [step |-> "stopped", cursor |-> 0, wake |-> FALSE, batch |-> {}, full |-> FALSE]
(* History: `since` is the head at the browser's first subscription, `unseen` the rows   *)
(* that a later subscription without a cursor started behind.                              *)
Unopened == [source |-> "none", url |-> 0, lastId |-> 0, cursor |-> 0, heard |-> {},
             since |-> MaxEvent, unseen |-> {}]

(* self._clients: every client that measured the table and has not been discarded. *)
Members == {b \in Browser : client[b].step \in {"replaying", "streaming"}}

(* _reset_client: the queue gives way to one reset frame and the client is closed. *)
Closed(c, high) ==
  [c EXCEPT !.queue = <<ResetFrame(high)>>, !.after = high, !.closed = TRUE]

(* _fanout, for one client. *)
Offered(c, e) ==
  CASE c.closed \/ e <= c.after -> c
    [] ~c.closed /\ e > c.after /\ Len(c.queue) >= QueueSize -> Closed(c, e)
    [] OTHER -> [c EXCEPT !.queue = Append(@, EventFrame(e)), !.after = e]

(* health(): what the SSE route asks before it subscribes. *)
Healthy == listener = "listening" /\ tailer.step \notin {"stopped", "dead"}

Disrupted(kind) ==
  /\ kind \in Faults
  /\ disruptions < MaxDisruption
  /\ disruptions' = disruptions + 1

-----------------------------------------------------------------------------
(* Writers: JobEventWriter.append inside the caller's transaction *)

(* The flush draws the id now; the row and its NOTIFY exist once the caller commits. *)
AppendEvent(w) ==
  /\ sequence < MaxEvent
  /\ sequence' = sequence + 1
  /\ open' = [open EXCEPT ![w] = @ \cup {sequence + 1}]
  /\ UNCHANGED <<rows, overtaken, tailVars, lock, client, browser, disruptions>>

Uncommitted(except) == UNION {open[v] : v \in Writer \ {except}}

Commit(w) ==
  /\ open[w] # {}
  /\ rows' = rows \cup open[w]
  /\ overtaken' = overtaken \cup {e \in Uncommitted(w) : e < Max(open[w])}
  /\ open' = [open EXCEPT ![w] = {}]
  /\ notices' = (notices \/ listener = "listening")
  /\ UNCHANGED <<sequence, listener, tailer, lock, client, browser, disruptions>>

Rollback(w) ==
  /\ open[w] # {}
  /\ open' = [open EXCEPT ![w] = {}]
  /\ UNCHANGED <<sequence, rows, overtaken, tailVars, lock, client, browser, disruptions>>

(* job_retention_purge deletes old terminal jobs and, by cascade, their events: any *)
(* rows but the newest, which the running purge job itself has appended.            *)
Purge ==
  /\ Disrupted("purge")
  /\ \E gone \in (SUBSET rows) \ {{}} :
       /\ High(rows) \notin gone
       /\ rows' = rows \ gone
  /\ UNCHANGED <<sequence, open, overtaken, tailVars, lock, client, browser>>

-----------------------------------------------------------------------------
(* The tailer task *)

(* _notify: the callback of the LISTEN connection. *)
Notified ==
  /\ notices /\ listener = "listening"
  /\ notices' = FALSE
  /\ tailer' = [tailer EXCEPT !.wake = TRUE]
  /\ UNCHANGED <<tableVars, listener, lock, client, browser, disruptions>>

(* _run: the wake event is set. *)
Awakened ==
  /\ tailer.step = "waiting" /\ tailer.wake
  /\ tailer' = [tailer EXCEPT !.step = "fetching", !.wake = FALSE]
  /\ UNCHANGED <<tableVars, listener, notices, lock, client, browser, disruptions>>

(* Mutant: the repair timer only runs while the listener is connected. *)
RepairTimeoutConnected ==
  /\ tailer.step = "waiting" /\ ~tailer.wake /\ listener = "listening"
  /\ tailer' = [tailer EXCEPT !.step = "fetching"]
  /\ UNCHANGED <<tableVars, listener, notices, lock, client, browser, disruptions>>

(* _run: JOB_EVENT_REPAIR_SECONDS passed without a wakeup. *)
RepairTimeout ==
  /\ tailer.step = "waiting" /\ ~tailer.wake
  /\ tailer' = [tailer EXCEPT !.step = "fetching"]
  /\ UNCHANGED <<tableVars, listener, notices, lock, client, browser, disruptions>>

(* _repair: the next BatchSize rows beyond the cursor. *)
NextBatch == {e \in After(tailer.cursor) :
                Cardinality({f \in After(tailer.cursor) : f < e}) < BatchSize}

Fetch ==
  /\ tailer.step \in {"fetching", "refetching"} /\ listener = "listening"
  /\ tailer' = IF NextBatch = {}
               THEN [tailer EXCEPT !.step = "waiting"]
               ELSE [tailer EXCEPT !.step = "fanning", !.batch = NextBatch,
                                   !.full = (Cardinality(NextBatch) >= BatchSize)]
  /\ UNCHANGED <<tableVars, listener, notices, lock, client, browser, disruptions>>

(* _repair and the except clause of _run: the connection is known to be gone. *)
Degrade ==
  /\ tailer.step = "fetching" /\ listener # "listening"
  /\ listener' = "none"
  /\ tailer' = [tailer EXCEPT !.step = "reconnecting"]
  /\ UNCHANGED <<tableVars, notices, lock, client, browser, disruptions>>

(* The query itself fails: asyncpg raises a PostgresError that _run catches. *)
FetchInterrupted ==
  /\ tailer.step \in {"fetching", "refetching"} /\ listener = "listening"
  /\ Disrupted("listener_lost")
  /\ listener' = "none" /\ notices' = FALSE
  /\ tailer' = [tailer EXCEPT !.step = "reconnecting"]
  /\ UNCHANGED <<tableVars, lock, client, browser>>

(* Between two batches _repair does not look at is_closed(): fetch on a closed *)
(* connection raises InterfaceError, which _run does not catch; the task ends. *)
TailerDies ==
  /\ tailer.step = "refetching" /\ listener = "closed"
  /\ tailer' = [tailer EXCEPT !.step = "dead"]
  /\ UNCHANGED <<tableVars, listener, notices, lock, client, browser, disruptions>>

(* _fanout of one frame under the lock, then the cursor moves past it. *)
FanOut ==
  LET e    == Min(tailer.batch)
      rest == tailer.batch \ {e}
  IN  /\ tailer.step = "fanning" /\ lock = "free"
      /\ client' = [b \in Browser |-> IF b \in Members THEN Offered(client[b], e)
                                                       ELSE client[b]]
      /\ tailer' = [tailer EXCEPT !.cursor = e, !.batch = rest,
                      !.step = IF rest # {} THEN "fanning"
                               ELSE IF tailer.full THEN "refetching" ELSE "waiting"]
      /\ UNCHANGED <<tableVars, listener, notices, lock, browser, disruptions>>

(* Mutant: a new connection initializes the cursor again. *)
ReconnectFromNow ==
  /\ tailer.step = "reconnecting"
  /\ \/ /\ listener' = "listening"
        /\ tailer' = [tailer EXCEPT !.step = "waiting", !.cursor = High(rows)]
        /\ UNCHANGED disruptions
     \/ /\ Disrupted("reconnect_refused")
        /\ tailer' = [tailer EXCEPT !.step = "waiting"]
        /\ UNCHANGED listener
  /\ UNCHANGED <<tableVars, notices, lock, client, browser>>

(* _connect(initialize_cursor=False): the cursor is kept, the loop waits again. *)
Reconnect ==
  /\ tailer.step = "reconnecting"
  /\ tailer' = [tailer EXCEPT !.step = "waiting"]
  /\ \/ /\ listener' = "listening"
        /\ UNCHANGED disruptions
     \/ /\ Disrupted("reconnect_refused")
        /\ UNCHANGED listener
  /\ UNCHANGED <<tableVars, notices, lock, client, browser>>

(* start(): LISTEN first, then the cursor is the largest committed id. *)
Start ==
  /\ tailer.step = "stopped"
  /\ listener' = "listening"
  /\ tailer' = [Idle EXCEPT !.step = "waiting", !.cursor = High(rows)]
  /\ UNCHANGED <<tableVars, notices, lock, client, browser, disruptions>>

-----------------------------------------------------------------------------
(* subscribe, unsubscribe and the SSE route *)

(* The cursor the route resumes from: the header wins over the query. *)
Requested(b) == IF browser[b].lastId # 0 THEN browser[b].lastId ELSE browser[b].url

CursorsDisagree(b) ==
  browser[b].lastId # 0 /\ browser[b].url # 0 /\ browser[b].lastId # browser[b].url

(* The route answers 400 or 503, or the web proxy 500 while the API is down: a *)
(* response other than 200 makes an EventSource fail for good.                 *)
Refuse(b) ==
  /\ browser[b].source = "connecting" /\ client[b].step = "none"
  /\ CursorsDisagree(b) \/ ~Healthy
  /\ browser' = [browser EXCEPT ![b].source = "failed"]
  /\ UNCHANGED <<tableVars, tailVars, lock, client, disruptions>>

Admit(b) ==
  /\ browser[b].source = "connecting" /\ client[b].step = "none"
  /\ ~CursorsDisagree(b) /\ Healthy
  /\ client' = [client EXCEPT ![b] = [NoClient EXCEPT !.step = "admitted"]]
  /\ UNCHANGED <<tableVars, tailVars, lock, browser, disruptions>>

Take(b) == lock = "free" /\ lock' = b
LeaveOpen(b) == lock = b /\ lock' = "free"

(* Mutant: the replay limit is not compared with the gap. *)
MustResetRangeOnly(after) ==
  \/ after > High(rows)
  \/ rows # {} /\ after < Min(rows) - 1

(* subscribe, first query: the bounds of the table decide what the client can follow. *)
(* Without a cursor it follows from the head on, also when its browser has subscribed  *)
(* before and was cut off ahead of the first frame.                                    *)
MustReset(after) ==
  \/ after > High(rows)
  \/ rows # {} /\ after < Min(rows) - 1
  \/ High(rows) - after > ReplayLimit

Measure(b) ==
  LET high  == High(rows)
      after == IF Requested(b) = 0 THEN high ELSE Requested(b)
      fresh == [NoClient EXCEPT !.step = "streaming", !.after = after, !.high = high]
  IN  /\ client[b].step = "admitted" /\ lock = "free"
      /\ browser' = IF Requested(b) # 0 THEN browser
                    ELSE [browser EXCEPT ![b].since = IF high < @ THEN high ELSE @,
                                         ![b].unseen = @ \cup {e \in rows : browser[b].since < e}]
      /\ IF MustReset(after)
         THEN /\ client' = [client EXCEPT ![b] = Closed(fresh, high)]
              /\ UNCHANGED lock
         ELSE IF high > after
         THEN /\ client' = [client EXCEPT ![b] = [fresh EXCEPT !.step = "replaying"]]
              /\ Take(b)
         ELSE /\ client' = [client EXCEPT ![b] = fresh]
              /\ UNCHANGED lock
      /\ UNCHANGED <<tableVars, tailVars, disruptions>>

(* subscribe, second query: what committed in (after, high] is queued in id order. *)
Replay(b) ==
  LET missed == {e \in After(client[b].after) : e <= client[b].high}
      first  == {e \in missed : Cardinality({f \in missed : f < e}) < ReplayLimit}
      ids    == Ascending(first)
  IN  /\ client[b].step = "replaying"
      /\ LeaveOpen(b)
      /\ client' = [client EXCEPT ![b].step = "streaming",
                      ![b].queue = @ \o [i \in 1 .. Len(ids) |-> EventFrame(ids[i])],
                      ![b].after = IF first = {} THEN @ ELSE Max(first)]
      /\ UNCHANGED <<tableVars, tailVars, browser, disruptions>>

(* The 200 response reaches the browser. *)
StreamOpens(b) ==
  /\ browser[b].source = "connecting" /\ client[b].step = "streaming"
  /\ browser' = [browser EXCEPT ![b].source = "open"]
  /\ UNCHANGED <<tableVars, tailVars, lock, client, disruptions>>

(* finally: unsubscribe, once the route sees that the browser is gone. *)
Unsubscribe(b) ==
  /\ client[b].step = "streaming" /\ lock = "free"
  /\ browser[b].source \in {"none", "lost"}
  /\ client' = [client EXCEPT ![b] = NoClient]
  /\ browser' = [browser EXCEPT ![b].source = IF @ = "lost" THEN "connecting" ELSE @]
  /\ UNCHANGED <<tableVars, tailVars, lock, disruptions>>

-----------------------------------------------------------------------------
(* The browser: JobProgressStore over a native EventSource *)

(* acquireScope, track: the store opens its stream behind the cursor it kept. *)
Watch(b) ==
  /\ browser[b].source = "none" /\ client[b].step = "none"
  /\ browser' = [browser EXCEPT ![b].source = "connecting",
                                ![b].url = browser[b].cursor, ![b].lastId = 0]
  /\ UNCHANGED <<tableVars, tailVars, lock, client, disruptions>>

(* The last scope is released: the EventSource is closed, the cursor is kept. *)
Leave(b) ==
  /\ browser[b].source # "none"
  /\ Disrupted("leave")
  /\ browser' = [browser EXCEPT ![b].source = "none"]
  /\ UNCHANGED <<tableVars, tailVars, lock, client>>

(* The connection breaks under an open stream; the EventSource will ask again. *)
Drop(b) ==
  /\ browser[b].source = "open"
  /\ Disrupted("drop")
  /\ browser' = [browser EXCEPT ![b].source = "lost"]
  /\ UNCHANGED <<tableVars, tailVars, lock, client>>

(* #onFrame: a frame at or below the store's cursor is not looked at. *)
Heard(b, frame) ==
  IF frame.cursor <= browser[b].cursor THEN browser[b].heard
  ELSE IF frame.reset THEN browser[b].heard \cup rows
  ELSE browser[b].heard \cup {frame.cursor}

(* frames(): one frame is written and read; a reset frame is the last of its stream. *)
Receive(b) ==
  LET frame == Head(client[b].queue)
  IN  /\ browser[b].source = "open" /\ client[b].queue # <<>>
      /\ client' = [client EXCEPT ![b].queue = Tail(@)]
      /\ browser' = [browser EXCEPT ![b].lastId = frame.cursor,
                                    ![b].cursor = IF frame.cursor > @ THEN frame.cursor ELSE @,
                                    ![b].heard = Heard(b, frame),
                                    ![b].source = IF frame.reset THEN "lost" ELSE @]
      /\ UNCHANGED <<tableVars, tailVars, lock, disruptions>>

-----------------------------------------------------------------------------
(* The environment *)

(* The tailer meets the event loop only where it awaits: for its wake event, its query *)
(* (FetchInterrupted) or a lock that a subscription holds across its own queries.      *)
ListenerLost ==
  /\ listener = "listening" /\ tailer.step # "refetching"
  /\ tailer.step = "fanning" => lock # "free"
  /\ Disrupted("listener_lost")
  /\ listener' = "closed" /\ notices' = FALSE
  /\ UNCHANGED <<tableVars, tailer, lock, client, browser>>

(* The API process stops or dies: tailer, lock, queues and routes are gone. *)
ApiStops ==
  /\ tailer.step # "stopped"
  /\ Disrupted("api_restart")
  /\ tailer' = Idle
  /\ listener' = "none" /\ notices' = FALSE
  /\ lock' = "free"
  /\ client' = [b \in Browser |-> NoClient]
  /\ browser' = [b \in Browser |-> [browser[b] EXCEPT
                   !.source = IF @ \in {"open", "lost"} THEN "connecting" ELSE @]]
  /\ UNCHANGED tableVars

-----------------------------------------------------------------------------
Init ==
  /\ sequence = 0 /\ open = [w \in Writer |-> {}] /\ rows = {} /\ overtaken = {}
  /\ listener = "none" /\ notices = FALSE /\ tailer = Idle
  /\ lock = "free"
  /\ client = [b \in Browser |-> NoClient]
  /\ browser = [b \in Browser |-> Unopened]
  /\ disruptions = 0

Writing == \E w \in Writer : AppendEvent(w) \/ Commit(w) \/ Rollback(w)
Tailing == Notified \/ Awakened \/ RepairTimeout \/ Fetch \/ Degrade \/ FanOut \/ Reconnect
             \/ Start \/ TailerDies
Serving(b) == Refuse(b) \/ Admit(b) \/ Measure(b) \/ Replay(b) \/ StreamOpens(b)
                \/ Unsubscribe(b)
Following(b) == Watch(b) \/ Receive(b)
Disrupting == \/ FetchInterrupted \/ ListenerLost \/ ApiStops \/ Purge
              \/ \E b \in Browser : Leave(b) \/ Drop(b)

Next == \/ Writing \/ Tailing \/ Disrupting
        \/ \E b \in Browser : Serving(b) \/ Following(b)

Spec == Init /\ [][Next]_vars

(* asyncio.Lock serves its waiters in order, so a step that needs the lock is strongly fair. *)
Fairness ==
  /\ WF_vars(Notified) /\ WF_vars(Awakened) /\ WF_vars(RepairTimeout) /\ WF_vars(Fetch)
  /\ WF_vars(Degrade) /\ WF_vars(Reconnect) /\ WF_vars(Start) /\ SF_vars(FanOut)
  /\ WF_vars(TailerDies)
  /\ \A b \in Browser : /\ WF_vars(Refuse(b)) /\ WF_vars(Admit(b)) /\ SF_vars(Measure(b))
                        /\ WF_vars(Replay(b)) /\ WF_vars(StreamOpens(b))
                        /\ SF_vars(Unsubscribe(b)) /\ WF_vars(Receive(b))

FairSpec == Spec /\ Fairness
-----------------------------------------------------------------------------
(* Properties *)

TypeOK ==
  /\ sequence \in 0 .. MaxEvent /\ disruptions \in 0 .. MaxDisruption
  /\ open \in [Writer -> SUBSET Event] /\ rows \subseteq Event /\ overtaken \subseteq Event
  /\ listener \in {"listening", "closed", "none"} /\ notices \in BOOLEAN
  /\ tailer \in [step : {"stopped", "waiting", "fetching", "refetching", "fanning",
                          "reconnecting", "dead"},
                  cursor : 0 .. MaxEvent, wake : BOOLEAN, batch : SUBSET Event,
                  full : BOOLEAN]
  /\ lock \in Browser \cup {"free"}
  /\ \A b \in Browser :
       /\ client[b].step \in {"none", "admitted", "replaying", "streaming"}
       /\ client[b].after \in 0 .. MaxEvent /\ client[b].high \in 0 .. MaxEvent
       /\ client[b].closed \in BOOLEAN
       /\ Len(client[b].queue) <= QueueSize
       /\ \A i \in 1 .. Len(client[b].queue) : client[b].queue[i] \in Frame
       /\ browser[b].source \in {"none", "connecting", "open", "lost", "failed"}
       /\ browser[b].url \in 0 .. MaxEvent /\ browser[b].lastId \in 0 .. MaxEvent
       /\ browser[b].cursor \in 0 .. MaxEvent /\ browser[b].since \in 0 .. MaxEvent
       /\ browser[b].heard \subseteq Event /\ browser[b].unseen \subseteq Event

InOrder == rows \ overtaken

(* Rows the stream has to bring: they are beyond the head that the browser's first   *)
(* subscription found.  The exception: a stream that breaks before its first frame   *)
(* leaves no cursor, the next one starts at the head, and what committed between the *)
(* two is lost to the stream.                                                        *)
Due(b) == {e \in InOrder : e > browser[b].since} \ browser[b].unseen

Streaming(b) ==
  /\ browser[b].source \in {"connecting", "open"} /\ client[b].step = "streaming"
  /\ ~client[b].closed

(* The frames of a stream are consumed once: whatever replay and fan-out put in a   *)
(* client's queue is strictly ascending and beyond what its browser already read,   *)
(* although a subscription may race the tailer for the same rows.                   *)
FramesInOrder ==
  \A b \in Browser : browser[b].source \in {"connecting", "open"} =>
    LET queue == client[b].queue
    IN  \A i \in 1 .. Len(queue) :
          /\ queue[i].cursor > Requested(b)
          /\ i > 1 => queue[i].cursor > queue[i - 1].cursor

(* Replay and live delivery meet without a gap: a row that committed in id order and *)
(* that the tailer has passed is not beyond a live client's cursor, and every row    *)
(* due between what the browser read and that cursor waits in the client's queue;    *)
(* nor do they overlap.  (With the type invariant and the bound of the queues.)      *)
SeamlessHandOver ==
  /\ TypeOK /\ FramesInOrder
  /\ \A b \in Browser : Streaming(b) =>
       /\ \A e \in InOrder : e <= tailer.cursor => e <= client[b].after
       /\ \A e \in Due(b) : Requested(b) < e /\ e <= client[b].after =>
            \E i \in 1 .. Len(client[b].queue) : client[b].queue[i].cursor = e

(* A browser whose cursor passed a row that committed in id order has heard of it,   *)
(* from its frame or from the snapshots a reset frame makes it read, through listener *)
(* loss, overflow, dropped connections, departures and API restarts.  Excepted are    *)
(* the rows it lost by being cut off before it had received any frame.                *)
NothingInOrderSkipped ==
  \A b \in Browser : \A e \in Due(b) : e <= browser[b].cursor => e \in browser[b].heard

(* What a browser that follows the stream still has to hear of. *)
Owed(b) == Due(b) \ browser[b].heard

(* Rows that committed in id order reach every browser that keeps following, also    *)
(* when their NOTIFY is lost with the listener: a browser that is behind catches up  *)
(* (a bounded behaviour has a last row).  The escapes: a stream that broke before its *)
(* first frame (`unseen`), an EventSource that was refused, and a tailer task *)
(* that ended.                                                                         *)
EveryRowArrives ==
  \A b \in Browser :
    Owed(b) # {} ~> \/ Owed(b) = {}
                    \/ browser[b].source \in {"none", "failed"}
                    \/ tailer.step = "dead"

(* event_stream.py says of the tailer: "Consume each committed cursor range once".   *)
(* Nothing orders the commits by id, so a row may commit behind the cursor.          *)
EveryCommittedRowConsumed ==
  \A b \in Browser : \A e \in rows \ browser[b].unseen :
    browser[b].since < e /\ e <= browser[b].cursor => e \in browser[b].heard

=============================================================================
