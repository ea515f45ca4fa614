--------------------------- MODULE JobEventsProofs ---------------------------
(***************************************************************************)
(* Proofs about JobEvents: the hand-over from replay to live delivery, for *)
(* any number of writers and browsers and any sizes of batch, queue and    *)
(* replay.                                                                 *)
(*                                                                         *)
(* The inductive invariant IInv says what the table and its transactions   *)
(* have drawn (Drawn), how the tailer's cursor and batch relate to the     *)
(* rows (Follows), and, browser by browser, what its client has been       *)
(* offered and what its store has heard (Served).  Served is a predicate   *)
(* over one client row and one browser row: what a step does to them is    *)
(* proved once over rows, and each action of the system then only says     *)
(* which rows it changes.                                                  *)
(***************************************************************************)
EXTENDS JobEvents, FiniteSetTheorems, SequenceTheorems, TLAPS

-----------------------------------------------------------------------------
(* Greatest and least of a set of ids, and the sequence of its members *)

LEMMA SetsOfIds ==
  ASSUME NEW S \in SUBSET Event
  PROVE  /\ IsFiniteSet(S) /\ Cardinality(S) \in Nat
         /\ S \subseteq Nat
  <1>1. MaxEvent \in Nat
    BY JobEventsAssumption
  <1>2. S \in SUBSET Nat /\ \A s \in S : s <= MaxEvent
    BY <1>1 DEF Event
  <1> QED
    BY <1>1, <1>2, FS_BoundedSetOfNaturals, FS_CardinalityType

LEMMA LeastNatural ==
  ASSUME NEW S \in SUBSET Nat, S # {}
  PROVE  \E n \in S : \A m \in S : n <= m
  <1>1. PICK n \in S : \A m \in S : ~ (<<m, n>> \in OpToRel(<, Nat))
    BY NatLessThanWellFounded, WFMin
  <1>2. \A m \in S : ~ (m < n)
    BY <1>1 DEF OpToRel
  <1> QED
    BY <1>2

LEMMA MinOf ==
  ASSUME NEW S \in SUBSET Event, S # {}
  PROVE  /\ Min(S) \in S /\ Min(S) \in Nat
         /\ \A e \in S : Min(S) <= e
  <1>1. S \in SUBSET Nat
    BY SetsOfIds
  <1>2. \E n \in S : \A m \in S : n <= m
    BY <1>1, LeastNatural
  <1> QED
    BY <1>1, <1>2 DEF Min

LEMMA MaxOf ==
  ASSUME NEW S \in SUBSET Event, S # {}
  PROVE  /\ Max(S) \in S /\ Max(S) \in Nat
         /\ \A e \in S : e <= Max(S)
  <1> DEFINE Bounds == {n \in Nat : \A e \in S : e <= n}
  <1>1. S \in SUBSET Nat /\ MaxEvent \in Nat /\ \A e \in S : e <= MaxEvent /\ e >= 1
    BY SetsOfIds, JobEventsAssumption DEF Event
  <1>2. Bounds \in SUBSET Nat /\ MaxEvent \in Bounds
    BY <1>1
  <1>3. PICK n \in Bounds : \A m \in Bounds : n <= m
    BY <1>2, LeastNatural
  <1>4. n \in S
    <2>1. SUFFICES ASSUME n \notin S PROVE FALSE
      OBVIOUS
    <2>2. n \in Nat /\ \A e \in S : e <= n /\ e # n
      BY <1>3, <2>1
    <2>3. n >= 1
      <3>1. PICK e \in S : TRUE
        OBVIOUS
      <3> QED
        BY <3>1, <2>2, <1>1
    <2>4. n - 1 \in Bounds
      BY <2>2, <2>3, <1>1
    <2> QED
      BY <2>4, <1>3, <2>2
  <1>5. \E x \in S : \A y \in S : x >= y
    BY <1>3, <1>4, <1>1
  <1> QED
    BY <1>5, <1>1 DEF Max

Increasing(s, n) == \A i, j \in 1 .. n : i < j => s[i] < s[j]

Sorts(s, ids) ==
  s \in [1 .. Cardinality(ids) -> ids] /\ Increasing(s, Cardinality(ids))

LEMMA SortedExtends ==
  ASSUME NEW ids \in SUBSET Nat, IsFiniteSet(ids), NEW n \in ids, \A e \in ids : e <= n,
         NEW s, Sorts(s, ids \ {n})
  PROVE  \E t : Sorts(t, ids)
  <1> DEFINE k == Cardinality(ids)
             rest == ids \ {n}
             t == [i \in 1 .. k |-> IF i = k THEN n ELSE s[i]]
  <1>1. k \in Nat /\ Cardinality(rest) = k - 1 /\ Cardinality(rest) \in Nat
    <2>1. IsFiniteSet(rest) /\ Cardinality(rest) = k - 1
      BY FS_RemoveElement
    <2> QED
      BY <2>1, FS_CardinalityType
  <1> HIDE DEF k
  <1>2. /\ s \in [1 .. k - 1 -> rest]
        /\ \A i, j \in 1 .. k - 1 : i < j => s[i] < s[j]
    BY <1>1 DEF Sorts, Increasing
  <1>3. \A i \in 1 .. k : i # k => i \in 1 .. k - 1
    BY <1>1
  <1>4. t \in [1 .. k -> ids]
    BY <1>1, <1>2, <1>3
  <1>5. ASSUME NEW i \in 1 .. k, NEW j \in 1 .. k, i < j PROVE t[i] < t[j]
    <2>1. i # k /\ i \in 1 .. k - 1 /\ t[i] = s[i] /\ s[i] \in rest
      BY <1>1, <1>2, <1>3, <1>5
    <2>2. CASE j = k
      <3>1. t[j] = n
        BY <2>2
      <3>2. s[i] \in Nat /\ s[i] # n /\ s[i] <= n /\ n \in Nat
        BY <2>1
      <3> HIDE DEF t
      <3>3. t[i] = s[i]
        BY <2>1
      <3> QED
        BY <3>1, <3>2, <3>3
    <2>3. CASE j # k
      BY <2>1, <2>3, <1>2, <1>3, <1>5
    <2> QED
      BY <2>2, <2>3
  <1> QED
    BY <1>4, <1>5 DEF Sorts, Increasing, k

LEMMA SortExists ==
  \A n \in Nat : \A ids \in SUBSET (1 .. n) : \E s : Sorts(s, ids)
  <1> DEFINE Unsorted == {n \in Nat : \E ids \in SUBSET (1 .. n) : ~ \E s : Sorts(s, ids)}
  <1>1. SUFFICES ASSUME Unsorted # {} PROVE FALSE
    OBVIOUS
  <1>2. PICK n \in Unsorted : \A m \in Unsorted : n <= m
    BY <1>1, LeastNatural
  <1>3. PICK ids \in SUBSET (1 .. n) : ~ \E s : Sorts(s, ids)
    BY <1>2
  <1>4. n \in Nat /\ ids \in SUBSET Nat /\ IsFiniteSet(ids) /\ \A e \in ids : e <= n
    <2>1. n \in Nat /\ IsFiniteSet(1 .. n)
      BY <1>2, FS_Interval
    <2>2. IsFiniteSet(ids)
      BY <2>1, <1>3, FS_Subset
    <2> QED
      BY <2>1, <2>2, <1>3
  <1>5. ids # {}
    <2>1. Sorts(<<>>, {})
      BY FS_EmptySet DEF Sorts, Increasing
    <2> QED
      BY <2>1, <1>3
  <1>6. n >= 1
    <2>1. PICK e \in ids : TRUE
      BY <1>5
    <2> QED
      BY <2>1, <1>3, <1>4
  <1>7. n - 1 \in Nat /\ n - 1 \notin Unsorted
    <2>1. n - 1 \in Nat /\ ~ (n <= n - 1)
      BY <1>4, <1>6
    <2> HIDE DEF Unsorted
    <2> QED
      BY <2>1, <1>2
  <1>8. ids \ {n} \in SUBSET (1 .. n - 1)
    <2>1. ASSUME NEW e \in ids, e # n PROVE e \in 1 .. n - 1
      <3>1. e \in 1 .. n
        BY <1>3
      <3> QED
        BY <3>1, <2>1, <1>4
    <2> QED
      BY <2>1
  <1>9. PICK s : Sorts(s, ids \ {n})
    BY <1>7, <1>8
  <1>10. CASE n \in ids
    BY <1>4, <1>9, <1>10, <1>3, SortedExtends
  <1>11. CASE n \notin ids
    <2>1. ids \ {n} = ids
      BY <1>11
    <2> QED
      BY <2>1, <1>9, <1>3
  <1> QED
    BY <1>10, <1>11

LEMMA AscendingOf ==
  ASSUME NEW ids \in SUBSET Event
  PROVE  /\ Cardinality(ids) \in Nat
         /\ Ascending(ids) \in [1 .. Cardinality(ids) -> ids]
         /\ \A i, j \in 1 .. Cardinality(ids) : i < j => Ascending(ids)[i] < Ascending(ids)[j]
         /\ \A e \in ids : \E i \in 1 .. Cardinality(ids) : Ascending(ids)[i] = e
  <1> DEFINE k == Cardinality(ids)
  <1>1. k \in Nat /\ IsFiniteSet(ids) /\ ids \subseteq Nat /\ MaxEvent \in Nat
    BY SetsOfIds, JobEventsAssumption
  <1>2. \E s : Sorts(s, ids)
    BY <1>1, SortExists DEF Event
  <1>3. \E s \in [1 .. k -> ids] : \A i, j \in 1 .. k : i < j => s[i] < s[j]
    BY <1>2 DEF Sorts, Increasing
  <1>4. PICK s : s = Ascending(ids)
    OBVIOUS
  <1>5. s \in [1 .. k -> ids] /\ \A i, j \in 1 .. k : i < j => s[i] < s[j]
    BY <1>3, <1>4 DEF Ascending
  <1> HIDE DEF k
  <1>6. s \in Injection(1 .. k, ids)
    <2>1. ASSUME NEW i \in 1 .. k, NEW j \in 1 .. k, s[i] = s[j] PROVE i = j
      <3>1. s[i] \in Nat /\ s[j] \in Nat
        BY <1>1, <1>5
      <3>2. ~ (i < j) /\ ~ (j < i)
        BY <2>1, <3>1, <1>5
      <3> QED
        BY <3>2, <1>1
    <2> QED
      BY <2>1, <1>5 DEF Injection, IsInjective
  <1>7. Cardinality(1 .. k) = k
    BY <1>1, FS_Interval
  <1>8. s \in Surjection(1 .. k, ids)
    BY <1>1, <1>6, <1>7, FS_Injection DEF k
  <1>9. \A e \in ids : \E i \in 1 .. k : s[i] = e
    BY <1>8 DEF Surjection
  <1> QED
    BY <1>1, <1>4, <1>5, <1>9 DEF k

-----------------------------------------------------------------------------
(* The inductive invariant *)

TailerRow ==
  [step : {"stopped", "waiting", "fetching", "refetching", "fanning", "reconnecting", "dead"},
   cursor : 0 .. MaxEvent, wake : BOOLEAN, batch : SUBSET Event, full : BOOLEAN]
ClientRow ==
  [step : {"none", "admitted", "replaying", "streaming"}, after : 0 .. MaxEvent,
   high : 0 .. MaxEvent, queue : Seq(Frame), closed : BOOLEAN]
BrowserRow ==
  [source : {"none", "connecting", "open", "lost", "failed"}, url : 0 .. MaxEvent,
   lastId : 0 .. MaxEvent, cursor : 0 .. MaxEvent, heard : SUBSET Event, since : 0 .. MaxEvent,
   unseen : SUBSET Event]

(* The table and the transactions. *)
TableType ==
  /\ sequence \in 0 .. MaxEvent /\ disruptions \in 0 .. MaxDisruption
  /\ open \in [Writer -> SUBSET Event] /\ rows \in SUBSET Event /\ overtaken \in SUBSET Event
  /\ listener \in {"listening", "closed", "none"} /\ notices \in BOOLEAN

Shape ==
  /\ TableType /\ tailer \in TailerRow /\ lock \in Browser \cup {"free"}
  /\ client \in [Browser -> ClientRow] /\ browser \in [Browser -> BrowserRow]
  /\ \A b \in Browser : Len(client[b].queue) <= QueueSize

(* Ids are drawn once; what no larger id has overtaken is beyond every committed row. *)
Drawn ==
  /\ \A e \in rows : e <= sequence
  /\ \A w \in Writer : \A e \in open[w] : e <= sequence
  /\ \A v, w \in Writer : v # w => open[v] \cap open[w] = {}
  /\ \A w \in Writer : \A e \in open[w] \ overtaken : \A f \in rows : f < e

(* The tailer: its batch is without a gap from the cursor on, its cursor is no further *)
(* than the table; a tailer that has not started serves nobody.                        *)
Follows ==
  /\ tailer.cursor <= High(rows)
  /\ \A e \in tailer.batch : tailer.cursor < e /\ e <= High(rows)
  /\ \A e \in InOrder : \A f \in tailer.batch : tailer.cursor < e /\ e < f => e \in tailer.batch
  /\ tailer.step = "fanning" => tailer.batch # {}
  /\ tailer.step = "stopped" => \A b \in Browser : client[b].step = "none"

(* One browser: p is its store, c the client that serves it. *)

(* The cursor a request carries is the store's. *)
Resumes(p) == p.cursor = (IF p.lastId # 0 THEN p.lastId ELSE p.url)

(* Nothing the client or the browser knows is beyond the table. *)
Within(c, p, top) ==
  c.after <= top /\ c.high <= top /\ p.url <= top /\ p.lastId <= top /\ p.cursor <= top

(* What is queued is new to the browser, in order, and the reset frame of a closed client. *)
Queued(c, p) ==
  /\ \A i \in 1 .. Len(c.queue) :
       /\ p.cursor < c.queue[i].cursor /\ c.queue[i].cursor <= c.after
       /\ c.queue[i].reset <=> c.closed
  /\ \A i, j \in 1 .. Len(c.queue) : i < j => c.queue[i].cursor < c.queue[j].cursor

Steps(c, p) ==
  /\ c.step # "streaming" => c.queue = <<>> /\ ~c.closed
  /\ p.source = "open" => c.step = "streaming"
  /\ c.step \in {"replaying", "streaming"} => p.cursor <= c.after

(* Between the two queries of a subscription the fan-out lock keeps the tailer away. *)
Replays(c, p, passed) ==
  c.step = "replaying" =>
    /\ c.after = p.cursor /\ c.after < c.high /\ c.high - c.after <= ReplayLimit
    /\ passed <= c.high

(* A live client has been offered all the tailer has passed, and what was offered is *)
(* read or queued.                                                                   *)
Offers(c, p, ino, passed) ==
  c.step = "streaming" /\ ~c.closed =>
    /\ \A e \in ino : e <= passed => e <= c.after
    /\ \A e \in ino \ p.unseen : p.cursor < e /\ p.since < e /\ e <= c.after =>
         \E i \in 1 .. Len(c.queue) : c.queue[i].cursor = e

(* What the browser's cursor has passed it has heard of, but for the exception. *)
Hears(p, ino) == \A e \in ino \ p.unseen : p.since < e /\ e <= p.cursor => e \in p.heard

ServedAs(c, p, top, ino, passed, mine) ==
  /\ Resumes(p) /\ Within(c, p, top) /\ Queued(c, p) /\ Steps(c, p)
  /\ Replays(c, p, passed) /\ Offers(c, p, ino, passed) /\ Hears(p, ino)
  /\ (c.step = "replaying") <=> mine

Served(b) ==
  ServedAs(client[b], browser[b], High(rows), InOrder, tailer.cursor, lock = b)

IInv == Shape /\ Drawn /\ Follows /\ \A b \in Browser : Served(b)

-----------------------------------------------------------------------------
(* What the steps do to one client and one browser *)

LEMMA HighOf ==
  ASSUME NEW S \in SUBSET Event
  PROVE  /\ High(S) \in 0 .. MaxEvent /\ High(S) \in Nat
         /\ \A e \in S : e <= High(S) /\ e \in Nat /\ 0 < e
         /\ S # {} => High(S) \in S
  <1>1. MaxEvent \in Nat
    BY JobEventsAssumption
  <1>2. CASE S = {}
    BY <1>1, <1>2 DEF High
  <1>3. CASE S # {}
    BY <1>1, <1>3, MaxOf DEF High, Event
  <1> QED
    BY <1>2, <1>3

(* The table grows at its end, or shrinks: a browser and its client need not care. *)
LEMMA TableMoves ==
  ASSUME NEW c \in ClientRow, NEW p \in BrowserRow, NEW passed \in Nat,
         NEW top \in Nat, NEW top1 \in Nat, top <= top1, passed <= top,
         NEW ino \in SUBSET Event, NEW ino1 \in SUBSET Event,
         \A e \in ino1 : e \in ino \/ top < e,
         Within(c, p, top), Offers(c, p, ino, passed), Hears(p, ino)
  PROVE  Within(c, p, top1) /\ Offers(c, p, ino1, passed) /\ Hears(p, ino1)
  <1>1. MaxEvent \in Nat /\ ino1 \subseteq Nat
    BY JobEventsAssumption DEF Event
  <1>2. /\ c.after \in Nat /\ c.high \in Nat /\ p.url \in Nat /\ p.lastId \in Nat
        /\ p.cursor \in Nat
        /\ c.after <= top /\ c.high <= top /\ p.url <= top /\ p.lastId <= top
        /\ p.cursor <= top
    BY <1>1 DEF Within, ClientRow, BrowserRow
  <1>3. Within(c, p, top1)
    BY <1>2 DEF Within
  <1>4. \A e \in ino1 : e <= top => e \in ino
    BY <1>1
  <1>5. \A e \in ino1 : e <= c.after => e \in ino
    BY <1>1, <1>2
  <1>6. Offers(c, p, ino1, passed)
    <2>1. \A e \in ino1 : e <= passed => e \in ino
      BY <1>1
    <2> QED
      BY <1>5, <2>1 DEF Offers
  <1>7. \A e \in ino1 : e <= p.cursor => e \in ino
    BY <1>1, <1>2
  <1>8. Hears(p, ino1)
    BY <1>7 DEF Hears
  <1> QED
    BY <1>3, <1>6, <1>8

LEMMA ClosedKeeps ==
  ASSUME NEW c \in ClientRow, NEW p \in BrowserRow, NEW top \in 0 .. MaxEvent,
         NEW high \in 0 .. MaxEvent, high <= top, p.cursor < high,
         Within(c, p, top), c.step = "streaming"
  PROVE  /\ Closed(c, high) \in ClientRow /\ Len(Closed(c, high).queue) = 1
         /\ Closed(c, high).step = "streaming" /\ Closed(c, high).closed
         /\ Within(Closed(c, high), p, top) /\ Queued(Closed(c, high), p)
         /\ Steps(Closed(c, high), p)
  <1>1. PICK d : d = Closed(c, high)
    OBVIOUS
  <1>2. /\ d.queue = <<ResetFrame(high)>> /\ d.after = high /\ d.closed
        /\ d.high = c.high /\ d.step = "streaming"
    BY <1>1 DEF Closed, ClientRow
  <1>3. ResetFrame(high) \in Frame /\ <<ResetFrame(high)>> \in Seq(Frame)
    <2>1. ResetFrame(high) \in Frame
      BY DEF ResetFrame, Frame
    <2> QED
      BY <2>1
  <1>4. d \in ClientRow
    <2>1. d = [c EXCEPT !.queue = <<ResetFrame(high)>>, !.after = high, !.closed = TRUE]
      BY <1>1 DEF Closed
    <2> DEFINE q == <<ResetFrame(high)>>
    <2>2. q \in Seq(Frame)
      BY <1>3
    <2> HIDE DEF q
    <2>3. d = [c EXCEPT !.queue = q, !.after = high, !.closed = TRUE]
      BY <2>1 DEF q
    <2> QED
      BY <2>2, <2>3 DEF ClientRow
  <1>5. Len(d.queue) = 1 /\ d.queue[1].cursor = high /\ d.queue[1].reset
    BY <1>2 DEF ResetFrame
  <1>6. MaxEvent \in Nat /\ p.cursor \in Nat /\ high \in Nat
    BY JobEventsAssumption DEF BrowserRow
  <1>7. Queued(d, p)
    <2>1. \A i \in 1 .. Len(d.queue) : i = 1
      BY <1>5
    <2> QED
      BY <2>1, <1>2, <1>5, <1>6 DEF Queued
  <1>8. Steps(d, p)
    BY <1>2, <1>6 DEF Steps
  <1>9. Within(d, p, top)
    BY <1>2 DEF Within
  <1> QED
    BY <1>1, <1>2, <1>4, <1>5, <1>7, <1>8, <1>9

(* Fan-out of the next row to a live client. *)
LEMMA OfferedKeeps ==
  ASSUME NEW c \in ClientRow, NEW p \in BrowserRow, NEW top \in 0 .. MaxEvent,
         NEW passed \in Nat, NEW ino \in SUBSET Event, NEW e \in Event, e <= top,
         \A f \in ino : f < e => f <= passed,
         c.step = "streaming", Len(c.queue) <= QueueSize,
         Within(c, p, top), Queued(c, p), Steps(c, p), Offers(c, p, ino, passed)
  PROVE  /\ Offered(c, e) \in ClientRow /\ Len(Offered(c, e).queue) <= QueueSize
         /\ Offered(c, e).step = "streaming"
         /\ Within(Offered(c, e), p, top) /\ Queued(Offered(c, e), p)
         /\ Steps(Offered(c, e), p) /\ Offers(Offered(c, e), p, ino, e)
  <1>1. /\ MaxEvent \in Nat /\ QueueSize \in Nat /\ QueueSize >= 1 /\ ino \subseteq Nat
        /\ e \in Nat /\ e \in 0 .. MaxEvent
        /\ c.after \in Nat /\ p.cursor \in Nat /\ c.queue \in Seq(Frame) /\ c.closed \in BOOLEAN
    BY JobEventsAssumption DEF Event, ClientRow, BrowserRow
  <1>2. p.cursor <= c.after
    BY DEF Steps
  <1>3. CASE c.closed
    <2>1. Offered(c, e) = c
      BY <1>3 DEF Offered
    <2>2. Offers(c, p, ino, e)
      BY <1>3 DEF Offers
    <2> QED
      BY <2>1, <2>2
  <1>4. CASE ~c.closed /\ e <= c.after
    <2>1. Offered(c, e) = c
      BY <1>1, <1>4 DEF Offered
    <2>2. \A f \in ino : f <= e => f <= c.after
      BY <1>1, <1>4
    <2>3. Offers(c, p, ino, e)
      BY <1>4, <2>2 DEF Offers
    <2> QED
      BY <2>1, <2>3
  <1>5. CASE ~c.closed /\ ~ (e <= c.after) /\ Len(c.queue) >= QueueSize
    <2>1. Offered(c, e) = Closed(c, e)
      BY <1>1, <1>5 DEF Offered
    <2>2. p.cursor < e
      BY <1>1, <1>2, <1>5
    <2>3. PICK d : d = Closed(c, e)
      OBVIOUS
    <2>4. /\ d \in ClientRow /\ Len(d.queue) = 1 /\ d.step = "streaming" /\ d.closed
          /\ Within(d, p, top) /\ Queued(d, p) /\ Steps(d, p)
      BY <2>2, <2>3, <1>1, ClosedKeeps
    <2>5. Offers(d, p, ino, e)
      BY <2>4 DEF Offers
    <2> QED
      BY <2>1, <2>3, <2>4, <2>5, <1>1
  <1>6. CASE ~c.closed /\ ~ (e <= c.after) /\ ~ (Len(c.queue) >= QueueSize)
    <2> DEFINE q == Append(c.queue, EventFrame(e))
    <2>1. Offered(c, e) = [c EXCEPT !.queue = q, !.after = e]
      BY <1>1, <1>6 DEF Offered
    <2>2. PICK d : d = Offered(c, e)
      OBVIOUS
    <2>3. /\ d.queue = q /\ d.after = e /\ d.closed = FALSE /\ d.high = c.high
          /\ d.step = "streaming"
      BY <2>1, <2>2, <1>6 DEF ClientRow
    <2>4. EventFrame(e) \in Frame /\ EventFrame(e).cursor = e /\ EventFrame(e).reset = FALSE
      BY <1>1 DEF EventFrame, Frame
    <2>5. /\ q \in Seq(Frame) /\ Len(c.queue) \in Nat /\ Len(q) = Len(c.queue) + 1
          /\ \A i \in 1 .. Len(c.queue) : q[i] = c.queue[i]
          /\ q[Len(c.queue) + 1] = EventFrame(e)
      BY <1>1, <2>4
    <2>6. d \in ClientRow
      BY <2>1, <2>2, <2>5, <1>1 DEF ClientRow
    <2> HIDE DEF q
    <2>7. Len(q) <= QueueSize
      BY <1>1, <1>6, <2>5
    <2>8. \A i \in 1 .. Len(q) : i \in 1 .. Len(c.queue) \/ i = Len(c.queue) + 1
      BY <2>5
    <2>9. \A i \in 1 .. Len(c.queue) : /\ p.cursor < c.queue[i].cursor
                                       /\ c.queue[i].cursor <= c.after
                                       /\ ~c.queue[i].reset
                                       /\ c.queue[i].cursor \in Nat
      <3>1. \A i \in 1 .. Len(c.queue) : c.queue[i] \in Frame
        BY <1>1
      <3> QED
        BY <3>1, <1>6, <1>1 DEF Queued, Frame
    <2>10. \A i \in 1 .. Len(q) : p.cursor < q[i].cursor /\ q[i].cursor <= e /\ ~q[i].reset
      <3> TAKE i \in 1 .. Len(q)
      <3>1. CASE i \in 1 .. Len(c.queue)
        <4>1. q[i] = c.queue[i]
          BY <3>1, <2>5
        <4>2. /\ p.cursor < c.queue[i].cursor /\ c.queue[i].cursor <= c.after
              /\ ~c.queue[i].reset /\ c.queue[i].cursor \in Nat
          BY <3>1, <2>9
        <4>3. c.queue[i].cursor <= e
          BY <4>2, <1>1, <1>6
        <4> QED
          BY <4>1, <4>2, <4>3
      <3>2. CASE i = Len(c.queue) + 1
        <4>1. q[i].cursor = e /\ q[i].reset = FALSE
          BY <3>2, <2>4, <2>5
        <4>2. p.cursor < e
          BY <1>1, <1>2, <1>6
        <4> QED
          BY <4>1, <4>2, <1>1
      <3> QED
        BY <3>1, <3>2, <2>8
    <2>11. \A i, j \in 1 .. Len(q) : i < j => q[i].cursor < q[j].cursor
      <3> TAKE i, j \in 1 .. Len(q)
      <3> HAVE i < j
      <3>1. i \in 1 .. Len(c.queue)
        BY <2>5, <2>8
      <3>2. CASE j \in 1 .. Len(c.queue)
        BY <3>1, <3>2, <2>5 DEF Queued
      <3>3. CASE j = Len(c.queue) + 1
        <4>1. q[j].cursor = e /\ q[i] = c.queue[i]
          BY <3>1, <3>3, <2>4, <2>5
        <4>2. c.queue[i].cursor <= c.after /\ c.queue[i].cursor \in Nat
          BY <3>1, <2>9
        <4>3. c.queue[i].cursor < e
          BY <4>2, <1>1, <1>6
        <4> QED
          BY <4>1, <4>3
      <3> QED
        BY <3>2, <3>3, <2>8
    <2>12. Queued(d, p)
      BY <2>3, <2>10, <2>11 DEF Queued
    <2>13. Steps(d, p)
      BY <2>3, <1>1, <1>2, <1>6 DEF Steps
    <2>14. Within(d, p, top)
      BY <2>3 DEF Within
    <2>15. Offers(d, p, ino, e)
      <3>1. ASSUME NEW f \in ino \ p.unseen, p.cursor < f, p.since < f, f <= e
            PROVE  \E i \in 1 .. Len(q) : q[i].cursor = f
        <4>1. CASE f = e
          BY <4>1, <2>4, <2>5
        <4>2. CASE f # e
          <5>0. f \in ino
            BY <3>1
          <5>1. f < e /\ f <= passed
            BY <1>1, <3>1, <4>2, <5>0
          <5>2. f <= c.after
            BY <5>0, <5>1, <1>6 DEF Offers
          <5>3. PICK i \in 1 .. Len(c.queue) : c.queue[i].cursor = f
            BY <5>2, <3>1, <1>6 DEF Offers
          <5>4. i \in 1 .. Len(q) /\ q[i].cursor = f
            BY <5>3, <2>5
          <5> QED
            BY <5>4
        <4> QED
          BY <4>1, <4>2
      <3> QED
        BY <3>1, <2>3 DEF Offers
    <2> QED
      BY <2>2, <2>3, <2>6, <2>7, <2>12, <2>13, <2>14, <2>15
  <1> QED
    BY <1>3, <1>4, <1>5, <1>6

(* The browser's connection changes, nothing it knows. *)
LEMMA SourceKeeps ==
  ASSUME NEW c \in ClientRow, NEW p \in BrowserRow, NEW top, NEW ino, NEW passed, NEW mine,
         ServedAs(c, p, top, ino, passed, mine),
         NEW s \in {"none", "connecting", "open", "lost", "failed"},
         s = "open" => c.step = "streaming"
  PROVE  /\ [p EXCEPT !.source = s] \in BrowserRow
         /\ ServedAs(c, [p EXCEPT !.source = s], top, ino, passed, mine)
  <1>1. PICK q : q = [p EXCEPT !.source = s]
    OBVIOUS
  <1>2. /\ q \in BrowserRow /\ q.source = s /\ q.url = p.url /\ q.lastId = p.lastId
        /\ q.cursor = p.cursor /\ q.heard = p.heard /\ q.since = p.since /\ q.unseen = p.unseen
    BY <1>1 DEF BrowserRow
  <1>3. ServedAs(c, q, top, ino, passed, mine)
    BY <1>2 DEF ServedAs, Resumes, Within, Queued, Steps, Replays, Offers, Hears
  <1> QED
    BY <1>1, <1>2, <1>3

(* A browser nobody serves yet, or any more. *)
LEMMA Unserved ==
  ASSUME NEW p \in BrowserRow, NEW top \in Nat, NEW ino, NEW passed,
         Resumes(p), Hears(p, ino), p.url <= top, p.lastId <= top, p.cursor <= top,
         NEW d, NEW q \in BrowserRow,
         d = NoClient \/ d = [NoClient EXCEPT !.step = "admitted"],
         q.source # "open", q.url = p.url, q.lastId = p.lastId, q.cursor = p.cursor,
         q.heard = p.heard, q.since = p.since, q.unseen = p.unseen
  PROVE  /\ d \in ClientRow /\ Len(d.queue) = 0
         /\ ServedAs(d, q, top, ino, passed, FALSE)
  <1>1. MaxEvent \in Nat
    BY JobEventsAssumption
  <1>2. <<>> \in Seq(Frame) /\ Len(<<>>) = 0
    OBVIOUS
  <1>3. /\ d \in ClientRow /\ d.queue = <<>> /\ d.after = 0 /\ d.high = 0 /\ d.closed = FALSE
        /\ d.step \in {"none", "admitted"}
    <2>1. /\ NoClient \in ClientRow /\ NoClient.queue = <<>> /\ NoClient.after = 0
          /\ NoClient.high = 0 /\ NoClient.closed = FALSE /\ NoClient.step = "none"
      BY <1>1, <1>2 DEF NoClient, ClientRow
    <2>2. PICK z : z = NoClient
      OBVIOUS
    <2>3. CASE d = z
      BY <2>1, <2>2, <2>3
    <2>4. CASE d = [z EXCEPT !.step = "admitted"]
      BY <2>1, <2>2, <2>4 DEF ClientRow
    <2> QED
      BY <2>2, <2>3, <2>4
  <1>4. Resumes(q) /\ Hears(q, ino) /\ Within(d, q, top)
    BY <1>3 DEF Resumes, Hears, Within
  <1>5. Queued(d, q)
    <2>1. \A i \in 1 .. Len(d.queue) : FALSE
      BY <1>2, <1>3
    <2> QED
      BY <2>1 DEF Queued
  <1>6. Steps(d, q) /\ Replays(d, q, passed) /\ Offers(d, q, ino, passed)
    BY <1>3 DEF Steps, Replays, Offers
  <1> QED
    BY <1>2, <1>3, <1>4, <1>5, <1>6 DEF ServedAs

(* The first frame in the queue is read. *)
Shifted(c) == [c EXCEPT !.queue = Tail(@)]

HeardIn(p, frame, S) ==
  IF frame.cursor <= p.cursor THEN p.heard
  ELSE IF frame.reset THEN p.heard \cup S ELSE p.heard \cup {frame.cursor}

Reading(p, frame, S) ==
  [p EXCEPT !.lastId = frame.cursor,
            !.cursor = IF frame.cursor > @ THEN frame.cursor ELSE @,
            !.heard = HeardIn(p, frame, S),
            !.source = IF frame.reset THEN "lost" ELSE @]

LEMMA ReceiveKeeps ==
  ASSUME NEW c \in ClientRow, NEW p \in BrowserRow, NEW S \in SUBSET Event,
         NEW ino \in SUBSET S, NEW passed \in Nat, NEW mine,
         ServedAs(c, p, High(S), ino, passed, mine),
         p.source = "open", c.queue # <<>>,
         NEW d, d = Shifted(c), NEW q, q = Reading(p, Head(c.queue), S)
  PROVE  /\ d \in ClientRow /\ Len(d.queue) <= Len(c.queue) /\ q \in BrowserRow
         /\ ServedAs(d, q, High(S), ino, passed, mine) /\ d.step = c.step
  <1> DEFINE frame == Head(c.queue)
             heard == HeardIn(p, frame, S)
  <1>0. /\ d = [c EXCEPT !.queue = Tail(@)]
        /\ heard = (IF frame.cursor <= p.cursor THEN p.heard
                    ELSE IF frame.reset THEN p.heard \cup S ELSE p.heard \cup {frame.cursor})
        /\ q = [p EXCEPT !.lastId = frame.cursor,
                         !.cursor = IF frame.cursor > @ THEN frame.cursor ELSE @,
                         !.heard = heard,
                         !.source = IF frame.reset THEN "lost" ELSE @]
    BY DEF Shifted, HeardIn, Reading
  <1> HIDE DEF frame, heard
  <1>1. /\ MaxEvent \in Nat /\ c.after \in Nat /\ p.cursor \in Nat /\ p.since \in Nat
        /\ c.queue \in Seq(Frame) /\ c.closed \in BOOLEAN /\ High(S) \in Nat
        /\ p.cursor \in 0 .. MaxEvent /\ c.after \in 0 .. MaxEvent /\ p.heard \in SUBSET Event
    BY JobEventsAssumption, HighOf DEF ClientRow, BrowserRow
  <1>2. /\ Resumes(p) /\ Within(c, p, High(S)) /\ Queued(c, p) /\ Steps(c, p)
        /\ Replays(c, p, passed) /\ Offers(c, p, ino, passed) /\ Hears(p, ino)
        /\ (c.step = "replaying") <=> mine
    BY DEF ServedAs
  <1>3. c.step = "streaming" /\ p.cursor <= c.after
    BY <1>2 DEF Steps
  <1>4. /\ Len(c.queue) \in Nat /\ Len(c.queue) >= 1 /\ 1 \in 1 .. Len(c.queue)
        /\ c.queue[1] \in Frame /\ frame = c.queue[1]
        /\ Tail(c.queue) \in Seq(Frame) /\ Len(Tail(c.queue)) = Len(c.queue) - 1
        /\ \A i \in 1 .. Len(Tail(c.queue)) : Tail(c.queue)[i] = c.queue[i + 1]
    BY <1>1 DEF frame
  <1>5. /\ p.cursor < frame.cursor /\ frame.cursor <= c.after /\ (frame.reset <=> c.closed)
        /\ frame.cursor \in 0 .. MaxEvent /\ frame.cursor \in Nat /\ frame.reset \in BOOLEAN
    BY <1>2, <1>4, <1>1 DEF Queued, Frame
  <1> DEFINE n == frame.cursor
  <1>6. /\ d \in ClientRow /\ d.queue = Tail(c.queue) /\ d.after = c.after /\ d.high = c.high
        /\ d.step = c.step /\ d.closed = c.closed
    BY <1>0, <1>4 DEF ClientRow
  <1>7. /\ ~ (frame.cursor <= p.cursor) /\ frame.cursor > p.cursor
        /\ frame.cursor # 0
    BY <1>1, <1>5
  <1>8. heard = (IF frame.reset THEN p.heard \cup S ELSE p.heard \cup {n})
    BY <1>0, <1>7
  <1>9. n \in Event
    BY <1>1, <1>5, <1>7 DEF Event
  <1>10. heard \in SUBSET Event
    BY <1>1, <1>8, <1>9
  <1>11. /\ q.lastId = n /\ q.cursor = n /\ q.heard = heard /\ q.since = p.since /\ q.unseen = p.unseen
         /\ q.url = p.url /\ q.source = (IF frame.reset THEN "lost" ELSE "open")
    BY <1>0, <1>7 DEF BrowserRow
  <1>12. q \in BrowserRow
    <2>1. q = [p EXCEPT !.lastId = n, !.cursor = n, !.heard = heard,
                        !.source = IF frame.reset THEN "lost" ELSE @]
      BY <1>0, <1>7
    <2> QED
      BY <2>1, <1>5, <1>10 DEF BrowserRow
  <1> HIDE DEF n
  <1>13. n \in Nat /\ p.cursor < n /\ n <= c.after /\ n # 0
    BY <1>5, <1>7 DEF n
  <1>14. Resumes(q)
    BY <1>11, <1>13 DEF Resumes
  <1>15. Within(d, q, High(S))
    BY <1>1, <1>2, <1>6, <1>11, <1>13 DEF Within
  <1>16. Queued(d, q)
    <2>1. \A i \in 1 .. Len(d.queue) : i + 1 \in 1 .. Len(c.queue) /\ d.queue[i] = c.queue[i + 1]
      BY <1>4, <1>6
    <2>2. \A i \in 1 .. Len(d.queue) : n < d.queue[i].cursor
      <3> TAKE i \in 1 .. Len(d.queue)
      <3>1. i + 1 \in 1 .. Len(c.queue) /\ d.queue[i] = c.queue[i + 1] /\ 1 < i + 1
        BY <2>1, <1>4, <1>6
      <3>2. c.queue[1].cursor < c.queue[i + 1].cursor
        BY <3>1, <1>4, <1>2 DEF Queued
      <3> QED
        BY <3>1, <3>2, <1>4 DEF n
    <2>3. \A i \in 1 .. Len(d.queue) : /\ d.queue[i].cursor <= d.after
                                       /\ d.queue[i].reset <=> d.closed
      BY <2>1, <1>2, <1>6 DEF Queued
    <2>4. ASSUME NEW i \in 1 .. Len(d.queue), NEW j \in 1 .. Len(d.queue), i < j
          PROVE  d.queue[i].cursor < d.queue[j].cursor
      <3>1. /\ i + 1 \in 1 .. Len(c.queue) /\ j + 1 \in 1 .. Len(c.queue) /\ i + 1 < j + 1
            /\ d.queue[i] = c.queue[i + 1] /\ d.queue[j] = c.queue[j + 1]
        BY <2>1, <2>4, <1>4, <1>6
      <3> QED
        BY <3>1, <1>2 DEF Queued
    <2> QED
      BY <2>2, <2>3, <2>4, <1>11 DEF Queued
  <1>17. Steps(d, q)
    BY <1>3, <1>6, <1>11, <1>13 DEF Steps
  <1>18. Replays(d, q, passed)
    BY <1>3, <1>6 DEF Replays
  <1>19. Offers(d, q, ino, passed)
    <2>1. SUFFICES ASSUME ~c.closed PROVE Offers(d, q, ino, passed)
      BY <1>6 DEF Offers
    <2>2. ASSUME NEW e \in ino \ p.unseen, n < e, p.since < e, e <= c.after
          PROVE  \E i \in 1 .. Len(d.queue) : d.queue[i].cursor = e
      <3>1. e \in Nat
        BY <1>1 DEF Event
      <3>2. p.cursor < e
        BY <3>1, <1>1, <1>13, <2>2
      <3>3. PICK i \in 1 .. Len(c.queue) : c.queue[i].cursor = e
        BY <3>2, <2>1, <2>2, <1>2, <1>3 DEF Offers
      <3>4. i # 1
        BY <3>1, <3>3, <2>2, <1>4, <1>13 DEF n
      <3>5. i - 1 \in 1 .. Len(d.queue) /\ (i - 1) + 1 = i
        BY <3>3, <3>4, <1>4, <1>6
      <3>6. d.queue[i - 1] = c.queue[i]
        BY <3>5, <1>4, <1>6
      <3> QED
        BY <3>3, <3>5, <3>6
    <2>3. \A e \in ino : e <= passed => e <= c.after
      BY <2>1, <1>2, <1>3 DEF Offers
    <2> QED
      BY <2>2, <2>3, <1>6, <1>11 DEF Offers
  <1>20. Hears(q, ino)
    <2>1. SUFFICES ASSUME NEW e \in ino \ p.unseen, p.since < e, e <= n PROVE e \in heard
      BY <1>11 DEF Hears
    <2>2. e \in Nat /\ e \in S
      BY <1>1 DEF Event
    <2>3. CASE e <= p.cursor
      <3>1. e \in p.heard
        BY <2>1, <2>3, <1>2 DEF Hears
      <3> QED
        BY <3>1, <1>8
    <2>4. CASE frame.reset
      BY <2>2, <2>4, <1>8
    <2>5. CASE ~frame.reset /\ ~ (e <= p.cursor)
      <3>1. ~c.closed /\ p.cursor < e /\ e <= c.after
        BY <2>1, <2>2, <2>5, <1>1, <1>5, <1>13
      <3>2. PICK i \in 1 .. Len(c.queue) : c.queue[i].cursor = e
        BY <3>1, <2>1, <1>2, <1>3 DEF Offers
      <3>3. i = 1
        <4>1. SUFFICES ASSUME i # 1 PROVE FALSE
          OBVIOUS
        <4>2. 1 < i
          BY <4>1, <3>2
        <4>3. n < e
          BY <4>2, <3>2, <1>2, <1>4 DEF Queued, n
        <4> QED
          BY <4>3, <2>1, <2>2, <1>13
      <3>4. e = n
        BY <3>2, <3>3, <1>4 DEF n
      <3> QED
        BY <3>4, <2>5, <1>8
    <2> QED
      BY <2>3, <2>4, <2>5
  <1> QED
    BY <1>2, <1>4, <1>6, <1>12, <1>14, <1>15, <1>16, <1>17, <1>18, <1>19, <1>20 DEF ServedAs

-----------------------------------------------------------------------------
(* Steps of one browser and the client that serves it *)

LEMMA OneBrowser ==
  ASSUME IInv, NEW b \in Browser, NEW c \in ClientRow, NEW p \in BrowserRow,
         UNCHANGED <<tableVars, tailVars>>, disruptions' \in 0 .. MaxDisruption,
         client' = [client EXCEPT ![b] = c], browser' = [browser EXCEPT ![b] = p],
         Len(c.queue) <= QueueSize,
         lock' \in Browser \cup {"free"},
         \A x \in Browser \ {b} : (lock' = x) <=> (lock = x),
         tailer.step = "stopped" => c.step = "none",
         ServedAs(c, p, High(rows), InOrder, tailer.cursor, lock' = b)
  PROVE  IInv'
  <1>1. /\ sequence' = sequence /\ open' = open /\ rows' = rows /\ overtaken' = overtaken
        /\ listener' = listener /\ notices' = notices /\ tailer' = tailer
    BY DEF tableVars, tailVars
  <1>2. /\ High(rows)' = High(rows) /\ InOrder' = InOrder
        /\ tailer.cursor' = tailer.cursor
    BY <1>1 DEF High, InOrder
  <1>3. \A x \in Browser : /\ client'[x] = IF x = b THEN c ELSE client[x]
                           /\ browser'[x] = IF x = b THEN p ELSE browser[x]
    BY DEF IInv, Shape
  <1>4. Shape'
    <2>1. TableType'
      BY <1>1 DEF IInv, Shape, TableType
    <2>2. tailer' \in TailerRow /\ client' \in [Browser -> ClientRow]
          /\ browser' \in [Browser -> BrowserRow]
      BY <1>1 DEF IInv, Shape
    <2>3. \A x \in Browser : Len(client'[x].queue) <= QueueSize
      BY <1>3 DEF IInv, Shape
    <2>4. lock' \in Browser \cup {"free"}
      OBVIOUS
    <2> QED
      BY <2>1, <2>2, <2>3, <2>4 DEF Shape, TailerRow, ClientRow, BrowserRow
  <1>5. Drawn'
    BY <1>1 DEF IInv, Drawn
  <1>6. Follows'
    <2>1. tailer.step = "stopped" => \A x \in Browser : client'[x].step = "none"
      BY <1>3 DEF IInv, Follows
    <2> QED
      BY <1>1, <1>2, <2>1 DEF IInv, Follows
  <1>7. ASSUME NEW x \in Browser PROVE Served(x)'
    <2>1. Served(x)
      BY DEF IInv
    <2>2. CASE x = b
      <3>1. client'[x] = c /\ browser'[x] = p
        BY <1>3, <2>2
      <3> QED
        BY <3>1, <2>2, <1>1, <1>2 DEF Served
    <2>3. CASE x # b
      <3>1. client'[x] = client[x] /\ browser'[x] = browser[x]
        BY <1>3, <2>3
      <3>2. (lock' = x) = (lock = x)
        BY <2>3
      <3> QED
        BY <3>1, <3>2, <2>1, <1>1, <1>2 DEF Served
    <2> QED
      BY <2>2, <2>3
  <1> QED
    BY <1>4, <1>5, <1>6, <1>7 DEF IInv

LEMMA BrowserFacts ==
  ASSUME IInv, NEW b \in Browser
  PROVE  /\ client[b] \in ClientRow /\ browser[b] \in BrowserRow
         /\ ServedAs(client[b], browser[b], High(rows), InOrder, tailer.cursor, lock = b)
         /\ Resumes(browser[b]) /\ Hears(browser[b], InOrder)
         /\ browser[b].url <= High(rows) /\ browser[b].lastId <= High(rows)
         /\ browser[b].cursor <= High(rows)
         /\ client \in [Browser -> ClientRow] /\ browser \in [Browser -> BrowserRow]
         /\ Len(client[b].queue) <= QueueSize /\ Requested(b) = browser[b].cursor
         /\ client = [client EXCEPT ![b] = client[b]]
         /\ browser = [browser EXCEPT ![b] = browser[b]]
         /\ rows \in SUBSET Event /\ InOrder \in SUBSET rows /\ High(rows) \in Nat
         /\ High(rows) \in 0 .. MaxEvent /\ tailer.cursor \in Nat
         /\ tailer.cursor <= High(rows) /\ (tailer.step = "stopped" => client[b].step = "none")
         /\ disruptions \in 0 .. MaxDisruption /\ lock \in Browser \cup {"free"}
         /\ (client[b].step = "replaying") <=> (lock = b)
         /\ b # "free"
  <1>1. Shape /\ Follows /\ Served(b)
    BY DEF IInv
  <1>2. rows \in SUBSET Event /\ MaxEvent \in Nat /\ "free" \notin Browser
    BY <1>1, JobEventsAssumption DEF Shape, TableType
  <1>3. Resumes(browser[b])
    BY <1>1 DEF Served, ServedAs
  <1>4. Requested(b) = browser[b].cursor
    BY <1>3 DEF Requested, Resumes
  <1>5. client[b] \in ClientRow /\ browser[b] \in BrowserRow /\ tailer.cursor \in Nat
    BY <1>1, <1>2 DEF Shape, TailerRow
  <1>6. client = [client EXCEPT ![b] = client[b]] /\ browser = [browser EXCEPT ![b] = browser[b]]
    BY <1>1 DEF Shape
  <1>7. tailer.cursor <= High(rows) /\ (tailer.step = "stopped" => client[b].step = "none")
    BY <1>1 DEF Follows
  <1>8. /\ ServedAs(client[b], browser[b], High(rows), InOrder, tailer.cursor, lock = b)
        /\ (client[b].step = "replaying") <=> (lock = b)
    BY <1>1 DEF Served, ServedAs
  <1>9. Len(client[b].queue) <= QueueSize /\ disruptions \in 0 .. MaxDisruption
        /\ lock \in Browser \cup {"free"}
    BY <1>1 DEF Shape, TableType
  <1>10. /\ Resumes(browser[b]) /\ Hears(browser[b], InOrder)
         /\ browser[b].url <= High(rows) /\ browser[b].lastId <= High(rows)
         /\ browser[b].cursor <= High(rows)
    BY <1>8 DEF ServedAs, Within
  <1>11. client \in [Browser -> ClientRow] /\ browser \in [Browser -> BrowserRow]
    BY <1>1 DEF Shape
  <1> QED
    BY <1>2, <1>4, <1>5, <1>6, <1>7, <1>8, <1>9, <1>10, <1>11, HighOf DEF InOrder

LEMMA SourceStep ==
  ASSUME IInv, NEW b \in Browser,
         NEW s \in {"none", "connecting", "open", "lost", "failed"},
         s = "open" => client[b].step = "streaming",
         browser' = [browser EXCEPT ![b].source = s],
         UNCHANGED <<tableVars, tailVars, lock, client>>,
         disruptions' \in 0 .. MaxDisruption
  PROVE  IInv'
  <1> DEFINE p == [browser[b] EXCEPT !.source = s]
  <1>1. p \in BrowserRow /\ ServedAs(client[b], p, High(rows), InOrder, tailer.cursor, lock = b)
    BY BrowserFacts, SourceKeeps
  <1>2. browser' = [browser EXCEPT ![b] = p]
    OBVIOUS
  <1>3. client' = [client EXCEPT ![b] = client[b]] /\ lock' = lock
    BY BrowserFacts
  <1> HIDE DEF p
  <1>4. ServedAs(client[b], p, High(rows), InOrder, tailer.cursor, lock' = b)
    BY <1>1, <1>3
  <1>5. \A x \in Browser \ {b} : (lock' = x) <=> (lock = x)
    BY <1>3
  <1>6. UNCHANGED <<tableVars, tailVars>>
    OBVIOUS
  <1>7. /\ client[b] \in ClientRow /\ Len(client[b].queue) <= QueueSize
        /\ lock' \in Browser \cup {"free"} /\ (tailer.step = "stopped" => client[b].step = "none")
    BY <1>3, BrowserFacts
  <1> QED
    BY <1>1, <1>2, <1>3, <1>4, <1>5, <1>6, <1>7, OneBrowser

LEMMA DisruptionCounted ==
  ASSUME IInv, NEW kind, Disrupted(kind)
  PROVE  disruptions' \in 0 .. MaxDisruption
  BY JobEventsAssumption DEF IInv, Shape, TableType, Disrupted

LEMMA RefuseKeeps ==
  ASSUME IInv, NEW b \in Browser, Refuse(b) PROVE IInv'
  <1>1. browser' = [browser EXCEPT ![b].source = "failed"]
        /\ UNCHANGED <<tableVars, tailVars, lock, client>> /\ disruptions' = disruptions
    BY DEF Refuse
  <1> QED
    BY <1>1, BrowserFacts, SourceStep

LEMMA StreamOpensKeeps ==
  ASSUME IInv, NEW b \in Browser, StreamOpens(b) PROVE IInv'
  <1>1. browser' = [browser EXCEPT ![b].source = "open"] /\ client[b].step = "streaming"
        /\ UNCHANGED <<tableVars, tailVars, lock, client>> /\ disruptions' = disruptions
    BY DEF StreamOpens
  <1> QED
    BY <1>1, BrowserFacts, SourceStep

LEMMA LeaveKeeps ==
  ASSUME IInv, NEW b \in Browser, Leave(b) PROVE IInv'
  <1>1. browser' = [browser EXCEPT ![b].source = "none"]
        /\ UNCHANGED <<tableVars, tailVars, lock, client>> /\ disruptions' \in 0 .. MaxDisruption
    BY DisruptionCounted DEF Leave
  <1> QED
    BY <1>1, SourceStep

LEMMA DropKeeps ==
  ASSUME IInv, NEW b \in Browser, Drop(b) PROVE IInv'
  <1>1. browser' = [browser EXCEPT ![b].source = "lost"]
        /\ UNCHANGED <<tableVars, tailVars, lock, client>> /\ disruptions' \in 0 .. MaxDisruption
    BY DisruptionCounted DEF Drop
  <1> QED
    BY <1>1, SourceStep

LEMMA AdmitKeeps ==
  ASSUME IInv, NEW b \in Browser, Admit(b) PROVE IInv'
  <1> DEFINE c == [NoClient EXCEPT !.step = "admitted"]
             p == browser[b]
  <1>1. /\ client' = [client EXCEPT ![b] = c] /\ browser' = [browser EXCEPT ![b] = p]
        /\ UNCHANGED <<tableVars, tailVars>> /\ lock' = lock /\ disruptions' = disruptions
        /\ p.source = "connecting" /\ client[b].step = "none" /\ tailer.step # "stopped"
    BY BrowserFacts DEF Admit, Healthy
  <1>2. /\ c \in ClientRow /\ Len(c.queue) = 0
        /\ ServedAs(c, p, High(rows), InOrder, tailer.cursor, FALSE)
    BY <1>1, BrowserFacts, Unserved
  <1>3. p \in BrowserRow /\ lock' \in Browser \cup {"free"} /\ disruptions' \in 0 .. MaxDisruption
    BY <1>1, BrowserFacts
  <1>4. lock' # b
    BY <1>1, BrowserFacts
  <1> HIDE DEF c, p
  <1>5. ServedAs(c, p, High(rows), InOrder, tailer.cursor, lock' = b)
    BY <1>2, <1>4 DEF ServedAs
  <1>6. 0 <= QueueSize
    BY JobEventsAssumption
  <1> QED
    BY <1>1, <1>2, <1>3, <1>5, <1>6, OneBrowser

LEMMA UnsubscribeKeeps ==
  ASSUME IInv, NEW b \in Browser, Unsubscribe(b) PROVE IInv'
  <1> DEFINE s == IF browser[b].source = "lost" THEN "connecting" ELSE browser[b].source
             p == [browser[b] EXCEPT !.source = s]
  <1>1. /\ client' = [client EXCEPT ![b] = NoClient] /\ browser' = [browser EXCEPT ![b] = p]
        /\ UNCHANGED <<tableVars, tailVars>> /\ lock' = lock /\ disruptions' = disruptions
        /\ browser[b].source \in {"none", "lost"} /\ lock = "free"
    BY DEF Unsubscribe
  <1>2. s \in {"none", "connecting"}
    BY <1>1
  <1> HIDE DEF s
  <1>3. /\ p \in BrowserRow /\ p.source # "open" /\ p.url = browser[b].url
        /\ p.lastId = browser[b].lastId /\ p.cursor = browser[b].cursor
        /\ p.heard = browser[b].heard /\ p.since = browser[b].since /\ p.unseen = browser[b].unseen
    <2>1. browser[b] \in BrowserRow
      BY BrowserFacts
    <2> QED
      BY <1>2, <2>1 DEF BrowserRow
  <1> HIDE DEF p
  <1>4. /\ NoClient \in ClientRow /\ Len(NoClient.queue) = 0
        /\ ServedAs(NoClient, p, High(rows), InOrder, tailer.cursor, FALSE)
    <2>1. PICK old : old = browser[b]
      OBVIOUS
    <2>2. PICK d : d = NoClient
      OBVIOUS
    <2>3. PICK top \in Nat : top = High(rows)
      BY BrowserFacts
    <2>4. /\ old \in BrowserRow /\ Resumes(old) /\ Hears(old, InOrder)
          /\ old.url <= top /\ old.lastId <= top /\ old.cursor <= top
      BY <2>1, <2>3, BrowserFacts
    <2>5. /\ p.url = old.url /\ p.lastId = old.lastId /\ p.cursor = old.cursor
          /\ p.heard = old.heard /\ p.since = old.since /\ p.unseen = old.unseen
      BY <2>1, <1>3
    <2>6. d \in ClientRow /\ Len(d.queue) = 0
          /\ ServedAs(d, p, top, InOrder, tailer.cursor, FALSE)
      BY <1>3, <2>2, <2>4, <2>5, Unserved
    <2> QED
      BY <2>2, <2>3, <2>6
  <1>5. lock' \in Browser \cup {"free"} /\ disruptions' \in 0 .. MaxDisruption /\ lock' # b
    BY <1>1, BrowserFacts
  <1>6. NoClient.step = "none"
    BY DEF NoClient
  <1> HIDE DEF p
  <1>7. ServedAs(NoClient, p, High(rows), InOrder, tailer.cursor, lock' = b)
    BY <1>4, <1>5 DEF ServedAs
  <1>8. 0 <= QueueSize
    BY JobEventsAssumption
  <1> QED
    BY <1>1, <1>3, <1>4, <1>5, <1>6, <1>7, <1>8, OneBrowser

LEMMA WatchKeeps ==
  ASSUME IInv, NEW b \in Browser, Watch(b) PROVE IInv'
  <1> DEFINE c == client[b]
             p == browser[b]
             q == [p EXCEPT !.source = "connecting", !.url = p.cursor, !.lastId = 0]
  <1>1. /\ client' = [client EXCEPT ![b] = c] /\ browser' = [browser EXCEPT ![b] = q]
        /\ UNCHANGED <<tableVars, tailVars>> /\ lock' = lock /\ disruptions' = disruptions
        /\ c.step = "none"
    <2>1. browser' = [browser EXCEPT ![b] = q]
      <3>1. browser' = [browser EXCEPT ![b].source = "connecting",
                                       ![b].url = browser[b].cursor, ![b].lastId = 0]
        BY DEF Watch
      <3>2. browser \in [Browser -> BrowserRow]
        BY BrowserFacts
      <3> QED
        BY <3>1, <3>2
    <2> QED
      BY <2>1, BrowserFacts DEF Watch
  <1>2. /\ c \in ClientRow /\ p \in BrowserRow /\ lock' \in Browser \cup {"free"}
        /\ disruptions' \in 0 .. MaxDisruption /\ Len(c.queue) <= QueueSize
        /\ ServedAs(c, p, High(rows), InOrder, tailer.cursor, lock' = b)
        /\ MaxEvent \in Nat /\ High(rows) \in Nat
        /\ p.cursor \in 0 .. MaxEvent /\ 0 \in 0 .. MaxEvent
    <2>1. MaxEvent \in Nat /\ 0 \in 0 .. MaxEvent
      BY JobEventsAssumption
    <2>2. p \in BrowserRow
      BY BrowserFacts
    <2> QED
      BY <1>1, <2>1, <2>2, BrowserFacts DEF BrowserRow
  <1> HIDE DEF c, p
  <1>3. /\ q \in BrowserRow /\ q.source = "connecting" /\ q.url = p.cursor /\ q.lastId = 0
        /\ q.cursor = p.cursor /\ q.heard = p.heard /\ q.since = p.since /\ q.unseen = p.unseen
    BY <1>2 DEF BrowserRow
  <1> HIDE DEF q
  <1>4. ServedAs(c, q, High(rows), InOrder, tailer.cursor, lock' = b)
    BY <1>1, <1>2, <1>3
    DEF ServedAs, Resumes, Within, Queued, Steps, Replays, Offers, Hears
  <1>5. \A x \in Browser \ {b} : (lock' = x) <=> (lock = x)
    BY <1>1
  <1> QED
    BY <1>1, <1>2, <1>3, <1>4, <1>5, OneBrowser

LEMMA ReceiveStep ==
  ASSUME IInv, NEW b \in Browser, Receive(b) PROVE IInv'
  <1>1. PICK c : c = Shifted(client[b])
    OBVIOUS
  <1>2. PICK p : p = Reading(browser[b], Head(client[b].queue), rows)
    OBVIOUS
  <1>3. /\ client' = [client EXCEPT ![b] = c] /\ browser' = [browser EXCEPT ![b] = p]
        /\ UNCHANGED <<tableVars, tailVars>> /\ lock' = lock /\ disruptions' = disruptions
        /\ browser[b].source = "open" /\ client[b].queue # <<>>
    BY <1>1, <1>2 DEF Receive, Heard, Shifted, Reading, HeardIn
  <1>4. /\ c \in ClientRow /\ Len(c.queue) <= Len(client[b].queue) /\ p \in BrowserRow
        /\ ServedAs(c, p, High(rows), InOrder, tailer.cursor, lock = b)
        /\ c.step = client[b].step
    BY <1>1, <1>2, <1>3, BrowserFacts, ReceiveKeeps
  <1>5. /\ lock' \in Browser \cup {"free"} /\ disruptions' \in 0 .. MaxDisruption
        /\ (tailer.step = "stopped" => c.step = "none")
    BY <1>3, <1>4, BrowserFacts
  <1>6. Len(c.queue) <= QueueSize
    <2>1. Len(client[b].queue) \in Nat /\ Len(c.queue) \in Nat /\ QueueSize \in Nat
      BY <1>4, BrowserFacts, JobEventsAssumption DEF ClientRow
    <2> QED
      BY <2>1, <1>4, BrowserFacts
  <1>7. ServedAs(c, p, High(rows), InOrder, tailer.cursor, lock' = b)
    BY <1>3, <1>4
  <1>8. \A x \in Browser \ {b} : (lock' = x) <=> (lock = x)
    BY <1>3
  <1> QED
    BY <1>3, <1>4, <1>5, <1>6, <1>7, <1>8, OneBrowser

(* The first query of a subscription: reset, replay or live. *)
LEMMA MeasureKeeps ==
  ASSUME IInv, NEW b \in Browser, Measure(b) PROVE IInv'
  <1>1. PICK p : p = browser[b]
    OBVIOUS
  <1>2. PICK top : top = High(rows)
    OBVIOUS
  <1>3. PICK after : after = IF p.cursor = 0 THEN top ELSE p.cursor
    OBVIOUS
  <1>4. PICK fresh : fresh = [NoClient EXCEPT !.step = "streaming", !.after = after, !.high = top]
    OBVIOUS
  <1>5. PICK q : q = IF p.cursor # 0 THEN p
                     ELSE [p EXCEPT !.since = IF top < @ THEN top ELSE @,
                                    !.unseen = @ \cup {e \in rows : p.since < e}]
    OBVIOUS
  <1>6. /\ client[b].step = "admitted" /\ lock = "free" /\ browser' = [browser EXCEPT ![b] = q]
        /\ UNCHANGED <<tableVars, tailVars>> /\ disruptions' = disruptions
    <2>1. Requested(b) = p.cursor /\ browser \in [Browser -> BrowserRow]
      BY <1>1, BrowserFacts
    <2>2. CASE p.cursor # 0
      BY <1>1, <1>5, <2>1, <2>2 DEF Measure
    <2>3. CASE p.cursor = 0
      BY <1>1, <1>2, <1>5, <2>1, <2>3 DEF Measure
    <2> QED
      BY <2>2, <2>3
  <1>7. Requested(b) = p.cursor
    BY <1>1, BrowserFacts
  <1>8. \/ /\ MustReset(after) /\ client' = [client EXCEPT ![b] = Closed(fresh, top)]
           /\ lock' = lock
        \/ /\ ~MustReset(after) /\ top > after
           /\ client' = [client EXCEPT ![b] = [fresh EXCEPT !.step = "replaying"]] /\ lock' = b
        \/ /\ ~MustReset(after) /\ ~ (top > after) /\ client' = [client EXCEPT ![b] = fresh]
           /\ lock' = lock
    BY <1>1, <1>2, <1>3, <1>4, <1>7 DEF Measure, Take
  <1>9. /\ p \in BrowserRow /\ Resumes(p) /\ Hears(p, InOrder)
        /\ p.url <= top /\ p.lastId <= top /\ p.cursor <= top
        /\ top \in Nat /\ top \in 0 .. MaxEvent /\ tailer.cursor \in Nat /\ tailer.cursor <= top
        /\ InOrder \in SUBSET rows /\ rows \in SUBSET Event
        /\ lock' \in Browser \cup {"free"} /\ disruptions' \in 0 .. MaxDisruption
        /\ tailer.step # "stopped" /\ b # "free"
    BY <1>1, <1>2, <1>6, <1>8, BrowserFacts
  <1>10. /\ MaxEvent \in Nat /\ ReplayLimit \in Nat /\ ReplayLimit >= 1 /\ QueueSize \in Nat
         /\ QueueSize >= 1 /\ p.cursor \in Nat /\ p.lastId \in Nat /\ p.url \in Nat
         /\ p.since \in Nat
    BY <1>9, JobEventsAssumption DEF BrowserRow
  <1>11. after \in Nat /\ after <= top /\ p.cursor <= after /\ after \in 0 .. MaxEvent
    BY <1>3, <1>9, <1>10
  <1>12. /\ q \in BrowserRow /\ q.source = p.source /\ q.url = p.url /\ q.lastId = p.lastId
         /\ q.cursor = p.cursor /\ q.heard = p.heard
         /\ p.cursor # 0 => q.since = p.since /\ q.unseen = p.unseen
         /\ p.cursor = 0 => \A e \in rows : q.since < e => e \in q.unseen
    <2>1. CASE p.cursor # 0
      BY <1>5, <1>9, <2>1
    <2>2. CASE p.cursor = 0
      <3>1. PICK n : n = IF top < p.since THEN top ELSE p.since
        OBVIOUS
      <3>2. PICK gone : gone = p.unseen \cup {e \in rows : p.since < e}
        OBVIOUS
      <3>3. n \in 0 .. MaxEvent /\ gone \in SUBSET Event
        BY <1>9, <3>1, <3>2 DEF BrowserRow
      <3>4. q = [p EXCEPT !.since = n, !.unseen = gone]
        BY <1>5, <2>2, <3>1, <3>2
      <3>5. /\ q \in BrowserRow /\ q.source = p.source /\ q.url = p.url /\ q.lastId = p.lastId
            /\ q.cursor = p.cursor /\ q.heard = p.heard /\ q.since = n /\ q.unseen = gone
        BY <1>9, <3>3, <3>4 DEF BrowserRow
      <3>6. ASSUME NEW e \in rows, n < e PROVE e \in gone
        <4>1. e \in Nat /\ e <= top
          BY <1>2, <1>9, HighOf
        <4>2. n = p.since
          BY <1>9, <1>10, <3>1, <3>6, <4>1
        <4> QED
          BY <3>2, <3>6, <4>2
      <3> QED
        BY <2>2, <3>5, <3>6
    <2> QED
      BY <2>1, <2>2
  <1>13. /\ fresh \in ClientRow /\ fresh.queue = <<>> /\ fresh.after = after
         /\ fresh.high = top /\ fresh.closed = FALSE /\ fresh.step = "streaming"
    <2>1. <<>> \in Seq(Frame)
      OBVIOUS
    <2> QED
      BY <1>4, <1>9, <1>11, <2>1 DEF NoClient, ClientRow
  <1>14. Resumes(q) /\ Hears(q, InOrder)
    <2>1. Resumes(q)
      BY <1>9, <1>12 DEF Resumes
    <2>2. \A e \in InOrder : ~ (e <= 0)
      BY <1>9, HighOf
    <2>3. CASE p.cursor = 0
      <3>1. q.cursor = 0
        BY <1>12, <2>3
      <3> QED
        BY <2>1, <2>2, <3>1 DEF Hears
    <2>4. CASE p.cursor # 0
      <3>1. q.since = p.since /\ q.unseen = p.unseen /\ q.cursor = p.cursor /\ q.heard = p.heard
        BY <1>12, <2>4
      <3>2. Hears(p, InOrder)
        BY <1>9
      <3> QED
        BY <2>1, <3>1, <3>2 DEF Hears
    <2> QED
      BY <2>3, <2>4
  <1>15. \A e \in rows : e <= top /\ e \in Nat /\ 0 < e
    BY <1>2, <1>9, HighOf
  <1>16. rows # {} => Min(rows) <= top /\ Min(rows) \in Nat
    BY <1>9, <1>15, MinOf
  <1>17. MustReset(after) => after < top
    BY <1>2, <1>10, <1>11, <1>9, <1>16 DEF MustReset
  <1>18. Within(fresh, q, top)
    BY <1>9, <1>11, <1>12, <1>13 DEF Within
  <1>19. \A x \in Browser \ {b} : (lock' = x) <=> (lock = x)
    BY <1>6, <1>8, <1>9, BrowserFacts
  <1> SUFFICES ASSUME NEW c, client' = [client EXCEPT ![b] = c],
                      \/ MustReset(after) /\ c = Closed(fresh, top) /\ lock' = lock
                      \/ /\ ~MustReset(after) /\ top > after
                         /\ c = [fresh EXCEPT !.step = "replaying"] /\ lock' = b
                      \/ ~MustReset(after) /\ ~ (top > after) /\ c = fresh /\ lock' = lock
               PROVE  IInv'
    BY <1>8
  <1>20. c \in ClientRow /\ Len(c.queue) <= QueueSize
         /\ ServedAs(c, q, top, InOrder, tailer.cursor, lock' = b)
    <2>1. CASE MustReset(after) /\ c = Closed(fresh, top) /\ lock' = lock
      <3>1. q.cursor < top
        BY <2>1, <1>9, <1>10, <1>11, <1>12, <1>17
      <3>2. /\ c \in ClientRow /\ Len(c.queue) = 1 /\ c.step = "streaming" /\ c.closed
            /\ Within(c, q, top) /\ Queued(c, q) /\ Steps(c, q)
        BY <2>1, <3>1, <1>9, <1>12, <1>13, <1>18, ClosedKeeps
      <3>3. lock' # b
        BY <2>1, <1>6, <1>9
      <3>4. Replays(c, q, tailer.cursor) /\ Offers(c, q, InOrder, tailer.cursor)
        BY <3>2 DEF Replays, Offers
      <3> QED
        BY <3>2, <3>3, <3>4, <1>10, <1>14 DEF ServedAs
    <2>2. CASE /\ ~MustReset(after) /\ top > after
               /\ c = [fresh EXCEPT !.step = "replaying"] /\ lock' = b
      <3>1. /\ c \in ClientRow /\ c.queue = <<>> /\ c.after = after /\ c.high = top
            /\ c.closed = FALSE /\ c.step = "replaying"
        BY <2>2, <1>13 DEF ClientRow
      <3>2. after = p.cursor
        BY <2>2, <1>3, <1>9
      <3>3. top - after <= ReplayLimit
        BY <2>2, <1>2, <1>9, <1>10, <1>11 DEF MustReset
      <3>4. Replays(c, q, tailer.cursor)
        BY <3>1, <3>2, <3>3, <2>2, <1>9, <1>11, <1>12 DEF Replays
      <3>5. Steps(c, q) /\ Offers(c, q, InOrder, tailer.cursor)
        <4>1. client[b].step # "streaming" => p.source # "open"
          <5>1. ServedAs(client[b], browser[b], High(rows), InOrder, tailer.cursor, lock = b)
            BY BrowserFacts
          <5>2. Steps(client[b], browser[b])
            BY <5>1 DEF ServedAs
          <5> QED
            BY <5>2, <1>1 DEF Steps
        <4> QED
          BY <3>1, <4>1, <1>6, <1>11, <1>12 DEF Steps, Offers
      <3>6. Queued(c, q) /\ Len(c.queue) = 0
        BY <3>1 DEF Queued
      <3>7. Within(c, q, top)
        BY <3>1, <1>13, <1>18 DEF Within
      <3> QED
        BY <3>1, <3>4, <3>5, <3>6, <3>7, <2>2, <1>10, <1>14 DEF ServedAs
    <2>3. CASE ~MustReset(after) /\ ~ (top > after) /\ c = fresh /\ lock' = lock
      <3>1. after = top
        BY <2>3, <1>9, <1>11
      <3>2. /\ c \in ClientRow /\ c.queue = <<>> /\ c.after = top /\ c.high = top
            /\ c.closed = FALSE /\ c.step = "streaming"
        BY <2>3, <3>1, <1>13
      <3>3. Queued(c, q) /\ Len(c.queue) = 0
        BY <3>2 DEF Queued
      <3>4. Steps(c, q) /\ Replays(c, q, tailer.cursor)
        BY <3>2, <1>9, <1>12 DEF Steps, Replays
      <3>5. Offers(c, q, InOrder, tailer.cursor)
        <4>1. \A e \in InOrder : e <= top
          BY <1>9, <1>15
        <4>2. ASSUME NEW e \in InOrder \ q.unseen, q.cursor < e, q.since < e PROVE FALSE
          <5>1. e \in Nat /\ e <= top /\ e \in rows
            BY <1>9, <1>15
          <5>2. p.cursor = 0
            BY <1>3, <1>9, <1>10, <1>12, <3>1, <4>2, <5>1
          <5> QED
            BY <5>1, <5>2, <1>12, <4>2
        <4> QED
          BY <3>2, <4>1, <4>2 DEF Offers
      <3>6. lock' # b
        BY <2>3, <1>6, <1>9
      <3>7. Within(c, q, top)
        BY <2>3, <1>18
      <3> QED
        BY <3>2, <3>3, <3>4, <3>5, <3>6, <3>7, <1>10, <1>14 DEF ServedAs
    <2> QED
      BY <2>1, <2>2, <2>3
  <1>21. ServedAs(c, q, High(rows), InOrder, tailer.cursor, lock' = b)
    BY <1>20, <1>2
  <1> QED
    BY <1>6, <1>9, <1>12, <1>19, <1>20, <1>21, OneBrowser

LEMMA SpanOf ==
  ASSUME NEW m \in Nat, NEW n \in Nat, m <= n
  PROVE  IsFiniteSet(m + 1 .. n) /\ Cardinality(m + 1 .. n) = n - m
  <1>1. m + 1 \in Int /\ n \in Int
    OBVIOUS
  <1>2. /\ IsFiniteSet(m + 1 .. n)
        /\ Cardinality(m + 1 .. n) = IF m + 1 > n THEN 0 ELSE n - (m + 1) + 1
    BY <1>1, FS_Interval
  <1> QED
    BY <1>2

(* The second query of a subscription. *)
LEMMA ReplayKeeps ==
  ASSUME IInv, NEW b \in Browser, Replay(b) PROVE IInv'
  <1> DEFINE c == client[b]
             p == browser[b]
             top == High(rows)
             missed == {e \in After(client[b].after) : e <= client[b].high}
             first == {e \in missed : Cardinality({f \in missed : f < e}) < ReplayLimit}
             ids == Ascending(first)
             frames == [i \in 1 .. Len(ids) |-> EventFrame(ids[i])]
             after == IF first = {} THEN c.after ELSE Max(first)
             d == [c EXCEPT !.step = "streaming", !.queue = c.queue \o frames, !.after = after]
  <1>10. /\ c.step = "replaying" /\ lock = b /\ lock' = "free"
         /\ UNCHANGED <<tableVars, tailVars, browser, disruptions>>
    BY DEF Replay, LeaveOpen
  <1>11. /\ c \in ClientRow /\ p \in BrowserRow /\ client \in [Browser -> ClientRow]
         /\ ServedAs(c, p, top, InOrder, tailer.cursor, lock = b)
         /\ InOrder \in SUBSET rows /\ rows \in SUBSET Event
         /\ top \in Nat /\ tailer.cursor \in Nat /\ tailer.cursor <= top
         /\ browser' = [browser EXCEPT ![b] = p]
         /\ disruptions' \in 0 .. MaxDisruption /\ tailer.step # "stopped"
    BY <1>10, BrowserFacts
  <1>12. client' = [client EXCEPT ![b] = d]
    <2>1. client' = [client EXCEPT ![b].step = "streaming",
                       ![b].queue = @ \o frames, ![b].after = IF first = {} THEN @ ELSE Max(first)]
      BY DEF Replay
    <2> HIDE DEF missed, first, ids, frames
    <2>2. client' = [client EXCEPT ![b] =
                       [client[b] EXCEPT !.step = "streaming", !.queue = @ \o frames,
                                         !.after = IF first = {} THEN @ ELSE Max(first)]]
      BY <2>1, <1>11
    <2> QED
      BY <2>2
  <1> HIDE DEF c, p, top, missed, first, ids, frames, after, d
  <1>13. /\ Resumes(p) /\ Within(c, p, top) /\ Queued(c, p) /\ Steps(c, p)
         /\ Replays(c, p, tailer.cursor) /\ Hears(p, InOrder)
    BY <1>11 DEF ServedAs
  <1>14. /\ c.queue = <<>> /\ c.closed = FALSE /\ c.after = p.cursor /\ c.after < c.high
         /\ c.high - c.after <= ReplayLimit /\ tailer.cursor <= c.high /\ c.high <= top
         /\ p.url <= top /\ p.lastId <= top /\ p.cursor <= top
    <2>1. c.closed \in BOOLEAN
      BY <1>11 DEF ClientRow
    <2> QED
      BY <1>10, <1>13, <2>1 DEF Steps, Replays, Within
  <1>15. /\ c.after \in Nat /\ c.high \in Nat /\ c.after \in 0 .. MaxEvent /\ MaxEvent \in Nat
         /\ c.high \in 0 .. MaxEvent
         /\ ReplayLimit \in Nat /\ QueueSize \in Nat /\ ReplayLimit <= QueueSize
         /\ p.cursor \in Nat
    BY <1>11, JobEventsAssumption DEF ClientRow, BrowserRow
  <1>16. missed \in SUBSET Event /\ \A e \in missed : c.after < e /\ e <= c.high /\ e \in Nat
    <2>1. missed = {e \in After(c.after) : e <= c.high}
      BY DEF missed, c
    <2>2. ASSUME NEW e \in missed PROVE e \in rows /\ c.after < e /\ e <= c.high
      BY <2>1 DEF After
    <2>3. rows \subseteq Event /\ rows \subseteq Nat
      BY <1>11, <1>15 DEF Event
    <2> QED
      BY <2>2, <2>3
  <1>17. \A S \in SUBSET missed : Cardinality(S) <= ReplayLimit /\ Cardinality(S) \in Nat
    <2> TAKE S \in SUBSET missed
    <2>1. S \in SUBSET (c.after + 1 .. c.high)
      BY <1>15, <1>16
    <2>2. IsFiniteSet(c.after + 1 .. c.high) /\ Cardinality(c.after + 1 .. c.high) = c.high - c.after
      BY <1>14, <1>15, SpanOf
    <2>3. IsFiniteSet(S) /\ Cardinality(S) <= c.high - c.after
      BY <2>1, <2>2, FS_Subset
    <2> QED
      BY <2>3, <1>14, <1>15, FS_CardinalityType
  <1>18. first = missed
    <2>1. ASSUME NEW e \in missed PROVE Cardinality({f \in missed : f < e}) < ReplayLimit
      <3> DEFINE S == {f \in missed : f < e}
      <3>1. S \in SUBSET (c.after + 1 .. c.high - 1)
        BY <2>1, <1>15, <1>16
      <3>2. /\ IsFiniteSet(c.after + 1 .. c.high - 1)
            /\ Cardinality(c.after + 1 .. c.high - 1) = c.high - 1 - c.after
        <4>1. c.high - 1 \in Nat /\ c.after <= c.high - 1
          BY <1>14, <1>15
        <4> QED
          BY <4>1, <1>15, SpanOf
      <3>3. Cardinality(S) <= c.high - 1 - c.after /\ IsFiniteSet(S)
        BY <3>1, <3>2, FS_Subset
      <3>4. Cardinality(S) \in Nat
        BY <3>3, FS_CardinalityType
      <3> HIDE DEF S
      <3>5. Cardinality(S) < ReplayLimit
        BY <3>3, <3>4, <1>14, <1>15
      <3> QED
        BY <3>5 DEF S
    <2> QED
      BY <2>1 DEF first
  <1> DEFINE k == Cardinality(missed)
  <1>19. /\ k \in Nat /\ k <= ReplayLimit /\ ids \in [1 .. k -> missed]
         /\ \A i, j \in 1 .. k : i < j => ids[i] < ids[j]
         /\ \A e \in missed : \E i \in 1 .. k : ids[i] = e
    BY <1>16, <1>17, <1>18, AscendingOf DEF ids
  <1> HIDE DEF k
  <1>20. Len(ids) = k
    BY <1>19
  <1>21. /\ frames \in [1 .. k -> Frame]
         /\ \A i \in 1 .. k : frames[i].cursor = ids[i] /\ frames[i].reset = FALSE
    <2>1. frames = [i \in 1 .. k |-> EventFrame(ids[i])]
      BY <1>20 DEF frames
    <2>2. \A e \in missed : EventFrame(e) \in Frame
      BY <1>15, <1>16 DEF EventFrame, Frame
    <2> QED
      BY <2>1, <2>2, <1>19 DEF EventFrame
  <1>22. frames \in Seq(Frame) /\ Len(frames) = k /\ c.queue \o frames = frames
    <2>1. frames \in Seq(Frame) /\ Len(frames) = k
      BY <1>19, <1>21
    <2> QED
      BY <2>1, <1>14
  <1>23. /\ d.queue = frames /\ d.after = after /\ d.step = "streaming" /\ d.high = c.high
         /\ d.closed = FALSE
    BY <1>11, <1>14, <1>22 DEF ClientRow, d
  <1>24. /\ after \in Nat /\ c.after <= after /\ after <= c.high /\ after \in 0 .. MaxEvent
         /\ \A e \in missed : e <= after
    <2>1. CASE first = {}
      BY <2>1, <1>14, <1>15, <1>18 DEF after
    <2>2. CASE first # {}
      <3>1. after \in missed /\ after \in Nat /\ \A e \in missed : e <= after
        BY <2>2, <1>16, <1>18, MaxOf DEF after
      <3> QED
        BY <3>1, <1>15, <1>16
    <2> QED
      BY <2>1, <2>2
  <1>25. d \in ClientRow
    <2>1. d = [c EXCEPT !.step = "streaming", !.queue = frames, !.after = after]
      BY <1>22 DEF d
    <2> QED
      BY <2>1, <1>11, <1>22, <1>24 DEF ClientRow
  <1>26. Len(d.queue) <= QueueSize
    BY <1>15, <1>19, <1>22, <1>23
  <1>27. Within(d, p, top)
    BY <1>14, <1>15, <1>11, <1>23, <1>24 DEF Within
  <1>28. Queued(d, p)
    <2>1. ASSUME NEW i \in 1 .. k
          PROVE  p.cursor < frames[i].cursor /\ frames[i].cursor <= after /\ ~frames[i].reset
      <3>1. frames[i].cursor = ids[i] /\ frames[i].reset = FALSE /\ ids[i] \in missed
        BY <1>19, <1>21
      <3> QED
        BY <3>1, <1>14, <1>16, <1>24
    <2>2. \A i, j \in 1 .. k : i < j => frames[i].cursor < frames[j].cursor
      BY <1>19, <1>21
    <2> QED
      BY <2>1, <2>2, <1>22, <1>23 DEF Queued
  <1>29. Steps(d, p)
    BY <1>14, <1>15, <1>23, <1>24 DEF Steps
  <1>30. Replays(d, p, tailer.cursor)
    BY <1>23 DEF Replays
  <1>31. Offers(d, p, InOrder, tailer.cursor)
    <2>1. \A e \in InOrder : c.after < e /\ e <= c.high => e \in missed
      <3>1. missed = {e \in After(c.after) : e <= c.high}
        BY DEF missed, c
      <3> QED
        BY <3>1, <1>11 DEF After
    <2>2. \A e \in InOrder : e \in Nat
      BY <1>11, <1>15 DEF Event
    <2>3. ASSUME NEW e \in InOrder, e <= tailer.cursor PROVE e <= after
      <3>1. e \in Nat /\ e <= c.high
        BY <2>2, <2>3, <1>11, <1>14, <1>15
      <3>2. CASE e <= c.after
        BY <3>1, <3>2, <1>15, <1>24
      <3>3. CASE ~ (e <= c.after)
        BY <3>1, <3>3, <2>1, <1>15, <1>24
      <3> QED
        BY <3>2, <3>3
    <2>4. ASSUME NEW e \in InOrder, p.cursor < e, e <= after
          PROVE  \E i \in 1 .. k : frames[i].cursor = e
      <3>1. e \in missed
        BY <2>1, <2>2, <2>4, <1>14, <1>15, <1>24
      <3> QED
        BY <3>1, <1>19, <1>21
    <2> QED
      BY <2>3, <2>4, <1>22, <1>23 DEF Offers
  <1>32. lock' # b /\ b # "free" /\ lock' \in Browser \cup {"free"}
         /\ \A x \in Browser \ {b} : (lock' = x) <=> (lock = x)
    BY <1>10, BrowserFacts
  <1>33. ServedAs(d, p, High(rows), InOrder, tailer.cursor, lock' = b)
    BY <1>13, <1>23, <1>27, <1>28, <1>29, <1>30, <1>31, <1>32 DEF ServedAs, top
  <1> QED
    BY <1>10, <1>11, <1>12, <1>25, <1>26, <1>32, <1>33, OneBrowser

-----------------------------------------------------------------------------
(* Steps of the table *)

(* A transaction or the purge: whatever it leaves in order is old, or beyond all rows. *)
LEMMA TableStep ==
  ASSUME IInv, TableType', Drawn', UNCHANGED <<tailer, lock, client, browser>>,
         High(rows) <= High(rows'),
         \A e \in InOrder' : e \in InOrder \/ High(rows) < e
  PROVE  IInv'
  <1>1. /\ tailer' = tailer /\ lock' = lock /\ client' = client /\ browser' = browser
    OBVIOUS
  <1>2. Shape'
    BY <1>1 DEF IInv, Shape, TailerRow, ClientRow, BrowserRow
  <1>3. /\ rows \in SUBSET Event /\ rows' \in SUBSET Event /\ InOrder \in SUBSET Event
        /\ InOrder' \in SUBSET Event /\ MaxEvent \in Nat
    BY <1>2, JobEventsAssumption DEF IInv, Shape, TableType, InOrder
  <1>4. PICK top \in Nat : top = High(rows)
    BY <1>3, HighOf
  <1>5. PICK top1 \in Nat : top1 = High(rows')
    BY <1>3, HighOf
  <1>6. PICK ino \in SUBSET Event : ino = InOrder
    BY <1>3
  <1>7. PICK ino1 \in SUBSET Event : ino1 = InOrder'
    BY <1>3
  <1>8. top <= top1 /\ \A e \in ino1 : e \in ino \/ top < e
    BY <1>4, <1>5, <1>6, <1>7
  <1>9. High(rows)' = top1
    BY <1>5 DEF High
  <1>10. /\ tailer.cursor \in Nat /\ tailer.batch \in SUBSET Event /\ tailer.cursor <= top
         /\ \A e \in tailer.batch : tailer.cursor < e /\ e <= top
         /\ \A e \in ino : \A f \in tailer.batch : tailer.cursor < e /\ e < f => e \in tailer.batch
         /\ tailer.step = "fanning" => tailer.batch # {}
         /\ tailer.step = "stopped" => \A b \in Browser : client[b].step = "none"
    BY <1>3, <1>4, <1>6 DEF IInv, Follows, Shape, TailerRow
  <1>11. \A e \in Event : e \in Nat
    BY <1>3 DEF Event
  <1>12. Follows'
    <2>1. tailer.cursor <= top1 /\ \A e \in tailer.batch : tailer.cursor < e /\ e <= top1
      BY <1>8, <1>10, <1>11
    <2>2. ASSUME NEW e \in ino1, NEW f \in tailer.batch, tailer.cursor < e, e < f
          PROVE  e \in tailer.batch
      <3>1. e \in Nat /\ f \in Nat /\ f <= top
        BY <1>10, <1>11
      <3>2. e \in ino
        BY <3>1, <2>2, <1>8
      <3> QED
        BY <3>2, <2>2, <1>10
    <2> QED
      BY <2>1, <2>2, <1>1, <1>7, <1>9, <1>10 DEF Follows
  <1>13. ASSUME NEW b \in Browser PROVE Served(b)'
    <2>1. PICK c \in ClientRow : c = client[b]
      BY BrowserFacts
    <2>2. PICK p \in BrowserRow : p = browser[b]
      BY BrowserFacts
    <2>3. PICK passed \in Nat : passed = tailer.cursor
      BY <1>10
    <2>4. ServedAs(c, p, top, ino, passed, lock = b)
      BY <2>1, <2>2, <2>3, <1>4, <1>6, BrowserFacts
    <2>5. Within(c, p, top1) /\ Offers(c, p, ino1, passed) /\ Hears(p, ino1)
      BY <2>3, <2>4, <1>8, <1>10, TableMoves DEF ServedAs
    <2>6. ServedAs(c, p, top1, ino1, passed, lock = b)
      BY <2>4, <2>5 DEF ServedAs
    <2> QED
      BY <2>1, <2>2, <2>3, <2>6, <1>1, <1>7, <1>9 DEF Served
  <1> QED
    BY <1>2, <1>12, <1>13 DEF IInv

LEMMA AppendKeeps ==
  ASSUME IInv, NEW w \in Writer, AppendEvent(w) PROVE IInv'
  <1>1. /\ sequence < MaxEvent /\ sequence' = sequence + 1
        /\ open' = [open EXCEPT ![w] = @ \cup {sequence + 1}]
        /\ rows' = rows /\ overtaken' = overtaken /\ listener' = listener
        /\ notices' = notices /\ disruptions' = disruptions
        /\ UNCHANGED <<tailer, lock, client, browser>>
    BY DEF AppendEvent, tailVars
  <1>2. TableType /\ Drawn
    BY DEF IInv, Shape
  <1>3. MaxEvent \in Nat /\ sequence \in Nat /\ rows \in SUBSET Event
        /\ open \in [Writer -> SUBSET Event] /\ \A e \in Event : e \in Nat
    BY <1>2, JobEventsAssumption DEF TableType, Event
  <1>4. sequence + 1 \in Event
    BY <1>1, <1>3 DEF Event
  <1>5. \A v \in Writer : open'[v] = IF v = w THEN open[v] \cup {sequence + 1} ELSE open[v]
    BY <1>1, <1>3
  <1>6. TableType'
    <2>1. open' \in [Writer -> SUBSET Event]
      BY <1>1, <1>3, <1>4
    <2>2. sequence' \in 0 .. MaxEvent
      BY <1>1, <1>3
    <2> QED
      BY <2>1, <2>2, <1>1, <1>2 DEF TableType
  <1>7. Drawn'
    <2>1. \A e \in rows' : e <= sequence'
      BY <1>1, <1>2, <1>3 DEF Drawn
    <2>2. ASSUME NEW v \in Writer, NEW e \in open'[v] PROVE e <= sequence'
      <3>1. e \in open[v] \/ e = sequence + 1
        BY <2>2, <1>5
      <3>2. CASE e \in open[v]
        BY <3>2, <1>1, <1>2, <1>3 DEF Drawn
      <3>3. CASE e = sequence + 1
        BY <3>3, <1>1, <1>3
      <3> QED
        BY <3>1, <3>2, <3>3
    <2>3. \A v \in Writer : sequence + 1 \notin open[v]
      BY <1>2, <1>3 DEF Drawn
    <2>4. ASSUME NEW v \in Writer, NEW x \in Writer, v # x PROVE open'[v] \cap open'[x] = {}
      <3>1. open[v] \cap open[x] = {}
        BY <2>4, <1>2 DEF Drawn
      <3> QED
        BY <3>1, <2>3, <2>4, <1>5
    <2>5. ASSUME NEW v \in Writer, NEW e \in open'[v] \ overtaken', NEW f \in rows' PROVE f < e
      <3>1. e \in open[v] \/ e = sequence + 1
        BY <2>5, <1>5
      <3>2. CASE e \in open[v]
        BY <3>2, <2>5, <1>1, <1>2 DEF Drawn
      <3>3. CASE e = sequence + 1
        <4>1. f <= sequence /\ f \in Nat
          BY <1>1, <1>2, <1>3 DEF Drawn
        <4> QED
          BY <4>1, <3>3, <1>3
      <3> QED
        BY <3>1, <3>2, <3>3
    <2> QED
      BY <2>1, <2>2, <2>4, <2>5 DEF Drawn
  <1>8. High(rows) <= High(rows') /\ InOrder' = InOrder
    BY <1>1, <1>3, HighOf DEF InOrder
  <1> QED
    BY <1>1, <1>6, <1>7, <1>8, TableStep

LEMMA RollbackKeeps ==
  ASSUME IInv, NEW w \in Writer, Rollback(w) PROVE IInv'
  <1>1. /\ sequence' = sequence /\ open' = [open EXCEPT ![w] = {}]
        /\ rows' = rows /\ overtaken' = overtaken /\ listener' = listener
        /\ notices' = notices /\ disruptions' = disruptions
        /\ UNCHANGED <<tailer, lock, client, browser>>
    BY DEF Rollback, tailVars
  <1>2. TableType /\ Drawn
    BY DEF IInv, Shape
  <1>3. \A v \in Writer : open'[v] = IF v = w THEN {} ELSE open[v]
    BY <1>1, <1>2 DEF TableType
  <1>4. TableType'
    BY <1>1, <1>2 DEF TableType
  <1>5. Drawn'
    BY <1>1, <1>2, <1>3 DEF Drawn
  <1>6. High(rows) <= High(rows') /\ InOrder' = InOrder
    BY <1>1, <1>2, HighOf DEF InOrder, TableType
  <1> QED
    BY <1>1, <1>4, <1>5, <1>6, TableStep

LEMMA CommitKeeps ==
  ASSUME IInv, NEW w \in Writer, Commit(w) PROVE IInv'
  <1>1. /\ open[w] # {} /\ rows' = rows \cup open[w]
        /\ overtaken' = overtaken \cup {e \in Uncommitted(w) : e < Max(open[w])}
        /\ open' = [open EXCEPT ![w] = {}]
        /\ notices' = (notices \/ listener = "listening")
        /\ sequence' = sequence /\ listener' = listener /\ disruptions' = disruptions
        /\ UNCHANGED <<tailer, lock, client, browser>>
    BY DEF Commit
  <1>2. TableType /\ Drawn
    BY DEF IInv, Shape
  <1>3. /\ MaxEvent \in Nat /\ \A e \in Event : e \in Nat
        /\ rows \in SUBSET Event /\ open \in [Writer -> SUBSET Event] /\ open[w] \in SUBSET Event
        /\ overtaken \in SUBSET Event
    BY <1>2, JobEventsAssumption DEF TableType, Event
  <1>4. PICK last : last = Max(open[w])
    OBVIOUS
  <1>5. last \in open[w] /\ last \in Nat /\ \A e \in open[w] : e <= last
    BY <1>1, <1>3, <1>4, MaxOf
  <1>6. \A e : e \in Uncommitted(w) <=> \E v \in Writer \ {w} : e \in open[v]
    BY DEF Uncommitted
  <1>7. \A e : e \in overtaken' <=> e \in overtaken \/ (e \in Uncommitted(w) /\ e < last)
    BY <1>1, <1>4
  <1>8. \A v \in Writer : open'[v] = IF v = w THEN {} ELSE open[v]
    BY <1>1, <1>3
  <1>9. TableType'
    <2>1. notices' \in BOOLEAN
      BY <1>1, <1>2 DEF TableType
    <2>2. rows' \in SUBSET Event
      BY <1>1, <1>3
    <2>3. overtaken' \in SUBSET Event
      BY <1>3, <1>6, <1>7
    <2>4. open' \in [Writer -> SUBSET Event]
      BY <1>1, <1>3
    <2> QED
      BY <2>1, <2>2, <2>3, <2>4, <1>1, <1>2 DEF TableType
  <1>10. Drawn'
    <2>1. \A e \in rows' : e <= sequence'
      BY <1>1, <1>2 DEF Drawn
    <2>2. \A v \in Writer : \A e \in open'[v] : e <= sequence'
      BY <1>1, <1>2, <1>8 DEF Drawn
    <2>3. \A v, x \in Writer : v # x => open'[v] \cap open'[x] = {}
      BY <1>2, <1>8 DEF Drawn
    <2>4. ASSUME NEW v \in Writer, NEW e \in open'[v] \ overtaken', NEW f \in rows' PROVE f < e
      <3>1. v # w /\ e \in open[v] /\ e \notin overtaken /\ e \in Uncommitted(w) /\ ~ (e < last)
        BY <2>4, <1>6, <1>7, <1>8
      <3>2. CASE f \in rows
        BY <3>1, <3>2, <1>2 DEF Drawn
      <3>3. CASE f \in open[w]
        <4>1. f <= last /\ f \in Nat /\ e \in Nat
          BY <3>1, <3>3, <1>3, <1>5
        <4>2. e # f /\ e # last
          BY <3>1, <3>3, <1>2, <1>5 DEF Drawn
        <4> QED
          BY <4>1, <4>2, <3>1, <1>5
      <3> QED
        BY <3>2, <3>3, <1>1
    <2> QED
      BY <2>1, <2>2, <2>3, <2>4 DEF Drawn
  <1>11. High(rows) <= High(rows')
    <2>1. rows' \in SUBSET Event
      BY <1>1, <1>3
    <2>2. CASE rows = {}
      <3>1. High(rows) = 0 /\ High(rows') \in Nat
        BY <2>1, <2>2, HighOf DEF High
      <3> QED
        BY <3>1
    <2>3. CASE rows # {}
      <3>1. High(rows) \in rows'
        BY <2>3, <1>1, <1>3, HighOf
      <3> QED
        BY <3>1, <2>1, HighOf
    <2> QED
      BY <2>2, <2>3
  <1>12. ASSUME NEW e \in InOrder' PROVE e \in InOrder \/ High(rows) < e
    <2>1. e \in rows' /\ e \notin overtaken
      BY <1>7 DEF InOrder
    <2>2. CASE e \in rows
      BY <2>1, <2>2 DEF InOrder
    <2>3. CASE e \in open[w]
      <3>1. \A f \in rows : f < e
        BY <2>1, <2>3, <1>2 DEF Drawn
      <3>2. CASE rows = {}
        <4>1. High(rows) = 0 /\ 0 < e
          BY <2>3, <3>2, <1>3, HighOf DEF High
        <4> QED
          BY <4>1
      <3>3. CASE rows # {}
        BY <3>1, <3>3, <1>3, HighOf
      <3> QED
        BY <3>2, <3>3
    <2> QED
      BY <2>1, <2>2, <2>3, <1>1
  <1> QED
    BY <1>1, <1>9, <1>10, <1>11, <1>12, TableStep

LEMMA PurgeKeeps ==
  ASSUME IInv, Purge PROVE IInv'
  <1>1. PICK gone \in (SUBSET rows) \ {{}} : High(rows) \notin gone /\ rows' = rows \ gone
    BY DEF Purge
  <1>2. /\ sequence' = sequence /\ open' = open /\ overtaken' = overtaken
        /\ listener' = listener /\ notices' = notices
        /\ disruptions' \in 0 .. MaxDisruption
        /\ UNCHANGED <<tailer, lock, client, browser>>
    BY DisruptionCounted DEF Purge, tailVars
  <1>3. TableType /\ Drawn
    BY DEF IInv, Shape
  <1>4. rows \in SUBSET Event /\ rows' \in SUBSET rows
    BY <1>1, <1>3 DEF TableType
  <1>5. TableType'
    BY <1>2, <1>3, <1>4 DEF TableType
  <1>6. Drawn'
    BY <1>2, <1>3, <1>4 DEF Drawn
  <1>7. High(rows) <= High(rows')
    <2>1. rows # {} /\ High(rows) \in rows
      BY <1>1, <1>4, HighOf
    <2>2. High(rows) \in rows' /\ rows' \in SUBSET Event
      BY <2>1, <1>1, <1>4
    <2> QED
      BY <2>2, HighOf
  <1>8. \A e \in InOrder' : e \in InOrder
    BY <1>2, <1>4 DEF InOrder
  <1> QED
    BY <1>2, <1>5, <1>6, <1>7, <1>8, TableStep

-----------------------------------------------------------------------------
(* Steps of the tailer and of the API process *)

(* The tailer moves between its waits; its cursor stays. *)
LEMMA TailerStep ==
  ASSUME IInv, UNCHANGED <<tableVars, lock, client, browser>>,
         listener' \in {"listening", "closed", "none"}, notices' \in BOOLEAN,
         disruptions' \in 0 .. MaxDisruption,
         NEW t \in TailerRow, tailer' = t, t.cursor = tailer.cursor,
         \/ t.batch = tailer.batch /\ (t.step = "fanning" => tailer.step = "fanning")
         \/ t.batch = NextBatch /\ NextBatch # {},
         t.step = "stopped" => tailer.step = "stopped"
  PROVE  IInv'
  <1>1. /\ sequence' = sequence /\ open' = open /\ rows' = rows /\ overtaken' = overtaken
        /\ lock' = lock /\ client' = client /\ browser' = browser
    BY DEF tableVars
  <1>2. /\ High(rows)' = High(rows) /\ InOrder' = InOrder /\ tailer.cursor' = tailer.cursor
    BY <1>1 DEF High, InOrder
  <1>3. Shape'
    BY <1>1 DEF IInv, Shape, TableType, ClientRow, BrowserRow, TailerRow
  <1>4. Drawn'
    BY <1>1 DEF IInv, Drawn
  <1>5. /\ MaxEvent \in Nat /\ rows \in SUBSET Event /\ InOrder \in SUBSET rows
        /\ tailer.cursor \in Nat /\ \A e \in rows : e \in Nat /\ e <= High(rows)
    <2>1. MaxEvent \in Nat /\ rows \in SUBSET Event /\ tailer.cursor \in Nat
      BY JobEventsAssumption DEF IInv, Shape, TableType, TailerRow
    <2> QED
      BY <2>1, HighOf DEF InOrder
  <1>6. Follows'
    <2>1. CASE t.batch = tailer.batch /\ (t.step = "fanning" => tailer.step = "fanning")
      BY <2>1, <1>1, <1>2 DEF IInv, Follows
    <2>2. CASE t.batch = NextBatch /\ NextBatch # {}
      <3> DEFINE B == NextBatch
                 Below(f) == {g \in After(tailer.cursor) : g < f}
      <3>1. \A e \in B : e \in rows /\ tailer.cursor < e /\ Cardinality(Below(e)) < BatchSize
        BY DEF NextBatch, After
      <3>2. \A e \in After(tailer.cursor) : Cardinality(Below(e)) < BatchSize => e \in B
        BY DEF NextBatch
      <3>3. \A e \in rows : tailer.cursor < e => e \in After(tailer.cursor)
        BY DEF After
      <3>4. \A f : Below(f) \in SUBSET rows
        BY DEF After
      <3> HIDE DEF B, Below
      <3>5. ASSUME NEW e \in rows, NEW f \in B, tailer.cursor < e, e < f
            PROVE  e \in B
        <4>1. Below(e) \in SUBSET Below(f)
          <5>1. f \in Nat /\ e \in Nat
            BY <3>1, <1>5
          <5>2. ASSUME NEW g \in Below(e) PROVE g \in Below(f)
            <6>1. g \in rows /\ g \in After(tailer.cursor) /\ g < e
              BY <3>4, <5>2 DEF Below
            <6>2. g < f
              BY <5>1, <6>1, <3>5, <1>5
            <6> QED
              BY <6>1, <6>2 DEF Below
          <5> QED
            BY <5>2
        <4>2. IsFiniteSet(Below(f)) /\ Cardinality(Below(f)) \in Nat
              /\ Cardinality(Below(e)) \in Nat
          <5>1. Below(f) \in SUBSET Event /\ Below(e) \in SUBSET Event
            BY <3>4, <1>5
          <5> QED
            BY <5>1, SetsOfIds
        <4>3. Cardinality(Below(e)) <= Cardinality(Below(f))
          BY <4>1, <4>2, FS_Subset
        <4>4. Cardinality(Below(f)) < BatchSize /\ BatchSize \in Nat
          BY <3>1, JobEventsAssumption
        <4>5. Cardinality(Below(e)) < BatchSize
          BY <4>2, <4>3, <4>4
        <4> QED
          BY <4>5, <3>2, <3>3, <3>5
      <3>6. \A e \in B : tailer.cursor < e /\ e <= High(rows)
        BY <3>1, <1>5
      <3>7. t.batch = B /\ B # {}
        BY <2>2 DEF B
      <3>8. tailer.cursor <= High(rows)
        BY DEF IInv, Follows
      <3>9. t.step = "stopped" => \A b \in Browser : client[b].step = "none"
        BY DEF IInv, Follows
      <3> QED
        BY <1>1, <1>2, <1>5, <3>5, <3>6, <3>7, <3>8, <3>9 DEF Follows
    <2> QED
      BY <2>1, <2>2
  <1>7. \A b \in Browser : Served(b)'
    BY <1>1, <1>2 DEF IInv, Served
  <1> QED
    BY <1>3, <1>4, <1>6, <1>7 DEF IInv

LEMMA TailerFacts ==
  ASSUME IInv
  PROVE  /\ tailer \in TailerRow /\ listener \in {"listening", "closed", "none"}
         /\ notices \in BOOLEAN /\ disruptions \in 0 .. MaxDisruption
  BY DEF IInv, Shape, TableType

LEMMA WaitingKeeps ==
  ASSUME IInv, Notified \/ Awakened \/ RepairTimeout PROVE IInv'
  <1>1. CASE Notified
    <2>1. tailer' = [tailer EXCEPT !.wake = TRUE] /\ notices' = FALSE
          /\ listener' = listener /\ disruptions' = disruptions
          /\ UNCHANGED <<tableVars, lock, client, browser>>
      BY <1>1 DEF Notified
    <2>2. PICK t : t = [tailer EXCEPT !.wake = TRUE]
      OBVIOUS
    <2>3. t \in TailerRow /\ t.cursor = tailer.cursor /\ t.batch = tailer.batch
          /\ t.step = tailer.step
      BY <2>2, TailerFacts DEF TailerRow
    <2> QED
      BY <2>1, <2>2, <2>3, TailerFacts, TailerStep
  <1>2. CASE Awakened
    <2>1. tailer' = [tailer EXCEPT !.step = "fetching", !.wake = FALSE] /\ notices' = notices
          /\ listener' = listener /\ disruptions' = disruptions
          /\ UNCHANGED <<tableVars, lock, client, browser>>
      BY <1>2 DEF Awakened
    <2>2. PICK t : t = [tailer EXCEPT !.step = "fetching", !.wake = FALSE]
      OBVIOUS
    <2>3. t \in TailerRow /\ t.cursor = tailer.cursor /\ t.batch = tailer.batch
          /\ t.step = "fetching"
      BY <2>2, TailerFacts DEF TailerRow
    <2> QED
      BY <2>1, <2>2, <2>3, TailerFacts, TailerStep
  <1>3. CASE RepairTimeout
    <2>1. tailer' = [tailer EXCEPT !.step = "fetching"] /\ notices' = notices
          /\ listener' = listener /\ disruptions' = disruptions
          /\ UNCHANGED <<tableVars, lock, client, browser>>
      BY <1>3 DEF RepairTimeout
    <2>2. PICK t : t = [tailer EXCEPT !.step = "fetching"]
      OBVIOUS
    <2>3. t \in TailerRow /\ t.cursor = tailer.cursor /\ t.batch = tailer.batch
          /\ t.step = "fetching"
      BY <2>2, TailerFacts DEF TailerRow
    <2> QED
      BY <2>1, <2>2, <2>3, TailerFacts, TailerStep
  <1> QED
    BY <1>1, <1>2, <1>3

LEMMA FetchKeeps ==
  ASSUME IInv, Fetch PROVE IInv'
  <1>1. /\ listener' = listener /\ notices' = notices /\ disruptions' = disruptions
        /\ UNCHANGED <<tableVars, lock, client, browser>>
    BY DEF Fetch
  <1>2. CASE NextBatch = {}
    <2>1. tailer' = [tailer EXCEPT !.step = "waiting"]
      BY <1>2 DEF Fetch
    <2>2. PICK t : t = [tailer EXCEPT !.step = "waiting"]
      OBVIOUS
    <2>3. t \in TailerRow /\ t.cursor = tailer.cursor /\ t.batch = tailer.batch
          /\ t.step = "waiting"
      BY <2>2, TailerFacts DEF TailerRow
    <2> QED
      BY <1>1, <2>1, <2>2, <2>3, TailerFacts, TailerStep
  <1>3. CASE NextBatch # {}
    <2>1. PICK full : full = (Cardinality(NextBatch) >= BatchSize)
      OBVIOUS
    <2> full \in BOOLEAN
      BY <2>1
    <2>2. PICK t : t = [tailer EXCEPT !.step = "fanning", !.batch = NextBatch, !.full = full]
      OBVIOUS
    <2>3. tailer' = t
      BY <1>3, <2>1, <2>2 DEF Fetch
    <2>4. NextBatch \in SUBSET Event
      BY DEF NextBatch, After, IInv, Shape, TableType
    <2>5. t \in TailerRow /\ t.cursor = tailer.cursor /\ t.batch = NextBatch
          /\ t.step = "fanning"
      BY <2>2, <2>4, TailerFacts DEF TailerRow
    <2> QED
      BY <1>1, <1>3, <2>3, <2>5, TailerFacts, TailerStep
  <1> QED
    BY <1>2, <1>3

LEMMA ConnectionKeeps ==
  ASSUME IInv, Degrade \/ FetchInterrupted \/ TailerDies \/ Reconnect \/ ListenerLost
  PROVE  IInv'
  <1>1. /\ listener' \in {"listening", "closed", "none"} /\ notices' \in BOOLEAN
        /\ disruptions' \in 0 .. MaxDisruption
        /\ UNCHANGED <<tableVars, lock, client, browser>>
    BY TailerFacts, DisruptionCounted
    DEF Degrade, FetchInterrupted, TailerDies, Reconnect, ListenerLost
  <1>2. \/ tailer' = tailer
        \/ \E s \in {"reconnecting", "dead", "waiting"} : tailer' = [tailer EXCEPT !.step = s]
    BY DEF Degrade, FetchInterrupted, TailerDies, Reconnect, ListenerLost
  <1>3. PICK t : t = tailer'
    OBVIOUS
  <1>4. /\ t \in TailerRow /\ t.cursor = tailer.cursor /\ t.batch = tailer.batch
        /\ t.step = "fanning" => tailer.step = "fanning"
        /\ t.step = "stopped" => tailer.step = "stopped"
    <2>1. CASE tailer' = tailer
      BY <2>1, <1>3, TailerFacts
    <2>2. ASSUME NEW s \in {"reconnecting", "dead", "waiting"},
                 tailer' = [tailer EXCEPT !.step = s]
          PROVE  /\ t \in TailerRow /\ t.cursor = tailer.cursor /\ t.batch = tailer.batch
                 /\ t.step = s
      BY <2>2, <1>3, TailerFacts DEF TailerRow
    <2> QED
      BY <2>1, <2>2, <1>2
  <1> QED
    BY <1>1, <1>3, <1>4, TailerStep

LEMMA StartKeeps ==
  ASSUME IInv, Start PROVE IInv'
  <1>1. /\ tailer.step = "stopped" /\ listener' = "listening" /\ notices' = notices
        /\ disruptions' = disruptions /\ UNCHANGED <<tableVars, lock, client, browser>>
        /\ tailer' = [Idle EXCEPT !.step = "waiting", !.cursor = High(rows)]
    BY DEF Start
  <1>2. /\ sequence' = sequence /\ open' = open /\ rows' = rows /\ overtaken' = overtaken
        /\ lock' = lock /\ client' = client /\ browser' = browser
    BY <1>1 DEF tableVars
  <1>3. rows \in SUBSET Event /\ High(rows) \in 0 .. MaxEvent /\ High(rows) \in Nat
    BY HighOf DEF IInv, Shape, TableType
  <1>4. /\ tailer' \in TailerRow /\ tailer'.cursor = High(rows) /\ tailer'.batch = {}
        /\ tailer'.step = "waiting"
    BY <1>1, <1>3 DEF Idle, TailerRow
  <1>5. High(rows)' = High(rows) /\ InOrder' = InOrder
    BY <1>2 DEF High, InOrder
  <1>6. Shape'
    BY <1>1, <1>2, <1>4 DEF IInv, Shape, TableType, ClientRow, BrowserRow, TailerRow
  <1>7. Drawn'
    BY <1>2 DEF IInv, Drawn
  <1>8. Follows'
    BY <1>3, <1>4, <1>5 DEF Follows
  <1>9. ASSUME NEW b \in Browser PROVE Served(b)'
    <2>1. ServedAs(client[b], browser[b], High(rows), InOrder, tailer.cursor, lock = b)
      BY BrowserFacts
    <2>2. client[b].step = "none"
      BY <1>1 DEF IInv, Follows
    <2>3. ServedAs(client[b], browser[b], High(rows), InOrder, High(rows), lock = b)
      BY <2>1, <2>2 DEF ServedAs, Replays, Offers
    <2> QED
      BY <2>3, <1>2, <1>4, <1>5 DEF Served
  <1> QED
    BY <1>6, <1>7, <1>8, <1>9 DEF IInv

LEMMA ApiStopsKeeps ==
  ASSUME IInv, ApiStops PROVE IInv'
  <1>1. /\ tailer' = Idle /\ listener' = "none" /\ notices' = FALSE /\ lock' = "free"
        /\ client' = [b \in Browser |-> NoClient]
        /\ browser' = [b \in Browser |-> [browser[b] EXCEPT
                         !.source = IF @ \in {"open", "lost"} THEN "connecting" ELSE @]]
        /\ sequence' = sequence /\ open' = open /\ rows' = rows /\ overtaken' = overtaken
        /\ disruptions' \in 0 .. MaxDisruption
    BY DisruptionCounted DEF ApiStops, tableVars
  <1>2. /\ High(rows)' = High(rows) /\ InOrder' = InOrder /\ rows \in SUBSET Event
        /\ MaxEvent \in Nat
    BY <1>1, JobEventsAssumption DEF High, InOrder, IInv, Shape, TableType
  <1>3. Idle \in TailerRow /\ Idle.cursor = 0 /\ Idle.batch = {} /\ Idle.step = "stopped"
    BY <1>2 DEF Idle, TailerRow
  <1>4. NoClient.step = "none"
    BY DEF NoClient
  <1>5. ASSUME NEW b \in Browser
        PROVE  /\ client'[b] = NoClient /\ NoClient \in ClientRow /\ Len(NoClient.queue) = 0
               /\ browser'[b] \in BrowserRow
               /\ ServedAs(NoClient, browser'[b], High(rows), InOrder, 0, FALSE)
    <2>1. PICK old : old = browser[b]
      OBVIOUS
    <2>2. PICK s : s = IF old.source \in {"open", "lost"} THEN "connecting" ELSE old.source
      OBVIOUS
    <2>3. old \in BrowserRow
      BY <2>1, BrowserFacts
    <2>4. s \in {"none", "connecting", "failed"}
      BY <2>2, <2>3 DEF BrowserRow
    <2>5. PICK q : q = browser'[b]
      OBVIOUS
    <2>6. q = [old EXCEPT !.source = s]
      BY <1>1, <2>1, <2>2, <2>5
    <2>7. /\ q \in BrowserRow /\ q.source # "open" /\ q.url = old.url /\ q.lastId = old.lastId
          /\ q.cursor = old.cursor /\ q.heard = old.heard /\ q.since = old.since /\ q.unseen = old.unseen
      BY <2>3, <2>4, <2>6 DEF BrowserRow
    <2>8. PICK top \in Nat : top = High(rows)
      BY BrowserFacts
    <2>9. /\ Resumes(old) /\ Hears(old, InOrder)
          /\ old.url <= top /\ old.lastId <= top /\ old.cursor <= top
      BY <2>1, <2>8, BrowserFacts
    <2>10. PICK d : d = NoClient
      OBVIOUS
    <2>11. d \in ClientRow /\ Len(d.queue) = 0 /\ ServedAs(d, q, top, InOrder, 0, FALSE)
      BY <2>3, <2>7, <2>9, <2>10, Unserved
    <2>12. client'[b] = NoClient
      BY <1>1
    <2> QED
      BY <2>5, <2>7, <2>8, <2>10, <2>11, <2>12
  <1>6. Shape'
    <2>1. TableType'
      BY <1>1 DEF IInv, Shape, TableType
    <2>2. client' \in [Browser -> ClientRow] /\ browser' \in [Browser -> BrowserRow]
      BY <1>1, <1>5
    <2>3. 0 <= QueueSize
      BY JobEventsAssumption
    <2>4. \A b \in Browser : Len(client'[b].queue) <= QueueSize
      BY <1>5, <2>3
    <2> QED
      BY <1>1, <1>3, <2>1, <2>2, <2>4 DEF Shape, ClientRow, BrowserRow, TailerRow
  <1>7. Drawn'
    BY <1>1 DEF IInv, Drawn
  <1>8. Follows'
    <2>1. 0 <= High(rows)
      BY <1>2, HighOf
    <2> QED
      BY <1>1, <1>2, <1>3, <1>4, <1>5, <2>1 DEF Follows
  <1>9. ASSUME NEW b \in Browser PROVE Served(b)'
    <2>1. b # "free"
      BY JobEventsAssumption
    <2>2. ServedAs(client'[b], browser'[b], High(rows), InOrder, 0, lock' = b)
      BY <1>1, <1>5, <2>1
    <2> QED
      BY <2>2, <1>1, <1>2, <1>3 DEF Served
  <1> QED
    BY <1>6, <1>7, <1>8, <1>9 DEF IInv

(* One row is offered to every client, and the cursor moves past it. *)
LEMMA FanOutKeeps ==
  ASSUME IInv, FanOut PROVE IInv'
  <1>1. PICK e : e = Min(tailer.batch)
    OBVIOUS
  <1>2. PICK rest : rest = tailer.batch \ {e}
    OBVIOUS
  <1>3. PICK s : s = IF rest # {} THEN "fanning" ELSE IF tailer.full THEN "refetching" ELSE "waiting"
    OBVIOUS
  <1>4. PICK t : t = [tailer EXCEPT !.cursor = e, !.batch = rest, !.step = s]
    OBVIOUS
  <1>5. /\ tailer.step = "fanning" /\ lock = "free" /\ tailer' = t
        /\ client' = [b \in Browser |-> IF b \in Members THEN Offered(client[b], e)
                                                         ELSE client[b]]
        /\ UNCHANGED <<tableVars, listener, notices, lock, browser, disruptions>>
    BY <1>1, <1>2, <1>3, <1>4 DEF FanOut
  <1>6. /\ sequence' = sequence /\ open' = open /\ rows' = rows /\ overtaken' = overtaken
        /\ listener' = listener /\ notices' = notices /\ lock' = lock /\ browser' = browser
        /\ disruptions' = disruptions
    BY <1>5 DEF tableVars
  <1>7. High(rows)' = High(rows) /\ InOrder' = InOrder
    BY <1>6 DEF High, InOrder
  <1>8. /\ tailer \in TailerRow /\ tailer.batch \in SUBSET Event /\ tailer.batch # {}
        /\ MaxEvent \in Nat /\ \A f \in Event : f \in Nat /\ f \in 0 .. MaxEvent
        /\ tailer.cursor \in Nat /\ rows \in SUBSET Event /\ InOrder \in SUBSET Event
        /\ High(rows) \in Nat /\ High(rows) \in 0 .. MaxEvent
    <2>1. MaxEvent \in Nat
      BY JobEventsAssumption
    <2>2. tailer \in TailerRow /\ rows \in SUBSET Event /\ tailer.batch # {}
      BY <1>5 DEF IInv, Shape, TableType, Follows
    <2>3. \A f \in Event : f \in Nat /\ f \in 0 .. MaxEvent
      BY <2>1 DEF Event
    <2>4. tailer.cursor \in 0 .. MaxEvent /\ tailer.batch \in SUBSET Event
      BY <2>2 DEF TailerRow
    <2>5. InOrder \in SUBSET Event
      BY <2>2 DEF InOrder
    <2>6. High(rows) \in 0 .. MaxEvent
      BY <2>2, HighOf
    <2> QED
      BY <2>1, <2>2, <2>3, <2>4, <2>5, <2>6
  <1>9. /\ e \in tailer.batch /\ e \in Event /\ e \in Nat /\ \A f \in tailer.batch : e <= f
    BY <1>1, <1>8, MinOf
  <1>10. /\ tailer.cursor < e /\ e <= High(rows)
         /\ \A f \in tailer.batch : f <= High(rows)
         /\ \A f \in InOrder : \A g \in tailer.batch : tailer.cursor < f /\ f < g => f \in tailer.batch
    BY <1>9 DEF IInv, Follows
  <1>11. /\ t \in TailerRow /\ t.cursor = e /\ t.batch = rest /\ t.step = s
    <2>1. rest \in SUBSET Event /\ s \in {"fanning", "refetching", "waiting"} /\ e \in 0 .. MaxEvent
      BY <1>2, <1>3, <1>8, <1>9
    <2> QED
      BY <1>4, <1>8, <2>1 DEF TailerRow
  <1>12. \A f \in InOrder : f < e => f <= tailer.cursor
    <2> TAKE f \in InOrder
    <2> HAVE f < e
    <2>1. f \in Nat
      BY <1>8
    <2>2. ~ (tailer.cursor < f)
      BY <2>1, <1>8, <1>9, <1>10
    <2> QED
      BY <2>1, <2>2, <1>8
  <1>13. ASSUME NEW b \in Browser
         PROVE  /\ client'[b] \in ClientRow /\ Len(client'[b].queue) <= QueueSize
                /\ client'[b].step = client[b].step
                /\ ServedAs(client'[b], browser[b], High(rows), InOrder, e, lock = b)
    <2>1. PICK c \in ClientRow : c = client[b]
      BY BrowserFacts
    <2>2. PICK p \in BrowserRow : p = browser[b]
      BY BrowserFacts
    <2>3. PICK top \in 0 .. MaxEvent : top = High(rows)
      BY <1>8
    <2>4. PICK passed \in Nat : passed = tailer.cursor
      BY <1>8
    <2>5. PICK ino \in SUBSET Event : ino = InOrder
      BY <1>8
    <2>6. /\ Resumes(p) /\ Within(c, p, top) /\ Queued(c, p) /\ Steps(c, p)
          /\ Offers(c, p, ino, passed) /\ Hears(p, ino)
          /\ c.step # "replaying" /\ lock # b /\ Len(c.queue) <= QueueSize
      <3>1. ServedAs(c, p, top, ino, passed, lock = b) /\ lock # b /\ Len(c.queue) <= QueueSize
        BY <2>1, <2>2, <2>3, <2>4, <2>5, <1>5, BrowserFacts
      <3> QED
        BY <3>1 DEF ServedAs
    <2>7. CASE b \notin Members
      <3>1. client'[b] = c /\ c.step # "streaming"
        BY <2>1, <2>7, <1>5 DEF Members
      <3>2. Replays(c, p, e) /\ Offers(c, p, ino, e)
        BY <3>1, <2>6 DEF Replays, Offers
      <3>3. ServedAs(c, p, top, ino, e, lock = b)
        BY <3>2, <2>6 DEF ServedAs
      <3> QED
        BY <3>1, <3>3, <2>1, <2>2, <2>3, <2>5, <2>6
    <2>8. CASE b \in Members
      <3>1. c.step = "streaming"
        BY <2>1, <2>6, <2>8 DEF Members
      <3>2. PICK d : d = Offered(c, e)
        OBVIOUS
      <3>3. client'[b] = d
        BY <2>1, <2>8, <3>2, <1>5
      <3>4. e <= top /\ \A f \in ino : f < e => f <= passed
        BY <2>3, <2>4, <2>5, <1>10, <1>12
      <3>5. /\ d \in ClientRow /\ Len(d.queue) <= QueueSize /\ d.step = "streaming"
            /\ Within(d, p, top) /\ Queued(d, p) /\ Steps(d, p) /\ Offers(d, p, ino, e)
        BY <2>6, <3>1, <3>2, <3>4, <1>9, OfferedKeeps
      <3>6. ServedAs(d, p, top, ino, e, lock = b)
        BY <3>5, <2>6 DEF ServedAs, Replays
      <3> QED
        BY <3>1, <3>3, <3>5, <3>6, <2>1, <2>2, <2>3, <2>5
    <2> QED
      BY <2>7, <2>8
  <1>14. Shape'
    <2>1. TableType'
      BY <1>6 DEF IInv, Shape, TableType
    <2>2. client' \in [Browser -> ClientRow]
      <3>1. DOMAIN client' = Browser /\ client' = [b \in Browser |-> client'[b]]
        BY <1>5
      <3> QED
        BY <3>1, <1>13
    <2>3. browser' \in [Browser -> BrowserRow] /\ lock' \in Browser \cup {"free"}
      BY <1>6 DEF IInv, Shape
    <2>4. tailer' \in TailerRow
      BY <1>5, <1>11
    <2>5. \A b \in Browser : Len(client'[b].queue) <= QueueSize
      BY <1>13
    <2> QED
      BY <2>1, <2>2, <2>3, <2>4, <2>5 DEF Shape, ClientRow, BrowserRow, TailerRow
  <1>15. Drawn'
    BY <1>6 DEF IInv, Drawn
  <1>16. Follows'
    <2>1. \A f \in rest : e < f /\ f <= High(rows)
      <3> TAKE f \in rest
      <3>1. f \in tailer.batch /\ f # e /\ f \in Nat
        BY <1>2, <1>8
      <3> QED
        BY <3>1, <1>9, <1>10
    <2>2. ASSUME NEW f \in InOrder, NEW g \in rest, e < f, f < g PROVE f \in rest
      <3>a. f \in Nat /\ e \in Nat /\ tailer.cursor \in Nat /\ tailer.cursor < e /\ e < f
        BY <2>2, <1>8, <1>9, <1>10
      <3>1. tailer.cursor < f /\ f # e
        BY <3>a
      <3>2. f \in tailer.batch
        BY <3>1, <2>2, <1>2, <1>10
      <3> QED
        BY <3>1, <3>2, <1>2
    <2>3. s = "fanning" => rest # {}
      BY <1>3
    <2>4. s # "stopped"
      BY <1>3
    <2> QED
      BY <2>1, <2>2, <2>3, <2>4, <1>5, <1>7, <1>10, <1>11 DEF Follows
  <1>17. \A b \in Browser : Served(b)'
    BY <1>5, <1>6, <1>7, <1>11, <1>13 DEF Served
  <1> QED
    BY <1>14, <1>15, <1>16, <1>17 DEF IInv

-----------------------------------------------------------------------------
(* The invariant holds, and what follows *)

LEMMA IInvInit == Init => IInv
  <1> SUFFICES ASSUME Init PROVE IInv
    OBVIOUS
  <1>1. MaxEvent \in Nat /\ MaxDisruption \in Nat /\ QueueSize \in Nat /\ "free" \notin Browser
    BY JobEventsAssumption
  <1>2. High(rows) = 0 /\ InOrder = {} /\ rows = {}
    BY DEF Init, High, InOrder
  <1>3. /\ Idle \in TailerRow /\ Idle.cursor = 0 /\ Idle.batch = {} /\ Idle.step = "stopped"
    BY <1>1 DEF Idle, TailerRow
  <1>4. <<>> \in Seq(Frame) /\ Len(<<>>) = 0
    OBVIOUS
  <1>5. /\ NoClient \in ClientRow /\ NoClient.queue = <<>> /\ NoClient.after = 0
        /\ NoClient.high = 0 /\ NoClient.closed = FALSE /\ NoClient.step = "none"
    BY <1>1, <1>4 DEF NoClient, ClientRow
  <1>6. /\ Unopened \in BrowserRow /\ Unopened.source = "none" /\ Unopened.url = 0
        /\ Unopened.lastId = 0 /\ Unopened.cursor = 0
    BY <1>1 DEF Unopened, BrowserRow
  <1>7. Shape
    <2>1. TableType
      <3>1. 0 \in 0 .. MaxEvent /\ 0 \in 0 .. MaxDisruption
        BY <1>1
      <3>2. open \in [Writer -> SUBSET Event]
        BY DEF Init
      <3> QED
        BY <3>1, <3>2 DEF Init, TableType
    <2>2. client \in [Browser -> ClientRow] /\ browser \in [Browser -> BrowserRow]
          /\ lock \in Browser \cup {"free"} /\ tailer \in TailerRow
      BY <1>3, <1>5, <1>6 DEF Init
    <2>3. \A b \in Browser : Len(client[b].queue) <= QueueSize
      BY <1>1, <1>4, <1>5 DEF Init
    <2> QED
      BY <2>1, <2>2, <2>3 DEF Shape
  <1>8. Drawn
    BY <1>2 DEF Init, Drawn
  <1>9. Follows
    BY <1>2, <1>3, <1>5 DEF Init, Follows
  <1>10. ASSUME NEW b \in Browser PROVE Served(b)
    <2>1. client[b] = NoClient /\ browser[b] = Unopened /\ lock # b /\ tailer = Idle
      BY <1>1 DEF Init
    <2>2. Resumes(Unopened) /\ Within(NoClient, Unopened, 0) /\ Hears(Unopened, {})
      BY <1>5, <1>6 DEF Resumes, Within, Hears
    <2>3. Queued(NoClient, Unopened)
      <3>1. \A i \in 1 .. Len(NoClient.queue) : FALSE
        BY <1>4, <1>5
      <3> QED
        BY <3>1 DEF Queued
    <2>4. /\ Steps(NoClient, Unopened) /\ Replays(NoClient, Unopened, 0)
          /\ Offers(NoClient, Unopened, {}, 0)
      BY <1>5, <1>6 DEF Steps, Replays, Offers
    <2> QED
      BY <2>1, <2>2, <2>3, <2>4, <1>2, <1>3, <1>5 DEF Served, ServedAs
  <1> QED
    BY <1>7, <1>8, <1>9, <1>10 DEF IInv

LEMMA IInvStep == IInv /\ [Next]_vars => IInv'
  <1> SUFFICES ASSUME IInv, [Next]_vars PROVE IInv'
    OBVIOUS
  <1>1. ASSUME NEW w \in Writer, AppendEvent(w) \/ Commit(w) \/ Rollback(w) PROVE IInv'
    BY <1>1, AppendKeeps, CommitKeeps, RollbackKeeps
  <1>2. CASE Tailing
    BY <1>2, WaitingKeeps, FetchKeeps, ConnectionKeeps, FanOutKeeps, StartKeeps DEF Tailing
  <1>3. CASE FetchInterrupted \/ ListenerLost \/ ApiStops \/ Purge
    BY <1>3, ConnectionKeeps, ApiStopsKeeps, PurgeKeeps
  <1>4. ASSUME NEW b \in Browser, Leave(b) \/ Drop(b) PROVE IInv'
    BY <1>4, LeaveKeeps, DropKeeps
  <1>5. ASSUME NEW b \in Browser, Serving(b) \/ Following(b) PROVE IInv'
    BY <1>5, RefuseKeeps, AdmitKeeps, MeasureKeeps, ReplayKeeps, StreamOpensKeeps,
       UnsubscribeKeeps, WatchKeeps, ReceiveStep
    DEF Serving, Following
  <1>6. CASE UNCHANGED vars
    BY <1>6 DEF vars, tableVars, tailVars, IInv, Shape, TableType, Drawn, Follows, Served, InOrder,
                High, TailerRow, ClientRow, BrowserRow
  <1> QED
    BY <1>1, <1>2, <1>3, <1>4, <1>5, <1>6 DEF Next, Writing, Disrupting

LEMMA IInvHolds == Spec => []IInv
  BY IInvInit, IInvStep, PTL DEF Spec

LEMMA TypeFollows == IInv => TypeOK
  <1> SUFFICES ASSUME IInv PROVE TypeOK
    OBVIOUS
  <1>1. Shape
    BY DEF IInv
  <1>2. ASSUME NEW b \in Browser, NEW i \in 1 .. Len(client[b].queue)
        PROVE  client[b].queue[i] \in Frame
    <2>1. client[b].queue \in Seq(Frame)
      BY <1>1 DEF Shape, ClientRow
    <2> QED
      BY <2>1
  <1>3. ASSUME NEW b \in Browser
        PROVE  /\ client[b] \in ClientRow /\ browser[b] \in BrowserRow
               /\ Len(client[b].queue) <= QueueSize
    BY <1>1 DEF Shape
  <1> QED
    BY <1>1, <1>2, <1>3 DEF TypeOK, Shape, TableType, TailerRow, ClientRow, BrowserRow

LEMMA HandOverFollows == IInv => SeamlessHandOver
  <1> SUFFICES ASSUME IInv PROVE SeamlessHandOver
    OBVIOUS
  <1>1. TypeOK
    BY TypeFollows
  <1>2. ASSUME NEW b \in Browser
        PROVE  /\ Requested(b) = browser[b].cursor
               /\ Queued(client[b], browser[b])
               /\ Offers(client[b], browser[b], InOrder, tailer.cursor)
               /\ browser[b].cursor \in Nat /\ browser[b].since \in Nat
    <2>1. MaxEvent \in Nat /\ browser[b] \in BrowserRow
      BY BrowserFacts, JobEventsAssumption
    <2> QED
      BY <2>1, BrowserFacts DEF ServedAs, BrowserRow
  <1>3. FramesInOrder
    <2> SUFFICES ASSUME NEW b \in Browser
                 PROVE  LET queue == client[b].queue
                        IN  \A i \in 1 .. Len(queue) :
                              /\ queue[i].cursor > Requested(b)
                              /\ i > 1 => queue[i].cursor > queue[i - 1].cursor
      BY DEF FramesInOrder
    <2>1. PICK queue : queue = client[b].queue
      OBVIOUS
    <2>2. Len(queue) \in Nat
      BY <2>1, BrowserFacts DEF ClientRow
    <2>3. ASSUME NEW i \in 1 .. Len(queue)
          PROVE  /\ Requested(b) < queue[i].cursor
                 /\ i > 1 => queue[i - 1].cursor < queue[i].cursor
      <3>1. Requested(b) < queue[i].cursor
        BY <1>2, <2>1, <2>3 DEF Queued
      <3>2. ASSUME i > 1 PROVE queue[i - 1].cursor < queue[i].cursor
        <4>1. i - 1 \in 1 .. Len(queue) /\ i - 1 < i
          BY <2>2, <2>3, <3>2
        <4> QED
          BY <4>1, <1>2, <2>1, <2>3 DEF Queued
      <3> QED
        BY <3>1, <3>2
    <2> QED
      BY <2>1, <2>3
  <1>4. ASSUME NEW b \in Browser, Streaming(b)
        PROVE  /\ \A e \in InOrder : e <= tailer.cursor => e <= client[b].after
               /\ \A e \in Due(b) : Requested(b) < e /\ e <= client[b].after =>
                    \E i \in 1 .. Len(client[b].queue) : client[b].queue[i].cursor = e
    <2>1. \A e \in InOrder : e \in Nat
      BY BrowserFacts, JobEventsAssumption DEF Event
    <2>2. \A e \in Due(b) : e \in InOrder \ browser[b].unseen /\ browser[b].since < e
      BY <1>2, <2>1 DEF Due
    <2> QED
      BY <1>2, <1>4, <2>2 DEF Streaming, Offers
  <1> QED
    BY <1>1, <1>3, <1>4 DEF SeamlessHandOver

(* Replay and live delivery meet without a gap or an overlap in the queue of every *)
(* client (event_stream.subscribe, _fanout): whatever the sizes of batch, queue and *)
(* replay, however commits, subscriptions, fan-out, faults and restarts interleave. *)
THEOREM SeamlessHandOverHolds == Spec => []SeamlessHandOver
  BY IInvHolds, HandOverFollows, PTL

(* A browser's cursor passes no row that committed in id order without the browser *)
(* having heard of it, by its frame or by the snapshots behind a reset; excepted   *)
(* are the rows between two subscriptions without a cursor (event_stream.subscribe, *)
(* store.svelte.ts #onFrame, #reconcile).                                           *)
THEOREM NothingInOrderSkippedHolds == Spec => []NothingInOrderSkipped
  <1>1. ASSUME IInv, NEW b \in Browser, NEW e \in Due(b), e <= browser[b].cursor
        PROVE  e \in browser[b].heard
    <2>1. /\ browser[b].since \in Nat /\ Hears(browser[b], InOrder)
          /\ \A f \in InOrder : f \in Nat
      BY <1>1, BrowserFacts, JobEventsAssumption DEF BrowserRow, Event
    <2>2. e \in InOrder \ browser[b].unseen /\ browser[b].since < e
      BY <1>1, <2>1 DEF Due
    <2> QED
      BY <1>1, <2>1, <2>2 DEF Hears
  <1>2. IInv => NothingInOrderSkipped
    BY <1>1 DEF NothingInOrderSkipped
  <1> QED
    BY <1>2, IInvHolds, PTL
====
