-------------------------- MODULE StreamRedisProofs --------------------------
(***************************************************************************)
(* Proofs about what StreamPipeline leaves in Redis, for every set of rows *)
(* and every value of the bounds: the histories that /score reads and the  *)
(* features keep up with the checkpoint, no window misses a transaction,   *)
(* and as long as every batch is run once, to its end, the windows are     *)
(* exact.                                                                  *)
(***************************************************************************)
EXTENDS StreamPipelineProofs, FunctionTheorems, SequenceTheorems

Entries(s) == {s[k] : k \in DOMAIN s}
Once(s)    == \A k, l \in DOMAIN s : s[k] = s[l] => k = l

(***************************************************************************)
(* The inductive invariant                                                 *)
(***************************************************************************)

(* The offsets of every batch so far that was not left unfinished for      *)
(* good, those of them whose rows are done with, and the rows that are     *)
(* still to come to their cards.                                           *)
Seen    == {i \in 1 .. planned : i \notin skipped}
Handled == {i \in Seen : i <= committed \/ i \in done}
Ahead   == {i \in Seen : i \notin Handled /\ log[i].valid}

(* Where process_batch is says which rows it has handled.                  *)
Loops ==
  /\ pc \in {"new", "down", "idle"} => done = {}
  /\ pc \in {"load", "row", "append"} \cup {"persist", "audit", "lag", "commit"}
       => committed < planned
  /\ done \subseteq Batch
  /\ pc \in {"persist", "audit", "lag", "commit"} => Batch \subseteq done
  /\ pc \in {"row", "append"} => Sortable(CardRows(card))
  /\ pc = "new" => \A c \in Card : features[c] = None /\ history[c] = <<>>

(* The topic holds each row once.                                          *)
Distinct == Once(log)

(* A handled transaction is in its card's history.                         *)
HistoryHolds ==
  \A i \in Handled : log[i].valid /\ log[i].card \notin forgotten =>
    \/ log[i] \in Entries(history[log[i].card])
    \/ Len(history[log[i].card]) = MaxHistoryLen

(* The features are those of the head of the history, or a row of the card *)
(* is still to come: between the two commands, or after a crash there.     *)
HeadShown ==
  ~abandoned => \A c \in Card : features[c] # None /\ history[c] # <<>> =>
    \/ features[c].row = history[c][1]
    \/ \E i \in Ahead : log[i].card = c

(* Between the two commands, what the first has written.                   *)
InHand ==
  pc = "append" =>
    /\ card \in Card
    /\ \E i \in Batch :
         /\ NextRow(i) /\ log[i].valid
         /\ features[card] # None => features[card] = ComputeFeatures(working, log[i])

(* The local list misses no transaction that is handled.                   *)
WorkingHolds ==
  pc \in {"row", "append"} /\ card \in Card /\ Untrimmed(card) =>
    \A i \in Handled : log[i].valid /\ log[i].card = card => log[i] \in Entries(working)

(* The count a window of row should hold of the rows of l at offsets in S. *)
Matching(l, S, row, window) ==
  {i \in S : /\ l[i].valid /\ l[i].card = row.card /\ l[i].txn # row.txn
             /\ row.at - window <= l[i].at /\ l[i].at <= row.at}

Due(l, S, row, window) == Cardinality(Matching(l, S, row, window)) + 1

(* The windows of a card's features miss nothing that is handled.          *)
WindowsHold ==
  \A c \in Card : features[c] # None =>
    /\ features[c].row.card = c
    /\ Untrimmed(c) =>
         /\ features[c].velocity_5min >= Due(log, Handled, features[c].row, FiveMinutes)
         /\ features[c].txn_count_24h >= Due(log, Handled, features[c].row, OneDay)

(* A list that holds rows of l for the card, at offsets in S, each once.   *)
ListsOnce(s, l, S, c) ==
  /\ Once(s)
  /\ \A k \in DOMAIN s : \E i \in S : l[i] = s[k] /\ l[i].valid /\ l[i].card = c

(* As long as no batch is run again or left unfinished for good, the lists *)
(* hold handled rows, once; a crash leaves rows of the batch it ended.     *)
Intact == ~replayed /\ ~abandoned

Basis == IF pc \in {"down", "idle"} THEN Seen ELSE Handled

HistoryOnce == Intact => \A c \in Card : ListsOnce(history[c], log, Basis, c)

WorkingOnce ==
  Intact /\ pc \in {"row", "append"} /\ card \in Card =>
    ListsOnce(working, log, Handled, card)

(* ... and then the windows count nothing that they should not.            *)
WindowsNoMore ==
  Intact => \A c \in Card : features[c] # None =>
    /\ features[c].velocity_5min <= Due(log, Seen, features[c].row, FiveMinutes)
    /\ features[c].txn_count_24h <= Due(log, Seen, features[c].row, OneDay)

RedisInv   == Loops /\ Distinct /\ HistoryHolds /\ HeadShown /\ InHand
WindowsInv == WorkingHolds /\ WindowsHold
ExactInv   == HistoryOnce /\ WorkingOnce /\ WindowsNoMore

(***************************************************************************)
(* Lemmas                                                                  *)
(***************************************************************************)

(* LPUSH and LTRIM: the new row is at the head, the others move down, and  *)
(* none falls off as long as the list is not full.                         *)
LEMMA PushedRows ==
  ASSUME NEW h \in Seq(Row), Len(h) <= MaxHistoryLen, NEW r \in Row
  PROVE  LET p == Pushed(h, r)
         IN  /\ Len(p) \in Nat /\ DOMAIN p = 1 .. Len(p) /\ p # <<>> /\ p[1] = r
             /\ Len(p) = IF Len(h) + 1 <= MaxHistoryLen THEN Len(h) + 1 ELSE MaxHistoryLen
             /\ \A k \in DOMAIN p : k = 1 \/ (k - 1 \in DOMAIN h /\ p[k] = h[k - 1])
             /\ r \in Entries(p)
             /\ Len(h) < MaxHistoryLen => Entries(h) \subseteq Entries(p)
<1>. DEFINE s == <<r>> \o h
            n == IF Len(h) + 1 <= MaxHistoryLen THEN Len(h) + 1 ELSE MaxHistoryLen
            p == Pushed(h, r)
<1>1. Len(h) \in Nat /\ DOMAIN h = 1 .. Len(h) /\ MaxHistoryLen \in Nat \ {0}
  BY PipelineAssumption
<1>2. /\ s \in Seq(Row) /\ Len(s) = Len(h) + 1 /\ s[1] = r
      /\ \A k \in 2 .. Len(h) + 1 : s[k] = h[k - 1]
  BY <1>1
<1>3. n \in 1 .. Len(h) + 1
  BY <1>1
<1>4. p = SubSeq(s, 1, n)
  BY DEF Pushed
<1>. HIDE DEF s, n, p
<1>5. Len(p) = n /\ DOMAIN p = 1 .. n /\ \A k \in 1 .. n : p[k] = s[k]
  BY <1>1, <1>2, <1>3, <1>4, SubSeqProperties
<1>6. \A k \in DOMAIN p : k = 1 \/ (k - 1 \in DOMAIN h /\ p[k] = h[k - 1])
  BY <1>1, <1>2, <1>3, <1>5
<1>7. p[1] = r /\ 1 \in DOMAIN p /\ p # <<>>
  BY <1>2, <1>3, <1>5
<1>8. ASSUME Len(h) < MaxHistoryLen, NEW k \in DOMAIN h
      PROVE  k + 1 \in DOMAIN p /\ p[k + 1] = h[k]
  BY <1>1, <1>2, <1>5, <1>8 DEF n
<1>. QED  BY <1>1, <1>3, <1>5, <1>6, <1>7, <1>8 DEF Entries, n, p

(* The offsets of the batches so far are offsets of the topic.             *)
LEMMA SeenRows ==
  ASSUME IInv
  PROVE  /\ \A i \in Seen : i \in Nat /\ i \in 1 .. Len(log) /\ i \in DOMAIN log /\ log[i] \in Row
         /\ Batch \subseteq Seen /\ \A i \in Seen : i <= committed \/ i \in Batch
         /\ \A i \in Batch : ~(i <= committed)
         /\ Ahead \subseteq Batch
BY DEF IInv, TypeOK, OffsetsOrdered, Seen, Batch, Ahead, Handled

LEMMA RowsStay ==
  ASSUME IInv, [Next]_vars
  PROVE  \A i \in Seen : log'[i] = log[i]
BY SeenRows, LogStable DEF IInv

(* The row the inner loop takes: of a batch that can be sorted it is one.  *)
LEMMA NextRowUnique ==
  ASSUME IInv, Sortable(CardRows(card)), NEW i \in Batch, NEW j \in Batch, NextRow(i), NextRow(j)
  PROVE  i = j
<1>. SUFFICES ASSUME i # j PROVE FALSE
  OBVIOUS
<1>1. /\ i \in CardRows(card) /\ j \in CardRows(card)
      /\ Before(i, j) /\ Before(j, i)
  BY DEF NextRow
<1>2. log[i].at # NoTime /\ log[j].at # NoTime
  BY <1>1 DEF Sortable
<1>3. log[i] \in Row /\ log[j] \in Row /\ i \in Nat /\ j \in Nat
  BY BatchInLog DEF IInv
<1>4. log[i].at \in Nat /\ log[j].at \in Nat
  BY <1>2, <1>3, RowAssumption
<1>. QED  BY <1>1, <1>3, <1>4 DEF Before

(* What the rows that are handled, and those to come, are after a step.    *)
LEMMA RejectMoves ==
  ASSUME IInv, RejectRow
  PROVE  \E i \in Batch : /\ ~log[i].valid /\ Handled' = Handled \cup {i} /\ Ahead' = Ahead
<1>1. PICK i \in Batch : ~log[i].valid /\ done' = done \cup {i}
  BY DEF RejectRow
<1>2. i \in Seen
  BY SeenRows
<1>3. Seen' = Seen /\ UNCHANGED <<log, committed>>
  BY DEF RejectRow, checkpoint, ghosts, losses, Seen
<1>. QED  BY <1>1, <1>2, <1>3 DEF Handled, Ahead

LEMMA AppendMoves ==
  ASSUME IInv, AppendHistory
  PROVE  \E i \in Batch :
           /\ NextRow(i) /\ i \in Seen \ Handled /\ log[i] \in Row /\ log[i].card = card
           /\ history' = [history EXCEPT ![card] = Pushed(@, log[i])]
           /\ working' = Append(working, log[i])
           /\ done' = done \cup {i}
           /\ Handled' = Handled \cup {i} /\ Ahead' = Ahead \ {i}
<1>1. PICK i \in Batch :
        /\ NextRow(i)
        /\ history' = [history EXCEPT ![card] = Pushed(@, log[i])]
        /\ working' = Append(working, log[i])
        /\ done' = done \cup {i}
  BY DEF AppendHistory
<1>2. i \in Seen /\ ~(i <= committed) /\ log[i] \in Row
  BY SeenRows
<1>3. Seen' = Seen /\ UNCHANGED <<log, committed>>
  BY DEF AppendHistory, checkpoint, ghosts, losses, Seen
<1>4. i \notin Handled /\ log[i].card = card
  BY <1>1, <1>2 DEF Handled, NextRow, CardRows
<1>5. Handled' = Handled \cup {i} /\ Ahead' = Ahead \ {i}
  BY <1>1, <1>2, <1>3, <1>4 DEF Handled, Ahead
<1>. QED  BY <1>1, <1>2, <1>4, <1>5

LEMMA OtherMoves ==
  ASSUME IInv, IInv', Loops, [Next]_vars, ~RejectRow, ~AppendHistory
  PROVE  /\ Handled' \subseteq Handled
         /\ ~abandoned' => ~abandoned /\ Ahead \subseteq Ahead'
<1>. USE DEF Handled, Ahead
<1>0. \A i \in Seen : log'[i] = log[i]
  BY RowsStay
<1>1. CASE Subscribes
  <2>1. /\ planned' = Len(log) /\ committed' = Len(log) /\ log' = log
        /\ skipped' = skipped \cup (committed + 1 .. Len(log))
    BY <1>1 DEF Subscribes, Start, StartAtLatest
  <2>2. /\ committed \in Nat /\ planned \in Nat /\ Len(log) \in Nat
        /\ committed <= planned /\ planned <= Len(log)
    BY DEF IInv, TypeOK, OffsetsOrdered
  <2>3. ASSUME NEW i \in Seen' PROVE i \in Handled
    <3>1. i \in 1 .. Len(log) /\ i \notin skipped /\ ~(i \in committed + 1 .. Len(log))
      BY <2>1 DEF Seen
    <3>2. i <= committed /\ i \in 1 .. planned
      BY <2>2, <3>1
    <3>. QED  BY <3>1, <3>2 DEF Seen
  <2>4. committed = planned => Ahead = {}
    BY <2>2 DEF Seen
  <2>5. ~abandoned' => ~abandoned /\ committed = planned
    <3>1. ~abandoned' => ~abandoned /\ ~(committed < planned)
      BY <1>1 DEF Subscribes, StartAtLatest
    <3>. QED  BY <2>2, <3>1
  <2>. QED  BY <2>3, <2>4, <2>5
<1>2. CASE BeginBatch
  <2>1. done = {} /\ UNCHANGED <<log, skipped, abandoned, committed, done>>
    BY <1>2 DEF BeginBatch, Loops, losses
  <2>2. planned <= planned' /\ committed <= planned /\ planned \in Nat /\ planned' \in Nat
        /\ committed \in Nat
    BY <1>2, PipelineAssumption DEF BeginBatch, IInv, TypeOK, OffsetsOrdered
  <2>3. Seen \subseteq Seen' /\ \A i \in Seen' : i <= committed => i \in Seen
    BY <2>1, <2>2 DEF Seen
  <2>. QED  BY <2>1, <2>3
<1>3. CASE CommitBatch
  <2>1. /\ Batch \subseteq done /\ done' = {} /\ committed' = planned
        /\ UNCHANGED <<log, skipped, abandoned, planned>>
    BY <1>3 DEF CommitBatch, Loops, ghosts, losses
  <2>2. Seen' = Seen /\ Handled = Seen
    BY <2>1, SeenRows DEF Seen
  <2>3. Handled' \subseteq Handled
    BY <2>2
  <2>4. Ahead = {}
    BY <2>2
  <2>. QED  BY <2>1, <2>3, <2>4
<1>4. CASE UNCHANGED <<checkpoint, losses>> /\ (done' = done \/ done' = {})
  <2>1. Seen' = Seen /\ committed' = committed /\ abandoned' = abandoned
    BY <1>4 DEF Seen, checkpoint, losses
  <2>. QED  BY <1>0, <1>4, <2>1
<1>5. Start \/ BeginBatch \/ CommitBatch \/ done' = done \/ done' = {}
  BY DEF Next, vars, driver, Publish, Consumer, ProcessBatch, LoadCard, SortFails,
         WriteFeatures, PersistTransactions, WriteAuditLog, Exit,
         SetLagGauge, LagGaugeFails, Crash, ExpireFeatures, ExpireHistory
<1>6. Start => done' = done
  BY DEF Start
<1>. QED  BY <1>1, <1>2, <1>3, <1>4, <1>5, <1>6, CheckpointStep

(***************************************************************************)
(* The loops and the topic                                                 *)
(***************************************************************************)
LEMMA InitLoops == Init => Loops /\ Distinct
BY DEF Init, Loops, Distinct, Once, Batch

LEMMA StepDistinct ==
  ASSUME IInv, Distinct, [Next]_vars
  PROVE  Distinct'
<1>1. CASE log' = log
  BY <1>1 DEF Distinct, Once
<1>2. ASSUME NEW r \in Row, Publish(r) PROVE Distinct'
  <2>1. log \in Seq(Row) /\ log' = Append(log, r) /\ \A i \in DOMAIN log : log[i] # r
    BY <1>2 DEF Publish, IInv, TypeOK
  <2>2. /\ DOMAIN log' = 1 .. Len(log) + 1 /\ log'[Len(log) + 1] = r
        /\ DOMAIN log = 1 .. Len(log) /\ Len(log) \in Nat
        /\ \A i \in DOMAIN log : log'[i] = log[i]
    BY <2>1
  <2>3. \A i \in DOMAIN log' : i \in DOMAIN log \/ i = Len(log) + 1
    BY <2>2
  <2>. QED  BY <2>1, <2>2, <2>3 DEF Distinct, Once
<1>3. log' = log \/ \E r \in Row : Publish(r)
  BY DEF Next, vars, Consumer, ProcessBatch, Start, BeginBatch, LoadCard, SortFails,
         RejectRow, WriteFeatures, AppendHistory, PersistTransactions, WriteAuditLog,
         SetLagGauge, LagGaugeFails, CommitBatch, Crash, ExpireFeatures, ExpireHistory
<1>. QED  BY <1>1, <1>2, <1>3

LEMMA StepLoops ==
  ASSUME IInv, IInv', Loops, [Next]_vars
  PROVE  Loops'
<1>. USE DEF Loops, checkpoint, redis, postgres, driver, Batch, CardRows, Sortable
<1>1. ASSUME NEW r \in Row, Publish(r) PROVE Loops'
  <2>1. \A i \in Batch : log'[i] = log[i]
    BY RowsStay, SeenRows
  <2>2. UNCHANGED <<checkpoint, redis, driver>> /\ Batch' = Batch
    BY <1>1 DEF Publish
  <2>3. CardRows(card)' = CardRows(card)
    BY <2>1, <2>2
  <2>4. Sortable(CardRows(card)) => Sortable(CardRows(card))'
    BY <2>1, <2>2, <2>3
  <2>. HIDE DEF Sortable, CardRows
  <2>. QED  BY <2>2, <2>4
<1>2. CASE Start
  BY <1>2 DEF Start, StartAtLatest, StartAtCheckpoint
<1>3. CASE BeginBatch
  <2>1. committed < planned' /\ done = {} /\ pc' = "load" /\ UNCHANGED <<committed, done>>
    BY <1>3, PipelineAssumption DEF BeginBatch, IInv, TypeOK, OffsetsOrdered
  <2>. QED  BY <2>1
<1>4. CASE LoadCard
  BY <1>4 DEF LoadCard
<1>5. CASE SortFails \/ LagGaugeFails \/ Crash
  <2>1. done' = {} /\ pc' = "down"
    BY <1>5 DEF SortFails, LagGaugeFails, Crash, Exit
  <2>. QED  BY <2>1
<1>6. CASE RejectRow
  <2>1. PICK i \in Batch : done' = done \cup {i}
    BY <1>6 DEF RejectRow
  <2>. QED  BY <1>6, <2>1 DEF RejectRow, LoopAfter
<1>7. CASE WriteFeatures
  BY <1>7 DEF WriteFeatures
<1>8. CASE AppendHistory
  <2>1. PICK i \in Batch : done' = done \cup {i}
    BY <1>8 DEF AppendHistory
  <2>. QED  BY <1>8, <2>1 DEF AppendHistory, LoopAfter
<1>9. CASE PersistTransactions \/ WriteAuditLog \/ SetLagGauge
  BY <1>9 DEF PersistTransactions, WriteAuditLog, SetLagGauge
<1>10. CASE CommitBatch
  BY <1>10 DEF CommitBatch
<1>11. ASSUME NEW c \in Card, ExpireFeatures(c) \/ ExpireHistory(c) PROVE Loops'
  BY <1>11 DEF ExpireFeatures, ExpireHistory, IInv, TypeOK
<1>12. CASE UNCHANGED vars
  BY <1>12 DEF vars
<1>. QED
  BY <1>1, <1>2, <1>3, <1>4, <1>5, <1>6, <1>7, <1>8, <1>9, <1>10, <1>11, <1>12
  DEF Next, Consumer, ProcessBatch

(***************************************************************************)
(* Redis keeps up                                                          *)
(***************************************************************************)

(* Two commands write to Redis, and keys expire. *)
LEMMA RedisMoves ==
  ASSUME [Next]_vars
  PROVE  /\ \/ AppendHistory \/ (\E c \in Card : ExpireHistory(c))
            \/ UNCHANGED <<history, forgotten>>
         /\ \/ WriteFeatures \/ (\E c \in Card : ExpireFeatures(c))
            \/ UNCHANGED features
BY DEF Next, vars, redis, ghosts, Publish, Consumer, ProcessBatch, Start, BeginBatch, LoadCard,
       SortFails, RejectRow, WriteFeatures, AppendHistory, PersistTransactions, WriteAuditLog,
       SetLagGauge, LagGaugeFails, CommitBatch, Crash, ExpireFeatures, ExpireHistory

LEMMA StepHistoryHolds ==
  ASSUME IInv, IInv', RedisInv, [Next]_vars
  PROVE  HistoryHolds'
<1>. USE DEF RedisInv
<1>0. \A i \in Handled : i \in Seen /\ log'[i] = log[i]
  BY RowsStay DEF Handled
<1>1. CASE AppendHistory
  <2>1. PICK i \in Batch :
          /\ NextRow(i) /\ i \in Seen \ Handled /\ log[i] \in Row /\ log[i].card = card
          /\ history' = [history EXCEPT ![card] = Pushed(@, log[i])]
          /\ Handled' = Handled \cup {i} /\ Ahead' = Ahead \ {i}
    BY <1>1, AppendMoves
  <2>2. card \in Card /\ UNCHANGED <<log, forgotten>>
    BY <1>1 DEF AppendHistory, InHand, ghosts
  <2>3. /\ history \in [Card -> Seq(Row)] /\ \A c \in Card : Len(history[c]) <= MaxHistoryLen
    BY DEF IInv, TypeOK
  <2>4. /\ history'[card] = Pushed(history[card], log[i])
        /\ \A c \in Card : c # card => history'[c] = history[c]
    BY <2>1, <2>2, <2>3
  <2>. DEFINE h == history[card]
              p == Pushed(h, log[i])
  <2>5. /\ log[i] \in Entries(p)
        /\ Len(h) < MaxHistoryLen => Entries(h) \subseteq Entries(p)
        /\ Len(p) = IF Len(h) + 1 <= MaxHistoryLen THEN Len(h) + 1 ELSE MaxHistoryLen
    BY <2>1, <2>2, <2>3, PushedRows
  <2>6. Len(h) \in Nat /\ Len(h) <= MaxHistoryLen /\ MaxHistoryLen \in Nat
    BY <2>2, <2>3, PipelineAssumption
  <2>. HIDE DEF h, p
  <2>7. Len(h) = MaxHistoryLen => Len(p) = MaxHistoryLen
    BY <2>5, <2>6
  <2>8. history'[card] = p /\ history[card] = h
    BY <2>4 DEF h, p
  <2>9. ASSUME NEW j \in Handled', log'[j].valid, log'[j].card \notin forgotten'
        PROVE  \/ log'[j] \in Entries(history'[log'[j].card])
               \/ Len(history'[log'[j].card]) = MaxHistoryLen
    <3>1. log'[j] = log[j] /\ forgotten' = forgotten /\ log[j] \in Row
      BY <2>1, <2>2, <2>9, SeenRows DEF Handled
    <3>2. CASE j = i
      BY <2>1, <2>5, <2>8, <3>1, <3>2
    <3>3. CASE j \in Handled /\ log[j].card = card
      BY <2>5, <2>6, <2>7, <2>8, <2>9, <3>1, <3>3 DEF HistoryHolds
    <3>4. CASE j \in Handled /\ log[j].card # card
      <4>1. log[j].card \in Card
        BY <2>9, <3>1, RowType
      <4>. QED  BY <2>4, <2>9, <3>1, <3>4, <4>1 DEF HistoryHolds
    <3>. QED  BY <2>1, <2>9, <3>2, <3>3, <3>4
  <2>. QED  BY <2>9 DEF HistoryHolds
<1>2. ASSUME NEW c \in Card, ExpireHistory(c) PROVE HistoryHolds'
  <2>1. /\ forgotten' = forgotten \cup {c} /\ UNCHANGED log
        /\ history' = [history EXCEPT ![c] = <<>>]
    BY <1>2 DEF ExpireHistory
  <2>2. Handled' = Handled
    BY <1>2 DEF ExpireHistory, Handled, Seen, checkpoint, ghosts, losses, driver
  <2>3. \A d \in Card : d # c => history'[d] = history[d]
    BY <2>1 DEF IInv, TypeOK
  <2>4. \A i \in Handled : log[i].valid => log[i].card \in Card
    BY <1>0, SeenRows, RowType
  <2>. QED  BY <2>1, <2>2, <2>3, <2>4 DEF HistoryHolds
<1>3. CASE RejectRow
  <2>1. PICK i \in Batch : ~log[i].valid /\ Handled' = Handled \cup {i}
    BY <1>3, RejectMoves
  <2>2. UNCHANGED <<log, history, forgotten>>
    BY <1>3 DEF RejectRow, redis, ghosts
  <2>. QED  BY <2>1, <2>2 DEF HistoryHolds
<1>4. CASE ~RejectRow /\ ~AppendHistory /\ UNCHANGED <<history, forgotten>>
  <2>1. Handled' \subseteq Handled
    BY <1>4, OtherMoves
  <2>. QED  BY <1>0, <1>4, <2>1 DEF HistoryHolds
<1>. QED  BY <1>1, <1>2, <1>3, <1>4, RedisMoves

LEMMA StepInHand ==
  ASSUME IInv, IInv', RedisInv, [Next]_vars
  PROVE  InHand'
<1>. USE DEF RedisInv, checkpoint, redis, postgres, driver, Batch, CardRows, NextRow, Before
<1>1. CASE WriteFeatures
  <2>1. PICK i \in Batch :
          /\ NextRow(i) /\ log[i].valid
          /\ features' = [features EXCEPT ![card] = ComputeFeatures(working, log[i])]
    BY <1>1 DEF WriteFeatures
  <2>2. UNCHANGED <<log, checkpoint, done, card, working>>
    BY <1>1 DEF WriteFeatures
  <2>3. log[i].card = card /\ log[i] \in Row
    BY <2>1, SeenRows
  <2>4. card \in Card
    BY <2>1, <2>3, RowType
  <2>5. features'[card] = ComputeFeatures(working, log[i])
    BY <2>1, <2>4 DEF IInv, TypeOK
  <2>6. NextRow(i)'
    BY <2>1, <2>2
  <2>. HIDE DEF NextRow
  <2>. QED  BY <2>1, <2>2, <2>4, <2>5, <2>6 DEF InHand
<1>2. CASE \/ Start \/ BeginBatch \/ LoadCard \/ RejectRow \/ AppendHistory \/ PersistTransactions
           \/ WriteAuditLog \/ SetLagGauge \/ CommitBatch
  <2>1. pc' # "append"
    BY <1>2 DEF Start, BeginBatch, LoadCard, RejectRow, LoopAfter, AppendHistory,
                PersistTransactions, WriteAuditLog, SetLagGauge, CommitBatch
  <2>. QED  BY <2>1 DEF InHand
<1>3. CASE SortFails \/ LagGaugeFails \/ Crash
  <2>1. pc' = "down"
    BY <1>3 DEF SortFails, LagGaugeFails, Crash, Exit
  <2>. QED  BY <2>1 DEF InHand
<1>4. CASE (\E r \in Row : Publish(r)) \/ (\E c \in Card : ExpireFeatures(c) \/ ExpireHistory(c))
           \/ UNCHANGED vars
  <2>1. /\ UNCHANGED <<checkpoint, driver>>
        /\ \A c \in Card : features'[c] = features[c] \/ features'[c] = None
    BY <1>4 DEF Publish, ExpireFeatures, ExpireHistory, vars, IInv, TypeOK
  <2>2. \A i \in Batch : log'[i] = log[i]
    BY RowsStay, SeenRows
  <2>. SUFFICES ASSUME pc = "append" PROVE InHand'
    BY <2>1 DEF InHand
  <2>3. PICK i \in Batch :
         /\ NextRow(i) /\ log[i].valid
         /\ features[card] # None => features[card] = ComputeFeatures(working, log[i])
    BY DEF InHand
  <2>4. NextRow(i)'
    BY <2>1, <2>2, <2>3
  <2>5. card \in Card /\ UNCHANGED <<card, working>> /\ Batch' = Batch /\ log'[i] = log[i]
    BY <2>1, <2>2 DEF InHand
  <2>6. features'[card] # None => features'[card] = ComputeFeatures(working, log[i])
    BY <2>1, <2>3, <2>5
  <2>. HIDE DEF NextRow, Batch
  <2>. QED  BY <2>3, <2>4, <2>5, <2>6 DEF InHand
<1>. QED  BY <1>1, <1>2, <1>3, <1>4 DEF Next, Consumer, ProcessBatch

LEMMA StepHeadShown ==
  ASSUME IInv, IInv', RedisInv, [Next]_vars
  PROVE  HeadShown'
<1>. USE DEF RedisInv
<1>. SUFFICES ASSUME ~abandoned' PROVE HeadShown'
  BY DEF HeadShown
<1>0. \A i \in Ahead : i \in Seen /\ log'[i] = log[i]
  BY RowsStay DEF Ahead
<1>t. history \in [Card -> Seq(Row)] /\ features \in [Card -> FeatureVector \cup {None}]
  BY DEF IInv, TypeOK
<1>1. CASE WriteFeatures
  <2>1. PICK i \in Batch :
          /\ NextRow(i) /\ log[i].valid
          /\ features' = [features EXCEPT ![card] = ComputeFeatures(working, log[i])]
    BY <1>1 DEF WriteFeatures
  <2>2. Ahead' = Ahead /\ UNCHANGED <<log, history, abandoned>>
    BY <1>1 DEF WriteFeatures, Ahead, Handled, Seen, checkpoint, ghosts, losses
  <2>3. i \in Ahead /\ log[i].card = card
    BY <2>1, SeenRows DEF Ahead, Handled, NextRow, CardRows
  <2>4. \A c \in Card : c # card => features'[c] = features[c]
    BY <2>1, <1>t
  <2>. QED  BY <2>2, <2>3, <2>4 DEF HeadShown
<1>2. CASE AppendHistory
  <2>1. PICK i \in Batch :
          /\ NextRow(i) /\ i \in Seen \ Handled /\ log[i] \in Row /\ log[i].card = card
          /\ history' = [history EXCEPT ![card] = Pushed(@, log[i])]
          /\ Ahead' = Ahead \ {i}
    BY <1>2, AppendMoves
  <2>2. card \in Card /\ UNCHANGED <<log, features, abandoned>> /\ pc = "append"
    BY <1>2 DEF AppendHistory, InHand, ghosts, losses
  <2>3. PICK j \in Batch :
         /\ NextRow(j)
         /\ features[card] # None => features[card] = ComputeFeatures(working, log[j])
    BY <2>2 DEF InHand
  <2>4. j = i
    BY <2>1, <2>2, <2>3, NextRowUnique DEF Loops
  <2>5. features[card] # None => features[card].row = log[i]
    BY <2>3, <2>4 DEF ComputeFeatures
  <2>6. history'[card][1] = log[i]
    <3>1. history[card] \in Seq(Row) /\ Len(history[card]) <= MaxHistoryLen
      BY <2>2 DEF IInv, TypeOK
    <3>2. Pushed(history[card], log[i])[1] = log[i]
      BY <2>1, <3>1, PushedRows
    <3>. QED  BY <1>t, <2>1, <2>2, <3>2
  <2>7. \A c \in Card : c # card => history'[c] = history[c]
    BY <1>t, <2>1
  <2>8. ASSUME NEW c \in Card, features'[c] # None, history'[c] # <<>>
        PROVE  \/ features'[c].row = history'[c][1]
               \/ \E k \in Ahead' : log'[k].card = c
    <3>1. CASE c = card
      BY <2>2, <2>5, <2>6, <2>8, <3>1
    <3>2. CASE c # card
      BY <2>1, <2>2, <2>7, <2>8, <3>2 DEF HeadShown
    <3>. QED  BY <3>1, <3>2
  <2>. QED  BY <2>8 DEF HeadShown
<1>3. CASE RejectRow
  <2>1. Ahead' = Ahead
    BY <1>3, RejectMoves
  <2>2. UNCHANGED <<log, history, features, abandoned>>
    BY <1>3 DEF RejectRow, redis, ghosts, losses
  <2>. QED  BY <2>1, <2>2 DEF HeadShown
<1>4. CASE ~RejectRow /\ ~AppendHistory /\ ~WriteFeatures
  <2>1. ~abandoned /\ Ahead \subseteq Ahead'
    BY <1>4, OtherMoves
  <2>2. \A c \in Card : features'[c] = features[c] \/ features'[c] = None
    <3>1. ASSUME NEW d \in Card, ExpireFeatures(d)
          PROVE  \A c \in Card : features'[c] = features[c] \/ features'[c] = None
      BY <1>t, <3>1 DEF ExpireFeatures
    <3>. QED  BY <1>4, <3>1, RedisMoves
  <2>3. \A c \in Card : history'[c] = history[c] \/ history'[c] = <<>>
    <3>1. ASSUME NEW d \in Card, ExpireHistory(d)
          PROVE  \A c \in Card : history'[c] = history[c] \/ history'[c] = <<>>
      BY <1>t, <3>1 DEF ExpireHistory
    <3>. QED  BY <1>4, <3>1, RedisMoves
  <2>. QED  BY <1>0, <2>1, <2>2, <2>3 DEF HeadShown
<1>. QED  BY <1>1, <1>2, <1>3, <1>4

(* However crashes, replays and expiries come between the commands of a    *)
(* batch, Redis holds what the batch has worked through, and each features *)
(* key shows the head of its card's history or is about to.                *)
THEOREM RedisInvariant == Spec => []RedisInv
<1>1. Init => RedisInv
  BY InitLoops DEF Init, RedisInv, HistoryHolds, HeadShown, InHand, Handled, Seen
<1>2. IInv /\ IInv' /\ RedisInv /\ [Next]_vars => RedisInv'
  BY StepLoops, StepDistinct, StepHistoryHolds, StepHeadShown, StepInHand DEF RedisInv
<1>. QED  BY <1>1, <1>2, InductiveInvariant, PTL DEF Spec

(* Whatever crashes come between the commands, a committed transaction is  *)
(* in its card's history, unless that was forgotten or is full, and the    *)
(* features of a card are those of the head of its history, unless a batch *)
(* was left unfinished with a lost checkpoint.                             *)
THEOREM RedisAlwaysKeepsUp == Spec => []RedisKeepsUp
<1>1. ASSUME IInv, RedisInv PROVE RedisKeepsUp
  <2>1. ASSUME NEW i \in DOMAIN log, Committed(i), log[i].valid, log[i].card \notin forgotten
        PROVE  \/ \E k \in DOMAIN history[log[i].card] : history[log[i].card][k] = log[i]
               \/ Len(history[log[i].card]) = MaxHistoryLen
    <3>1. i \in Handled
      BY <1>1, <2>1 DEF Handled, Seen, Committed, IInv, TypeOK, OffsetsOrdered
    <3>. QED  BY <1>1, <2>1, <3>1 DEF RedisInv, HistoryHolds, Entries
  <2>2. committed = planned => Ahead = {}
    BY <1>1 DEF Ahead, Handled, Seen, IInv, TypeOK
  <2>. QED
    BY <1>1, <2>1, <2>2 DEF RedisInv, HeadShown, RedisKeepsUp, CommittedInHistory, FeaturesMatchHistory
<1>. QED  BY <1>1, InductiveInvariant, RedisInvariant, PTL

(***************************************************************************)
(* Counting                                                                *)
(***************************************************************************)
LEMMA MatchingFinite ==
  ASSUME NEW l, NEW S, IsFiniteSet(S), NEW row, NEW w
  PROVE  /\ IsFiniteSet(Matching(l, S, row, w))
         /\ Cardinality(Matching(l, S, row, w)) \in Nat
         /\ Due(l, S, row, w) \in Nat
<1>1. Matching(l, S, row, w) \in SUBSET S
  BY DEF Matching
<1>2. /\ IsFiniteSet(Matching(l, S, row, w))
      /\ Cardinality(Matching(l, S, row, w)) \in Nat
  BY <1>1, FS_Subset, FS_CardinalityType
<1>. QED  BY <1>2 DEF Due

(* The batches so far hold finitely many rows, before a step and after it. *)
LEMMA FiniteOffsets ==
  ASSUME NEW n \in Nat, NEW S, \A i \in S : i \in 1 .. n
  PROVE  IsFiniteSet(S)
<1>1. IsFiniteSet(1 .. n)
  BY FS_Interval
<1>2. S \in SUBSET (1 .. n)
  OBVIOUS
<1>. QED  BY <1>1, <1>2, FS_Subset

LEMMA SeenFinite ==
  ASSUME IInv
  PROVE  IsFiniteSet(Seen) /\ IsFiniteSet(Handled)
BY FiniteOffsets DEF IInv, TypeOK, Seen, Handled

LEMMA SeenFiniteNext ==
  ASSUME IInv'
  PROVE  IsFiniteSet(Seen') /\ IsFiniteSet(Handled')
BY FiniteOffsets DEF IInv, TypeOK, Seen, Handled

(* Of fewer rows fewer are due.                                            *)
LEMMA DueFewer ==
  ASSUME NEW l, NEW m, NEW S, NEW T, IsFiniteSet(S), IsFiniteSet(T), NEW row, NEW w,
         \A i \in Matching(m, S, row, w) : i \in T /\ m[i] = l[i]
  PROVE  Due(m, S, row, w) <= Due(l, T, row, w)
<1>1. Matching(m, S, row, w) \subseteq Matching(l, T, row, w)
  BY DEF Matching
<1>2. /\ IsFiniteSet(Matching(l, T, row, w))
      /\ Cardinality(Matching(l, T, row, w)) \in Nat
      /\ Cardinality(Matching(m, S, row, w)) \in Nat
  BY MatchingFinite
<1>3. Cardinality(Matching(m, S, row, w)) <= Cardinality(Matching(l, T, row, w))
  BY <1>1, <1>2, FS_Subset
<1>. QED  BY <1>2, <1>3 DEF Due

LEMMA WindowFinite ==
  ASSUME NEW h \in Seq(Row), NEW row, NEW w
  PROVE  /\ IsFiniteSet(InWindow(h, row, w))
         /\ Cardinality(InWindow(h, row, w)) \in Nat
<1>1. IsFiniteSet(1 .. Len(h))
  BY FS_Interval
<1>2. InWindow(h, row, w) \in SUBSET (1 .. Len(h))
  BY DEF InWindow, Past
<1>. QED  BY <1>1, <1>2, FS_Subset, FS_CardinalityType

(* A list that holds every matching row counts them all.                   *)
LEMMA CountsAll ==
  ASSUME NEW h \in Seq(Row), NEW l, NEW S, IsFiniteSet(S), NEW row, NEW w,
         \A i, j \in S : l[i] = l[j] => i = j,
         \A i \in Matching(l, S, row, w) : l[i] \in Entries(h)
  PROVE  CountIn(h, row, w) >= Due(l, S, row, w)
<1>. DEFINE M == Matching(l, S, row, w)
            W == InWindow(h, row, w)
            f == [i \in M |-> CHOOSE k \in DOMAIN h : h[k] = l[i]]
<1>1. ASSUME NEW i \in M PROVE f[i] \in W /\ h[f[i]] = l[i]
  <2>1. \E k \in DOMAIN h : h[k] = l[i]
    BY DEF Entries
  <2>2. f[i] \in DOMAIN h /\ h[f[i]] = l[i]
    BY <2>1
  <2>3. l[i].txn # row.txn /\ row.at - w <= l[i].at /\ l[i].at <= row.at
    BY DEF Matching
  <2>. QED  BY <2>2, <2>3 DEF InWindow, Past
<1>2. \A i \in M : i \in S
  BY DEF Matching
<1>3. f \in Injection(M, W)
  <2>1. f \in [M -> W]
    BY <1>1
  <2>2. \A i, j \in M : f[i] = f[j] => i = j
    BY <1>1, <1>2
  <2>. QED  BY <2>1, <2>2 DEF Injection, IsInjective
<1>. HIDE DEF f, M, W
<1>4. IsFiniteSet(W) /\ Cardinality(W) \in Nat /\ Cardinality(M) \in Nat
  BY WindowFinite, MatchingFinite DEF M, W
<1>5. Cardinality(M) <= Cardinality(W)
  BY <1>3, <1>4, FS_Injection
<1>. QED  BY <1>4, <1>5 DEF CountIn, Due, M, W

(* A list that holds only matching rows, and each once, counts no others.  *)
LEMMA CountsNoOther ==
  ASSUME NEW h \in Seq(Row), Once(h), NEW l, NEW S, IsFiniteSet(S), NEW row, NEW w,
         \A k \in InWindow(h, row, w) : \E i \in Matching(l, S, row, w) : l[i] = h[k]
  PROVE  CountIn(h, row, w) <= Due(l, S, row, w)
<1>. DEFINE M == Matching(l, S, row, w)
            W == InWindow(h, row, w)
            f == [k \in W |-> CHOOSE i \in M : l[i] = h[k]]
<1>1. ASSUME NEW k \in W PROVE f[k] \in M /\ l[f[k]] = h[k]
  <2>1. \E i \in M : l[i] = h[k]
    OBVIOUS
  <2>. QED  BY <2>1
<1>2. \A k \in W : k \in DOMAIN h
  BY DEF InWindow, Past
<1>3. f \in Injection(W, M)
  <2>1. f \in [W -> M]
    BY <1>1
  <2>2. \A i, j \in W : f[i] = f[j] => i = j
    BY <1>1, <1>2 DEF Once
  <2>. QED  BY <2>1, <2>2 DEF Injection, IsInjective
<1>. HIDE DEF f, M, W
<1>4. IsFiniteSet(M) /\ Cardinality(W) \in Nat /\ Cardinality(M) \in Nat
  BY WindowFinite, MatchingFinite DEF M, W
<1>5. Cardinality(W) <= Cardinality(M)
  BY <1>3, <1>4, FS_Injection
<1>. QED  BY <1>4, <1>5 DEF CountIn, Due, M, W

(***************************************************************************)
(* No window misses a transaction                                          *)
(***************************************************************************)
LEMMA EntriesAppend ==
  ASSUME NEW s \in Seq(Row), NEW r \in Row
  PROVE  /\ Append(s, r) \in Seq(Row)
         /\ DOMAIN Append(s, r) = DOMAIN s \cup {Len(s) + 1} /\ Len(s) + 1 \notin DOMAIN s
         /\ \A k \in DOMAIN s : Append(s, r)[k] = s[k]
         /\ Append(s, r)[Len(s) + 1] = r
         /\ Entries(Append(s, r)) = Entries(s) \cup {r}
<1>1. /\ Append(s, r) \in Seq(Row)
      /\ DOMAIN Append(s, r) = DOMAIN s \cup {Len(s) + 1} /\ Len(s) + 1 \notin DOMAIN s
      /\ \A k \in DOMAIN s : Append(s, r)[k] = s[k]
      /\ Append(s, r)[Len(s) + 1] = r
  OBVIOUS
<1>2. Entries(Append(s, r)) = Entries(s) \cup {r}
  BY <1>1, Zenon DEF Entries
<1>. QED  BY <1>1, <1>2

(* A history that is whole after a step was whole before it.               *)
LEMMA WholeBefore ==
  ASSUME IInv, [Next]_vars, InHand, NEW c \in Card,
         c \notin forgotten', Len(history'[c]) < MaxHistoryLen
  PROVE  Untrimmed(c)
<1>1. history \in [Card -> Seq(Row)] /\ (\A d \in Card : Len(history[d]) <= MaxHistoryLen)
      /\ MaxHistoryLen \in Nat
  BY PipelineAssumption DEF IInv, TypeOK
<1>2. CASE AppendHistory
  <2>1. PICK i \in Batch : /\ log[i] \in Row
                           /\ history' = [history EXCEPT ![card] = Pushed(@, log[i])]
    BY <1>2, AppendMoves
  <2>2. card \in Card /\ forgotten' = forgotten
    BY <1>2 DEF AppendHistory, InHand, ghosts
  <2>. DEFINE h == history[card]
              p == Pushed(h, log[i])
  <2>3. Len(p) = IF Len(h) + 1 <= MaxHistoryLen THEN Len(h) + 1 ELSE MaxHistoryLen
    BY <1>1, <2>1, <2>2, PushedRows
  <2>4. history'[card] = p /\ (c # card => history'[c] = history[c]) /\ Len(h) \in Nat
    BY <1>1, <2>1, <2>2
  <2>. HIDE DEF p
  <2>. QED  BY <1>1, <2>2, <2>3, <2>4 DEF Untrimmed
<1>3. ASSUME NEW d \in Card, ExpireHistory(d) PROVE Untrimmed(c)
  <2>1. forgotten' = forgotten \cup {d} /\ history' = [history EXCEPT ![d] = <<>>]
    BY <1>3 DEF ExpireHistory
  <2>2. c # d /\ history'[c] = history[c]
    BY <1>1, <2>1
  <2>. QED  BY <2>1, <2>2 DEF Untrimmed
<1>4. CASE UNCHANGED <<history, forgotten>>
  BY <1>4 DEF Untrimmed
<1>. QED  BY <1>2, <1>3, <1>4, RedisMoves

(* What the inner loop works on comes from these steps.                    *)
LEMMA LoopMoves ==
  ASSUME [Next]_vars, pc' \in {"row", "append"}
  PROVE  \/ LoadCard \/ RejectRow \/ WriteFeatures \/ AppendHistory
         \/ UNCHANGED <<checkpoint, losses, driver>>
BY DEF Next, vars, ghosts, Publish, Consumer, ProcessBatch, Start, BeginBatch, SortFails,
       PersistTransactions, WriteAuditLog, Exit, SetLagGauge, LagGaugeFails, CommitBatch, Crash,
       ExpireFeatures, ExpireHistory

LEMMA StepWorkingHolds ==
  ASSUME IInv, IInv', RedisInv, WorkingHolds, [Next]_vars
  PROVE  WorkingHolds'
<1>. USE DEF RedisInv
<1>. SUFFICES ASSUME pc' \in {"row", "append"}, card' \in Card,
                     card' \notin forgotten', Len(history'[card']) < MaxHistoryLen,
                     NEW j \in Handled', log'[j].valid, log'[j].card = card'
              PROVE  log'[j] \in Entries(working')
  BY DEF WorkingHolds, Untrimmed
<1>0. \A i \in Handled : i \in Seen /\ log'[i] = log[i]
  BY RowsStay DEF Handled
<1>1. Untrimmed(card')
  BY WholeBefore
<1>2. CASE LoadCard
  <2>1. Handled' = Handled /\ log' = log /\ working' = history[card']
    BY <1>2, RowAssumption DEF LoadCard, Handled, Seen, checkpoint, ghosts, losses
  <2>2. log[j] \in Entries(history[card']) \/ Len(history[card']) = MaxHistoryLen
    BY <1>1, <2>1 DEF HistoryHolds, Untrimmed
  <2>3. Len(history[card']) < MaxHistoryLen /\ MaxHistoryLen \in Nat
    BY <1>1, PipelineAssumption DEF Untrimmed
  <2>. QED  BY <2>1, <2>2, <2>3
<1>3. CASE RejectRow
  <2>1. PICK i \in Batch : ~log[i].valid /\ Handled' = Handled \cup {i}
    BY <1>3, RejectMoves
  <2>2. UNCHANGED <<log, card, working>> /\ pc = "row"
    BY <1>3 DEF RejectRow
  <2>. QED  BY <1>1, <2>1, <2>2 DEF WorkingHolds
<1>4. CASE AppendHistory
  <2>1. PICK i \in Batch : /\ log[i] \in Row /\ working' = Append(working, log[i])
                           /\ Handled' = Handled \cup {i}
    BY <1>4, AppendMoves
  <2>2. UNCHANGED <<log, card>> /\ pc = "append" /\ working \in Seq(Row)
    BY <1>4 DEF AppendHistory, IInv, TypeOK
  <2>3. Entries(working') = Entries(working) \cup {log[i]}
    BY <2>1, <2>2, EntriesAppend
  <2>. QED  BY <1>1, <2>1, <2>2, <2>3 DEF WorkingHolds
<1>5. CASE WriteFeatures \/ UNCHANGED <<checkpoint, losses, driver>>
  <2>1. Handled' = Handled /\ UNCHANGED <<card, working>> /\ pc \in {"row", "append"}
    BY <1>5 DEF WriteFeatures, Handled, Seen, checkpoint, ghosts, losses, driver
  <2>. QED  BY <1>0, <1>1, <2>1 DEF WorkingHolds
<1>. QED  BY <1>2, <1>3, <1>4, <1>5, LoopMoves

(* Features are there after a step that writes no others only if they were *)
(* there before.                                                           *)
LEMMA FeaturesBefore ==
  ASSUME IInv, [Next]_vars, NEW c \in Card, features'[c] # None, ~(WriteFeatures /\ c = card)
  PROVE  features'[c] = features[c]
BY RedisMoves DEF WriteFeatures, ExpireFeatures, IInv, TypeOK

(* What WriteFeatures leaves.                                              *)
LEMMA FeaturesWritten ==
  ASSUME IInv, WriteFeatures
  PROVE  \E i \in Batch :
           /\ log[i] \in Row /\ log[i].card = card /\ card \in Card
           /\ UNCHANGED <<log, history, forgotten, Seen, Handled>> /\ pc = "row"
           /\ features'[card] = ComputeFeatures(working, log[i])
<1>1. PICK i \in Batch :
        /\ NextRow(i) /\ log[i].valid
        /\ features' = [features EXCEPT ![card] = ComputeFeatures(working, log[i])]
  BY DEF WriteFeatures
<1>2. UNCHANGED <<log, history, checkpoint, done, forgotten, losses>> /\ pc = "row"
  BY DEF WriteFeatures, ghosts
<1>3. log[i].card = card /\ log[i] \in Row
  BY <1>1, SeenRows DEF NextRow, CardRows
<1>4. card \in Card
  BY <1>1, <1>3, RowType
<1>5. features'[card] = ComputeFeatures(working, log[i])
  BY <1>1, <1>4 DEF IInv, TypeOK
<1>6. UNCHANGED <<Seen, Handled>>
  BY <1>2 DEF Handled, Seen, checkpoint, losses
<1>. QED  BY <1>1, <1>2, <1>3, <1>4, <1>5, <1>6

(* The count over the local list misses nothing.                           *)
LEMMA RowCounted ==
  ASSUME IInv, RedisInv, WorkingHolds, pc = "row", card \in Card, Untrimmed(card),
         NEW row, row.card = card, NEW w
  PROVE  CountIn(working, row, w) >= Due(log, Handled, row, w)
<1>1. working \in Seq(Row)
  BY DEF IInv, TypeOK
<1>2. IsFiniteSet(Handled)
  BY SeenFinite
<1>3. \A j, k \in Handled : log[j] = log[k] => j = k
  <2>1. \A j \in Handled : j \in DOMAIN log
    BY SeenRows DEF Handled
  <2>. QED  BY <2>1 DEF RedisInv, Distinct, Once
<1>4. ASSUME NEW j \in Matching(log, Handled, row, w)
      PROVE  log[j] \in Entries(working)
  <2>1. j \in Handled /\ log[j].valid /\ log[j].card = card
    BY DEF Matching
  <2>. QED  BY <2>1 DEF WorkingHolds
<1>. QED  BY <1>1, <1>2, <1>3, <1>4, CountsAll

(* A step that handles a row handles none that the windows of the features *)
(* should count: it is not valid, or of another card, or their own row.    *)
LEMMA HandledMatching ==
  ASSUME IInv, IInv', RedisInv, [Next]_vars, NEW c \in Card,
         features'[c] # None, features'[c] = features[c], features[c].row.card = c, NEW w,
         NEW j \in Matching(log', Handled', features[c].row, w)
  PROVE  j \in Handled /\ log'[j] = log[j]
<1>. USE DEF RedisInv
<1>0. \A i \in Handled : log'[i] = log[i]
  BY RowsStay DEF Handled
<1>1. /\ j \in Handled' /\ log'[j].valid /\ log'[j].card = c
      /\ log'[j].txn # features[c].row.txn
  BY DEF Matching
<1>2. CASE AppendHistory
  <2>1. PICK i \in Batch : /\ NextRow(i) /\ log[i].card = card
                           /\ Handled' = Handled \cup {i}
    BY <1>2, AppendMoves
  <2>2. log' = log /\ pc = "append"
    BY <1>2 DEF AppendHistory
  <2>3. PICK k \in Batch :
          /\ NextRow(k)
          /\ features[card] # None => features[card] = ComputeFeatures(working, log[k])
    BY <2>2 DEF InHand
  <2>4. k = i
    BY <2>1, <2>2, <2>3, NextRowUnique DEF Loops
  <2>5. j # i
    <3>. SUFFICES ASSUME j = i PROVE FALSE
      OBVIOUS
    <3>1. c = card
      BY <1>1, <2>1, <2>2
    <3>2. features[c].row = log[i]
      BY <2>3, <2>4, <3>1 DEF ComputeFeatures
    <3>. QED  BY <1>1, <2>2, <3>2
  <2>. QED  BY <1>1, <2>1, <2>2, <2>5
<1>3. CASE RejectRow
  <2>1. PICK i \in Batch : ~log[i].valid /\ Handled' = Handled \cup {i}
    BY <1>3, RejectMoves
  <2>2. log' = log
    BY <1>3 DEF RejectRow
  <2>. QED  BY <1>1, <2>1, <2>2
<1>4. CASE ~RejectRow /\ ~AppendHistory
  <2>1. Handled' \subseteq Handled
    BY <1>4, OtherMoves
  <2>. QED  BY <1>0, <1>1, <2>1
<1>. QED  BY <1>2, <1>3, <1>4

LEMMA StepWindowsHold ==
  ASSUME IInv, IInv', RedisInv, WindowsInv, [Next]_vars
  PROVE  WindowsHold'
<1>. USE DEF RedisInv, WindowsInv
<1>. SUFFICES ASSUME NEW c \in Card, features'[c] # None
              PROVE  /\ features'[c].row.card = c
                     /\ c \notin forgotten' /\ Len(history'[c]) < MaxHistoryLen =>
                          /\ features'[c].velocity_5min >=
                               Due(log', Handled', features'[c].row, FiveMinutes)
                          /\ features'[c].txn_count_24h >=
                               Due(log', Handled', features'[c].row, OneDay)
  BY DEF WindowsHold, Untrimmed
<1>1. CASE WriteFeatures /\ c = card
  <2>1. PICK i \in Batch :
          /\ log[i] \in Row /\ log[i].card = card /\ card \in Card
          /\ UNCHANGED <<log, history, forgotten, Seen, Handled>> /\ pc = "row"
          /\ features'[card] = ComputeFeatures(working, log[i])
    BY <1>1, FeaturesWritten
  <2>2. features'[c].row = log[i]
    BY <1>1, <2>1 DEF ComputeFeatures
  <2>3. ASSUME c \notin forgotten', Len(history'[c]) < MaxHistoryLen, NEW w
        PROVE  CountIn(working, log[i], w) >= Due(log', Handled', log[i], w)
    <3>1. Untrimmed(card)
      BY <1>1, <2>1, <2>3 DEF Untrimmed
    <3>. QED  BY <2>1, <3>1, RowCounted
  <2>. QED  BY <1>1, <2>1, <2>2, <2>3 DEF ComputeFeatures
<1>2. CASE ~(WriteFeatures /\ c = card)
  <2>1. features'[c] = features[c]
    BY <1>2, FeaturesBefore
  <2>2. features'[c].row.card = c /\ features[c] # None
    BY <2>1 DEF WindowsHold
  <2>. SUFFICES ASSUME c \notin forgotten', Len(history'[c]) < MaxHistoryLen
                PROVE  /\ features'[c].velocity_5min >=
                            Due(log', Handled', features'[c].row, FiveMinutes)
                       /\ features'[c].txn_count_24h >=
                            Due(log', Handled', features'[c].row, OneDay)
    BY <2>2
  <2>3. Untrimmed(c)
    BY WholeBefore
  <2>4. IsFiniteSet(Handled) /\ IsFiniteSet(Handled')
    BY SeenFinite, SeenFiniteNext
  <2>5. \A w : Due(log', Handled', features[c].row, w) <= Due(log, Handled, features[c].row, w)
    <3>. TAKE w
    <3>1. \A j \in Matching(log', Handled', features[c].row, w) : j \in Handled /\ log'[j] = log[j]
      BY <2>1, <2>2, HandledMatching
    <3>. QED  BY <2>4, <3>1, DueFewer
  <2>6. \A w : /\ Due(log, Handled, features[c].row, w) \in Nat
               /\ Due(log', Handled', features[c].row, w) \in Nat
    BY <2>4, MatchingFinite
  <2>7. features[c].velocity_5min \in Nat /\ features[c].txn_count_24h \in Nat
    BY <2>2 DEF IInv, TypeOK, FeatureVector
  <2>8. /\ features[c].velocity_5min >= Due(log, Handled, features[c].row, FiveMinutes)
        /\ features[c].txn_count_24h >= Due(log, Handled, features[c].row, OneDay)
    BY <2>2, <2>3 DEF WindowsHold
  <2>. QED  BY <2>1, <2>5, <2>6, <2>7, <2>8
<1>. QED  BY <1>1, <1>2

(* The local list the rows of a card are counted over, and the features    *)
(* computed from it, miss none of the card's rows read so far.             *)
THEOREM WindowsInvariant == Spec => []WindowsInv
<1>1. Init => WindowsInv
  BY DEF Init, WindowsInv, WorkingHolds, WindowsHold
<1>2. IInv /\ IInv' /\ RedisInv /\ WindowsInv /\ [Next]_vars => WindowsInv'
  BY StepWorkingHolds, StepWindowsHold DEF WindowsInv
<1>. QED  BY <1>1, <1>2, InductiveInvariant, RedisInvariant, PTL DEF Spec

(* The count of a window that is due is the one RowsIn states.             *)
LEMMA DueRows ==
  ASSUME NEW row, NEW w
  PROVE  RowsIn(row, w) = Due(log, Seen, row, w)
<1>1. {i \in 1 .. planned :
         /\ i \notin skipped /\ log[i].valid /\ log[i].card = row.card /\ log[i].txn # row.txn
         /\ row.at - w <= log[i].at /\ log[i].at <= row.at} = Matching(log, Seen, row, w)
  BY DEF Matching, Seen
<1>. QED  BY <1>1 DEF RowsIn, Due

(* Between batches every row is handled.                                   *)
LEMMA AllHandled ==
  ASSUME IInv, committed = planned
  PROVE  Handled = Seen
BY DEF IInv, TypeOK, Handled, Seen

(* process_batch, its replays and the batches' boundaries: the features of *)
(* a card whose history is whole count every transaction the job was given *)
(* that lies in their windows, also after a lost checkpoint.               *)
THEOREM WindowsNeverMiss == Spec => []WindowsComplete
<1>1. IInv /\ WindowsInv => WindowsComplete
  BY AllHandled, DueRows DEF WindowsComplete, WindowsInv, WindowsHold
<1>. QED  BY <1>1, InductiveInvariant, WindowsInvariant, PTL

(***************************************************************************)
(* Without a replay the windows are exact                                  *)
(***************************************************************************)

(* Until a batch is run again or left unfinished no row that was handled   *)
(* ceases to be.                                                           *)
LEMMA BasisGrows ==
  ASSUME IInv, IInv', Loops, [Next]_vars, Intact'
  PROVE  /\ Intact /\ Basis \subseteq Basis' /\ Basis \subseteq Seen
         /\ Seen \subseteq Seen'
<1>a. ~abandoned
  <2>1. CASE Subscribes
    BY <2>1 DEF Intact, Subscribes, StartAtLatest, IInv, TypeOK
  <2>2. CASE UNCHANGED losses
    BY <2>2 DEF Intact, losses
  <2>. QED  BY <2>1, <2>2, CheckpointStep
<1>r. ~replayed
  BY DEF Intact, Next, vars, ghosts, Publish, Consumer, ProcessBatch, Start, BeginBatch, LoadCard,
         SortFails, RejectRow, WriteFeatures, AppendHistory, PersistTransactions, WriteAuditLog,
         SetLagGauge, LagGaugeFails, CommitBatch, Crash, ExpireFeatures, ExpireHistory
<1>1. Intact
  BY <1>a, <1>r DEF Intact
<1>2. Handled \subseteq Seen /\ Basis \subseteq Seen /\ Handled' \subseteq Seen'
  BY DEF Basis, Handled
<1>3. Seen \subseteq Seen'
  <2>1. CASE Subscribes
    <3>1. /\ planned' = Len(log)
          /\ skipped' = skipped \cup (committed + 1 .. Len(log))
          /\ ~(committed < planned)
      BY <2>1 DEF Subscribes, StartAtLatest, Intact
    <3>2. /\ committed \in Nat /\ planned \in Nat /\ Len(log) \in Nat
          /\ committed <= planned /\ planned <= Len(log)
      BY DEF IInv, TypeOK, OffsetsOrdered
    <3>3. ASSUME NEW i \in Seen PROVE i \in Seen'
      <4>1. i \in 1 .. planned /\ i \notin skipped
        BY DEF Seen
      <4>2. i \in 1 .. Len(log) /\ ~(i \in committed + 1 .. Len(log))
        BY <3>1, <3>2, <4>1
      <4>. QED  BY <3>1, <4>1, <4>2 DEF Seen
    <3>. QED  BY <3>3
  <2>2. CASE (CommitBatch /\ UNCHANGED losses) \/ UNCHANGED <<checkpoint, losses>>
    BY <2>2 DEF CommitBatch, checkpoint, losses, Seen
  <2>3. CASE BeginBatch /\ UNCHANGED losses
    <3>1. planned \in Nat /\ planned' \in Nat /\ planned <= planned' /\ skipped' = skipped
      BY <2>3, PipelineAssumption DEF BeginBatch, losses, IInv, TypeOK, OffsetsOrdered
    <3>. QED  BY <3>1 DEF Seen
  <2>. QED  BY <2>1, <2>2, <2>3, CheckpointStep
<1>4. CASE pc' \in {"down", "idle"}
  <2>1. Basis' = Seen'
    BY <1>4 DEF Basis
  <2>. QED  BY <1>1, <1>2, <1>3, <2>1
<1>5. CASE BeginBatch
  <2>1. committed = planned /\ committed' = committed /\ pc' = "load"
    BY <1>5 DEF BeginBatch, Intact
  <2>2. \A i \in Seen : i <= committed
    BY <2>1 DEF Seen, IInv, TypeOK
  <2>3. Seen \subseteq Handled' /\ Basis' = Handled'
    BY <1>3, <2>1, <2>2 DEF Basis, Handled
  <2>. QED  BY <1>1, <1>2, <2>3
<1>6. CASE RejectRow
  <2>1. Handled \subseteq Handled' /\ pc = "row"
    BY <1>6, RejectMoves DEF RejectRow
  <2>2. Basis = Handled
    BY <2>1 DEF Basis
  <2>. QED  BY <1>1, <1>2, <1>3, <2>1, <2>2 DEF Basis
<1>7. CASE AppendHistory
  <2>1. Handled \subseteq Handled' /\ pc = "append"
    BY <1>7, AppendMoves DEF AppendHistory
  <2>2. Basis = Handled
    BY <2>1 DEF Basis
  <2>. QED  BY <1>1, <1>2, <1>3, <2>1, <2>2 DEF Basis
<1>8. CASE \/ LoadCard \/ WriteFeatures \/ PersistTransactions \/ WriteAuditLog \/ SetLagGauge
           \/ UNCHANGED <<checkpoint, losses, driver>>
  <2>1. UNCHANGED <<checkpoint, losses, done>>
    BY <1>8 DEF LoadCard, WriteFeatures, PersistTransactions, WriteAuditLog, SetLagGauge, driver, ghosts
  <2>2. pc \in {"down", "idle"} => pc' = pc
    BY <1>8 DEF LoadCard, WriteFeatures, PersistTransactions, WriteAuditLog, SetLagGauge, driver
  <2>3. Seen' = Seen /\ Handled' = Handled
    BY <2>1 DEF Seen, Handled, checkpoint, losses
  <2>. QED  BY <1>1, <1>2, <2>2, <2>3 DEF Basis
<1>9. \/ pc' \in {"down", "idle"} \/ BeginBatch \/ RejectRow \/ AppendHistory
      \/ LoadCard \/ WriteFeatures \/ PersistTransactions \/ WriteAuditLog \/ SetLagGauge
      \/ UNCHANGED <<checkpoint, losses, driver>>
  BY DEF Next, vars, ghosts, Publish, Consumer, ProcessBatch, Start, SortFails, Exit, LagGaugeFails,
         CommitBatch, Crash, ExpireFeatures, ExpireHistory
<1>. QED  BY <1>1, <1>2, <1>3, <1>4, <1>5, <1>6, <1>7, <1>8, <1>9

LEMMA ListsMore ==
  ASSUME NEW s, NEW l, NEW m, NEW S, NEW T, NEW c,
         ListsOnce(s, l, S, c), S \subseteq T, \A i \in S : m[i] = l[i]
  PROVE  ListsOnce(s, m, T, c)
BY DEF ListsOnce

LEMMA ListsPushed ==
  ASSUME NEW h \in Seq(Row), Len(h) <= MaxHistoryLen, NEW l, NEW S, NEW c, NEW i,
         ListsOnce(h, l, S, c), i \notin S, \A j \in S : l[j] # l[i],
         l[i] \in Row, l[i].valid, l[i].card = c
  PROVE  ListsOnce(Pushed(h, l[i]), l, S \cup {i}, c)
<1>. DEFINE p == Pushed(h, l[i])
<1>1. /\ DOMAIN p = 1 .. Len(p) /\ p[1] = l[i] /\ Len(p) \in Nat
      /\ \A k \in DOMAIN p : k = 1 \/ (k - 1 \in DOMAIN h /\ p[k] = h[k - 1])
  BY PushedRows
<1>. HIDE DEF p
<1>2. \A k \in DOMAIN h : h[k] # l[i]
  BY DEF ListsOnce
<1>3. Once(p)
  <2>. SUFFICES ASSUME NEW k \in DOMAIN p, NEW m \in DOMAIN p, p[k] = p[m] PROVE k = m
    BY DEF Once
  <2>1. CASE k = 1 /\ m = 1
    BY <2>1
  <2>2. CASE k = 1 /\ m # 1
    BY <1>1, <1>2, <2>2
  <2>3. CASE k # 1 /\ m = 1
    BY <1>1, <1>2, <2>3
  <2>4. CASE k # 1 /\ m # 1
    <3>1. k - 1 \in DOMAIN h /\ m - 1 \in DOMAIN h /\ h[k - 1] = h[m - 1] /\ k \in Nat /\ m \in Nat
      BY <1>1, <2>4
    <3>2. k - 1 = m - 1
      BY <3>1 DEF ListsOnce, Once
    <3>. QED  BY <3>1, <3>2
  <2>. QED  BY <2>1, <2>2, <2>3, <2>4
<1>4. ASSUME NEW k \in DOMAIN p
      PROVE  \E j \in S \cup {i} : l[j] = p[k] /\ l[j].valid /\ l[j].card = c
  BY <1>1 DEF ListsOnce
<1>. QED  BY <1>3, <1>4 DEF ListsOnce, p

LEMMA ListsAppended ==
  ASSUME NEW h \in Seq(Row), NEW l, NEW S, NEW c, NEW i,
         ListsOnce(h, l, S, c), i \notin S, \A j \in S : l[j] # l[i],
         l[i] \in Row, l[i].valid, l[i].card = c
  PROVE  ListsOnce(Append(h, l[i]), l, S \cup {i}, c)
<1>. DEFINE p == Append(h, l[i])
<1>1. /\ DOMAIN p = DOMAIN h \cup {Len(h) + 1} /\ \A k \in DOMAIN h : p[k] = h[k]
      /\ p[Len(h) + 1] = l[i]
  BY EntriesAppend
<1>. HIDE DEF p
<1>2. \A k \in DOMAIN h : h[k] # l[i]
  BY DEF ListsOnce
<1>3. Once(p)
  BY <1>1, <1>2 DEF Once, ListsOnce
<1>4. ASSUME NEW k \in DOMAIN p
      PROVE  \E j \in S \cup {i} : l[j] = p[k] /\ l[j].valid /\ l[j].card = c
  BY <1>1 DEF ListsOnce
<1>. QED  BY <1>3, <1>4 DEF ListsOnce, p

(* The row the history gets is a valid one that no list holds yet.         *)
LEMMA RowIsNew ==
  ASSUME IInv, RedisInv, AppendHistory
  PROVE  \E i \in Batch :
           /\ log[i] \in Row /\ log[i].valid /\ log[i].card = card /\ card \in Card
           /\ i \notin Handled /\ \A j \in Handled : log[j] # log[i]
           /\ history' = [history EXCEPT ![card] = Pushed(@, log[i])]
           /\ working' = Append(working, log[i])
           /\ Handled' = Handled \cup {i}
<1>. USE DEF RedisInv
<1>1. PICK i \in Batch :
        /\ NextRow(i) /\ i \in Seen \ Handled /\ log[i] \in Row /\ log[i].card = card
        /\ history' = [history EXCEPT ![card] = Pushed(@, log[i])]
        /\ working' = Append(working, log[i])
        /\ Handled' = Handled \cup {i}
  BY AppendMoves
<1>2. pc = "append"
  BY DEF AppendHistory
<1>3. PICK j \in Batch : NextRow(j) /\ log[j].valid
  BY <1>2 DEF InHand
<1>4. j = i /\ card \in Card
  BY <1>1, <1>2, <1>3, NextRowUnique DEF Loops, InHand
<1>5. \A k \in Handled : k \in DOMAIN log /\ i \in DOMAIN log
  BY <1>1, SeenRows DEF Handled
<1>6. \A k \in Handled : log[k] # log[i]
  BY <1>1, <1>5 DEF Distinct, Once
<1>. QED  BY <1>1, <1>3, <1>4, <1>6

LEMMA StepHistoryOnce ==
  ASSUME IInv, IInv', RedisInv, HistoryOnce, [Next]_vars
  PROVE  HistoryOnce'
<1>. USE DEF RedisInv
<1>. SUFFICES ASSUME Intact', NEW c \in Card PROVE ListsOnce(history'[c], log', Basis', c)
  BY DEF HistoryOnce
<1>1. Intact /\ Basis \subseteq Basis' /\ \A i \in Basis : log'[i] = log[i]
  BY BasisGrows, RowsStay
<1>2. ListsOnce(history[c], log, Basis, c)
  BY <1>1 DEF HistoryOnce
<1>3. ListsOnce(history[c], log', Basis', c)
  BY <1>1, <1>2, ListsMore
<1>4. history \in [Card -> Seq(Row)] /\ \A d \in Card : Len(history[d]) <= MaxHistoryLen
  BY DEF IInv, TypeOK
<1>5. CASE AppendHistory
  <2>1. PICK i \in Batch :
          /\ log[i] \in Row /\ log[i].valid /\ log[i].card = card /\ card \in Card
          /\ i \notin Handled /\ \A j \in Handled : log[j] # log[i]
          /\ history' = [history EXCEPT ![card] = Pushed(@, log[i])]
          /\ Handled' = Handled \cup {i}
    BY <1>5, RowIsNew
  <2>2. log' = log /\ Basis = Handled /\ Handled' \subseteq Basis'
    <3>1. pc = "append" /\ pc' \notin {"down", "idle"} /\ log' = log
      BY <1>5 DEF AppendHistory, LoopAfter
    <3>. QED  BY <3>1 DEF Basis
  <2>3. CASE c = card
    <3>1. ListsOnce(Pushed(history[c], log[i]), log, Handled \cup {i}, c)
      BY <1>2, <1>4, <2>1, <2>2, <2>3, ListsPushed
    <3>2. history'[c] = Pushed(history[c], log[i])
      BY <1>4, <2>1, <2>3
    <3>3. Handled \cup {i} \subseteq Basis'
      BY <2>1, <2>2
    <3>. QED  BY <2>2, <3>1, <3>2, <3>3, ListsMore
  <2>4. CASE c # card
    <3>1. history'[c] = history[c]
      BY <1>4, <2>1, <2>4
    <3>. QED  BY <1>3, <3>1
  <2>. QED  BY <2>3, <2>4
<1>6. ASSUME NEW d \in Card, ExpireHistory(d) PROVE ListsOnce(history'[c], log', Basis', c)
  <2>1. history'[c] = history[c] \/ history'[c] = <<>>
    BY <1>4, <1>6 DEF ExpireHistory
  <2>. QED  BY <1>3, <2>1 DEF ListsOnce, Once
<1>7. CASE UNCHANGED <<history, forgotten>>
  BY <1>3, <1>7
<1>. QED  BY <1>5, <1>6, <1>7, RedisMoves

LEMMA StepWorkingOnce ==
  ASSUME IInv, IInv', RedisInv, HistoryOnce, WorkingOnce, [Next]_vars
  PROVE  WorkingOnce'
<1>. USE DEF RedisInv
<1>. SUFFICES ASSUME Intact', pc' \in {"row", "append"}, card' \in Card
              PROVE  ListsOnce(working', log', Handled', card')
  BY DEF WorkingOnce
<1>1. Intact /\ \A i \in Handled : log'[i] = log[i]
  BY BasisGrows, RowsStay DEF Handled
<1>2. CASE LoadCard
  <2>1. Handled' = Handled /\ log' = log /\ working' = history[card'] /\ Basis = Handled
    BY <1>2, RowAssumption DEF LoadCard, Handled, Seen, checkpoint, ghosts, losses, Basis
  <2>. QED  BY <1>1, <2>1 DEF HistoryOnce
<1>3. CASE RejectRow
  <2>1. Handled \subseteq Handled' /\ UNCHANGED <<log, card, working>> /\ pc = "row"
    BY <1>3, RejectMoves DEF RejectRow
  <2>2. ListsOnce(working, log, Handled, card)
    BY <1>1, <2>1 DEF WorkingOnce
  <2>. QED  BY <2>1, <2>2, ListsMore
<1>4. CASE AppendHistory
  <2>1. PICK i \in Batch :
          /\ log[i] \in Row /\ log[i].valid /\ log[i].card = card /\ card \in Card
          /\ i \notin Handled /\ \A j \in Handled : log[j] # log[i]
          /\ working' = Append(working, log[i])
          /\ Handled' = Handled \cup {i}
    BY <1>4, RowIsNew
  <2>2. UNCHANGED <<log, card>> /\ pc = "append" /\ working \in Seq(Row)
    BY <1>4 DEF AppendHistory, IInv, TypeOK
  <2>3. ListsOnce(working, log, Handled, card)
    BY <1>1, <2>1, <2>2 DEF WorkingOnce
  <2>4. ListsOnce(Append(working, log[i]), log, Handled \cup {i}, card)
    BY <2>1, <2>2, <2>3, ListsAppended
  <2>. QED  BY <2>1, <2>2, <2>4
<1>5. CASE WriteFeatures \/ UNCHANGED <<checkpoint, losses, driver>>
  <2>1. Handled' = Handled /\ UNCHANGED <<card, working>> /\ pc \in {"row", "append"}
    BY <1>5 DEF WriteFeatures, Handled, Seen, checkpoint, ghosts, losses, driver
  <2>2. ListsOnce(working, log, Handled, card)
    BY <1>1, <2>1 DEF WorkingOnce
  <2>. QED  BY <1>1, <2>1, <2>2, ListsMore
<1>. QED  BY <1>2, <1>3, <1>4, <1>5, LoopMoves

(* The count that WriteFeatures stores holds nothing it should not.        *)
LEMMA RowNotOverCounted ==
  ASSUME IInv, RedisInv, WorkingOnce, Intact, pc = "row", card \in Card,
         NEW row, row.card = card, NEW w
  PROVE  CountIn(working, row, w) <= Due(log, Seen, row, w)
<1>1. working \in Seq(Row) /\ IsFiniteSet(Seen)
  BY SeenFinite DEF IInv, TypeOK
<1>2. ListsOnce(working, log, Handled, card)
  BY DEF WorkingOnce
<1>3. Once(working)
  BY <1>2 DEF ListsOnce
<1>4. ASSUME NEW k \in InWindow(working, row, w)
      PROVE  \E j \in Matching(log, Seen, row, w) : log[j] = working[k]
  <2>1. /\ k \in DOMAIN working /\ working[k].txn # row.txn
        /\ row.at - w <= working[k].at /\ working[k].at <= row.at
    BY DEF InWindow, Past
  <2>2. PICK j \in Handled : log[j] = working[k] /\ log[j].valid /\ log[j].card = card
    BY <1>2, <2>1 DEF ListsOnce
  <2>3. j \in Seen
    BY <2>2 DEF Handled
  <2>. QED  BY <2>1, <2>2, <2>3 DEF Matching
<1>. QED  BY <1>1, <1>3, <1>4, CountsNoOther

LEMMA StepWindowsNoMore ==
  ASSUME IInv, IInv', RedisInv, ExactInv, [Next]_vars
  PROVE  WindowsNoMore'
<1>. USE DEF RedisInv, ExactInv
<1>. SUFFICES ASSUME Intact', NEW c \in Card, features'[c] # None
              PROVE  /\ features'[c].velocity_5min <=
                          Due(log', Seen', features'[c].row, FiveMinutes)
                     /\ features'[c].txn_count_24h <=
                          Due(log', Seen', features'[c].row, OneDay)
  BY DEF WindowsNoMore
<1>1. Intact
  BY BasisGrows
<1>2. CASE WriteFeatures /\ c = card
  <2>1. PICK i \in Batch :
          /\ log[i].card = card /\ card \in Card
          /\ UNCHANGED <<log, Seen>> /\ pc = "row"
          /\ features'[card] = ComputeFeatures(working, log[i])
    BY <1>2, FeaturesWritten
  <2>2. \A w : CountIn(working, log[i], w) <= Due(log', Seen', log[i], w)
    BY <1>1, <2>1, RowNotOverCounted
  <2>. QED  BY <1>2, <2>1, <2>2 DEF ComputeFeatures
<1>3. CASE ~(WriteFeatures /\ c = card)
  <2>1. features'[c] = features[c]
    BY <1>3, FeaturesBefore
  <2>2. IsFiniteSet(Seen) /\ IsFiniteSet(Seen') /\ Seen \subseteq Seen'
    BY SeenFinite, SeenFiniteNext, BasisGrows
  <2>3. \A w : Due(log, Seen, features[c].row, w) <= Due(log', Seen', features[c].row, w)
    <3>. TAKE w
    <3>1. \A i \in Matching(log, Seen, features[c].row, w) : i \in Seen' /\ log[i] = log'[i]
      BY <2>2, RowsStay DEF Matching
    <3>. QED  BY <2>2, <3>1, DueFewer
  <2>4. \A w : /\ Due(log, Seen, features[c].row, w) \in Nat
               /\ Due(log', Seen', features[c].row, w) \in Nat
    BY <2>2, MatchingFinite
  <2>5. features[c].velocity_5min \in Nat /\ features[c].txn_count_24h \in Nat
    BY <2>1 DEF IInv, TypeOK, FeatureVector
  <2>6. /\ features[c].velocity_5min <= Due(log, Seen, features[c].row, FiveMinutes)
        /\ features[c].txn_count_24h <= Due(log, Seen, features[c].row, OneDay)
    BY <1>1, <2>1 DEF WindowsNoMore
  <2>. QED  BY <2>1, <2>3, <2>4, <2>5, <2>6
<1>. QED  BY <1>2, <1>3

(* As long as no batch is run again or left unfinished, no list holds a    *)
(* row twice or one that was skipped, so that no window counts it either.  *)
THEOREM ExactInvariant == Spec => []ExactInv
<1>1. Init => ExactInv
  BY DEF Init, ExactInv, HistoryOnce, WorkingOnce, WindowsNoMore, ListsOnce, Once
<1>2. IInv /\ IInv' /\ RedisInv /\ ExactInv /\ [Next]_vars => ExactInv'
  BY StepHistoryOnce, StepWorkingOnce, StepWindowsNoMore DEF ExactInv
<1>. QED  BY <1>1, <1>2, InductiveInvariant, RedisInvariant, PTL DEF Spec

(* The docstring's "correct 1h/24h windows ... even across micro-batch     *)
(* boundaries" holds of every card whose history is whole as long as every *)
(* batch is run once, to its end.                                          *)
THEOREM WindowsExactWithoutReplay == Spec => []WindowsExactUnlessReplayed
<1>1. ASSUME IInv, WindowsInv, ExactInv PROVE WindowsExactUnlessReplayed
  <2>. SUFFICES ASSUME Intact, committed = planned,
                       NEW c \in Card, features[c] # None, Untrimmed(c)
                PROVE  /\ features[c].velocity_5min = RowsIn(features[c].row, FiveMinutes)
                       /\ features[c].txn_count_24h = RowsIn(features[c].row, OneDay)
    BY DEF WindowsExactUnlessReplayed, WindowsExact, Intact
  <2>1. /\ features[c].velocity_5min >= RowsIn(features[c].row, FiveMinutes)
        /\ features[c].txn_count_24h >= RowsIn(features[c].row, OneDay)
    BY <1>1, AllHandled, DueRows DEF WindowsInv, WindowsHold
  <2>2. /\ features[c].velocity_5min <= RowsIn(features[c].row, FiveMinutes)
        /\ features[c].txn_count_24h <= RowsIn(features[c].row, OneDay)
    BY <1>1, DueRows DEF ExactInv, WindowsNoMore
  <2>3. features[c].velocity_5min \in Nat /\ features[c].txn_count_24h \in Nat
    BY <1>1 DEF IInv, TypeOK, FeatureVector
  <2>4. \A w : RowsIn(features[c].row, w) \in Nat
    BY <1>1, DueRows, SeenFinite, MatchingFinite
  <2>. QED  BY <2>1, <2>2, <2>3, <2>4
<1>. QED  BY <1>1, InductiveInvariant, WindowsInvariant, ExactInvariant, PTL
=============================================================================
