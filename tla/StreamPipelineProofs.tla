------------------------ MODULE StreamPipelineProofs ------------------------
(***************************************************************************)
(* Proofs about StreamPipeline, for every set of rows and every value of   *)
(* the bounds: type correctness, no loss of committed transactions, and    *)
(* that the job implements TransactionSink.                                *)
(***************************************************************************)
EXTENDS StreamPipeline, FiniteSetTheorems, TLAPS

(***************************************************************************)
(* The inductive invariant                                                 *)
(***************************************************************************)

(* The checkpoint's offsets are ordered, what was skipped lies behind them,*)
(* and nothing is planned before the query subscribes.                     *)
OffsetsOrdered ==
  /\ skipped \subseteq 1 .. committed
  /\ committed <= planned
  /\ planned <= Len(log)
  /\ pc = "new" => planned = 0

(* Once the INSERT of a batch has committed, its valid rows are in.        *)
BatchPersisted ==
  pc \in {"audit", "lag", "commit"} =>
    \A i \in Valid : transactions[log[i].txn] # None

IInv == TypeOK /\ OffsetsOrdered /\ BatchPersisted /\ CommittedPersisted

(***************************************************************************)
(* Lemmas about the operators                                              *)
(***************************************************************************)

(* A window of a history holds finitely many transactions, so its count is *)
(* a positive number: velocity_5min, txn_count_1h and txn_count_24h.       *)
LEMMA CountInType ==
  ASSUME NEW S, NEW h \in Seq(S), NEW r, NEW w
  PROVE  /\ CountIn(h, r, w) \in Nat
         /\ CountIn(h, r, w) >= 1
<1>1. IsFiniteSet(1 .. Len(h))
  BY FS_Interval
<1>2. InWindow(h, r, w) \subseteq 1 .. Len(h)
  BY DEF InWindow, Past
<1>3. Cardinality(InWindow(h, r, w)) \in Nat
  BY <1>1, <1>2, FS_Subset, FS_CardinalityType
<1>. QED  BY <1>3 DEF CountIn

(* LPUSH followed by LTRIM leaves a list of rows within the limit.         *)
LEMMA PushedType ==
  ASSUME NEW h \in Seq(Row), NEW r \in Row
  PROVE  Pushed(h, r) \in Seq(Row) /\ Len(Pushed(h, r)) <= MaxHistoryLen
<1>1. <<r>> \o h \in Seq(Row) /\ Len(<<r>> \o h) = Len(h) + 1
  OBVIOUS
<1>2. MaxHistoryLen \in Nat \ {0}
  BY PipelineAssumption
<1>3. CASE Len(h) + 1 <= MaxHistoryLen
  BY <1>1, <1>2, <1>3 DEF Pushed
<1>4. CASE ~(Len(h) + 1 <= MaxHistoryLen)
  BY <1>1, <1>2, <1>4 DEF Pushed
<1>. QED  BY <1>3, <1>4

(* The rows of a batch are rows of the log.                                *)
LEMMA BatchInLog ==
  ASSUME TypeOK, OffsetsOrdered, NEW i \in Batch
  PROVE  i \in Nat /\ i \in DOMAIN log /\ log[i] \in Row
BY DEF Batch, TypeOK, OffsetsOrdered

LEMMA BatchFinite ==
  ASSUME TypeOK
  PROVE  IsFiniteSet(Batch)
<1>1. committed + 1 \in Int /\ planned \in Int
  BY DEF TypeOK
<1>. QED  BY <1>1, FS_Interval DEF Batch

LEMMA RowType ==
  ASSUME NEW r \in Row
  PROVE  /\ r.txn \in Txn
         /\ r.valid \in BOOLEAN
         /\ r.card \in Card \cup {NoCard}
         /\ r.valid => r.card \in Card
         /\ r # None
BY RowAssumption

(***************************************************************************)
(* Every step keeps TypeOK                                                 *)
(***************************************************************************)
LEMMA InitType == Init => TypeOK
<1>. SUFFICES ASSUME Init PROVE TypeOK
  OBVIOUS
<1>1. replayed \in BOOLEAN /\ abandoned \in BOOLEAN
  BY DEF Init
<1>. QED  BY <1>1, PipelineAssumption DEF Init, TypeOK, Running

LEMMA StepType ==
  ASSUME TypeOK, OffsetsOrdered, [Next]_vars
  PROVE  TypeOK'
<1>. USE PipelineAssumption
<1>1. ASSUME NEW r \in Row, Publish(r) PROVE TypeOK'
  BY <1>1 DEF Publish, TypeOK, checkpoint, redis, postgres, driver, ghosts, losses
<1>2. CASE Start
  <2>1. /\ planned' \in Nat /\ committed' \in Nat
        /\ skipped' \subseteq Nat /\ abandoned' \in BOOLEAN
    <3>1. CASE StartAtLatest
      <4>1. Len(log) \in Nat /\ committed \in Nat /\ skipped \subseteq Nat
        BY DEF TypeOK
      <4>2. committed + 1 .. Len(log) \subseteq Nat
        BY <4>1
      <4>3. abandoned' \in BOOLEAN
        BY <3>1 DEF StartAtLatest, TypeOK
      <4>. QED  BY <3>1, <4>1, <4>2, <4>3 DEF StartAtLatest
    <3>2. CASE StartAtCheckpoint
      BY <3>2 DEF StartAtCheckpoint, checkpoint, losses, TypeOK
    <3>. QED  BY <1>2, <3>1, <3>2 DEF Start
  <2>. QED  BY <1>2, <2>1 DEF Start, TypeOK, redis, postgres, Running
<1>3. CASE BeginBatch
  <2>1. planned' \in Nat
    BY <1>3 DEF BeginBatch, TypeOK
  <2>. QED  BY <1>3, <2>1 DEF BeginBatch, TypeOK, redis, postgres, losses, Running
<1>4. CASE LoadCard
  <2>1. PICK c \in Card \cup {NoCard} :
          card' = c /\ working' = IF c = NoCard THEN <<>> ELSE history[c]
    BY <1>4 DEF LoadCard
  <2>2. working' \in Seq(Row)
    BY <2>1 DEF TypeOK
  <2>. QED  BY <1>4, <2>1, <2>2 DEF LoadCard, TypeOK, checkpoint, redis, postgres, ghosts, losses, Running
<1>5. CASE SortFails
  BY <1>5 DEF SortFails, Exit, TypeOK, checkpoint, redis, postgres, ghosts, losses, Running
<1>6. CASE RejectRow
  <2>1. done' \subseteq Nat
    BY <1>6, BatchInLog DEF RejectRow, TypeOK
  <2>2. pc' \in Running
    BY <1>6 DEF RejectRow, LoopAfter, Running
  <2>. QED  BY <1>6, <2>1, <2>2 DEF RejectRow, TypeOK, checkpoint, redis, postgres, ghosts, losses
<1>7. CASE WriteFeatures
  <2>1. PICK i \in Batch :
          features' = [features EXCEPT ![card] = ComputeFeatures(working, log[i])]
    BY <1>7 DEF WriteFeatures
  <2>2. ComputeFeatures(working, log[i]) \in FeatureVector
    BY BatchInLog, CountInType DEF ComputeFeatures, FeatureVector, TypeOK
  <2>3. features' \in [Card -> FeatureVector \cup {None}]
    BY <2>1, <2>2 DEF TypeOK
  <2>. QED  BY <1>7, <2>3 DEF WriteFeatures, TypeOK, checkpoint, postgres, ghosts, losses, Running
<1>8. CASE AppendHistory
  <2>1. PICK i \in Batch :
          /\ history' = [history EXCEPT ![card] = Pushed(@, log[i])]
          /\ working' = Append(working, log[i])
          /\ done' = done \cup {i}
    BY <1>8 DEF AppendHistory
  <2>2. i \in Nat /\ log[i] \in Row
    BY BatchInLog
  <2>3. history' \in [Card -> Seq(Row)] /\ \A c \in Card : Len(history'[c]) <= MaxHistoryLen
    BY <2>1, <2>2, PushedType DEF TypeOK
  <2>4. working' \in Seq(Row) /\ done' \subseteq Nat
    BY <2>1, <2>2 DEF TypeOK
  <2>5. pc' \in Running
    BY <1>8 DEF AppendHistory, LoopAfter, Running
  <2>. QED  BY <1>8, <2>3, <2>4, <2>5 DEF AppendHistory, TypeOK, checkpoint, postgres, ghosts, losses
<1>9. CASE PersistTransactions
  <2>1. PICK first \in [Txn -> Batch \cup {0}] : transactions' = Upserted(first)
    BY <1>9 DEF PersistTransactions
  <2>2. \A t \in Txn : first[t] # 0 => log[first[t]] \in Row
    BY BatchInLog
  <2>3. transactions' \in [Txn -> Row \cup {None}]
    BY <2>1, <2>2 DEF Upserted, TypeOK
  <2>. QED  BY <1>9, <2>3 DEF PersistTransactions, TypeOK, checkpoint, redis, ghosts, losses, Running
<1>10. CASE WriteAuditLog
  <2>1. IsFiniteSet(Invalid)
    BY BatchFinite, FS_Subset DEF Invalid
  <2>2. Cardinality(Invalid) \in Nat /\ committed + 1 \in Nat /\ planned \in Nat
    BY <2>1, FS_CardinalityType DEF TypeOK
  <2>3. audit' \subseteq [first : Nat, last : Nat, invalid : Nat]
    BY <1>10, <2>2 DEF WriteAuditLog, TypeOK
  <2>. QED  BY <1>10, <2>3 DEF WriteAuditLog, TypeOK, checkpoint, redis, ghosts, losses, Running
<1>11. CASE SetLagGauge
  BY <1>11 DEF SetLagGauge, TypeOK, checkpoint, redis, postgres, ghosts, losses, Running
<1>12. CASE LagGaugeFails
  BY <1>12 DEF LagGaugeFails, Exit, TypeOK, checkpoint, redis, postgres, ghosts, losses, Running
<1>13. CASE CommitBatch
  BY <1>13 DEF CommitBatch, TypeOK, redis, postgres, ghosts, losses, Running
<1>14. CASE Crash
  BY <1>14 DEF Crash, Exit, TypeOK, checkpoint, redis, postgres, losses, Running
<1>15. ASSUME NEW c \in Card, ExpireFeatures(c) PROVE TypeOK'
  BY <1>15 DEF ExpireFeatures, TypeOK, checkpoint, postgres, driver, ghosts, losses
<1>16. ASSUME NEW c \in Card, ExpireHistory(c) PROVE TypeOK'
  BY <1>16 DEF ExpireHistory, TypeOK, checkpoint, postgres, driver, losses
<1>17. CASE UNCHANGED vars
  BY <1>17 DEF vars, TypeOK, checkpoint, redis, postgres, driver, ghosts, losses
<1>. QED
  BY <1>1, <1>2, <1>3, <1>4, <1>5, <1>6, <1>7, <1>8, <1>9, <1>10, <1>11, <1>12,
     <1>13, <1>14, <1>15, <1>16, <1>17
  DEF Next, Consumer, ProcessBatch

(***************************************************************************)
(* The checkpoint and the table                                            *)
(***************************************************************************)

(* A step leaves the topic as it is or appends a row.                      *)
LEMMA LogGrows ==
  ASSUME [Next]_vars
  PROVE  log' = log \/ \E r \in Row : log' = Append(log, r)
BY DEF Next, vars, Publish, Consumer, ProcessBatch, Start, BeginBatch, LoadCard, SortFails,
       RejectRow, WriteFeatures, AppendHistory, PersistTransactions, WriteAuditLog,
       SetLagGauge, LagGaugeFails, CommitBatch, Crash, ExpireFeatures, ExpireHistory

(* The topic only grows: an offset keeps its row.                          *)
LEMMA LogStable ==
  ASSUME TypeOK, [Next]_vars
  PROVE  /\ Len(log) \in Nat /\ Len(log) <= Len(log')
         /\ \A i \in 1 .. Len(log) : i \in DOMAIN log' /\ log'[i] = log[i]
<1>1. CASE log' = log
  BY <1>1 DEF TypeOK
<1>2. ASSUME NEW r \in Row, log' = Append(log, r)
      PROVE  /\ Len(log) <= Len(log')
             /\ \A i \in 1 .. Len(log) : i \in DOMAIN log' /\ log'[i] = log[i]
  BY <1>2 DEF TypeOK
<1>. QED  BY <1>1, <1>2, LogGrows DEF TypeOK

(* A start without a checkpoint.                                           *)
Subscribes == Start /\ StartAtLatest

(* The checkpoint moves in three steps only, and only a subscription skips *)
(* anything.                                                               *)
LEMMA CheckpointStep ==
  ASSUME [Next]_vars
  PROVE  \/ Subscribes
         \/ BeginBatch /\ UNCHANGED losses
         \/ CommitBatch /\ UNCHANGED losses
         \/ UNCHANGED <<checkpoint, losses>>
<1>1. CASE Start
  BY <1>1 DEF Start, StartAtCheckpoint, Subscribes
<1>2. CASE ~Start
  BY <1>2 DEF Next, vars, ghosts, Publish, Consumer, ProcessBatch, LoadCard, SortFails,
       RejectRow, WriteFeatures, AppendHistory, PersistTransactions, WriteAuditLog, BeginBatch,
       CommitBatch, SetLagGauge, LagGaugeFails, Crash, ExpireFeatures, ExpireHistory
<1>. QED  BY <1>1, <1>2

(* The table moves in one.                                                 *)
LEMMA TableStep ==
  ASSUME [Next]_vars
  PROVE  PersistTransactions \/ UNCHANGED transactions
BY DEF Next, vars, postgres, Publish, Consumer, ProcessBatch, Start, BeginBatch, LoadCard, SortFails,
       RejectRow, WriteFeatures, AppendHistory, WriteAuditLog,
       SetLagGauge, LagGaugeFails, CommitBatch, Crash, ExpireFeatures, ExpireHistory

(* The job subscribes by starting, and never forgets that it did.          *)
LEMMA SubscribedStep ==
  ASSUME [Next]_vars
  PROVE  /\ pc # "new" => pc' # "new"
         /\ pc = "new" /\ pc' # "new" => Start
BY DEF Next, vars, driver, Publish, Consumer, ProcessBatch, Start, BeginBatch, LoadCard, SortFails,
       RejectRow, WriteFeatures, AppendHistory, PersistTransactions, WriteAuditLog, LoopAfter,
       SetLagGauge, LagGaugeFails, CommitBatch, Crash, ExpireFeatures, ExpireHistory, Exit,
       Unsortable, Running

LEMMA StepOffsets ==
  ASSUME TypeOK, TypeOK', OffsetsOrdered, [Next]_vars
  PROVE  OffsetsOrdered'
<1>. USE LogStable
<1>1. CASE Subscribes
  <2>1. /\ pc' = "idle" /\ planned' = Len(log) /\ committed' = Len(log) /\ log' = log
        /\ skipped' = skipped \cup (committed + 1 .. Len(log))
    BY <1>1 DEF Subscribes, Start, StartAtLatest
  <2>2. /\ committed \in Nat /\ Len(log) \in Nat /\ committed <= Len(log)
        /\ skipped \subseteq 1 .. committed
    BY DEF TypeOK, OffsetsOrdered
  <2>3. ASSUME NEW i \in skipped' PROVE i \in 1 .. Len(log)
    <3>1. CASE i \in skipped
      BY <2>2, <3>1
    <3>2. CASE i \in committed + 1 .. Len(log)
      BY <2>2, <3>2
    <3>. QED  BY <2>1, <3>1, <3>2
  <2>. QED  BY <2>1, <2>2, <2>3 DEF OffsetsOrdered
<1>2. CASE BeginBatch /\ UNCHANGED losses
  BY <1>2, PipelineAssumption DEF BeginBatch, OffsetsOrdered, TypeOK, losses
<1>3. CASE CommitBatch /\ UNCHANGED losses
  <2>1. /\ committed' = planned /\ skipped' = skipped /\ planned' = planned
        /\ log' = log /\ pc' = "idle"
    BY <1>3 DEF CommitBatch, losses
  <2>2. /\ committed \in Nat /\ planned \in Nat /\ committed <= planned
        /\ skipped \subseteq 1 .. committed /\ planned <= Len(log)
    BY DEF TypeOK, OffsetsOrdered
  <2>3. skipped' \subseteq 1 .. planned
    BY <2>1, <2>2
  <2>. QED  BY <2>1, <2>2, <2>3 DEF OffsetsOrdered
<1>4. CASE UNCHANGED <<checkpoint, losses>>
  BY <1>4, SubscribedStep DEF checkpoint, losses, OffsetsOrdered, TypeOK
<1>. QED  BY <1>1, <1>2, <1>3, <1>4, CheckpointStep

(* Only the commit of a batch commits rows of it.                          *)
LEMMA CommittedStep ==
  ASSUME TypeOK, OffsetsOrdered, [Next]_vars, NEW i \in DOMAIN log', Committed(i)'
  PROVE  \/ /\ i \in 1 .. Len(log) /\ i \in DOMAIN log /\ Committed(i)
         \/ /\ CommitBatch /\ log' = log
            /\ i \in Batch
<1>1. CASE Subscribes
  <2>1. /\ log' = log /\ skipped' = skipped \cup (committed + 1 .. Len(log))
    BY <1>1 DEF Subscribes, Start, StartAtLatest
  <2>2. i \in 1 .. Len(log) /\ committed \in Nat
    BY <2>1 DEF TypeOK
  <2>3. i \notin skipped /\ ~(i \in committed + 1 .. Len(log))
    BY <2>1 DEF Committed
  <2>. QED  BY <2>1, <2>2, <2>3 DEF Committed
<1>2. CASE i <= committed /\ UNCHANGED losses
  <2>1. i \in Nat /\ 1 <= i
    <3>1. log' = log \/ \E r \in Row : log' = Append(log, r)
      BY LogGrows
    <3>. QED  BY <3>1 DEF TypeOK
  <2>2. i \in 1 .. Len(log) /\ i \in DOMAIN log
    BY <1>2, <2>1 DEF TypeOK, OffsetsOrdered
  <2>. QED  BY <1>2, <2>2 DEF Committed, losses
<1>3. CASE BeginBatch /\ UNCHANGED losses
  BY <1>2, <1>3 DEF BeginBatch, Committed
<1>4. CASE CommitBatch /\ UNCHANGED losses
  <2>1. log' = log /\ committed' = planned
    BY <1>4 DEF CommitBatch
  <2>2. CASE i <= committed
    BY <1>2, <1>4, <2>2
  <2>3. CASE ~(i <= committed)
    <3>1. i \in Nat /\ committed \in Nat /\ planned \in Nat /\ i <= planned
      BY <2>1 DEF TypeOK, Committed
    <3>. QED  BY <1>4, <2>1, <2>3, <3>1 DEF Batch
  <2>. QED  BY <2>2, <2>3
<1>5. CASE UNCHANGED <<checkpoint, losses>>
  BY <1>2, <1>5 DEF checkpoint, Committed
<1>. QED  BY <1>1, <1>3, <1>4, <1>5, CheckpointStep

(* A row of the table stays, whatever step is taken.                       *)
LEMMA TableStable ==
  ASSUME TypeOK, [Next]_vars, NEW t \in Txn, transactions[t] # None
  PROVE  transactions'[t] = transactions[t]
<1>1. CASE PersistTransactions
  BY <1>1 DEF PersistTransactions, Upserted
<1>2. CASE UNCHANGED transactions
  BY <1>2
<1>. QED  BY <1>1, <1>2, TableStep

(* The INSERT leaves a row for every valid row of the batch.               *)
LEMMA InsertComplete ==
  ASSUME TypeOK, OffsetsOrdered, PersistTransactions, NEW i \in Valid
  PROVE  transactions'[log[i].txn] # None
<1>1. PICK first \in [Txn -> Batch \cup {0}] :
        FirstWins(first) /\ transactions' = Upserted(first)
  BY DEF PersistTransactions
<1>2. i \in Batch /\ log[i] \in Row
  BY BatchInLog DEF Valid
<1>3. log[i].txn \in Txn /\ i \in Candidates(log[i].txn)
  BY <1>2, RowType DEF Candidates
<1>4. first[log[i].txn] \in Candidates(log[i].txn)
  BY <1>1, <1>3 DEF FirstWins
<1>5. first[log[i].txn] \in Batch
  BY <1>4 DEF Candidates, Valid
<1>6. first[log[i].txn] # 0 /\ log[first[log[i].txn]] # None
  BY <1>5, BatchInLog, RowType DEF Batch, TypeOK
<1>. QED  BY <1>1, <1>3, <1>6 DEF Upserted

(* The steps after the INSERT stay inside the batch.                       *)
LEMMA AfterInsert ==
  ASSUME [Next]_vars, pc' \in {"audit", "lag", "commit"}
  PROVE  /\ UNCHANGED checkpoint
         /\ PersistTransactions \/ pc \in {"audit", "lag", "commit"}
BY DEF Next, vars, driver, checkpoint, Publish, Consumer, ProcessBatch, Start, BeginBatch, LoadCard,
       SortFails, RejectRow, WriteFeatures, AppendHistory, WriteAuditLog, LoopAfter,
       SetLagGauge, LagGaugeFails, CommitBatch, Crash, ExpireFeatures, ExpireHistory, Exit, Unsortable,
       PersistTransactions

LEMMA StepBatchPersisted ==
  ASSUME TypeOK, OffsetsOrdered, BatchPersisted, [Next]_vars
  PROVE  BatchPersisted'
<1>. SUFFICES ASSUME pc' \in {"audit", "lag", "commit"}, NEW i \in Valid'
              PROVE  transactions'[log'[i].txn] # None
  BY DEF BatchPersisted
<1>1. Batch' = Batch
  BY AfterInsert DEF Batch, checkpoint
<1>2. i \in Batch /\ log'[i] = log[i] /\ i \in Valid
  <2>1. i \in Batch /\ log'[i].valid
    BY <1>1 DEF Valid
  <2>2. i \in 1 .. Len(log)
    <3>1. DOMAIN log = 1 .. Len(log)
      BY DEF TypeOK
    <3>. QED  BY <2>1, <3>1, BatchInLog
  <2>3. log'[i] = log[i]
    BY <2>2, LogStable
  <2>. QED  BY <2>1, <2>3 DEF Valid
<1>3. CASE PersistTransactions
  BY <1>2, <1>3, InsertComplete
<1>4. CASE pc \in {"audit", "lag", "commit"}
  <2>1. transactions[log[i].txn] # None
    BY <1>2, <1>4 DEF BatchPersisted
  <2>2. log[i].txn \in Txn
    BY <1>2, BatchInLog, RowType
  <2>. QED  BY <1>2, <2>1, <2>2, TableStable
<1>. QED  BY <1>3, <1>4, AfterInsert

LEMMA StepCommittedPersisted ==
  ASSUME TypeOK, OffsetsOrdered, BatchPersisted, CommittedPersisted, [Next]_vars
  PROVE  CommittedPersisted'
<1>. SUFFICES ASSUME NEW i \in DOMAIN log', Committed(i)', log'[i].valid
              PROVE  transactions'[log'[i].txn] # None
  BY DEF CommittedPersisted
<1>1. CASE i \in 1 .. Len(log) /\ i \in DOMAIN log /\ Committed(i)
  <2>1. log'[i] = log[i] /\ log[i] \in Row
    BY <1>1, LogStable DEF TypeOK
  <2>2. log[i].txn \in Txn /\ transactions[log[i].txn] # None
    BY <1>1, <2>1, RowType DEF CommittedPersisted
  <2>. QED  BY <2>1, <2>2, TableStable
<1>2. CASE CommitBatch /\ log' = log /\ i \in Batch
  <2>1. transactions' = transactions /\ pc = "commit"
    BY <1>2 DEF CommitBatch, postgres
  <2>2. i \in Valid
    BY <1>2 DEF Valid
  <2>. QED  BY <1>2, <2>1, <2>2 DEF BatchPersisted
<1>. QED  BY <1>1, <1>2, CommittedStep

(***************************************************************************)
(* Theorems                                                                *)
(***************************************************************************)

(* IInv is an invariant of the job.                                        *)
THEOREM InductiveInvariant == Spec => []IInv
<1>1. Init => IInv
  BY InitType DEF Init, IInv, OffsetsOrdered, BatchPersisted, CommittedPersisted
<1>2. IInv /\ [Next]_vars => IInv'
  BY StepType, StepOffsets, StepBatchPersisted, StepCommittedPersisted DEF IInv
<1>. QED  BY <1>1, <1>2, PTL DEF Spec

(* Every variable keeps its type; in particular no history in Redis grows  *)
(* beyond _MAX_HISTORY_LEN.                                                *)
THEOREM TypeCorrect == Spec => []TypeOK
BY InductiveInvariant, PTL DEF IInv

(* No committed transaction is ever missing from PostgreSQL.               *)
THEOREM NoLoss == Spec => []CommittedPersisted
BY InductiveInvariant, PTL DEF IInv

(* No replay and no second row with a known id changes a stored row.       *)
THEOREM FirstWriteWins == Spec => RowsNeverRewritten
<1>1. IInv /\ [Next]_vars =>
        [\A t \in Txn : transactions[t] # None => transactions'[t] = transactions[t]]_vars
  BY TableStable DEF IInv
<1>. QED  BY <1>1, InductiveInvariant, PTL DEF Spec, RowsNeverRewritten

(***************************************************************************)
(* The job implements the sink                                             *)
(***************************************************************************)

(* The INSERT accepts the planned range, or changes nothing.               *)
LEMMA PersistImplements ==
  ASSUME IInv, PersistTransactions
  PROVE  Sink!Accept \/ UNCHANGED Sink!vars
<1>1. PICK first \in [Txn -> Batch \cup {0}] :
        FirstWins(first) /\ transactions' = Upserted(first)
  BY DEF PersistTransactions
<1>2. /\ UNCHANGED <<log, durable, pc # "new", committed, skipped>>
      /\ pc # "new" /\ pc' # "new"
  BY DEF PersistTransactions, checkpoint, ghosts, losses, durable
<1>3. \A t \in Txn : Sink!Candidates(t, planned) = Candidates(t)
  BY DEF Sink!Candidates, Candidates, Valid, Batch
<1>4. CASE Batch = {}
  <2>1. \A t \in Txn : first[t] = 0
    BY <1>1, <1>4
  <2>2. transactions' = transactions
    BY <1>1, <2>1 DEF Upserted, IInv, TypeOK
  <2>. QED  BY <1>2, <2>2 DEF Sink!vars
<1>5. CASE Batch # {}
  <2>1. planned \in committed + 1 .. Len(log)
    BY <1>5 DEF Batch, IInv, TypeOK, OffsetsOrdered
  <2>2. ASSUME NEW t \in Txn
        PROVE  IF transactions[t] = None /\ Sink!Candidates(t, planned) # {}
                 THEN \E i \in Sink!Candidates(t, planned) : transactions'[t] = log[i]
                 ELSE transactions'[t] = transactions[t]
    <3>1. CASE Candidates(t) = {}
      BY <1>1, <1>3, <3>1 DEF FirstWins, Upserted
    <3>2. CASE Candidates(t) # {}
      <4>1. first[t] \in Candidates(t) /\ first[t] # 0
        BY <1>1, <3>2 DEF FirstWins, Candidates, Valid, Batch, IInv, TypeOK
      <4>. QED  BY <1>1, <1>3, <4>1 DEF Upserted
    <3>. QED  BY <3>1, <3>2
  <2>3. DOMAIN transactions' = Txn
    BY <1>1 DEF Upserted
  <2>. QED  BY <1>2, <2>1, <2>2, <2>3 DEF Sink!Accept
<1>. QED  BY <1>4, <1>5

(* The commit of a batch advances the frontier over it.                    *)
LEMMA CommitImplements ==
  ASSUME IInv, CommitBatch
  PROVE  Sink!Advance \/ UNCHANGED Sink!vars
<1>1. /\ UNCHANGED <<log, transactions>> /\ pc = "commit" /\ pc' = "idle"
      /\ committed' = planned /\ UNCHANGED <<durable, skipped>>
  BY DEF CommitBatch, postgres, ghosts, losses, durable
<1>2. CASE planned = committed
  BY <1>1, <1>2 DEF Sink!vars
<1>3. CASE planned # committed
  <2>1. planned \in committed + 1 .. Len(log)
    BY <1>3 DEF IInv, TypeOK, OffsetsOrdered
  <2>2. \A i \in committed + 1 .. planned : log[i].valid => transactions[log[i].txn] # None
    BY <1>1 DEF IInv, BatchPersisted, Valid, Batch
  <2>. QED  BY <1>1, <2>1, <2>2 DEF Sink!Advance
<1>. QED  BY <1>2, <1>3

LEMMA StepImplements ==
  ASSUME IInv, [Next]_vars
  PROVE  [Sink!Next]_Sink!vars
<1>. USE DEF Sink!Next, Sink!vars
<1>1. ASSUME NEW r \in Row, Publish(r) PROVE Sink!Publish
  BY <1>1 DEF Publish, Sink!Publish, checkpoint, postgres, driver, ghosts, losses, durable
<1>2. CASE Start
  <2>1. UNCHANGED <<log, durable, transactions>> /\ pc' # "new" /\ pc \in {"new", "down"}
    BY <1>2 DEF Start, StartAtLatest, StartAtCheckpoint, postgres, durable
  <2>2. CASE StartAtLatest
    BY <2>1, <2>2 DEF StartAtLatest, Sink!Subscribe
  <2>3. CASE StartAtCheckpoint
    BY <2>1, <2>3 DEF StartAtCheckpoint, checkpoint, losses
  <2>. QED  BY <1>2, <2>2, <2>3 DEF Start
<1>3. CASE PersistTransactions
  BY <1>3, PersistImplements
<1>4. CASE CommitBatch
  BY <1>4, CommitImplements
<1>5. CASE \/ UNCHANGED vars
           \/ BeginBatch \/ LoadCard \/ SortFails \/ RejectRow \/ WriteFeatures
           \/ AppendHistory \/ WriteAuditLog \/ SetLagGauge \/ LagGaugeFails \/ Crash
           \/ \E c \in Card : ExpireFeatures(c) \/ ExpireHistory(c)
  <2>1. UNCHANGED <<log, committed, transactions, deployment, skipped>>
    BY <1>5 DEF vars, checkpoint, postgres, ghosts, losses, BeginBatch, LoadCard, SortFails,
       RejectRow, WriteFeatures, AppendHistory, WriteAuditLog, SetLagGauge, LagGaugeFails, Crash,
       ExpireFeatures, ExpireHistory
  <2>2. (pc # "new") <=> (pc' # "new")
    BY <1>5, SubscribedStep DEF vars, driver, BeginBatch, LoadCard, SortFails, Unsortable, RejectRow,
       WriteFeatures, AppendHistory, WriteAuditLog, SetLagGauge, LagGaugeFails, Crash, Running,
       ExpireFeatures, ExpireHistory
  <2>. QED  BY <2>1, <2>2 DEF durable
<1>. QED
  BY <1>1, <1>2, <1>3, <1>4, <1>5 DEF Next, Consumer, ProcessBatch

(* Seen through the table, the topic and the frontier of its checkpoint,   *)
(* every behaviour of the job is one of TransactionSink.                   *)
THEOREM SinkImplemented == Spec => ImplementsSink
<1>1. Init => Sink!Init
  BY PipelineAssumption DEF Init, Sink!Init, durable
<1>2. IInv /\ [Next]_vars => [Sink!Next]_Sink!vars
  BY StepImplements
<1>. QED  BY <1>1, <1>2, InductiveInvariant, PTL DEF Spec, ImplementsSink, Sink!Spec

(***************************************************************************)
(* The audit log                                                           *)
(***************************************************************************)

(* Every entry counts the invalid rows of its batch, which is planned.     *)
AuditSound ==
  \A e \in audit :
    /\ 1 <= e.first /\ e.last <= planned
    /\ e.invalid = Cardinality({j \in e.first .. e.last : ~log[j].valid})

(* Past the audit step, the batch has an entry if it needs one.            *)
BatchAudited ==
  pc \in {"lag", "commit"} /\ Invalid # {} =>
    \E e \in audit : e.first = committed + 1 /\ e.last = planned

AuditInv == AuditSound /\ BatchAudited /\ CommittedAudited

LEMMA AuditStep ==
  ASSUME [Next]_vars
  PROVE  /\ WriteAuditLog \/ UNCHANGED audit
         /\ pc' \in {"lag", "commit"} =>
              /\ WriteAuditLog \/ pc \in {"lag", "commit"}
              /\ UNCHANGED checkpoint
BY DEF Next, vars, postgres, driver, checkpoint, Publish, Consumer, ProcessBatch, Start, BeginBatch,
       LoadCard, SortFails, RejectRow, WriteFeatures, AppendHistory, PersistTransactions, LoopAfter,
       WriteAuditLog, SetLagGauge, LagGaugeFails, CommitBatch, Crash, ExpireFeatures, ExpireHistory,
       Exit, Unsortable

(* Entries are only added, and rows of the log keep their verdict.         *)
LEMMA StepAuditSound ==
  ASSUME IInv, IInv', AuditSound, [Next]_vars
  PROVE  AuditSound' /\ audit \subseteq audit'
<1>. USE DEF IInv
<1>1. planned \in Nat /\ planned' \in Nat /\ planned <= planned' /\ planned <= Len(log)
  <2>1. CASE Subscribes
    BY <2>1 DEF Subscribes, StartAtLatest, TypeOK, OffsetsOrdered
  <2>2. CASE BeginBatch
    BY <2>2, PipelineAssumption DEF BeginBatch, TypeOK, OffsetsOrdered
  <2>3. CASE CommitBatch
    BY <2>3 DEF CommitBatch, TypeOK, OffsetsOrdered
  <2>4. CASE UNCHANGED checkpoint
    BY <2>4 DEF checkpoint, TypeOK, OffsetsOrdered
  <2>. QED  BY <2>1, <2>2, <2>3, <2>4, CheckpointStep
<1>2. ASSUME NEW a \in Nat, NEW b \in Nat, 1 <= a, b <= planned
      PROVE  {j \in a .. b : ~log'[j].valid} = {j \in a .. b : ~log[j].valid}
  <2>1. \A j \in a .. b : log'[j] = log[j]
    BY <1>1, <1>2, LogStable
  <2>. QED  BY <2>1
<1>3. ASSUME NEW e \in audit
      PROVE  /\ 1 <= e.first /\ e.last <= planned'
             /\ e.invalid = Cardinality({j \in e.first .. e.last : ~log'[j].valid})
  <2>1. e.first \in Nat /\ e.last \in Nat
    BY DEF TypeOK
  <2>2. /\ 1 <= e.first /\ e.last <= planned
        /\ e.invalid = Cardinality({j \in e.first .. e.last : ~log[j].valid})
    BY DEF AuditSound
  <2>3. {j \in e.first .. e.last : ~log'[j].valid} = {j \in e.first .. e.last : ~log[j].valid}
    BY <1>2, <2>1, <2>2
  <2>4. e.last <= planned'
    BY <1>1, <2>1, <2>2
  <2>. QED  BY <2>2, <2>3, <2>4
<1>4. CASE WriteAuditLog
  <2>1. UNCHANGED <<log, planned>>
    BY <1>4 DEF WriteAuditLog, checkpoint
  <2>2. /\ audit \subseteq audit'
        /\ audit' \subseteq audit \cup {[first |-> committed + 1, last |-> planned,
                                        invalid |-> Cardinality(Invalid)]}
    BY <1>4 DEF WriteAuditLog
  <2>3. Invalid = {j \in committed + 1 .. planned : ~log[j].valid}
    BY DEF Invalid, Batch
  <2>4. 1 <= committed + 1
    BY DEF TypeOK
  <2>5. ASSUME NEW e \in audit' PROVE
          /\ 1 <= e.first /\ e.last <= planned'
          /\ e.invalid = Cardinality({j \in e.first .. e.last : ~log'[j].valid})
    <3>1. CASE e \in audit
      BY <1>3, <3>1
    <3>2. CASE e = [first |-> committed + 1, last |-> planned, invalid |-> Cardinality(Invalid)]
      <4>1. e.first = committed + 1 /\ e.last = planned /\ e.invalid = Cardinality(Invalid)
        BY <3>2
      <4>2. Invalid = {j \in e.first .. e.last : ~log'[j].valid}
        BY <2>1, <2>3, <4>1
      <4>3. 1 <= e.first /\ e.last <= planned'
        BY <1>1, <2>1, <2>4, <4>1
      <4>. QED  BY <4>1, <4>2, <4>3
    <3>. QED  BY <2>2, <3>1, <3>2
  <2>. QED  BY <2>2, <2>5 DEF AuditSound
<1>5. CASE UNCHANGED audit
  BY <1>3, <1>5 DEF AuditSound
<1>. QED  BY <1>4, <1>5, AuditStep

LEMMA StepBatchAudited ==
  ASSUME IInv, AuditInv, [Next]_vars
  PROVE  BatchAudited'
<1>. USE DEF IInv, AuditInv
<1>. SUFFICES ASSUME pc' \in {"lag", "commit"}, Invalid' # {}
              PROVE  \E e \in audit' : e.first = committed' + 1 /\ e.last = planned'
  BY DEF BatchAudited
<1>1. UNCHANGED checkpoint
  BY AuditStep
<1>2. Invalid # {}
  <2>1. PICK i \in Batch' : ~log'[i].valid
    BY DEF Invalid
  <2>2. i \in Batch
    BY <1>1, <2>1 DEF Batch, checkpoint
  <2>3. i \in 1 .. Len(log)
    BY <2>2, BatchInLog DEF TypeOK
  <2>4. log'[i] = log[i]
    BY <2>3, LogStable
  <2>. QED  BY <2>1, <2>2, <2>4 DEF Invalid
<1>3. CASE WriteAuditLog
  <2>1. [first |-> committed + 1, last |-> planned, invalid |-> Cardinality(Invalid)] \in audit'
    BY <1>2, <1>3 DEF WriteAuditLog
  <2>. QED  BY <1>1, <2>1 DEF checkpoint
<1>4. CASE ~WriteAuditLog
  BY <1>1, <1>2, <1>4, AuditStep DEF BatchAudited, checkpoint
<1>. QED  BY <1>3, <1>4

LEMMA StepCommittedAudited ==
  ASSUME IInv, IInv', AuditInv, AuditSound', [Next]_vars
  PROVE  CommittedAudited'
<1>. USE DEF IInv, AuditInv
<1>. SUFFICES ASSUME NEW i \in DOMAIN log', Committed(i)', ~log'[i].valid
              PROVE  \E e \in audit' : e.first <= i /\ i <= e.last
  BY DEF CommittedAudited, AuditSound
<1>1. audit \subseteq audit'
  BY StepAuditSound
<1>2. CASE i \in 1 .. Len(log) /\ i \in DOMAIN log /\ Committed(i)
  <2>1. log'[i] = log[i]
    BY <1>2, LogStable
  <2>2. \E e \in audit : e.first <= i /\ i <= e.last
    BY <1>2, <2>1 DEF CommittedAudited
  <2>. QED  BY <1>1, <2>2
<1>3. CASE CommitBatch /\ log' = log /\ i \in Batch
  <2>1. pc = "commit" /\ audit' = audit
    BY <1>3 DEF CommitBatch, postgres
  <2>2. i \in Invalid /\ committed + 1 <= i /\ i <= planned
    BY <1>3 DEF Invalid, Batch, TypeOK
  <2>3. PICK e \in audit : e.first = committed + 1 /\ e.last = planned
    BY <2>1, <2>2 DEF BatchAudited
  <2>. QED  BY <2>1, <2>2, <2>3
<1>. QED  BY <1>2, <1>3, CommittedStep

(* Every invalid row of a committed batch is accounted for in the audit    *)
(* log, by an entry with the right count.                                  *)
THEOREM InvalidAccountedFor == Spec => []CommittedAudited
<1>1. Init => AuditInv
  BY DEF Init, AuditInv, AuditSound, BatchAudited, CommittedAudited
<1>2. IInv /\ IInv' /\ AuditInv /\ [Next]_vars => AuditInv'
  <2>. SUFFICES ASSUME IInv, IInv', AuditInv, [Next]_vars PROVE AuditInv'
    OBVIOUS
  <2>1. AuditSound'
    BY StepAuditSound DEF AuditInv
  <2>2. BatchAudited'
    BY StepBatchAudited
  <2>3. CommittedAudited'
    BY <2>1, StepCommittedAudited
  <2>. QED  BY <2>1, <2>2, <2>3 DEF AuditInv
<1>3. AuditInv => CommittedAudited
  BY DEF AuditInv
<1>. QED  BY <1>1, <1>2, <1>3, InductiveInvariant, PTL DEF Spec
=============================================================================
