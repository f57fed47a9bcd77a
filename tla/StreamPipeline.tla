--------------------------- MODULE StreamPipeline ---------------------------
(***************************************************************************)
(* The streaming job of src/feature_engineering/spark_consumer.py: Kafka   *)
(* -> validate -> features -> Redis and PostgreSQL, under Spark Structured *)
(* Streaming's checkpoint (plan a batch, run foreachBatch, commit it) and  *)
(* with the process crashing between any two of its external calls.        *)
(*                                                                         *)
(* One Kafka log stands for the topic's partitions: rows of different      *)
(* cards never influence each other and all rows of a card share a         *)
(* partition, so only the order inside a card matters.                     *)
(***************************************************************************)
EXTENDS HistoryWindows

CONSTANTS
  Txn,               \* transaction ids
  Card,              \* card ids
  Row,               \* the rows from_json can hand over: [txn, card, at, valid]
  NoCard, NoTime,    \* null card_id / event_time of a row that did not parse
  None,              \* an absent key or table row
  MaxOffsetsPerTrigger,
  MaxHistoryLen,     \* _MAX_HISTORY_LEN
  Deployments,       \* [aware, durable]: see `aware` and `durable` below
  MaxLog,            \* bound: rows published
  MaxCrashes         \* bound: crashes of the process

(***************************************************************************)
(* A row that passes Transaction.model_validate has a card and an          *)
(* event_time; the columns of spark_transaction_schema are nullable after  *)
(* from_json, so a row that did not parse may lack both.                   *)
(***************************************************************************)
ASSUME RowAssumption ==
  /\ Row \subseteq [txn : Txn, card : Card \cup {NoCard},
                    at : Nat \cup {NoTime}, valid : BOOLEAN]
  /\ \A r \in Row : r.valid => r.card \in Card /\ r.at \in Nat
  /\ NoCard \notin Card
  /\ None \notin Row

ASSUME PipelineAssumption ==
  /\ MaxOffsetsPerTrigger \in Nat \ {0}
  /\ MaxHistoryLen \in Nat \ {0}
  /\ Deployments \subseteq [aware : BOOLEAN, durable : BOOLEAN]
  /\ MaxLog \in Nat
  /\ MaxCrashes \in Nat

VARIABLES
  log,           \* Kafka: the topic
  planned,       \* checkpoint: last offset of the last batch in the offset log
  committed,     \* checkpoint: last offset of the last batch in the commit log
  history,       \* Redis: history:card:<id>, newest first
  features,      \* Redis: features:card:<id>
  transactions,  \* PostgreSQL: table transactions, by primary key
  audit,         \* PostgreSQL: the distinct validation_failure_batch entries
  pc,            \* driver: where process_batch is
  done,          \* driver: offsets of the batch already handled
  card,          \* driver: the card_id of the loop in _process_partition_group
  working,       \* driver: the local list `history`
  crashes,       \* bound: crashes so far
  forgotten,     \* history variable: cards whose history key ever expired
  deployment,    \* how the job is deployed, chosen once
  replayed,      \* history variable: has a batch ever been run again?
  skipped,       \* history variable: offsets that no batch will deliver any more
  abandoned      \* history variable: was an unfinished batch ever among them?

checkpoint == <<planned, committed>>
redis      == <<history, features>>
postgres   == <<transactions, audit>>
driver     == <<pc, done, card, working>>
losses     == <<skipped, abandoned>>
ghosts     == <<crashes, forgotten, deployment, replayed, losses>>
vars == <<log, checkpoint, redis, postgres, driver, ghosts>>

(* The event_times of collect() are time-zone aware, or naive. *)
aware == deployment.aware

(* /tmp/checkpoints survives a stop of the process: it does where the same *)
(* host or container runs the job again, and does not where a fresh one    *)
(* replaces it, as an ECS task without a volume.                           *)
durable == deployment.durable

Running == {"idle", "load", "row", "append", "persist", "audit", "lag", "commit"}

FeatureVector == [row : Row, velocity_5min : Nat, txn_count_24h : Nat]

TypeOK ==
  /\ log \in Seq(Row)
  /\ planned \in Nat /\ committed \in Nat
  /\ history \in [Card -> Seq(Row)]
  /\ \A c \in Card : Len(history[c]) <= MaxHistoryLen
  /\ features \in [Card -> FeatureVector \cup {None}]
  /\ transactions \in [Txn -> Row \cup {None}]
  /\ audit \subseteq [first : Nat, last : Nat, invalid : Nat]
  /\ pc \in Running \cup {"new", "down"}
  /\ done \subseteq Nat
  /\ card \in Card \cup {NoCard}
  /\ working \in Seq(Row)
  /\ crashes \in 0..MaxCrashes
  /\ forgotten \subseteq Card
  /\ deployment \in Deployments
  /\ replayed \in BOOLEAN
  /\ skipped \subseteq Nat
  /\ abandoned \in BOOLEAN

Init ==
  /\ log = <<>>
  /\ planned = 0 /\ committed = 0
  /\ history = [c \in Card |-> <<>>]
  /\ features = [c \in Card |-> None]
  /\ transactions = [t \in Txn |-> None]
  /\ audit = {}
  /\ pc = "new"
  /\ done = {}
  /\ card = NoCard
  /\ working = <<>>
  /\ crashes = 0
  /\ forgotten = {}
  /\ deployment \in Deployments
  /\ replayed = FALSE
  /\ skipped = {}
  /\ abandoned = FALSE

(***************************************************************************)
(* The producer and the broker: a new row is appended to the topic.        *)
(***************************************************************************)
Publish(r) ==
  /\ Len(log) < MaxLog
  /\ \A i \in DOMAIN log : log[i] # r
  /\ log' = Append(log, r)
  /\ UNCHANGED <<checkpoint, redis, postgres, driver, ghosts>>

(***************************************************************************)
(* The batch and its order                                                 *)
(***************************************************************************)
Batch   == committed + 1 .. planned
Left    == Batch \ done
Valid   == {i \in Batch : log[i].valid}
Invalid == {i \in Batch : ~log[i].valid}

(* by_card[c]: the rows of the batch with that card_id. *)
CardRows(c) == {i \in Batch : log[i].card = c}

(* list.sort with this key compares every element of a list of two or more *)
(* and raises TypeError on None, whichever way round.                      *)
Sortable(S) ==
  \A i, j \in S : i # j => log[i].at # NoTime /\ log[j].at # NoTime

(* Stable order by event_time. *)
Before(i, j) == \/ log[i].at < log[j].at
                \/ log[i].at = log[j].at /\ i < j

(* i is the row the inner loop takes next. *)
NextRow(i) ==
  /\ i \in CardRows(card) \ done
  /\ \A j \in (CardRows(card) \ done) \ {i} : Before(i, j)

(* Where the two nested loops go once the rows of d are handled. *)
LoopAfter(d) ==
  IF CardRows(card) \subseteq d
    THEN IF Batch \subseteq d THEN "persist" ELSE "load"
    ELSE "row"

(***************************************************************************)
(* Starting the query.  Without a checkpoint, the first time or because it *)
(* was lost with the host, startingOffsets "latest" anchors the query at   *)
(* the end of the topic: a batch left unfinished and what was published    *)
(* behind it are not delivered any more.                                   *)
(***************************************************************************)
StartAtLatest ==
  /\ \/ pc = "new"
     \/ pc = "down" /\ ~durable
  /\ planned' = Len(log)
  /\ committed' = Len(log)
  /\ skipped' = skipped \cup (committed + 1 .. Len(log))
  /\ abandoned' = (abandoned \/ committed < planned)

StartAtCheckpoint ==
  /\ pc = "down" /\ durable
  /\ UNCHANGED <<checkpoint, losses>>

(* Variant: a restart takes the planned batch for a finished one. *)
StartAtPlanned ==
  /\ \/ StartAtLatest
     \/ pc = "down" /\ durable /\ committed' = planned /\ UNCHANGED <<planned, losses>>
  /\ pc' = "idle"
  /\ UNCHANGED <<log, redis, postgres, done, card, working>>
  /\ UNCHANGED <<crashes, forgotten, deployment, replayed>>

Start ==
  /\ StartAtLatest \/ StartAtCheckpoint
  /\ pc' = "idle"
  /\ UNCHANGED <<log, redis, postgres, done, card, working>>
  /\ UNCHANGED <<crashes, forgotten, deployment, replayed>>

(* Variant: only new offsets are looked for, never the unfinished batch. *)
BeginNewBatch ==
  /\ pc = "idle" /\ committed = planned /\ planned < Len(log)
  /\ planned' = Len(log)
  /\ pc' = "load"
  /\ UNCHANGED <<log, committed, redis, postgres, done, card, working, ghosts>>

(* A batch that was planned and not committed is run again with the same   *)
(* offsets; otherwise a new one is written to the offset log.              *)
BeginBatch ==
  /\ pc = "idle"
  /\ \/ /\ committed < planned
        /\ replayed' = TRUE
        /\ UNCHANGED planned
     \/ /\ committed = planned
        /\ planned < Len(log)
        /\ planned' = IF Len(log) <= committed + MaxOffsetsPerTrigger
                        THEN Len(log) ELSE committed + MaxOffsetsPerTrigger
        /\ UNCHANGED replayed
  /\ pc' = "load"
  /\ UNCHANGED <<log, committed, redis, postgres, done, card, working>>
  /\ UNCHANGED <<crashes, forgotten, deployment, losses>>

(* The driver process is gone and its memory with it. *)
Exit ==
  /\ pc' = "down"
  /\ done' = {}
  /\ card' = NoCard
  /\ working' = <<>>

(* c is the next group: by_card keeps the order its cards first appear in. *)
NextCard(c) == \E i \in Left : log[i].card = c /\ \A j \in Left : i <= j

LoadCard ==
  /\ pc = "load"
  /\ \E c \in Card \cup {NoCard} :
       /\ NextCard(c)
       /\ Sortable(CardRows(c))
       /\ card' = c
       /\ working' = IF c = NoCard THEN <<>> ELSE history[c]
  /\ pc' = "row"
  /\ UNCHANGED <<log, checkpoint, redis, postgres, done, ghosts>>

Unsortable ==
  /\ pc = "load"
  /\ \E c \in Card \cup {NoCard} : NextCard(c) /\ ~Sortable(CardRows(c))

(* card_rows.sort raises: the query, and with it the process, terminates. *)
SortFails ==
  /\ Unsortable
  /\ Exit
  /\ UNCHANGED <<log, checkpoint, redis, postgres, ghosts>>

RejectRow ==
  /\ pc = "row"
  /\ \E i \in Batch : NextRow(i) /\ ~log[i].valid /\ done' = done \cup {i}
  /\ pc' = LoopAfter(done')
  /\ UNCHANGED <<log, checkpoint, redis, postgres, card, working, ghosts>>

ComputeFeatures(past, row) ==
  [row |-> row,
   velocity_5min |-> CountIn(past, row, FiveMinutes),
   txn_count_24h |-> CountIn(past, row, OneDay)]

WriteFeatures ==
  /\ pc = "row"
  /\ \E i \in Batch :
       /\ NextRow(i)
       /\ log[i].valid
       /\ features' = [features EXCEPT ![card] = ComputeFeatures(working, log[i])]
  /\ pc' = "append"
  /\ UNCHANGED <<log, checkpoint, history, postgres, done, card, working, ghosts>>

(* Variant: RPUSH. *)
PushedRight(h, r) == SubSeq(Append(h, r), 1,
                            IF Len(h) + 1 <= MaxHistoryLen THEN Len(h) + 1 ELSE MaxHistoryLen)

(* LPUSH and LTRIM in one MULTI. *)
Pushed(h, r) == SubSeq(<<r>> \o h, 1,
                       IF Len(h) + 1 <= MaxHistoryLen THEN Len(h) + 1 ELSE MaxHistoryLen)

(* Variant: the local list is not extended with the row. *)
AppendToStoreOnly ==
  /\ pc = "append"
  /\ \E i \in Batch :
       /\ NextRow(i)
       /\ history' = [history EXCEPT ![card] = Pushed(@, log[i])]
       /\ done' = done \cup {i}
  /\ pc' = LoopAfter(done')
  /\ UNCHANGED <<log, checkpoint, features, postgres, card, working, ghosts>>

AppendHistory ==
  /\ pc = "append"
  /\ \E i \in Batch :
       /\ NextRow(i)
       /\ history' = [history EXCEPT ![card] = Pushed(@, log[i])]
       /\ working' = Append(working, log[i])
       /\ done' = done \cup {i}
  /\ pc' = LoopAfter(done')
  /\ UNCHANGED <<log, checkpoint, features, postgres, card, ghosts>>

(***************************************************************************)
(* INSERT ... ON CONFLICT DO NOTHING of the valid rows, in one transaction.*)
(* Of two rows of the batch with one id the first in valid_txns is kept:   *)
(* the groups in order of first appearance, then the sorted order.         *)
(***************************************************************************)
GroupBefore(c, d) ==
  \E i \in CardRows(c) : \A j \in CardRows(d) : i < j

Earlier(i, j) == IF log[i].card = log[j].card
                   THEN Before(i, j)
                   ELSE GroupBefore(log[i].card, log[j].card)

(* Variant: rejected rows are kept among valid_txns. *)
AnyCandidates(t) == {i \in Batch : log[i].txn = t}

Candidates(t) == {i \in Valid : log[i].txn = t}

(* first[t] is the position of the row inserted for t, 0 if there is none. *)
FirstWins(first) ==
  \A t \in Txn :
    IF Candidates(t) = {}
      THEN first[t] = 0
      ELSE /\ first[t] \in Candidates(t)
           /\ \A j \in Candidates(t) \ {first[t]} : Earlier(first[t], j)

Upserted(first) ==
  [t \in Txn |-> IF first[t] = 0 \/ transactions[t] # None
                   THEN transactions[t] ELSE log[first[t]]]

PersistTransactions ==
  /\ pc = "persist"
  /\ \E first \in [Txn -> Batch \cup {0}] :
       FirstWins(first) /\ transactions' = Upserted(first)
  /\ pc' = "audit"
  /\ UNCHANGED <<log, checkpoint, redis, audit, done, card, working, ghosts>>

(* Variant: elif invalid_count. *)
WriteAuditLogElse ==
  /\ pc = "audit"
  /\ audit' = IF Valid = {}
                 THEN audit \cup {[first |-> committed + 1, last |-> planned,
                                  invalid |-> Cardinality(Invalid)]}
                 ELSE audit
  /\ pc' = "lag"
  /\ UNCHANGED <<log, checkpoint, redis, transactions, done, card, working, ghosts>>

WriteAuditLog ==
  /\ pc = "audit"
  /\ \/ /\ Invalid # {}
        /\ audit' = audit \cup {[first |-> committed + 1, last |-> planned,
                                 invalid |-> Cardinality(Invalid)]}
     \/ /\ Invalid = {}
        /\ UNCHANGED audit
  /\ pc' = "lag"
  /\ UNCHANGED <<log, checkpoint, redis, transactions, done, card, working, ghosts>>

(* datetime.now(timezone.utc) - newest_event, over a batch with valid rows.*)
SetLagGauge ==
  /\ pc = "lag"
  /\ Valid = {} \/ aware
  /\ pc' = "commit"
  /\ UNCHANGED <<log, checkpoint, redis, postgres, done, card, working, ghosts>>

(* ... raises TypeError when newest_event carries no time zone. *)
LagGaugeFails ==
  /\ pc = "lag"
  /\ Valid # {} /\ ~aware
  /\ Exit
  /\ UNCHANGED <<log, checkpoint, redis, postgres, ghosts>>

(* foreachBatch returned: Spark writes the batch to its commit log. *)
CommitBatch ==
  /\ pc = "commit"
  /\ committed' = planned
  /\ pc' = "idle"
  /\ done' = {}
  /\ card' = NoCard
  /\ working' = <<>>
  /\ UNCHANGED <<log, planned, redis, postgres, ghosts>>

(***************************************************************************)
(* The environment: the process dies or loses Redis or PostgreSQL (either  *)
(* exception ends the query); a key of Redis reaches its TTL.              *)
(***************************************************************************)
Crash ==
  /\ pc \in Running
  /\ crashes < MaxCrashes
  /\ crashes' = crashes + 1
  /\ Exit
  /\ UNCHANGED <<log, checkpoint, redis, postgres, forgotten, deployment, replayed, losses>>

ExpireFeatures(c) ==
  /\ features[c] # None
  /\ features' = [features EXCEPT ![c] = None]
  /\ UNCHANGED <<log, checkpoint, history, postgres, driver, ghosts>>

ExpireHistory(c) ==
  /\ history[c] # <<>>
  /\ history' = [history EXCEPT ![c] = <<>>]
  /\ forgotten' = forgotten \cup {c}
  /\ UNCHANGED <<log, checkpoint, features, postgres, driver>>
  /\ UNCHANGED <<crashes, deployment, replayed, losses>>

ProcessBatch ==
  \/ LoadCard \/ SortFails \/ RejectRow \/ WriteFeatures \/ AppendHistory
  \/ PersistTransactions \/ WriteAuditLog \/ SetLagGauge \/ LagGaugeFails

Consumer == Start \/ BeginBatch \/ ProcessBatch \/ CommitBatch

Next ==
  \/ \E r \in Row : Publish(r)
  \/ Consumer
  \/ Crash
  \/ \E c \in Card : ExpireFeatures(c) \/ ExpireHistory(c)

Spec == Init /\ [][Next]_vars

(* The job is started again whenever it stops: by an ECS service of        *)
(* desired_count 1, which gives it a fresh task and no checkpoint, or by   *)
(* whoever runs it on a host that keeps /tmp.  A query that runs keeps     *)
(* triggering.                                                             *)
FairSpec == Spec /\ WF_vars(Consumer)

(***************************************************************************)
(* Safety                                                                  *)
(***************************************************************************)
Subscribed(i) == pc # "new" /\ i \in DOMAIN log /\ i \notin skipped
Committed(i)  == i <= committed /\ i \notin skipped

(* No loss: a valid row whose batch Spark has committed, and will not      *)
(* deliver again, has its transaction in PostgreSQL, whatever crashes came *)
(* between the offset log, the INSERT and the commit log.                  *)
CommittedPersisted ==
  \A i \in DOMAIN log :
    Committed(i) /\ log[i].valid => transactions[log[i].txn] # None

(* persist_transactions is idempotent on transaction_id: a batch run again *)
(* (or a second row with a known id) never changes a row of the table.     *)
RowsNeverRewritten ==
  [][\A t \in Txn : transactions[t] # None => transactions'[t] = transactions[t]]_vars

(* Every invalid row of a committed batch is covered by an entry of the    *)
(* audit log that counts the invalid rows of its batch, all of them.       *)
CommittedAudited ==
  \A i \in DOMAIN log :
    Committed(i) /\ ~log[i].valid =>
      \E e \in audit :
        /\ e.first <= i /\ i <= e.last
        /\ e.invalid = Cardinality({j \in e.first .. e.last : ~log[j].valid})

(* Redis does not fall behind the checkpoint: a committed transaction is   *)
(* in its card's history unless the key expired since or newer ones fill   *)
(* the list.                                                               *)
CommittedInHistory ==
  \A i \in DOMAIN log :
    Committed(i) /\ log[i].valid /\ log[i].card \notin forgotten =>
      \/ \E k \in DOMAIN history[log[i].card] : history[log[i].card][k] = log[i]
      \/ Len(history[log[i].card]) = MaxHistoryLen

(* Between batches the features of a card are those of the transaction at  *)
(* the head of its history, although the two keys are written by separate  *)
(* commands and a crash may come between them: the replay repairs it, so   *)
(* it holds until a checkpoint is lost with a batch unfinished.            *)
FeaturesMatchHistory ==
  committed = planned /\ ~abandoned =>
    \A c \in Card : features[c] # None /\ history[c] # <<>> =>
      features[c].row = history[c][1]

(* Together: Redis holds what the checkpoint promises, the history /score  *)
(* reads and the features beside it.                                       *)
RedisKeepsUp == CommittedInHistory /\ FeaturesMatchHistory

(* The count a window should hold: the distinct rows of the card that were *)
(* delivered up to the last batch, other than the row itself, plus the row.*)
RowsIn(row, window) ==
  Cardinality({i \in 1 .. planned :
                 /\ i \notin skipped /\ log[i].valid /\ log[i].card = row.card /\ log[i].txn # row.txn
                 /\ row.at - window <= log[i].at /\ log[i].at <= row.at}) + 1

Untrimmed(c) == c \notin forgotten /\ Len(history[c]) < MaxHistoryLen

(* A window never misses a transaction: replays and batch boundaries can   *)
(* only add to the velocity signal of a card whose history is complete.    *)
WindowsComplete ==
  committed = planned =>
    \A c \in Card : features[c] # None /\ Untrimmed(c) =>
      /\ features[c].velocity_5min >= RowsIn(features[c].row, FiveMinutes)
      /\ features[c].txn_count_24h >= RowsIn(features[c].row, OneDay)

(* "this gives correct 1h/24h windows and velocity/distance features even  *)
(* across micro-batch boundaries" (the module's docstring): the count is   *)
(* exactly that of the card's transactions.                                *)
WindowsExact ==
  committed = planned =>
    \A c \in Card : features[c] # None /\ Untrimmed(c) =>
      /\ features[c].velocity_5min = RowsIn(features[c].row, FiveMinutes)
      /\ features[c].txn_count_24h = RowsIn(features[c].row, OneDay)

(* ... and it is exactly that as long as every batch has been run once, to *)
(* its end.                                                                *)
WindowsExactUnlessReplayed == ~replayed /\ ~abandoned => WindowsExact

(***************************************************************************)
(* Liveness, under FairSpec and finitely many crashes                      *)
(***************************************************************************)

(* card_rows.sort raises on the batch, now and whenever it is run again.   *)
Poisoned == \E c \in Card \cup {NoCard} : ~Sortable(CardRows(c))

(* At least once, where the checkpoint survives: a row published after the *)
(* query subscribed does not wait for ever, it ends up in a committed      *)
(* batch, whatever crashes come in between, unless one of the two          *)
(* exceptions that return with every replay is in the way: a batch that    *)
(* cannot be sorted, or naive event_times.  Where the checkpoint is lost,  *)
(* no exception returns, because the restart skips its batch: a row is     *)
(* committed or among the skipped.  (The topic is bounded by MaxLog, so    *)
(* that none waits again and again is that none waits for ever.)           *)
EveryRowCommitted ==
  []<>(\/ \A i \in DOMAIN log : Subscribed(i) => Committed(i)
       \/ durable /\ (Poisoned \/ ~aware))

(* "invalid rows are written to the audit log and skipped" (the module's   *)
(* docstring): an invalid row ends up in a committed batch, so that the    *)
(* rows behind it are reached.                                             *)
InvalidRowsSkipped ==
  \A i \in 1 .. MaxLog : (Subscribed(i) /\ ~log[i].valid) ~> Committed(i)

(***************************************************************************)
(* What the pipeline promises of the table: see TransactionSink.           *)
(***************************************************************************)
Sink == INSTANCE TransactionSink
          WITH frontier <- committed, table <- transactions,
               subscribed <- (pc # "new")

(* The job implements the sink: a replayed batch is a stuttering step of   *)
(* the table, and the checkpoint moves only past what the table holds.     *)
ImplementsSink == Sink!Spec
=============================================================================
