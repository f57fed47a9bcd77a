------------------------------ MODULE Producer ------------------------------
(***************************************************************************)
(* The transaction producer of src/ingestion/producer.py: the loop of      *)
(* run(), publish with its three attempts, the client library's buffer and *)
(* delivery reports, a broker that may be away for a while, and SIGTERM    *)
(* followed by a flush of bounded time.                                    *)
(*                                                                         *)
(* The client library is external: an idempotent producer (sequence        *)
(* numbers, acks=all) whose messages each count against its buffer from    *)
(* produce() until the callback of their delivery report has run, and      *)
(* whose callbacks only run inside poll() or flush().                      *)
(***************************************************************************)
EXTENDS TransactionGenerator

CONSTANTS
  Card,
  Partition,
  PartitionOf,     \* the partitioner: a function of the message's key
  Tps,             \* transactions run() asks the generator for per round
  Interval,        \* batch_interval
  Attempts,        \* stop_after_attempt
  MaxBuffer,       \* queue.buffering.max.messages
  MaxRounds,       \* bound: rounds of the loop in run()
  MaxOutages       \* bound: outages of the broker

ASSUME ProducerAssumption ==
  /\ PartitionOf \in [Card -> Partition]
  /\ Tps \in Nat \ {0} /\ Interval \in Nat \ {0}
  /\ Attempts \in Nat \ {0}
  /\ MaxBuffer \in Nat \ {0}
  /\ MaxRounds \in Nat /\ MaxOutages \in Nat

VARIABLES
  now,        \* wall clock at the start of the round
  clock,      \* stream(): its simulated clock
  yielded,    \* stream(): its local `emitted`
  pending,    \* stream(): transactions of this turn still to be yielded
  pc,         \* run(): where it is
  attempt,    \* publish(): failed attempts of the current call
  stop,       \* run(): set by the signal handler
  rounds,     \* bound: rounds so far
  sent,       \* history: the transactions produce() accepted, in order
  queue,      \* library: positions in `sent`, per partition, not yet reported
  stored,     \* library and broker: how many of them the broker has stored
  reports,    \* library: delivery reports whose callback has not run yet
  counted,    \* _delivery_callback: the reports it has counted
  topic,      \* Kafka: positions in `sent`, per partition
  up,         \* Kafka: is the broker reachable?
  outages     \* bound: outages so far

generator == <<clock, yielded, pending>>
loop      == <<now, pc, attempt, rounds>>
library   == <<queue, stored, reports>>
broker    == <<topic, up, outages>>
vars == <<generator, loop, stop, sent, library, counted, broker>>

(* "stopped" and "cut" are both the end of run(): flush came back with an  *)
(* empty buffer, or after its timeout.  RetryError is not caught: "dead".  *)
Ended == {"stopped", "cut", "dead"}

TypeOK ==
  /\ now \in Nat /\ clock \in Nat /\ yielded \in Nat
  /\ pending \in Seq([card : Card, at : Nat])
  /\ pc \in {"loop", "stream", "publish", "sleep", "flush"} \cup Ended
  /\ attempt \in 0 .. Attempts - 1
  /\ stop \in BOOLEAN
  /\ rounds \in 0 .. MaxRounds
  /\ sent \in Seq([card : Card, at : Nat])
  /\ queue \in [Partition -> Seq(DOMAIN sent)]
  /\ stored \in [Partition -> Nat]
  /\ \A p \in Partition : stored[p] <= Len(queue[p])
  /\ reports \in Seq([n : DOMAIN sent, ok : BOOLEAN])
  /\ counted \in Seq([n : DOMAIN sent, ok : BOOLEAN])
  /\ topic \in [Partition -> Seq(DOMAIN sent)]
  /\ up \in BOOLEAN
  /\ outages \in 0 .. MaxOutages

Init ==
  /\ now = 0 /\ clock = 0 /\ yielded = 0
  /\ pending = <<>>
  /\ pc = "loop"
  /\ attempt = 0
  /\ stop = FALSE
  /\ rounds = 0
  /\ sent = <<>>
  /\ queue = [p \in Partition |-> <<>>]
  /\ stored = [p \in Partition |-> 0]
  /\ reports = <<>>
  /\ counted = <<>>
  /\ topic = [p \in Partition |-> <<>>]
  /\ up = TRUE
  /\ outages = 0

(* The messages the library holds: each counts until its callback has run. *)
Outstanding == Len(sent) - Len(counted)

(***************************************************************************)
(* run() and the generator                                                 *)
(***************************************************************************)
(* while not stop: a new stream() whose clock starts at the wall clock.    *)
StartRound ==
  /\ pc = "loop" /\ ~stop
  /\ rounds < MaxRounds
  /\ rounds' = rounds + 1
  /\ clock' = now
  /\ yielded' = 0
  /\ pending' = <<>>
  /\ pc' = "stream"
  /\ UNCHANGED <<now, attempt, stop, sent, library, counted, broker>>

(* Variant: the loop ends without the flush. *)
LeaveLoopAtOnce ==
  /\ pc = "loop" /\ stop
  /\ pc' = "stopped"
  /\ UNCHANGED <<generator, now, attempt, rounds, stop, sent, library, counted, broker>>

LeaveLoop ==
  /\ pc = "loop" /\ stop
  /\ pc' = "flush"
  /\ UNCHANGED <<generator, now, attempt, rounds, stop, sent, library, counted, broker>>

(* for txn in generator.stream(tps): the rest of the turn, or a new turn.  *)
NextTransaction ==
  /\ pc = "stream"
  /\ \/ /\ pending # <<>>
        /\ UNCHANGED <<clock, pending>>
     \/ /\ pending = <<>> /\ yielded < Tps
        /\ \E c \in Card, d \in ClockSteps :
             /\ clock' = clock + d
             /\ pending' \in Yields(c, clock + d)
  /\ pc' = "publish"
  /\ UNCHANGED <<yielded, now, attempt, rounds, stop, sent, library, counted, broker>>

EndRound ==
  /\ pc = "stream" /\ pending = <<>> /\ yielded >= Tps
  /\ pc' = "sleep"
  /\ UNCHANGED <<generator, now, attempt, rounds, stop, sent, library, counted, broker>>

(* Variant: the rest of the second is not slept. *)
NoSleep ==
  /\ pc = "sleep"
  /\ now' = now
  /\ pc' = "loop"
  /\ UNCHANGED <<generator, attempt, rounds, stop, sent, library, counted, broker>>

(* A round takes batch_interval; that a slow one takes longer only moves   *)
(* the next one's clock further ahead.                                     *)
Sleep ==
  /\ pc = "sleep"
  /\ now' = now + Interval
  /\ pc' = "loop"
  /\ UNCHANGED <<generator, attempt, rounds, stop, sent, library, counted, broker>>

(***************************************************************************)
(* publish                                                                 *)
(***************************************************************************)
(* Variant: the callback does not look at err. *)
CountAsDelivered ==
  /\ counted' = counted \o [i \in DOMAIN reports |-> [reports[i] EXCEPT !.ok = TRUE]]
  /\ reports' = <<>>

(* poll(0) and flush() run the callback of every report that is there.     *)
ServeReports ==
  /\ counted' = counted \o reports
  /\ reports' = <<>>

(* key=txn.card_id *)
Destination(txn) == PartitionOf[txn.card]

(* produce() takes the message, then poll(0); `if stop: break` follows.    *)
Publish ==
  /\ pc = "publish"
  /\ Outstanding < MaxBuffer
  /\ LET txn == Head(pending) IN
     /\ sent' = Append(sent, txn)
     /\ queue' = [queue EXCEPT ![Destination(txn)] = Append(@, Len(sent) + 1)]
  /\ pending' = Tail(pending)
  /\ yielded' = yielded + 1
  /\ ServeReports
  /\ attempt' = 0
  /\ pc' = IF stop THEN "sleep" ELSE "stream"
  /\ UNCHANGED <<clock, now, rounds, stop, stored, broker>>

(* produce() raises BufferError: poll(0) is not reached, and publish waits *)
(* before it is run again.                                                 *)
RetryPublish ==
  /\ pc = "publish"
  /\ Outstanding >= MaxBuffer
  /\ attempt < Attempts - 1
  /\ attempt' = attempt + 1
  /\ UNCHANGED <<generator, now, pc, rounds, stop, sent, library, counted, broker>>

(* Variant: no stop_after_attempt. *)
RetryForEver ==
  /\ pc = "publish"
  /\ Outstanding >= MaxBuffer
  /\ attempt = Attempts - 1
  /\ UNCHANGED vars

(* RetryError after the last attempt is no ValidationError: it leaves run()*)
(* past the flush.                                                         *)
GiveUp ==
  /\ pc = "publish"
  /\ Outstanding >= MaxBuffer
  /\ attempt = Attempts - 1
  /\ pc' = "dead"
  /\ UNCHANGED <<generator, now, attempt, rounds, stop, sent, library, counted, broker>>

(***************************************************************************)
(* flush(10.0) and the signal                                              *)
(***************************************************************************)
FlushServes ==
  /\ pc = "flush" /\ reports # <<>>
  /\ ServeReports
  /\ UNCHANGED <<generator, loop, stop, sent, queue, stored, broker>>

FlushDone ==
  /\ pc = "flush" /\ Outstanding = 0
  /\ pc' = "stopped"
  /\ UNCHANGED <<generator, now, attempt, rounds, stop, sent, library, counted, broker>>

(* flush() returns how many are left; run() does not look.                 *)
FlushTimesOut ==
  /\ pc = "flush" /\ Outstanding > 0
  /\ pc' = "cut"
  /\ UNCHANGED <<generator, now, attempt, rounds, stop, sent, library, counted, broker>>

Sigterm ==
  /\ pc \notin Ended /\ ~stop
  /\ stop' = TRUE
  /\ UNCHANGED <<generator, loop, sent, library, counted, broker>>

(***************************************************************************)
(* The client library and the broker, while the process lives              *)
(***************************************************************************)
(* Variant: without idempotence a message whose answer is late is sent and *)
(* stored a second time.                                                   *)
StoreAgain(p) ==
  /\ pc \notin Ended /\ up
  /\ \E i \in {stored[p], stored[p] + 1} \cap DOMAIN queue[p] :
       /\ topic' = [topic EXCEPT ![p] = Append(@, queue[p][i])]
       /\ stored' = [stored EXCEPT ![p] = i]
  /\ UNCHANGED <<generator, loop, stop, sent, queue, reports, counted, up, outages>>

(* The broker appends the next message of the partition; the sequence      *)
(* number keeps it from appending one twice, or past a missing one.        *)
Store(p) ==
  /\ pc \notin Ended /\ up
  /\ stored[p] < Len(queue[p])
  /\ topic' = [topic EXCEPT ![p] = Append(@, queue[p][stored[p] + 1])]
  /\ stored' = [stored EXCEPT ![p] = @ + 1]
  /\ UNCHANGED <<generator, loop, stop, sent, queue, reports, counted, up, outages>>

(* Its answer arrives, for the oldest first. *)
Acknowledge(p) ==
  /\ pc \notin Ended /\ up
  /\ stored[p] > 0
  /\ reports' = Append(reports, [n |-> Head(queue[p]), ok |-> TRUE])
  /\ queue' = [queue EXCEPT ![p] = Tail(@)]
  /\ stored' = [stored EXCEPT ![p] = @ - 1]
  /\ UNCHANGED <<generator, loop, stop, sent, counted, broker>>

(* message.timeout.ms passes for the oldest message, which the broker may  *)
(* have stored: only its answer was lost.                                  *)
Expire(p) ==
  /\ pc \notin Ended /\ ~up
  /\ queue[p] # <<>>
  /\ reports' = Append(reports, [n |-> Head(queue[p]), ok |-> FALSE])
  /\ queue' = [queue EXCEPT ![p] = Tail(@)]
  /\ stored' = [stored EXCEPT ![p] = IF @ > 0 THEN @ - 1 ELSE 0]
  /\ UNCHANGED <<generator, loop, stop, sent, counted, broker>>

Outage ==
  /\ up /\ outages < MaxOutages
  /\ up' = FALSE
  /\ outages' = outages + 1
  /\ UNCHANGED <<generator, loop, stop, sent, library, counted, topic>>

Recover ==
  /\ ~up
  /\ up' = TRUE
  /\ UNCHANGED <<generator, loop, stop, sent, library, counted, topic, outages>>

Run ==
  \/ StartRound \/ LeaveLoop \/ NextTransaction \/ EndRound \/ Sleep
  \/ Publish \/ RetryPublish \/ GiveUp
  \/ FlushServes \/ FlushDone

Deliver(p) == Store(p) \/ Acknowledge(p)

Next ==
  \/ Run
  \/ FlushTimesOut
  \/ Sigterm
  \/ \E p \in Partition : Deliver(p) \/ Expire(p)
  \/ Outage
  \/ Recover

Spec == Init /\ [][Next]_vars

(* The process keeps running, the broker comes back and then answers.      *)
FairSpec ==
  /\ Spec
  /\ WF_vars(Run)
  /\ \A p \in Partition : WF_vars(Deliver(p))
  /\ WF_vars(Recover)

(***************************************************************************)
(* Properties                                                              *)
(***************************************************************************)
OnTopic(n) == \E p \in Partition : \E i \in DOMAIN topic[p] : topic[p][i] = n
Failed(n)  == \E i \in DOMAIN counted : counted[i].n = n /\ ~counted[i].ok

(* Every accepted message is reported to _delivery_callback at most once,  *)
(* whatever the order in which partitions, retries and outages report:     *)
(* PRODUCER_MESSAGES counts only what is on the topic, and what neither    *)
(* counter has seen is still in the library's hands.                       *)
CountersTruthful ==
  /\ \A i, j \in DOMAIN counted : counted[i].n = counted[j].n => i = j
  /\ \A i \in DOMAIN counted : counted[i].ok => OnTopic(counted[i].n)
  /\ \A n \in DOMAIN sent :
       \/ \E i \in DOMAIN counted : counted[i].n = n
       \/ \E i \in DOMAIN reports : reports[i].n = n
       \/ \E p \in Partition : \E i \in DOMAIN queue[p] : queue[p][i] = n

(* An orderly stop whose flush was not cut short loses nothing silently:   *)
(* what was accepted is on the topic or in PRODUCER_ERRORS.                *)
StopLosesNothing ==
  pc = "stopped" => \A n \in DOMAIN sent : OnTopic(n) \/ Failed(n)

(* How late the consumer may see an event: of two transactions of a card   *)
(* in the order of the topic, the second's event_time is behind the        *)
(* first's by no more than what a turn sets ahead of the clock plus what   *)
(* the clock of one round runs ahead of the start of the next.             *)
MaxLateness ==
  MaxAhead + Max({0, Tps * Max(ClockSteps) - Interval - Min(ClockSteps)})

LatenessBounded ==
  \A p \in Partition : \A i, j \in DOMAIN topic[p] :
    i < j /\ sent[topic[p][i]].card = sent[topic[p][j]].card =>
      sent[topic[p][i]].at - sent[topic[p][j]].at <= MaxLateness

(* After SIGTERM run() ends, under FairSpec: also when it came during the  *)
(* attempts of a publish that cannot succeed, or while the broker is away. *)
StopEnds == stop ~> pc \in Ended

(***************************************************************************)
(* What the topic's consumer may rely on: see TransactionTopic.            *)
(***************************************************************************)
Topic == INSTANCE TransactionTopic
           WITH source <- [n \in DOMAIN sent |-> sent[n].card], log <- topic

ImplementsTopic == Topic!Spec
=============================================================================
