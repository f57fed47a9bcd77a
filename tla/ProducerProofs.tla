--------------------------- MODULE ProducerProofs ---------------------------
(***************************************************************************)
(* Theorems about Producer, for any cards, partitions, generator, buffer,  *)
(* number of attempts, rounds and outages.                                 *)
(***************************************************************************)
EXTENDS Producer, SequenceTheorems, FunctionTheorems, FiniteSetTheorems, TLAPS

Txn    == [card : Card, at : Nat]
Report == [n : DOMAIN sent, ok : BOOLEAN]

(* publish is only called with a transaction the generator has yielded.    *)
Typed == TypeOK /\ (pc = "publish" => pending # <<>>)

(***************************************************************************)
(* The inductive invariant.  Reported is every delivery report so far, in  *)
(* the order in which the library gave it: serving reports does not change *)
(* it, which is why the parts below speak of it and not of the counters.   *)
(***************************************************************************)
Reported == counted \o reports

KeysKept ==
  \A p \in Partition :
    /\ \A i \in DOMAIN queue[p] : Destination(sent[queue[p][i]]) = p
    /\ \A i \in DOMAIN topic[p] : Destination(sent[topic[p][i]]) = p

QueueInOrder ==
  \A p \in Partition : \A i, j \in DOMAIN queue[p] : i < j => queue[p][i] < queue[p][j]

(* What is still to be stored is later than all that is on the topic.      *)
StoredFirst ==
  \A p \in Partition : \A i \in DOMAIN topic[p], j \in DOMAIN queue[p] :
    j > stored[p] => topic[p][i] < queue[p][j]

TopicInOrder ==
  \A p \in Partition : \A i, j \in DOMAIN topic[p] : i < j => topic[p][i] < topic[p][j]

StoredOnTopic ==
  \A p \in Partition : \A k \in DOMAIN queue[p] : k <= stored[p] => OnTopic(queue[p][k])

ReportedOnce ==
  \A i, j \in DOMAIN Reported : Reported[i].n = Reported[j].n => i = j

QueuedUnreported ==
  \A p \in Partition : \A k \in DOMAIN queue[p], i \in DOMAIN Reported :
    Reported[i].n # queue[p][k]

ReportedStored ==
  \A i \in DOMAIN Reported : Reported[i].ok => OnTopic(Reported[i].n)

NoneLost ==
  \A n \in DOMAIN sent :
    \/ \E i \in DOMAIN Reported : Reported[i].n = n
    \/ \E p \in Partition : \E k \in DOMAIN queue[p] : queue[p][k] = n

Ordered   == KeysKept /\ QueueInOrder /\ StoredFirst /\ TopicInOrder
Accounted == StoredOnTopic /\ ReportedOnce /\ QueuedUnreported /\ ReportedStored /\ NoneLost
Drained   == pc = "stopped" => Len(sent) = Len(counted)

IInv == Typed /\ Ordered /\ Accounted /\ Drained

(***************************************************************************)
(* Types                                                                   *)
(***************************************************************************)
LEMMA Draws ==
  /\ ClockSteps \subseteq Nat \ {0} /\ TravelDelays \subseteq Nat \ {0}
  /\ BurstSizes \subseteq Nat \ {0} /\ BurstGaps \subseteq Nat \ {0}
BY GeneratorAssumption DEF Drawn

(* Whatever a turn of the generator yields is a non-empty sequence of      *)
(* transactions.                                                           *)
LEMMA YieldsTyped ==
  ASSUME NEW c \in Card, NEW t \in Nat, NEW s \in Yields(c, t)
  PROVE  s \in Seq(Txn) /\ s # <<>>
  <1>0. \A a \in Nat : Transaction(c, a) \in Txn  BY DEF Transaction, Txn
  <1>1. ASSUME s \in Single(c, t) PROVE s \in Seq(Txn) /\ s # <<>>
    <2>1. s = <<Transaction(c, t)>>  BY <1>1 DEF Single
    <2>2. Transaction(c, t) \in Txn  BY <1>0
    <2>. QED  BY <2>1, <2>2
  <1>2. ASSUME s \in ImpossibleTravelPair(c, t) PROVE s \in Seq(Txn) /\ s # <<>>
    <2>1. PICK d \in TravelDelays : s = <<Transaction(c, t), Transaction(c, t + d)>>
      BY <1>2 DEF ImpossibleTravelPair
    <2>2. t + d \in Nat  BY Draws
    <2>3. Transaction(c, t) \in Txn /\ Transaction(c, t + d) \in Txn  BY <1>0, <2>2
    <2>. QED  BY <2>1, <2>3
  <1>3. ASSUME s \in VelocityAbuseBurst(c, t) PROVE s \in Seq(Txn) /\ s # <<>>
    <2>0. PICK k \in BurstSizes :
            s \in {[i \in 1 .. k |-> Transaction(c, t + (i - 1) * gap[i])] :
                     gap \in [1 .. k -> BurstGaps]}
      BY <1>3 DEF VelocityAbuseBurst
    <2>1. PICK gap \in [1 .. k -> BurstGaps] :
            s = [i \in 1 .. k |-> Transaction(c, t + (i - 1) * gap[i])]
      BY <2>0
    <2>2. k \in Nat /\ k >= 1  BY Draws
    <2>3. ASSUME NEW i \in 1 .. k PROVE s[i] \in Txn
      <3>1. gap[i] \in BurstGaps  OBVIOUS
      <3>2. gap[i] \in Nat  BY <3>1, Draws
      <3>3. i - 1 \in Nat  BY <2>2
      <3>4. t + (i - 1) * gap[i] \in Nat  BY <3>2, <3>3
      <3>5. s[i] = Transaction(c, t + (i - 1) * gap[i])  BY <2>1
      <3>. QED  BY <1>0, <3>4, <3>5
    <2>4. s \in [1 .. k -> Txn]  BY <2>1, <2>3
    <2>5. s \in Seq(Txn) /\ Len(s) = k  BY <2>2, <2>4
    <2>. QED  BY <2>2, <2>5
  <1>. QED  BY <1>1, <1>2, <1>3 DEF Yields

LEMMA InitTyped == Init => Typed
  <1>. SUFFICES ASSUME Init PROVE Typed  OBVIOUS
  <1>1. \A S : <<>> \in Seq(S)  OBVIOUS
  <1>2. Len(<<>>) = 0  OBVIOUS
  <1>3. 0 \in 0 .. Attempts - 1 /\ 0 \in 0 .. MaxRounds /\ 0 \in 0 .. MaxOutages
    BY ProducerAssumption
  <1>4. /\ queue \in [Partition -> Seq(DOMAIN sent)] /\ topic \in [Partition -> Seq(DOMAIN sent)]
        /\ \A p \in Partition : stored[p] <= Len(queue[p])
    BY <1>1, <1>2 DEF Init
  <1>. QED  BY <1>1, <1>3, <1>4 DEF Init, Typed, TypeOK

(* Steps that leave the messages alone keep the types. *)
LEMMA LoopTyped ==
  ASSUME Typed, UNCHANGED <<sent, library, counted, broker>>,
         \/ StartRound \/ LeaveLoop \/ NextTransaction \/ EndRound \/ Sleep
         \/ RetryPublish \/ GiveUp \/ FlushDone \/ FlushTimesOut \/ Sigterm
  PROVE  Typed'
  <1>. USE ProducerAssumption DEF Typed, TypeOK, library, broker, Ended
  <1>1. CASE StartRound  BY <1>1 DEF StartRound
  <1>2. CASE LeaveLoop  BY <1>2 DEF LeaveLoop, generator
  <1>3. CASE NextTransaction
    <2>1. CASE pending # <<>>  BY <1>3, <2>1 DEF NextTransaction, generator
    <2>2. CASE pending = <<>>
      <3>1. PICK c \in Card, d \in ClockSteps :
              clock' = clock + d /\ pending' \in Yields(c, clock + d)
        BY <1>3, <2>2 DEF NextTransaction
      <3>2. clock + d \in Nat  BY Draws
      <3>3. pending' \in Seq(Txn) /\ pending' # <<>>  BY <3>1, <3>2, YieldsTyped
      <3>. QED  BY <1>3, <3>1, <3>2, <3>3 DEF NextTransaction, Txn
    <2>. QED  BY <2>1, <2>2
  <1>4. CASE EndRound  BY <1>4 DEF EndRound, generator
  <1>5. CASE Sleep  BY <1>5 DEF Sleep, generator
  <1>6. CASE RetryPublish  BY <1>6 DEF RetryPublish, generator
  <1>7. CASE GiveUp  BY <1>7 DEF GiveUp, generator
  <1>8. CASE FlushDone  BY <1>8 DEF FlushDone, generator
  <1>9. CASE FlushTimesOut  BY <1>9 DEF FlushTimesOut, generator
  <1>10. CASE Sigterm  BY <1>10 DEF Sigterm, generator, loop
  <1>. QED
    BY <1>1, <1>2, <1>3, <1>4, <1>5, <1>6, <1>7, <1>8, <1>9, <1>10

LEMMA PublishTyped ==
  ASSUME Typed, Publish
  PROVE  Typed' /\ Head(pending) \in Txn /\ Destination(Head(pending)) \in Partition
  <1>. USE DEF Typed, TypeOK
  <1>1. pending \in Seq(Txn) /\ pending # <<>>  BY DEF Publish, Txn
  <1>2. Head(pending) \in Txn /\ Tail(pending) \in Seq(Txn)
    BY <1>1, HeadTailProperties
  <1>3. Destination(Head(pending)) \in Partition
    BY <1>2, ProducerAssumption DEF Destination, Txn
  <1>4. sent' = Append(sent, Head(pending))  BY DEF Publish
  <1>5. sent' \in Seq(Txn) /\ Len(sent') = Len(sent) + 1
    BY <1>2, <1>4, AppendProperties DEF Txn
  <1>6. DOMAIN sent \subseteq DOMAIN sent' /\ Len(sent) + 1 \in DOMAIN sent'
    BY <1>5 DEF Txn
  <1>7. \A p \in Partition : queue[p] \in Seq(DOMAIN sent')
    BY <1>6, SeqMonotonic
  <1>8. \A p \in Partition : topic[p] \in Seq(DOMAIN sent')
    BY <1>6, SeqMonotonic
  <1>9. queue' = [queue EXCEPT ![Destination(Head(pending))] = Append(@, Len(sent) + 1)]
    BY DEF Publish
  <1>10. queue' \in [Partition -> Seq(DOMAIN sent')]
    BY <1>3, <1>6, <1>7, <1>9
  <1>11. \A p \in Partition : Len(queue'[p]) >= Len(queue[p])
    BY <1>3, <1>9
  <1>12. counted \in Seq(Report') /\ reports \in Seq(Report')
    <2>1. Report \subseteq Report'  BY <1>6 DEF Report
    <2>. QED  BY <2>1, SeqMonotonic DEF Report
  <1>13. counted' \in Seq(Report') /\ reports' \in Seq(Report')
    BY <1>12, ConcatProperties DEF Publish, ServeReports
  <1>14. TypeOK'
    <2>1. now' \in Nat /\ clock' \in Nat /\ yielded' \in Nat
      BY DEF Publish
    <2>2. pending' \in Seq(Txn) /\ sent' \in Seq(Txn)  BY <1>2, <1>5 DEF Publish
    <2>3. /\ pc' \in {"loop", "stream", "publish", "sleep", "flush"} \cup Ended
          /\ attempt' \in 0 .. Attempts - 1 /\ stop' \in BOOLEAN /\ rounds' \in 0 .. MaxRounds
      BY ProducerAssumption DEF Publish
    <2>4. topic' \in [Partition -> Seq(DOMAIN sent')] /\ up' \in BOOLEAN
          /\ outages' \in 0 .. MaxOutages
      BY <1>8 DEF Publish, broker
    <2>5. stored' \in [Partition -> Nat] /\ \A p \in Partition : stored'[p] <= Len(queue'[p])
      <3>1. \A p \in Partition : Len(queue'[p]) \in Nat  BY <1>10
      <3>. QED  BY <1>11, <3>1 DEF Publish
    <2>. QED  BY <1>10, <1>13, <2>1, <2>2, <2>3, <2>4, <2>5 DEF Txn, Report
  <1>15. pc' # "publish"  BY DEF Publish
  <1>. QED  BY <1>2, <1>3, <1>14, <1>15

LEMMA FlushServesTyped ==
  ASSUME Typed, FlushServes PROVE Typed'
  <1>. USE DEF Typed, TypeOK
  <1>1. counted \in Seq(Report) /\ reports \in Seq(Report)  BY DEF Report
  <1>2. counted' \in Seq(Report) /\ reports' \in Seq(Report)
    BY <1>1, ConcatProperties DEF FlushServes, ServeReports
  <1>. QED  BY <1>2 DEF FlushServes, generator, loop, broker, Report

LEMMA StoreTyped ==
  ASSUME Typed, NEW p \in Partition, Store(p)
  PROVE  /\ Typed'
         /\ stored[p] + 1 \in DOMAIN queue[p]
         /\ queue[p][stored[p] + 1] \in DOMAIN sent
  <1>0. /\ queue[p] \in Seq(DOMAIN sent) /\ topic[p] \in Seq(DOMAIN sent)
        /\ stored \in [Partition -> Nat] /\ topic \in [Partition -> Seq(DOMAIN sent)]
    BY DEF Typed, TypeOK
  <1>1. stored[p] + 1 \in 1 .. Len(queue[p]) /\ stored[p] + 1 \in DOMAIN queue[p]
    <2>1. stored[p] < Len(queue[p])  BY DEF Store
    <2>2. Len(queue[p]) \in Nat /\ DOMAIN queue[p] = 1 .. Len(queue[p])
      BY <1>0, LenProperties
    <2>. QED  BY <1>0, <2>1, <2>2
  <1>2. queue[p][stored[p] + 1] \in DOMAIN sent  BY <1>0, <1>1, ElementOfSeq
  <1>3. topic' \in [Partition -> Seq(DOMAIN sent)]
    <2>1. Append(topic[p], queue[p][stored[p] + 1]) \in Seq(DOMAIN sent)
      BY <1>0, <1>2, AppendProperties
    <2>2. topic' = [topic EXCEPT ![p] = Append(topic[p], queue[p][stored[p] + 1])]
      BY DEF Store
    <2>. QED  BY <1>0, <2>1, <2>2
  <1>4. stored' = [stored EXCEPT ![p] = stored[p] + 1]  BY DEF Store
  <1>5. /\ stored' \in [Partition -> Nat]
        /\ \A q \in Partition : stored'[q] <= Len(queue[q])
    <2>1. stored[p] + 1 <= Len(queue[p]) /\ stored[p] + 1 \in Nat
      BY <1>0, <1>1
    <2>2. \A q \in Partition : stored[q] <= Len(queue[q])  BY DEF Typed, TypeOK
    <2>. QED  BY <1>0, <1>4, <2>1, <2>2
  <1>. QED  BY <1>1, <1>2, <1>3, <1>5 DEF Store, generator, loop, Typed, TypeOK

(* The effect of a delivery report on the library: Acknowledge or Expire.  *)
Reports(p, ok) ==
  /\ queue[p] # <<>>
  /\ ok => stored[p] > 0
  /\ reports' = Append(reports, [n |-> Head(queue[p]), ok |-> ok])
  /\ queue' = [queue EXCEPT ![p] = Tail(@)]
  /\ stored' = [stored EXCEPT ![p] = IF @ > 0 THEN @ - 1 ELSE 0]
  /\ UNCHANGED <<generator, loop, stop, sent, counted, broker>>

LEMMA ReportingSteps ==
  ASSUME Typed, NEW p \in Partition
  PROVE  /\ Acknowledge(p) => Reports(p, TRUE)
         /\ Expire(p) => Reports(p, FALSE)
  <1>1. ASSUME Acknowledge(p) PROVE Reports(p, TRUE)
    <2>1. stored[p] > 0 /\ stored[p] <= Len(queue[p]) /\ stored[p] \in Nat
          /\ stored \in [Partition -> Nat]
      BY <1>1 DEF Acknowledge, Typed, TypeOK
    <2>2. queue[p] # <<>>  BY <2>1
    <2>3. stored' = [stored EXCEPT ![p] = IF @ > 0 THEN @ - 1 ELSE 0]
      BY <1>1, <2>1 DEF Acknowledge
    <2>. QED  BY <1>1, <2>1, <2>2, <2>3 DEF Acknowledge, Reports
  <1>2. ASSUME Expire(p) PROVE Reports(p, FALSE)  BY <1>2 DEF Expire, Reports
  <1>. QED  BY <1>1, <1>2

(* What such a step does to the queues and to Reported, one entry at a     *)
(* time.                                                                   *)
LEMMA ReportFacts ==
  ASSUME Typed, NEW p \in Partition, NEW ok \in BOOLEAN, Reports(p, ok)
  PROVE  /\ Typed'
         /\ 1 \in DOMAIN queue[p]
         /\ \A q \in Partition \ {p} : queue'[q] = queue[q] /\ stored'[q] = stored[q]
         /\ \A k \in DOMAIN queue'[p] : k + 1 \in DOMAIN queue[p] /\ queue'[p][k] = queue[p][k + 1]
         /\ \A k \in DOMAIN queue[p] : k = 1 \/ (k - 1 \in DOMAIN queue'[p] /\ queue'[p][k - 1] = queue[p][k])
         /\ DOMAIN Reported = 1 .. Len(Reported) /\ Len(Reported) \in Nat
         /\ DOMAIN Reported' = 1 .. Len(Reported) + 1
         /\ \A i \in DOMAIN Reported : Reported'[i] = Reported[i]
         /\ Reported'[Len(Reported) + 1] = [n |-> queue[p][1], ok |-> ok]
         /\ UNCHANGED <<sent, topic>>
  <1>0. /\ queue \in [Partition -> Seq(DOMAIN sent)] /\ stored \in [Partition -> Nat]
        /\ \A q \in Partition : stored[q] <= Len(queue[q])
    BY DEF Typed, TypeOK
  <1>1. queue[p] \in Seq(DOMAIN sent) /\ queue[p] # <<>>  BY <1>0 DEF Reports
  <1>2. /\ Head(queue[p]) = queue[p][1] /\ queue[p][1] \in DOMAIN sent
        /\ Tail(queue[p]) \in Seq(DOMAIN sent)
        /\ Len(queue[p]) \in Nat \ {0} /\ Len(Tail(queue[p])) = Len(queue[p]) - 1
        /\ \A k \in 1 .. Len(queue[p]) - 1 : Tail(queue[p])[k] = queue[p][k + 1]
    <2>1. Len(queue[p]) \in Nat \ {0}  BY <1>1, EmptySeq
    <2>2. 1 \in 1 .. Len(queue[p])  BY <2>1
    <2>3. queue[p][1] \in DOMAIN sent  BY <1>1, <2>2, ElementOfSeq
    <2>4. /\ Tail(queue[p]) \in Seq(DOMAIN sent) /\ Len(Tail(queue[p])) = Len(queue[p]) - 1
          /\ \A k \in 1 .. Len(Tail(queue[p])) : Tail(queue[p])[k] = queue[p][k + 1]
      BY <1>1, HeadTailProperties
    <2>. QED  BY <2>1, <2>3, <2>4
  <1>3. queue' = [queue EXCEPT ![p] = Tail(queue[p])]  BY DEF Reports
  <1>4. queue'[p] = Tail(queue[p]) /\ queue' \in [Partition -> Seq(DOMAIN sent)]
    BY <1>0, <1>2, <1>3
  <1>5. stored' = [stored EXCEPT ![p] = IF stored[p] > 0 THEN stored[p] - 1 ELSE 0]
    BY DEF Reports
  <1>6. stored' \in [Partition -> Nat]
    <2>1. stored[p] \in Nat  BY <1>0
    <2>2. (IF stored[p] > 0 THEN stored[p] - 1 ELSE 0) \in Nat  BY <2>1
    <2>. QED  BY <1>0, <1>5, <2>2
  <1>7. \A q \in Partition : stored'[q] <= Len(queue'[q])
    <2>1. stored'[p] <= Len(queue'[p])
      <3>1. stored[p] \in Nat /\ stored[p] <= Len(queue[p])  BY <1>0
      <3>. QED  BY <1>0, <1>2, <1>4, <1>5, <3>1
    <2>2. \A q \in Partition \ {p} : stored'[q] = stored[q] /\ queue'[q] = queue[q]
      BY <1>0, <1>3, <1>5
    <2>. QED  BY <1>0, <2>1, <2>2
  <1>. DEFINE r == [n |-> queue[p][1], ok |-> ok]
  <1>8. r \in Report /\ counted \in Seq(Report) /\ reports \in Seq(Report)
    BY <1>2 DEF Report, Typed, TypeOK
  <1>9. reports' = Append(reports, r) /\ counted' = counted  BY <1>2 DEF Reports
  <1>. HIDE DEF r
  <1>10. /\ Append(reports, r) \in Seq(Report) /\ Len(Append(reports, r)) = Len(reports) + 1
         /\ \A i \in 1 .. Len(reports) : Append(reports, r)[i] = reports[i]
         /\ Append(reports, r)[Len(reports) + 1] = r
    BY <1>8, AppendProperties
  <1>11. /\ Reported \in Seq(Report) /\ Len(Reported) = Len(counted) + Len(reports)
         /\ \A i \in 1 .. Len(counted) + Len(reports) :
              Reported[i] = IF i <= Len(counted) THEN counted[i] ELSE reports[i - Len(counted)]
    BY <1>8, ConcatProperties DEF Reported
  <1>12. /\ Reported' \in Seq(Report) /\ Len(Reported') = Len(counted) + Len(reports) + 1
         /\ \A i \in 1 .. Len(counted) + Len(reports) + 1 :
              Reported'[i] = IF i <= Len(counted) THEN counted[i]
                             ELSE Append(reports, r)[i - Len(counted)]
    <2>1. Reported' = counted \o Append(reports, r)  BY <1>9 DEF Reported
    <2>. DEFINE s == Append(reports, r)
    <2>2. s \in Seq(Report) /\ Len(s) = Len(reports) + 1  BY <1>10
    <2>3. Len(counted) \in Nat /\ Len(reports) \in Nat  BY <1>8, LenProperties
    <2>4. Len(counted) + Len(s) = Len(counted) + Len(reports) + 1  BY <2>2, <2>3
    <2>. HIDE DEF s
    <2>5. /\ counted \o s \in Seq(Report) /\ Len(counted \o s) = Len(counted) + Len(s)
          /\ \A i \in 1 .. Len(counted) + Len(s) :
               (counted \o s)[i] = IF i <= Len(counted) THEN counted[i] ELSE s[i - Len(counted)]
      BY <1>8, <2>2, ConcatProperties
    <2>. QED  BY <2>1, <2>4, <2>5 DEF s
  <1>13. Len(counted) \in Nat /\ Len(reports) \in Nat  BY <1>8, LenProperties
  <1>14. \A i \in 1 .. Len(Reported) : Reported'[i] = Reported[i]
    <2>. TAKE i \in 1 .. Len(Reported)
    <2>1. i \in 1 .. Len(counted) + Len(reports) /\ i \in 1 .. Len(counted) + Len(reports) + 1
      BY <1>11, <1>13
    <2>2. CASE i <= Len(counted)  BY <1>11, <1>12, <2>1, <2>2
    <2>3. CASE ~(i <= Len(counted))
      <3>1. i - Len(counted) \in 1 .. Len(reports)  BY <1>13, <2>1, <2>3
      <3>. QED  BY <1>10, <1>11, <1>12, <2>1, <2>3, <3>1
    <2>. QED  BY <2>2, <2>3
  <1>15. Reported'[Len(Reported) + 1] = r
    <2>. DEFINE i == Len(counted) + Len(reports) + 1
    <2>1. i \in 1 .. Len(counted) + Len(reports) + 1 /\ ~(i <= Len(counted))
          /\ i - Len(counted) = Len(reports) + 1 /\ i = Len(Reported) + 1
      BY <1>11, <1>13
    <2>. HIDE DEF i
    <2>. QED  BY <1>10, <1>12, <2>1
  <1>16. Typed'
    <2>1. reports' \in Seq(Report) /\ counted' \in Seq(Report)  BY <1>8, <1>9, <1>10
    <2>. QED
      BY <1>4, <1>6, <1>7, <2>1 DEF Reports, generator, loop, broker, Report, Typed, TypeOK
  <1>17. UNCHANGED <<sent, topic>>  BY DEF Reports, broker
  <1>18. /\ DOMAIN queue[p] = 1 .. Len(queue[p]) /\ DOMAIN queue'[p] = 1 .. Len(queue[p]) - 1
         /\ 1 \in DOMAIN queue[p]
    BY <1>1, <1>2, <1>4, LenProperties
  <1>19. \A q \in Partition \ {p} : queue'[q] = queue[q] /\ stored'[q] = stored[q]
    BY <1>0, <1>3, <1>5
  <1>20. \A k \in DOMAIN queue'[p] : k + 1 \in DOMAIN queue[p] /\ queue'[p][k] = queue[p][k + 1]
    BY <1>2, <1>4, <1>18
  <1>21. \A k \in DOMAIN queue[p] :
           k = 1 \/ (k - 1 \in DOMAIN queue'[p] /\ queue'[p][k - 1] = queue[p][k])
    BY <1>2, <1>4, <1>18
  <1>22. /\ DOMAIN Reported = 1 .. Len(Reported) /\ Len(Reported) \in Nat
         /\ DOMAIN Reported' = 1 .. Len(Reported) + 1
    <2>1. Len(Reported') = Len(Reported) + 1  BY <1>11, <1>12
    <2>. QED  BY <1>11, <1>12, <2>1, LenProperties
  <1>. QED  BY <1>14, <1>15, <1>16, <1>17, <1>18, <1>19, <1>20, <1>21, <1>22 DEF r

LEMMA ReportedServed ==
  ASSUME Typed, ServeReports
  PROVE  Reported' = Reported
  <1>1. counted \o reports \in Seq(Report)
    BY ConcatProperties DEF Typed, TypeOK, Report
  <1>2. Reported' = (counted \o reports) \o <<>>  BY DEF ServeReports, Reported
  <1>. QED  BY <1>1, <1>2, ConcatEmptySeq DEF Reported

LEMMA PublishFacts ==
  ASSUME Typed, Publish,
         NEW p, p = Destination(Head(pending)), NEW n, n = Len(sent) + 1
  PROVE  /\ p \in Partition
         /\ DOMAIN sent' = DOMAIN sent \cup {n}
         /\ \A m \in DOMAIN sent : m < n /\ m \in Nat /\ sent'[m] = sent[m]
         /\ Destination(sent'[n]) = p
         /\ \A q \in Partition \ {p} : queue'[q] = queue[q]
         /\ DOMAIN queue'[p] = 1 .. Len(queue[p]) + 1 /\ DOMAIN queue[p] = 1 .. Len(queue[p])
         /\ Len(queue[p]) \in Nat
         /\ \A k \in DOMAIN queue[p] : queue'[p][k] = queue[p][k]
         /\ queue'[p][Len(queue[p]) + 1] = n
         /\ Reported' = Reported
         /\ UNCHANGED <<stored, topic>>
  <1>1. Head(pending) \in Txn /\ p \in Partition  BY PublishTyped
  <1>2. sent \in Seq(Txn) /\ queue \in [Partition -> Seq(DOMAIN sent)]
    BY DEF Typed, TypeOK, Txn
  <1>3. sent' = Append(sent, Head(pending)) /\ queue' = [queue EXCEPT ![p] = Append(queue[p], n)]
    BY DEF Publish
  <1>4. /\ Len(sent) \in Nat /\ DOMAIN sent = 1 .. Len(sent)
        /\ sent' \in Seq(Txn) /\ Len(sent') = Len(sent) + 1
        /\ \A m \in 1 .. Len(sent) : sent'[m] = sent[m]
        /\ sent'[Len(sent) + 1] = Head(pending)
    BY <1>1, <1>2, <1>3, AppendProperties, LenProperties
  <1>5. DOMAIN sent' = DOMAIN sent \cup {n}
    <2>1. DOMAIN sent' = 1 .. Len(sent) + 1  BY <1>4, LenProperties
    <2>. QED  BY <1>4, <2>1
  <1>6. /\ queue[p] \in Seq(DOMAIN sent') /\ n \in DOMAIN sent'
        /\ Len(queue[p]) \in Nat /\ DOMAIN queue[p] = 1 .. Len(queue[p])
    BY <1>1, <1>2, <1>5, SeqMonotonic, LenProperties
  <1>7. /\ Append(queue[p], n) \in Seq(DOMAIN sent')
        /\ Len(Append(queue[p], n)) = Len(queue[p]) + 1
        /\ \A k \in 1 .. Len(queue[p]) : Append(queue[p], n)[k] = queue[p][k]
        /\ Append(queue[p], n)[Len(queue[p]) + 1] = n
    BY <1>6, AppendProperties
  <1>8. DOMAIN Append(queue[p], n) = 1 .. Len(queue[p]) + 1
    BY <1>7, LenProperties
  <1>9. queue'[p] = Append(queue[p], n) /\ \A q \in Partition \ {p} : queue'[q] = queue[q]
    BY <1>1, <1>2, <1>3
  <1>10. Reported' = Reported  BY ReportedServed DEF Publish
  <1>11. UNCHANGED <<stored, topic>>  BY DEF Publish, broker
  <1>12. \A m \in DOMAIN sent : m < n /\ m \in Nat /\ sent'[m] = sent[m]
    BY <1>4
  <1>13. sent'[n] = Head(pending)  BY <1>4
  <1>. QED
    BY <1>1, <1>5, <1>6, <1>7, <1>8, <1>9, <1>10, <1>11, <1>12, <1>13

(* The positions in the queues and on the topic are those of messages.     *)
LEMMA Positions ==
  ASSUME Typed
  PROVE  /\ \A p \in Partition : \A k \in DOMAIN queue[p] :
              queue[p][k] \in DOMAIN sent /\ queue[p][k] \in Nat /\ k \in Nat
         /\ \A p \in Partition : \A i \in DOMAIN topic[p] :
              topic[p][i] \in DOMAIN sent /\ topic[p][i] \in Nat /\ i \in Nat
         /\ \A i \in DOMAIN Reported : Reported[i].n \in DOMAIN sent /\ Reported[i].ok \in BOOLEAN
         /\ \A p \in Partition : stored[p] \in Nat
  <1>1. DOMAIN sent \subseteq Nat  BY DEF Typed, TypeOK
  <1>2. /\ \A p \in Partition : queue[p] \in Seq(DOMAIN sent) /\ topic[p] \in Seq(DOMAIN sent)
        /\ \A p \in Partition : stored[p] \in Nat
    BY DEF Typed, TypeOK
  <1>3. ASSUME NEW p \in Partition, NEW k \in DOMAIN queue[p]
        PROVE  queue[p][k] \in DOMAIN sent /\ k \in Nat
    <2>1. k \in 1 .. Len(queue[p]) /\ Len(queue[p]) \in Nat  BY <1>2, LenProperties
    <2>. QED  BY <1>2, <2>1, ElementOfSeq
  <1>4. ASSUME NEW p \in Partition, NEW i \in DOMAIN topic[p]
        PROVE  topic[p][i] \in DOMAIN sent /\ i \in Nat
    <2>1. i \in 1 .. Len(topic[p]) /\ Len(topic[p]) \in Nat  BY <1>2, LenProperties
    <2>. QED  BY <1>2, <2>1, ElementOfSeq
  <1>5. ASSUME NEW i \in DOMAIN Reported
        PROVE  Reported[i].n \in DOMAIN sent /\ Reported[i].ok \in BOOLEAN
    <2>1. Reported \in Seq(Report)
      BY ConcatProperties DEF Typed, TypeOK, Report, Reported
    <2>2. Reported[i] \in Report  BY <2>1, LenProperties, ElementOfSeq
    <2>. QED  BY <2>2 DEF Report
  <1>. QED  BY <1>1, <1>2, <1>3, <1>4, <1>5

(***************************************************************************)
(* Order and accounts                                                      *)
(***************************************************************************)
LEMMA PublishKeeps ==
  ASSUME Typed, Ordered, Accounted, Publish
  PROVE  Ordered' /\ Accounted'
  <1>. DEFINE p == Destination(Head(pending))
              n == Len(sent) + 1
  <1>1. /\ p \in Partition
        /\ DOMAIN sent' = DOMAIN sent \cup {n}
        /\ \A m \in DOMAIN sent : m < n /\ m \in Nat /\ sent'[m] = sent[m]
        /\ Destination(sent'[n]) = p
        /\ \A q \in Partition \ {p} : queue'[q] = queue[q]
        /\ DOMAIN queue'[p] = 1 .. Len(queue[p]) + 1 /\ DOMAIN queue[p] = 1 .. Len(queue[p])
        /\ Len(queue[p]) \in Nat
        /\ \A k \in DOMAIN queue[p] : queue'[p][k] = queue[p][k]
        /\ queue'[p][Len(queue[p]) + 1] = n
        /\ Reported' = Reported
        /\ UNCHANGED <<stored, topic>>
    BY PublishFacts
  <1>. HIDE DEF p, n
  <1>2. /\ \A q \in Partition : \A k \in DOMAIN queue[q] :
             queue[q][k] \in DOMAIN sent /\ queue[q][k] \in Nat /\ k \in Nat
        /\ \A q \in Partition : \A i \in DOMAIN topic[q] :
             topic[q][i] \in DOMAIN sent /\ topic[q][i] \in Nat /\ i \in Nat
        /\ \A i \in DOMAIN Reported : Reported[i].n \in DOMAIN sent
        /\ \A q \in Partition : stored[q] \in Nat /\ stored[q] <= Len(queue[q])
    BY Positions DEF Typed, TypeOK
  <1>3. ASSUME NEW q \in Partition, NEW k \in DOMAIN queue'[q]
        PROVE  \/ k \in DOMAIN queue[q] /\ queue'[q][k] = queue[q][k]
               \/ q = p /\ k = Len(queue[p]) + 1 /\ queue'[q][k] = n
    <2>1. CASE q # p  BY <1>1, <2>1
    <2>2. CASE q = p /\ k \in 1 .. Len(queue[p])  BY <1>1, <2>2
    <2>3. CASE q = p /\ k = Len(queue[p]) + 1  BY <1>1, <2>3
    <2>. QED  BY <1>1, <2>1, <2>2, <2>3
  <1>4. \A q \in Partition : \A k \in DOMAIN queue[q] :
          k \in DOMAIN queue'[q] /\ queue'[q][k] = queue[q][k]
    BY <1>1
  <1>5. KeysKept'
    <2>1. ASSUME NEW q \in Partition, NEW k \in DOMAIN queue'[q]
          PROVE  Destination(sent'[queue'[q][k]]) = q
      BY <1>1, <1>2, <1>3, <2>1 DEF Ordered, KeysKept
    <2>2. ASSUME NEW q \in Partition, NEW i \in DOMAIN topic[q]
          PROVE  Destination(sent'[topic[q][i]]) = q
      BY <1>1, <1>2 DEF Ordered, KeysKept
    <2>. QED  BY <1>1, <2>1, <2>2 DEF KeysKept
  <1>6. QueueInOrder'
    <2>1. ASSUME NEW q \in Partition, NEW i \in DOMAIN queue'[q], NEW j \in DOMAIN queue'[q], i < j
          PROVE  queue'[q][i] < queue'[q][j]
      <3>1. CASE i \in DOMAIN queue[q] /\ j \in DOMAIN queue[q]
        BY <1>4, <2>1, <3>1 DEF Ordered, QueueInOrder
      <3>2. CASE i \in DOMAIN queue[q] /\ j \notin DOMAIN queue[q]
        <4>1. queue'[q][j] = n  BY <1>3, <3>2
        <4>. QED  BY <1>1, <1>2, <1>4, <3>2, <4>1
      <3>3. CASE i \notin DOMAIN queue[q]
        <4>1. q = p /\ i = Len(queue[p]) + 1  BY <1>3, <3>3
        <4>2. j \in 1 .. Len(queue[p]) + 1  BY <1>1, <4>1
        <4>. QED  BY <1>1, <2>1, <4>1, <4>2
      <3>. QED  BY <3>1, <3>2, <3>3
    <2>. QED  BY <2>1 DEF QueueInOrder
  <1>7. StoredFirst'
    <2>1. ASSUME NEW q \in Partition, NEW i \in DOMAIN topic[q], NEW j \in DOMAIN queue'[q],
                 j > stored[q]
          PROVE  topic[q][i] < queue'[q][j]
      BY <1>1, <1>2, <1>3, <2>1 DEF Ordered, StoredFirst
    <2>. QED  BY <1>1, <2>1 DEF StoredFirst
  <1>8. TopicInOrder'  BY <1>1 DEF Ordered, TopicInOrder
  <1>9. \A m : OnTopic(m)' <=> OnTopic(m)  BY <1>1 DEF OnTopic
  <1>10. StoredOnTopic'
    <2>1. ASSUME NEW q \in Partition, NEW k \in DOMAIN queue'[q], k <= stored[q]
          PROVE  \E r \in Partition : \E i \in DOMAIN topic[r] : topic[r][i] = queue'[q][k]
      <3>1. k \in DOMAIN queue[q] /\ queue'[q][k] = queue[q][k]
        BY <1>1, <1>2, <1>3, <2>1
      <3>. QED  BY <2>1, <3>1 DEF Accounted, StoredOnTopic, OnTopic
    <2>. QED  BY <1>1, <2>1 DEF StoredOnTopic, OnTopic
  <1>11. ReportedOnce'  BY <1>1 DEF Accounted, ReportedOnce
  <1>12. QueuedUnreported'
    <2>1. ASSUME NEW q \in Partition, NEW k \in DOMAIN queue'[q], NEW i \in DOMAIN Reported
          PROVE  Reported[i].n # queue'[q][k]
      BY <1>1, <1>2, <1>3, <2>1 DEF Accounted, QueuedUnreported
    <2>. QED  BY <1>1, <2>1 DEF QueuedUnreported
  <1>13. ReportedStored'  BY <1>1 DEF Accounted, ReportedStored, OnTopic
  <1>14. NoneLost'
    <2>1. ASSUME NEW m \in DOMAIN sent
          PROVE  \/ \E i \in DOMAIN Reported : Reported[i].n = m
                 \/ \E q \in Partition : \E k \in DOMAIN queue'[q] : queue'[q][k] = m
      BY <1>4 DEF Accounted, NoneLost
    <2>2. \E q \in Partition : \E k \in DOMAIN queue'[q] : queue'[q][k] = n
      <3>1. Len(queue[p]) + 1 \in DOMAIN queue'[p]  BY <1>1
      <3>. QED  BY <1>1, <3>1
    <2>. QED  BY <1>1, <2>1, <2>2 DEF NoneLost
  <1>. QED
    BY <1>5, <1>6, <1>7, <1>8, <1>10, <1>11, <1>12, <1>13, <1>14 DEF Ordered, Accounted

LEMMA StoreKeeps ==
  ASSUME Typed, Ordered, Accounted, NEW p \in Partition, Store(p)
  PROVE  /\ Ordered' /\ Accounted'
         /\ \A q \in Partition : \A i \in DOMAIN topic[q] :
              sent[topic[q][i]].card = sent[queue[p][stored[p] + 1]].card =>
                q = p /\ topic[q][i] < queue[p][stored[p] + 1]
  <1>. DEFINE n == queue[p][stored[p] + 1]
  <1>0. /\ stored[p] + 1 \in DOMAIN queue[p] /\ n \in DOMAIN sent /\ stored[p] \in Nat
        /\ topic \in [Partition -> Seq(DOMAIN sent)] /\ stored \in [Partition -> Nat]
    BY StoreTyped DEF Typed, TypeOK
  <1>. HIDE DEF n
  <1>1. topic' = [topic EXCEPT ![p] = Append(topic[p], n)]  BY DEF Store, n
  <1>2. /\ Len(topic[p]) \in Nat /\ DOMAIN topic[p] = 1 .. Len(topic[p])
        /\ Append(topic[p], n) \in Seq(DOMAIN sent)
        /\ Len(Append(topic[p], n)) = Len(topic[p]) + 1
        /\ \A i \in 1 .. Len(topic[p]) : Append(topic[p], n)[i] = topic[p][i]
        /\ Append(topic[p], n)[Len(topic[p]) + 1] = n
    BY <1>0, AppendProperties, LenProperties
  <1>3. DOMAIN Append(topic[p], n) = 1 .. Len(topic[p]) + 1  BY <1>2, LenProperties
  <1>4. /\ \A q \in Partition \ {p} : topic'[q] = topic[q]
        /\ topic'[p] = Append(topic[p], n)
    BY <1>0, <1>1
  <1>5. ASSUME NEW q \in Partition, NEW i \in DOMAIN topic'[q]
        PROVE  \/ i \in DOMAIN topic[q] /\ topic'[q][i] = topic[q][i]
               \/ q = p /\ i = Len(topic[p]) + 1 /\ topic'[q][i] = n
    <2>1. CASE q # p  BY <1>4, <2>1
    <2>2. CASE q = p /\ i \in 1 .. Len(topic[p])  BY <1>2, <1>4, <2>2
    <2>3. CASE q = p /\ i = Len(topic[p]) + 1  BY <1>2, <1>4, <2>3
    <2>. QED  BY <1>2, <1>3, <1>4, <2>1, <2>2, <2>3
  <1>6. \A q \in Partition : \A i \in DOMAIN topic[q] :
          i \in DOMAIN topic'[q] /\ topic'[q][i] = topic[q][i]
    BY <1>2, <1>3, <1>4
  <1>7. /\ \A q \in Partition \ {p} : stored'[q] = stored[q]
        /\ stored'[p] = stored[p] + 1
    BY <1>0 DEF Store
  <1>8. UNCHANGED <<sent, queue, reports, counted>>  BY DEF Store
  <1>9. Reported' = Reported  BY <1>8 DEF Reported
  <1>10. /\ \A q \in Partition : \A k \in DOMAIN queue[q] :
              queue[q][k] \in DOMAIN sent /\ queue[q][k] \in Nat /\ k \in Nat
         /\ \A q \in Partition : \A i \in DOMAIN topic[q] :
              topic[q][i] \in DOMAIN sent /\ topic[q][i] \in Nat /\ i \in Nat
         /\ \A q \in Partition : stored[q] \in Nat
    BY Positions
  <1>11. Destination(sent[n]) = p  BY <1>0 DEF Ordered, KeysKept, n
  <1>12. \A i \in DOMAIN topic[p] : topic[p][i] < n
    <2>1. stored[p] + 1 > stored[p]  BY <1>0
    <2>. QED  BY <1>0, <2>1 DEF Ordered, StoredFirst, n
  <1>13. KeysKept'
    <2>1. ASSUME NEW q \in Partition, NEW i \in DOMAIN topic'[q]
          PROVE  Destination(sent[topic'[q][i]]) = q
      BY <1>5, <1>11, <2>1 DEF Ordered, KeysKept
    <2>. QED  BY <1>8, <2>1 DEF Ordered, KeysKept
  <1>14. QueueInOrder'  BY <1>8 DEF Ordered, QueueInOrder
  <1>15. StoredFirst'
    <2>1. ASSUME NEW q \in Partition, NEW i \in DOMAIN topic'[q], NEW j \in DOMAIN queue[q],
                 j > stored'[q]
          PROVE  topic'[q][i] < queue[q][j]
      <3>1. j > stored[q]  BY <1>7, <1>10, <2>1
      <3>2. CASE i \in DOMAIN topic[q]
        BY <1>6, <3>1, <3>2 DEF Ordered, StoredFirst
      <3>3. CASE i \notin DOMAIN topic[q]
        <4>1. q = p /\ topic'[q][i] = n  BY <1>5, <3>3
        <4>2. stored[p] + 1 < j  BY <1>7, <2>1, <4>1
        <4>. QED  BY <1>0, <4>1, <4>2 DEF Ordered, QueueInOrder, n
      <3>. QED  BY <3>2, <3>3
    <2>. QED  BY <1>8, <2>1 DEF StoredFirst
  <1>16. TopicInOrder'
    <2>1. ASSUME NEW q \in Partition, NEW i \in DOMAIN topic'[q], NEW j \in DOMAIN topic'[q], i < j
          PROVE  topic'[q][i] < topic'[q][j]
      <3>1. CASE i \in DOMAIN topic[q] /\ j \in DOMAIN topic[q]
        BY <1>6, <2>1, <3>1 DEF Ordered, TopicInOrder
      <3>2. CASE i \in DOMAIN topic[q] /\ j \notin DOMAIN topic[q]
        <4>1. q = p /\ topic'[q][j] = n  BY <1>5, <3>2
        <4>. QED  BY <1>6, <1>12, <3>2, <4>1
      <3>3. CASE i \notin DOMAIN topic[q]
        <4>1. q = p /\ i = Len(topic[p]) + 1  BY <1>5, <3>3
        <4>2. j \in 1 .. Len(topic[p]) + 1  BY <1>3, <1>4, <4>1
        <4>. QED  BY <1>2, <2>1, <4>1, <4>2
      <3>. QED  BY <3>1, <3>2, <3>3
    <2>. QED  BY <2>1 DEF TopicInOrder
  <1>17. \A m : (\E q \in Partition : \E i \in DOMAIN topic[q] : topic[q][i] = m)
                => (\E q \in Partition : \E i \in DOMAIN topic'[q] : topic'[q][i] = m)
    BY <1>6
  <1>18. \E q \in Partition : \E i \in DOMAIN topic'[q] : topic'[q][i] = n
    <2>1. Len(topic[p]) + 1 \in DOMAIN topic'[p] /\ topic'[p][Len(topic[p]) + 1] = n
      BY <1>2, <1>3, <1>4
    <2>. QED  BY <2>1
  <1>19. StoredOnTopic'
    <2>1. ASSUME NEW q \in Partition, NEW k \in DOMAIN queue[q], k <= stored'[q]
          PROVE  \E r \in Partition : \E i \in DOMAIN topic'[r] : topic'[r][i] = queue[q][k]
      <3>1. CASE k <= stored[q]
        BY <1>17, <3>1 DEF Accounted, StoredOnTopic, OnTopic
      <3>2. CASE ~(k <= stored[q])
        <4>1. q = p /\ k = stored[p] + 1  BY <1>7, <1>10, <2>1, <3>2
        <4>. QED  BY <1>18, <4>1 DEF n
      <3>. QED  BY <3>1, <3>2
    <2>. QED  BY <1>8, <2>1 DEF StoredOnTopic, OnTopic
  <1>20. ReportedOnce' /\ QueuedUnreported' /\ NoneLost'
    BY <1>8, <1>9 DEF Accounted, ReportedOnce, QueuedUnreported, NoneLost
  <1>21. ReportedStored'
    BY <1>9, <1>17 DEF Accounted, ReportedStored, OnTopic
  <1>22. ASSUME NEW q \in Partition, NEW i \in DOMAIN topic[q],
                sent[topic[q][i]].card = sent[n].card
         PROVE  q = p /\ topic[q][i] < n
    <2>1. q = p
      BY <1>11, <1>22 DEF Ordered, KeysKept, Destination
    <2>. QED  BY <1>12, <2>1
  <1>. QED
    BY <1>13, <1>14, <1>15, <1>16, <1>19, <1>20, <1>21, <1>22 DEF Ordered, Accounted, n

LEMMA ReportKeeps ==
  ASSUME Typed, Ordered, Accounted, NEW p \in Partition, NEW ok \in BOOLEAN, Reports(p, ok)
  PROVE  Ordered' /\ Accounted'
  <1>. DEFINE n == queue[p][1]
              last == Len(Reported) + 1
  <1>1. /\ 1 \in DOMAIN queue[p]
        /\ \A q \in Partition \ {p} : queue'[q] = queue[q] /\ stored'[q] = stored[q]
        /\ \A k \in DOMAIN queue'[p] : k + 1 \in DOMAIN queue[p] /\ queue'[p][k] = queue[p][k + 1]
        /\ \A k \in DOMAIN queue[p] :
             k = 1 \/ (k - 1 \in DOMAIN queue'[p] /\ queue'[p][k - 1] = queue[p][k])
        /\ DOMAIN Reported = 1 .. Len(Reported) /\ Len(Reported) \in Nat
        /\ DOMAIN Reported' = 1 .. last
        /\ \A i \in DOMAIN Reported : Reported'[i] = Reported[i]
        /\ Reported'[last] = [n |-> n, ok |-> ok]
        /\ UNCHANGED <<sent, topic>>
    BY ReportFacts
  <1>2. Reported'[last].n = n /\ Reported'[last].ok = ok  BY <1>1
  <1>3. \A i \in DOMAIN Reported' : i \in DOMAIN Reported \/ i = last  BY <1>1
  <1>4. \A i \in DOMAIN Reported : i \in DOMAIN Reported' /\ i # last  BY <1>1
  <1>5. last \in DOMAIN Reported'  BY <1>1
  <1>. HIDE DEF n, last
  <1>6. /\ \A q \in Partition : \A k \in DOMAIN queue[q] :
              queue[q][k] \in DOMAIN sent /\ queue[q][k] \in Nat /\ k \in Nat
        /\ \A q \in Partition : stored[q] \in Nat
        /\ \A q \in Partition : \A k \in DOMAIN queue'[q] : k \in Nat
    <2>1. Typed'  BY ReportFacts
    <2>2. \A q \in Partition : queue'[q] \in Seq(DOMAIN sent')  BY <2>1 DEF Typed, TypeOK
    <2>3. \A q \in Partition : \A k \in DOMAIN queue'[q] : k \in Nat  BY <2>2
    <2>. QED  BY <2>3, Positions
  <1>7. ASSUME NEW q \in Partition, NEW k \in DOMAIN queue'[q]
        PROVE  \E j \in DOMAIN queue[q] :
                 /\ queue'[q][k] = queue[q][j] /\ j = (IF q = p THEN k + 1 ELSE k)
    BY <1>1
  <1>8. stored'[p] = (IF stored[p] > 0 THEN stored[p] - 1 ELSE 0)
    BY DEF Reports, Typed, TypeOK
  <1>9. \A k \in DOMAIN queue[p] : k # 1 => n < queue[p][k]
    <2>1. \A k \in DOMAIN queue[p] : k = 1 \/ 1 < k
      <3>1. queue[p] \in Seq(DOMAIN sent)  BY DEF Typed, TypeOK
      <3>2. DOMAIN queue[p] = 1 .. Len(queue[p]) /\ Len(queue[p]) \in Nat
        BY <3>1, LenProperties
      <3>. QED  BY <3>2
    <2>. QED  BY <1>1, <2>1 DEF Ordered, QueueInOrder, n
  <1>10. KeysKept'
    <2>1. ASSUME NEW q \in Partition, NEW k \in DOMAIN queue'[q]
          PROVE  Destination(sent[queue'[q][k]]) = q
      BY <1>7, <2>1 DEF Ordered, KeysKept
    <2>. QED  BY <1>1, <2>1 DEF Ordered, KeysKept
  <1>11. QueueInOrder'
    <2>1. ASSUME NEW q \in Partition, NEW i \in DOMAIN queue'[q], NEW j \in DOMAIN queue'[q], i < j
          PROVE  queue'[q][i] < queue'[q][j]
      <3>1. CASE q = p
        <4>1. i + 1 \in DOMAIN queue[p] /\ j + 1 \in DOMAIN queue[p] /\ i + 1 < j + 1
          BY <1>1, <1>6, <2>1, <3>1
        <4>. QED  BY <1>1, <2>1, <3>1, <4>1 DEF Ordered, QueueInOrder
      <3>2. CASE q # p  BY <1>1, <2>1, <3>2 DEF Ordered, QueueInOrder
      <3>. QED  BY <3>1, <3>2
    <2>. QED  BY <2>1 DEF QueueInOrder
  <1>12. StoredFirst'
    <2>1. ASSUME NEW q \in Partition, NEW i \in DOMAIN topic[q], NEW j \in DOMAIN queue'[q],
                 j > stored'[q]
          PROVE  topic[q][i] < queue'[q][j]
      <3>1. CASE q = p
        <4>1. j + 1 \in DOMAIN queue[p] /\ j + 1 > stored[p] /\ queue'[p][j] = queue[p][j + 1]
          BY <1>1, <1>6, <1>8, <2>1, <3>1
        <4>. QED  BY <3>1, <4>1 DEF Ordered, StoredFirst
      <3>2. CASE q # p  BY <1>1, <2>1, <3>2 DEF Ordered, StoredFirst
      <3>. QED  BY <3>1, <3>2
    <2>. QED  BY <1>1, <2>1 DEF StoredFirst
  <1>13. TopicInOrder'  BY <1>1 DEF Ordered, TopicInOrder
  <1>14. StoredOnTopic'
    <2>1. ASSUME NEW q \in Partition, NEW k \in DOMAIN queue'[q], k <= stored'[q]
          PROVE  \E r \in Partition : \E i \in DOMAIN topic[r] : topic[r][i] = queue'[q][k]
      <3>1. CASE q = p
        <4>0. k \in 1 .. Len(queue'[p])
          <5>1. Typed'  BY ReportFacts
          <5>2. queue'[p] \in Seq(DOMAIN sent')  BY <5>1 DEF Typed, TypeOK
          <5>. QED  BY <2>1, <3>1, <5>2, LenProperties
        <4>1. k + 1 \in DOMAIN queue[p] /\ k + 1 <= stored[p] /\ queue'[p][k] = queue[p][k + 1]
          BY <1>1, <1>6, <1>8, <2>1, <3>1, <4>0
        <4>. QED  BY <3>1, <4>1 DEF Accounted, StoredOnTopic, OnTopic
      <3>2. CASE q # p
        BY <1>1, <2>1, <3>2 DEF Accounted, StoredOnTopic, OnTopic
      <3>. QED  BY <3>1, <3>2
    <2>. QED  BY <1>1, <2>1 DEF StoredOnTopic, OnTopic
  <1>15. ReportedOnce'
    <2>1. ASSUME NEW i \in DOMAIN Reported', NEW j \in DOMAIN Reported',
                 Reported'[i].n = Reported'[j].n
          PROVE  i = j
      <3>1. CASE i \in DOMAIN Reported /\ j \in DOMAIN Reported
        BY <1>1, <2>1, <3>1 DEF Accounted, ReportedOnce
      <3>2. CASE i \in DOMAIN Reported /\ j = last
        BY <1>1, <1>2, <2>1, <3>2 DEF Accounted, QueuedUnreported, n
      <3>3. CASE i = last /\ j \in DOMAIN Reported
        BY <1>1, <1>2, <2>1, <3>3 DEF Accounted, QueuedUnreported, n
      <3>. QED  BY <1>3, <3>1, <3>2, <3>3
    <2>. QED  BY <2>1 DEF ReportedOnce
  <1>16. QueuedUnreported'
    <2>1. ASSUME NEW q \in Partition, NEW k \in DOMAIN queue'[q], NEW i \in DOMAIN Reported'
          PROVE  Reported'[i].n # queue'[q][k]
      <3>1. PICK j \in DOMAIN queue[q] :
              queue'[q][k] = queue[q][j] /\ j = (IF q = p THEN k + 1 ELSE k)
        BY <1>7, <2>1
      <3>2. CASE i \in DOMAIN Reported
        BY <1>1, <3>1, <3>2 DEF Accounted, QueuedUnreported
      <3>3. CASE i = last
        <4>1. CASE q = p
          <5>1. k \in 1 .. Len(queue'[p])
            <6>1. Typed'  BY ReportFacts
            <6>2. queue'[p] \in Seq(DOMAIN sent')  BY <6>1 DEF Typed, TypeOK
            <6>. QED  BY <2>1, <4>1, <6>2, LenProperties
          <5>2. j # 1  BY <3>1, <4>1, <5>1
          <5>3. n < queue[p][j]  BY <1>9, <3>1, <4>1, <5>2
          <5>4. n \in Nat /\ queue[p][j] \in Nat  BY <1>1, <1>6, <3>1, <4>1 DEF n
          <5>. QED  BY <1>2, <3>1, <3>3, <4>1, <5>3, <5>4
        <4>2. CASE q # p
          <5>1. Destination(sent[queue[q][j]]) = q /\ Destination(sent[n]) = p
            BY <1>1, <3>1 DEF Ordered, KeysKept, n
          <5>. QED  BY <1>2, <3>1, <3>3, <4>2, <5>1
        <4>. QED  BY <4>1, <4>2
      <3>. QED  BY <1>3, <3>2, <3>3
    <2>. QED  BY <2>1 DEF QueuedUnreported
  <1>17. ReportedStored'
    <2>1. ASSUME NEW i \in DOMAIN Reported', Reported'[i].ok
          PROVE  \E r \in Partition : \E l \in DOMAIN topic[r] : topic[r][l] = Reported'[i].n
      <3>1. CASE i \in DOMAIN Reported
        BY <1>1, <2>1, <3>1 DEF Accounted, ReportedStored, OnTopic
      <3>2. CASE i = last
        <4>1. stored[p] > 0  BY <1>2, <2>1, <3>2 DEF Reports
        <4>2. 1 <= stored[p]
          <5>1. stored[p] \in Nat  BY DEF Typed, TypeOK
          <5>. QED  BY <4>1, <5>1
        <4>. QED  BY <1>1, <1>2, <3>2, <4>2 DEF Accounted, StoredOnTopic, OnTopic, n
      <3>. QED  BY <1>3, <3>1, <3>2
    <2>. QED  BY <1>1, <2>1 DEF ReportedStored, OnTopic
  <1>18. NoneLost'
    <2>1. ASSUME NEW m \in DOMAIN sent
          PROVE  \/ \E i \in DOMAIN Reported' : Reported'[i].n = m
                 \/ \E q \in Partition : \E k \in DOMAIN queue'[q] : queue'[q][k] = m
      <3>1. CASE \E i \in DOMAIN Reported : Reported[i].n = m  BY <1>1, <1>4, <3>1
      <3>2. ASSUME NEW q \in Partition, NEW k \in DOMAIN queue[q], queue[q][k] = m
            PROVE  \/ \E i \in DOMAIN Reported' : Reported'[i].n = m
                   \/ \E x \in Partition : \E y \in DOMAIN queue'[x] : queue'[x][y] = m
        <4>1. CASE q # p  BY <1>1, <3>2, <4>1
        <4>2. CASE q = p /\ k = 1  BY <1>2, <1>5, <3>2, <4>2 DEF n
        <4>3. CASE q = p /\ k # 1  BY <1>1, <3>2, <4>3
        <4>. QED  BY <4>1, <4>2, <4>3
      <3>. QED  BY <3>1, <3>2 DEF Accounted, NoneLost
    <2>. QED  BY <1>1, <2>1 DEF NoneLost
  <1>. QED
    BY <1>10, <1>11, <1>12, <1>13, <1>14, <1>15, <1>16, <1>17, <1>18 DEF Ordered, Accounted

(***************************************************************************)
(* The invariant                                                           *)
(***************************************************************************)
LEMMA InitInv == Init => IInv
  <1>. SUFFICES ASSUME Init PROVE IInv  OBVIOUS
  <1>1. Typed  BY InitTyped
  <1>2. /\ \A p \in Partition : DOMAIN queue[p] = {} /\ DOMAIN topic[p] = {}
        /\ DOMAIN sent = {}
    BY DEF Init
  <1>3. DOMAIN Reported = {}
    <2>1. Reported = <<>> \o <<>>  BY DEF Init, Reported
    <2>2. <<>> \o <<>> = <<>>  BY ConcatEmptySeq, EmptySeq
    <2>. QED  BY <2>1, <2>2
  <1>4. Ordered  BY <1>2 DEF Ordered, KeysKept, QueueInOrder, StoredFirst, TopicInOrder
  <1>5. Accounted
    BY <1>2, <1>3 DEF Accounted, StoredOnTopic, ReportedOnce, QueuedUnreported,
                      ReportedStored, NoneLost
  <1>. QED  BY <1>1, <1>4, <1>5 DEF IInv, Drained, Init

(* Steps that leave every message where it is.                             *)
LEMMA Undisturbed ==
  ASSUME Ordered, Accounted, UNCHANGED <<sent, queue, stored, topic>>, Reported' = Reported
  PROVE  Ordered' /\ Accounted'
  BY DEF Ordered, KeysKept, QueueInOrder, StoredFirst, TopicInOrder, Accounted,
         StoredOnTopic, ReportedOnce, QueuedUnreported, ReportedStored, NoneLost, OnTopic

LEMMA NextInv == IInv /\ [Next]_vars => IInv'
  <1>. SUFFICES ASSUME IInv, [Next]_vars PROVE IInv'  OBVIOUS
  <1>. USE DEF IInv
  <1>1. ASSUME UNCHANGED <<sent, library, counted, topic>>
        PROVE  Ordered' /\ Accounted'
    BY <1>1, Undisturbed DEF Reported, library
  <1>2. CASE UNCHANGED vars
    <2>1. UNCHANGED <<sent, library, counted, topic>>  BY <1>2 DEF vars, broker
    <2>2. Typed' /\ Drained'
      BY <1>2 DEF vars, generator, loop, library, broker, Typed, TypeOK, Drained
    <2>. QED  BY <1>1, <2>1, <2>2
  <1>3. CASE \/ StartRound \/ LeaveLoop \/ NextTransaction \/ EndRound \/ Sleep
             \/ RetryPublish \/ GiveUp \/ FlushDone \/ FlushTimesOut \/ Sigterm
    <2>1. UNCHANGED <<sent, library, counted, broker>>
      BY <1>3 DEF StartRound, LeaveLoop, NextTransaction, EndRound, Sleep, RetryPublish,
                  GiveUp, FlushDone, FlushTimesOut, Sigterm
    <2>2. Typed'  BY <1>3, <2>1, LoopTyped
    <2>3. Drained'
      <3>1. CASE FlushDone
        <4>1. Len(sent) \in Nat /\ Len(counted) \in Nat  BY DEF Typed, TypeOK
        <4>. QED  BY <2>1, <3>1, <4>1 DEF FlushDone, Outstanding, Drained
      <3>2. CASE ~FlushDone
        <4>1. pc' = "stopped" => pc = "stopped"
          BY <1>3, <3>2 DEF StartRound, LeaveLoop, NextTransaction, EndRound, Sleep,
               RetryPublish, GiveUp, FlushTimesOut, Sigterm, loop
        <4>. QED  BY <2>1, <4>1 DEF Drained
      <3>. QED  BY <3>1, <3>2
    <2>. QED  BY <1>1, <2>1, <2>2, <2>3 DEF broker
  <1>4. CASE Publish
    <2>1. Drained'  BY <1>4 DEF Publish, Drained
    <2>. QED  BY <1>4, <2>1, PublishTyped, PublishKeeps
  <1>5. CASE FlushServes
    <2>1. Drained'  BY <1>5 DEF FlushServes, loop, Drained
    <2>2. Reported' = Reported  BY <1>5, ReportedServed DEF FlushServes
    <2>3. Ordered' /\ Accounted'
      BY <1>5, <2>2, Undisturbed DEF FlushServes, broker
    <2>. QED  BY <1>5, <2>1, <2>3, FlushServesTyped
  <1>6. ASSUME NEW p \in Partition, Store(p) PROVE IInv'
    <2>1. Drained'  BY <1>6 DEF Store, loop, Drained
    <2>. QED  BY <1>6, <2>1, StoreTyped, StoreKeeps
  <1>7. ASSUME NEW p \in Partition, Acknowledge(p) \/ Expire(p) PROVE IInv'
    <2>1. Drained'  BY <1>7 DEF Acknowledge, Expire, loop, Drained
    <2>2. PICK ok \in BOOLEAN : Reports(p, ok)  BY <1>7, ReportingSteps
    <2>3. Typed'  BY <2>2, ReportFacts
    <2>. QED  BY <2>1, <2>2, <2>3, ReportKeeps
  <1>8. CASE Outage \/ Recover
    <2>0. outages' \in 0 .. MaxOutages /\ up' \in BOOLEAN
      <3>1. outages \in 0 .. MaxOutages /\ MaxOutages \in Nat
        BY ProducerAssumption DEF Typed, TypeOK
      <3>2. CASE Outage
        <4>1. outages' \in 0 .. MaxOutages  BY <3>1, <3>2 DEF Outage
        <4>. QED  BY <3>2, <4>1 DEF Outage
      <3>3. CASE Recover  BY <3>1, <3>3 DEF Recover
      <3>. QED  BY <1>8, <3>2, <3>3
    <2>1. UNCHANGED <<generator, loop, stop, sent, library, counted, topic>>
      BY <1>8 DEF Outage, Recover
    <2>2. Typed' /\ Drained'
      BY <2>0, <2>1 DEF generator, loop, library, Typed, TypeOK, Drained
    <2>. QED  BY <1>1, <2>1, <2>2
  <1>. QED
    BY <1>2, <1>3, <1>4, <1>5, <1>6, <1>7, <1>8 DEF Next, Run, Deliver

(* The inductive invariant: types, the order of the messages of a          *)
(* partition, and where each message is accounted for.                     *)
THEOREM InductiveInvariant == Spec => []IInv
  BY InitInv, NextInv, PTL DEF Spec

(* Every variable keeps its type. *)
THEOREM TypeCorrect == Spec => []TypeOK
  <1>1. IInv => TypeOK  BY DEF IInv, Typed
  <1>. QED  BY <1>1, InductiveInvariant, PTL

(***************************************************************************)
(* The properties                                                          *)
(***************************************************************************)
(* A message is counted at most once, a counted success is on the topic,   *)
(* and what is not counted is still the library's to report.               *)
THEOREM CountersAlwaysTruthful == Spec => []CountersTruthful
  <1>1. ASSUME IInv PROVE CountersTruthful
    <2>1. /\ \A i \in DOMAIN counted : i \in DOMAIN Reported /\ Reported[i] = counted[i]
          /\ \A i \in DOMAIN Reported :
               \/ i \in DOMAIN counted /\ Reported[i] = counted[i]
               \/ \E j \in DOMAIN reports : Reported[i] = reports[j]
      <3>1. counted \in Seq(Report) /\ reports \in Seq(Report)
        BY <1>1 DEF IInv, Typed, TypeOK, Report
      <3>2. /\ Len(counted) \in Nat /\ DOMAIN counted = 1 .. Len(counted)
            /\ Len(reports) \in Nat /\ DOMAIN reports = 1 .. Len(reports)
        BY <3>1, LenProperties
      <3>3. /\ Reported \in Seq(Report) /\ Len(Reported) = Len(counted) + Len(reports)
            /\ \A i \in 1 .. Len(counted) + Len(reports) :
                 Reported[i] = IF i <= Len(counted) THEN counted[i]
                               ELSE reports[i - Len(counted)]
        BY <3>1, ConcatProperties DEF Reported
      <3>4. DOMAIN Reported = 1 .. Len(counted) + Len(reports)
        BY <3>3, LenProperties
      <3>5. ASSUME NEW i \in DOMAIN counted
            PROVE  i \in DOMAIN Reported /\ Reported[i] = counted[i]
        BY <3>2, <3>3, <3>4
      <3>6. ASSUME NEW i \in DOMAIN Reported, i \notin DOMAIN counted
            PROVE  \E j \in DOMAIN reports : Reported[i] = reports[j]
        <4>1. i \in 1 .. Len(counted) + Len(reports) /\ ~(i <= Len(counted))
          BY <3>2, <3>4, <3>6
        <4>2. i - Len(counted) \in DOMAIN reports  BY <3>2, <4>1
        <4>. QED  BY <3>3, <4>1, <4>2
      <3>. QED  BY <3>5, <3>6
    <2>2. \A i, j \in DOMAIN counted : counted[i].n = counted[j].n => i = j
      BY <1>1, <2>1 DEF IInv, Accounted, ReportedOnce
    <2>3. \A i \in DOMAIN counted : counted[i].ok => OnTopic(counted[i].n)
      BY <1>1, <2>1 DEF IInv, Accounted, ReportedStored
    <2>4. ASSUME NEW n \in DOMAIN sent
          PROVE  \/ \E i \in DOMAIN counted : counted[i].n = n
                 \/ \E i \in DOMAIN reports : reports[i].n = n
                 \/ \E p \in Partition : \E i \in DOMAIN queue[p] : queue[p][i] = n
      BY <1>1, <2>1 DEF IInv, Accounted, NoneLost
    <2>. QED  BY <2>2, <2>3, <2>4 DEF CountersTruthful
  <1>. QED  BY <1>1, InductiveInvariant, PTL

(* A flush that came back with an empty buffer leaves no message that is   *)
(* neither stored nor counted as an error: as many reports were counted as *)
(* messages accepted, each of another message, so each message has one.    *)
THEOREM NothingLostSilently == Spec => []StopLosesNothing
  <1>1. ASSUME IInv, CountersTruthful, pc = "stopped", NEW n \in DOMAIN sent
        PROVE  OnTopic(n) \/ Failed(n)
    <2>. DEFINE N == Len(sent)
                D == 1 .. N
                f == [i \in D |-> counted[i].n]
    <2>1. /\ N \in Nat /\ DOMAIN sent = D
          /\ counted \in Seq(Report) /\ Len(counted) = N
      <3>1. sent \in Seq(Txn) /\ counted \in Seq(Report)
        BY <1>1 DEF IInv, Typed, TypeOK, Txn, Report
      <3>. QED  BY <1>1, <3>1, LenProperties DEF IInv, Drained
    <2>2. DOMAIN counted = D  BY <2>1, LenProperties
    <2>3. ASSUME NEW i \in D PROVE counted[i].n \in D /\ counted[i].ok \in BOOLEAN
      <3>1. counted[i] \in Report  BY <2>1, ElementOfSeq
      <3>. QED  BY <2>1, <3>1 DEF Report
    <2>4. f \in [D -> D]  BY <2>3
    <2>5. \A a, b \in D : f[a] = f[b] => a = b
      BY <1>1, <2>2 DEF CountersTruthful
    <2>6. IsFiniteSet(D)
      <3>. HIDE DEF N
      <3>. QED  BY <2>1, FS_Interval
    <2>. HIDE DEF f, D
    <2>7. f \in Surjection(D, D)
      <3>1. f \in Injection(D, D)  BY <2>4, <2>5, Fun_IsInj
      <3>. QED  BY <2>6, <3>1, FS_Injection
    <2>8. PICK i \in D : f[i] = n
      <3>1. \A t \in D : \E x \in D : f[x] = t  BY <2>7, Fun_SurjectionProperties
      <3>2. n \in D  BY <1>1, <2>1
      <3>. QED  BY <3>1, <3>2
    <2>9. i \in DOMAIN counted /\ counted[i].n = n  BY <2>2, <2>8 DEF f
    <2>10. CASE counted[i].ok  BY <1>1, <2>9, <2>10 DEF CountersTruthful
    <2>11. CASE ~counted[i].ok  BY <2>9, <2>11 DEF Failed
    <2>. QED  BY <2>10, <2>11
  <1>2. IInv /\ CountersTruthful => StopLosesNothing  BY <1>1 DEF StopLosesNothing
  <1>. QED  BY <1>2, InductiveInvariant, CountersAlwaysTruthful, PTL

(* The topic of TransactionTopic: a card's transactions in their order on  *)
(* one partition, each at most once, whatever is buffered, retried,        *)
(* reported late or given up.                                              *)
THEOREM TopicImplemented == Spec => ImplementsTopic
  <1>. DEFINE source == [n \in DOMAIN sent |-> sent[n].card]
  <1>1. Init => Topic!Init
    <2>. SUFFICES ASSUME Init PROVE Topic!Init  OBVIOUS
    <2>1. source = <<>>  BY DEF Init
    <2>. QED  BY <2>1 DEF Init, Topic!Init
  <1>2. ASSUME IInv, [Next]_vars PROVE [Topic!Next]_(Topic!vars)
    <2>1. CASE UNCHANGED <<sent, topic>>  BY <2>1 DEF Topic!vars
    <2>2. CASE Publish
      <3>1. Head(pending) \in Txn /\ sent' = Append(sent, Head(pending))
            /\ UNCHANGED topic /\ sent \in Seq(Txn)
        BY <1>2, <2>2, PublishTyped DEF IInv, Publish, broker, Typed, TypeOK, Txn
      <3>2. PICK c \in Card : c = Head(pending).card  BY <3>1 DEF Txn
      <3>3. /\ Len(sent) \in Nat /\ DOMAIN sent = 1 .. Len(sent)
            /\ DOMAIN sent' = 1 .. Len(sent) + 1
            /\ \A n \in 1 .. Len(sent) : sent'[n] = sent[n]
            /\ sent'[Len(sent) + 1] = Head(pending)
        BY <3>1, AppendProperties, LenProperties
      <3>4. source \in Seq(Card) /\ Len(source) = Len(sent)
        <4>1. ASSUME NEW n \in 1 .. Len(sent) PROVE sent[n].card \in Card
          <5>1. sent[n] \in Txn  BY <3>1, <4>1, ElementOfSeq
          <5>. QED  BY <5>1 DEF Txn
        <4>2. source \in [1 .. Len(sent) -> Card]  BY <3>3, <4>1
        <4>. QED  BY <3>3, <4>2
      <3>5. /\ Append(source, c) \in Seq(Card) /\ Len(Append(source, c)) = Len(sent) + 1
            /\ \A n \in 1 .. Len(sent) : Append(source, c)[n] = source[n]
            /\ Append(source, c)[Len(sent) + 1] = c
        BY <3>2, <3>4, AppendProperties
      <3>6. DOMAIN Append(source, c) = 1 .. Len(sent) + 1  BY <3>5, LenProperties
      <3>7. \A n \in 1 .. Len(sent) + 1 : source'[n] = Append(source, c)[n]
        BY <3>2, <3>3, <3>5
      <3>8. source' = Append(source, c)
        <4>1. Append(source, c) = [n \in 1 .. Len(sent) + 1 |-> Append(source, c)[n]]
          BY <3>5, <3>6
        <4>2. source' = [n \in 1 .. Len(sent) + 1 |-> source'[n]]  BY <3>3
        <4>. QED  BY <3>7, <4>1, <4>2
      <3>9. Topic!HandOver(c)  BY <3>1, <3>8 DEF Topic!HandOver
      <3>. QED  BY <3>9 DEF Topic!Next
    <2>3. ASSUME NEW p \in Partition, Store(p) PROVE [Topic!Next]_(Topic!vars)
      <3>. DEFINE n == queue[p][stored[p] + 1]
      <3>1. n \in DOMAIN sent  BY <1>2, <2>3, StoreTyped DEF IInv
      <3>2. \A q \in Partition : \A i \in DOMAIN topic[q] :
              sent[topic[q][i]].card = sent[n].card => q = p /\ topic[q][i] < n
        BY <1>2, <2>3, StoreKeeps DEF IInv
      <3>3. \A q \in Partition : \A i \in DOMAIN topic[q] : topic[q][i] \in DOMAIN sent
        BY <1>2, Positions DEF IInv
      <3>4. topic' = [topic EXCEPT ![p] = Append(@, n)] /\ UNCHANGED sent
        BY <2>3 DEF Store
      <3>. HIDE DEF n
      <3>5. Topic!MayFollow(p, n)  BY <3>1, <3>2, <3>3 DEF Topic!MayFollow
      <3>6. Topic!Store(p, n)  BY <3>1, <3>4, <3>5 DEF Topic!Store
      <3>. QED  BY <3>1, <3>6 DEF Topic!Next
    <2>4. ASSUME [Next]_vars, ~Publish, \A p \in Partition : ~Store(p)
          PROVE  UNCHANGED <<sent, topic>>
      BY <2>4 DEF Next, Run, Deliver, StartRound, LeaveLoop, NextTransaction, EndRound, Sleep,
           RetryPublish, GiveUp, FlushServes, FlushDone, FlushTimesOut, Sigterm,
           Acknowledge, Expire, Outage, Recover, broker, vars
    <2>. QED  BY <1>2, <2>1, <2>2, <2>3, <2>4
  <1>. QED
    BY <1>1, <1>2, InductiveInvariant, PTL DEF Spec, ImplementsTopic, Topic!Spec

(* Two stored transactions of a card share a partition, in the order in    *)
(* which they were handed to publish, and neither is stored twice.         *)
THEOREM CardsAlwaysInOrder == Spec => []Topic!CardsInOrder
  <1>1. ASSUME IInv PROVE Topic!CardsInOrder
    <2>1. ASSUME NEW p \in Partition, NEW q \in Partition,
                 NEW i \in DOMAIN topic[p], NEW j \in DOMAIN topic[q],
                 sent[topic[p][i]].card = sent[topic[q][j]].card
          PROVE  p = q /\ (i < j => topic[p][i] < topic[q][j])
      <3>1. p = q  BY <1>1, <2>1 DEF IInv, Ordered, KeysKept, Destination
      <3>. QED  BY <1>1, <2>1, <3>1 DEF IInv, Ordered, TopicInOrder
    <2>2. \A p \in Partition : \A i \in DOMAIN topic[p] : topic[p][i] \in DOMAIN sent
      BY <1>1, Positions DEF IInv
    <2>. QED  BY <2>1, <2>2 DEF Topic!CardsInOrder
  <1>. QED  BY <1>1, InductiveInvariant, PTL
(***************************************************************************)
(* Lateness.  A round's clock starts at the wall clock and runs ahead of   *)
(* it by at most Tps steps; what earlier rounds sent lies at least one     *)
(* interval further back.                                                  *)
(***************************************************************************)
LeastStep == Min(ClockSteps)
RoundAhead == Tps * Max(ClockSteps)

LEMMA Extremes ==
  ASSUME NEW S, Drawn(S)
  PROVE  /\ Max(S) \in Nat \ {0} /\ Min(S) \in Nat \ {0}
         /\ \A x \in S : x \in Nat /\ Min(S) <= x /\ x <= Max(S)
<1>1. S \subseteq Nat \ {0}
  BY DEF Drawn
<1>2. PICK least \in S, most \in S : \A x \in S : least <= x /\ x <= most
  BY DEF Drawn
<1>3. Max(S) \in S /\ \A x \in S : Max(S) >= x
  <2>1. \A x \in S : most >= x
    BY <1>1, <1>2
  <2>. QED  BY <2>1 DEF Max
<1>4. Min(S) \in S /\ \A x \in S : Min(S) <= x
  BY <1>2 DEF Min
<1>. QED  BY <1>1, <1>3, <1>4

LEMMA MaxOfTwo ==
  ASSUME NEW x \in Int, NEW y \in Int
  PROVE  Max({x, y}) \in {x, y} /\ Max({x, y}) >= x /\ Max({x, y}) >= y
<1>1. \E m \in {x, y} : \A z \in {x, y} : m >= z
  OBVIOUS
<1>. QED  BY <1>1 DEF Max

LEMMA ProductMonotone ==
  ASSUME NEW a \in Nat, NEW b \in Nat, NEW c \in Nat, a <= b
  PROVE  a * c <= b * c /\ c * a <= c * b /\ a * c \in Nat
OBVIOUS

(* A turn's transactions are at its clock or up to MaxAhead after it.      *)
LEMMA YieldsNear ==
  ASSUME NEW c \in Card, NEW t \in Nat, NEW s \in Yields(c, t)
  PROVE  \A i \in DOMAIN s : t <= s[i].at /\ s[i].at <= t + MaxAhead
<1>. DEFINE gaps == (Max(BurstSizes) - 1) * Max(BurstGaps)
            delay == Max(TravelDelays)
<1>1. /\ Max(BurstSizes) \in Nat \ {0} /\ \A k \in BurstSizes : k \in Nat /\ k <= Max(BurstSizes)
      /\ Max(BurstGaps) \in Nat /\ \A g \in BurstGaps : g \in Nat /\ g <= Max(BurstGaps)
      /\ delay \in Nat /\ \A d \in TravelDelays : d \in Nat /\ d <= delay
  BY Extremes, GeneratorAssumption
<1>2. gaps \in Nat
  BY <1>1, ProductMonotone
<1>3. MaxAhead \in Nat /\ gaps <= MaxAhead /\ delay <= MaxAhead
  <2>1. MaxAhead = Max({gaps, delay})
    BY DEF MaxAhead
  <2>. HIDE DEF gaps, delay
  <2>2. Max({gaps, delay}) \in {gaps, delay} /\ Max({gaps, delay}) >= gaps
        /\ Max({gaps, delay}) >= delay
    <3>1. gaps \in Int /\ delay \in Int
      BY <1>1, <1>2
    <3>. QED  BY <3>1, MaxOfTwo
  <2>. QED  BY <1>1, <1>2, <2>1, <2>2
<1>. HIDE DEF delay
<1>4. CASE s \in Single(c, t)
  <2>1. s = <<Transaction(c, t)>>
    BY <1>4 DEF Single
  <2>. QED  BY <1>3, <2>1 DEF Transaction
<1>5. CASE s \in ImpossibleTravelPair(c, t)
  <2>1. PICK d \in TravelDelays : s = <<Transaction(c, t), Transaction(c, t + d)>>
    BY <1>5 DEF ImpossibleTravelPair
  <2>2. d \in Nat /\ d <= MaxAhead
    BY <1>1, <1>3
  <2>. QED  BY <1>3, <2>1, <2>2 DEF Transaction
<1>6. CASE s \in VelocityAbuseBurst(c, t)
  <2>1. PICK k \in BurstSizes :
          s \in {[i \in 1 .. k |-> Transaction(c, t + (i - 1) * gap[i])] :
                   gap \in [1 .. k -> BurstGaps]}
    BY <1>6 DEF VelocityAbuseBurst
  <2>2. PICK gap \in [1 .. k -> BurstGaps] :
          s = [i \in 1 .. k |-> Transaction(c, t + (i - 1) * gap[i])]
    BY <2>1
  <2>3. ASSUME NEW i \in 1 .. k PROVE t <= s[i].at /\ s[i].at <= t + MaxAhead
    <3>. DEFINE off == (i - 1) * gap[i]
    <3>1. gap[i] \in Nat /\ gap[i] <= Max(BurstGaps) /\ k \in Nat /\ k <= Max(BurstSizes)
      <4>1. gap[i] \in BurstGaps
        OBVIOUS
      <4>. QED  BY <1>1, <4>1
    <3>2. i - 1 \in Nat /\ i - 1 <= Max(BurstSizes) - 1 /\ Max(BurstSizes) - 1 \in Nat
      BY <1>1, <3>1
    <3>3. off \in Nat /\ off <= (i - 1) * Max(BurstGaps)
      BY <1>1, <3>1, <3>2, ProductMonotone
    <3>4. (i - 1) * Max(BurstGaps) <= gaps /\ (i - 1) * Max(BurstGaps) \in Nat
      BY <1>1, <3>2, ProductMonotone
    <3>5. s[i].at = t + off
      BY <2>2 DEF Transaction
    <3>. HIDE DEF off, gaps
    <3>. QED  BY <1>2, <1>3, <3>3, <3>4, <3>5
  <2>. QED  BY <2>2, <2>3
<1>. QED  BY <1>4, <1>5, <1>6 DEF Yields

LEMMA Amounts ==
  /\ LeastStep \in Nat /\ Max(ClockSteps) \in Nat /\ RoundAhead \in Nat
  /\ MaxAhead \in Nat /\ Interval \in Nat
  /\ MaxLateness \in Int /\ MaxLateness >= MaxAhead
  /\ MaxLateness >= MaxAhead + RoundAhead - Interval - LeastStep
<1>1. LeastStep \in Nat /\ Max(ClockSteps) \in Nat
  BY Extremes, GeneratorAssumption DEF LeastStep
<1>2. RoundAhead \in Nat /\ Interval \in Nat
  BY <1>1, ProducerAssumption, ProductMonotone DEF RoundAhead
<1>3. MaxAhead \in Nat
  <2>1. /\ Max(BurstSizes) \in Nat \ {0} /\ Max(BurstGaps) \in Nat /\ Max(TravelDelays) \in Nat
    BY Extremes, GeneratorAssumption
  <2>2. (Max(BurstSizes) - 1) * Max(BurstGaps) \in Nat
    BY <2>1, ProductMonotone
  <2>. DEFINE gaps == (Max(BurstSizes) - 1) * Max(BurstGaps)
              delay == Max(TravelDelays)
  <2>3. MaxAhead = Max({gaps, delay}) /\ gaps \in Nat /\ delay \in Nat
    BY <2>1, <2>2 DEF MaxAhead
  <2>. HIDE DEF gaps, delay
  <2>4. Max({gaps, delay}) \in {gaps, delay}
    BY <2>3, MaxOfTwo
  <2>. QED  BY <2>3, <2>4
<1>. DEFINE slack == RoundAhead - Interval - LeastStep
<1>4. slack \in Int /\ Max({0, slack}) \in Int /\ Max({0, slack}) >= 0 /\ Max({0, slack}) >= slack
  BY <1>1, <1>2, MaxOfTwo
<1>5. MaxLateness = MaxAhead + Max({0, slack})
  BY DEF MaxLateness, RoundAhead, LeastStep
<1>. QED  BY <1>1, <1>2, <1>3, <1>4, <1>5

(* The generator's clock in a round, and what is still to be yielded.      *)
Clocked ==
  pc \in {"stream", "publish"} =>
    /\ now <= clock /\ clock <= now + RoundAhead
    /\ clock <= now + yielded * Max(ClockSteps)
         \/ (pc = "publish" /\ clock <= now + (yielded + 1) * Max(ClockSteps))
    /\ pending # <<>> => clock >= now + LeastStep
    /\ \A i \in DOMAIN pending : clock <= pending[i].at /\ pending[i].at <= clock + MaxAhead

(* How far ahead what was sent may be, in this round or an earlier one.    *)
Ahead ==
  \A n \in DOMAIN sent :
    /\ pc \in {"stream", "publish"} =>
         \/ sent[n].at <= clock + MaxAhead
         \/ sent[n].at <= now - Interval + RoundAhead + MaxAhead
    /\ pc = "sleep" => sent[n].at <= now + RoundAhead + MaxAhead
    /\ pc = "loop" => sent[n].at <= now - Interval + RoundAhead + MaxAhead

NoneLater ==
  \A m, n \in DOMAIN sent : m < n => sent[m].at - sent[n].at <= MaxLateness

OnTime == Clocked /\ Ahead /\ NoneLater

LEMMA InitOnTime == Init => OnTime
BY DEF Init, OnTime, Clocked, Ahead, NoneLater

(* The steps that send nothing. *)
LEMMA QuietOnTime ==
  ASSUME OnTime, Typed, UNCHANGED sent,
         \/ StartRound \/ LeaveLoop \/ NextTransaction \/ EndRound \/ Sleep
         \/ RetryPublish \/ GiveUp \/ FlushServes \/ FlushDone \/ FlushTimesOut
         \/ UNCHANGED <<generator, now, pc>>
  PROVE  OnTime'
<1>. USE DEF generator, loop
<1>1. /\ now \in Nat /\ clock \in Nat /\ yielded \in Nat /\ pending \in Seq(Txn)
      /\ \A n \in DOMAIN sent : sent[n].at \in Nat
  <2>1. sent \in Seq(Txn) /\ pending \in Seq(Txn) /\ now \in Nat /\ clock \in Nat /\ yielded \in Nat
    BY DEF Typed, TypeOK, Txn
  <2>2. \A n \in DOMAIN sent : sent[n] \in Txn
    BY <2>1
  <2>3. \A x \in Txn : x.at \in Nat
    BY DEF Txn
  <2>. QED  BY <2>1, <2>2, <2>3
<1>2. NoneLater'
  BY DEF OnTime, NoneLater
<1>3. CASE StartRound
  <2>1. /\ pc = "loop" /\ pc' = "stream" /\ now' = now /\ clock' = now /\ yielded' = 0 /\ pending' = <<>>
        /\ UNCHANGED sent
    BY <1>3 DEF StartRound
  <2>2. Clocked'
    BY <1>1, <2>1, Amounts DEF Clocked
  <2>3. Ahead'
    BY <2>1 DEF OnTime, Ahead
  <2>. QED  BY <1>2, <2>2, <2>3 DEF OnTime
<1>4. CASE NextTransaction
  <2>1. CASE pending # <<>> /\ UNCHANGED <<clock, pending>>
    <3>1. /\ pc = "stream" /\ pc' = "publish" /\ UNCHANGED <<now, clock, yielded, pending, sent>>
      BY <1>4, <2>1 DEF NextTransaction
    <3>2. Clocked'
      BY <3>1 DEF OnTime, Clocked
    <3>3. Ahead'
      BY <3>1 DEF OnTime, Ahead
    <3>. QED  BY <1>2, <3>2, <3>3 DEF OnTime
  <2>2. CASE pending = <<>> /\ yielded < Tps
               /\ \E c \in Card, d \in ClockSteps :
                    clock' = clock + d /\ pending' \in Yields(c, clock + d)
    <3>1. PICK c \in Card, d \in ClockSteps :
            clock' = clock + d /\ pending' \in Yields(c, clock + d)
      BY <2>2
    <3>2. d \in Nat /\ LeastStep <= d /\ d <= Max(ClockSteps)
      BY Extremes, GeneratorAssumption DEF LeastStep
    <3>3. /\ pc = "stream" /\ pc' = "publish" /\ UNCHANGED <<now, yielded>>
      BY <1>4 DEF NextTransaction
    <3>4. /\ now <= clock /\ clock <= now + yielded * Max(ClockSteps)
      BY <3>3 DEF OnTime, Clocked
    <3>5. \A i \in DOMAIN pending' :
            clock' <= pending'[i].at /\ pending'[i].at <= clock' + MaxAhead
      BY <1>1, <3>1, <3>2, YieldsNear
    <3>6. (yielded + 1) * Max(ClockSteps) = yielded * Max(ClockSteps) + Max(ClockSteps)
          /\ yielded * Max(ClockSteps) \in Nat
      BY <1>1, Amounts
    <3>7. (yielded + 1) * Max(ClockSteps) <= RoundAhead
      <4>1. yielded + 1 \in Nat /\ Tps \in Nat /\ yielded + 1 <= Tps
        BY <1>1, <2>2, ProducerAssumption
      <4>. QED  BY <4>1, Amounts, ProductMonotone DEF RoundAhead
    <3>8. /\ now' <= clock' /\ clock' <= now' + RoundAhead
          /\ clock' <= now' + (yielded' + 1) * Max(ClockSteps)
          /\ clock' >= now' + LeastStep
      <4>. DEFINE x == yielded * Max(ClockSteps)
                  y == (yielded + 1) * Max(ClockSteps)
      <4>1. y = x + Max(ClockSteps) /\ x \in Nat /\ y <= RoundAhead
        BY <3>6, <3>7
      <4>2. clock <= now + x
        BY <3>4
      <4>3. (yielded' + 1) * Max(ClockSteps) = y
        BY <3>3
      <4>. HIDE DEF x, y
      <4>. QED  BY <1>1, <3>1, <3>2, <3>3, <3>4, <4>1, <4>2, <4>3, Amounts
    <3>9. Clocked'
      BY <3>3, <3>5, <3>8 DEF Clocked
    <3>10. clock <= clock'
      BY <1>1, <3>1, <3>2
    <3>11. Ahead'
      BY <1>1, <3>1, <3>2, <3>3, <3>10, Amounts DEF OnTime, Ahead
    <3>. QED  BY <1>2, <3>9, <3>11 DEF OnTime
  <2>. QED  BY <1>4, <2>1, <2>2 DEF NextTransaction
<1>5. CASE EndRound
  <2>1. pc = "stream" /\ pc' = "sleep" /\ UNCHANGED <<now, clock, sent>>
    BY <1>5 DEF EndRound
  <2>2. clock <= now + RoundAhead
    BY <2>1 DEF OnTime, Clocked
  <2>3. \A n \in DOMAIN sent : \/ sent[n].at <= clock + MaxAhead
                               \/ sent[n].at <= now - Interval + RoundAhead + MaxAhead
    BY <2>1 DEF OnTime, Ahead
  <2>4. \A n \in DOMAIN sent : sent[n].at <= now + RoundAhead + MaxAhead
    BY <1>1, <2>2, <2>3, Amounts
  <2>5. Clocked' /\ Ahead'
    BY <2>1, <2>4 DEF Clocked, Ahead
  <2>. QED  BY <1>2, <2>5 DEF OnTime
<1>6. CASE Sleep
  <2>1. pc = "sleep" /\ pc' = "loop" /\ now' = now + Interval /\ UNCHANGED sent
    BY <1>6 DEF Sleep
  <2>2. \A n \in DOMAIN sent : sent[n].at <= now + RoundAhead + MaxAhead
    BY <2>1 DEF OnTime, Ahead
  <2>3. now = now' - Interval
    BY <1>1, <2>1, Amounts
  <2>4. Clocked' /\ Ahead'
    BY <2>1, <2>2, <2>3 DEF Clocked, Ahead
  <2>. QED  BY <1>2, <2>4 DEF OnTime
<1>7. CASE LeaveLoop \/ GiveUp \/ FlushServes \/ FlushDone \/ FlushTimesOut
  BY <1>2, <1>7 DEF LeaveLoop, GiveUp, FlushServes, FlushDone, FlushTimesOut, OnTime, Clocked, Ahead
<1>8. CASE RetryPublish \/ UNCHANGED <<generator, now, pc>>
  BY <1>2, <1>8 DEF RetryPublish, OnTime, Clocked, Ahead
<1>. QED  BY <1>3, <1>4, <1>5, <1>6, <1>7, <1>8

LEMMA PublishOnTime ==
  ASSUME OnTime, Typed, Publish
  PROVE  OnTime'
<1>. DEFINE txn == Head(pending)
<1>1. /\ now \in Nat /\ clock \in Nat /\ yielded \in Nat /\ pending \in Seq(Txn)
      /\ sent \in Seq(Txn) /\ pending # <<>>
      /\ \A n \in DOMAIN sent : sent[n].at \in Nat
  <2>1. /\ sent \in Seq(Txn) /\ pending \in Seq(Txn) /\ now \in Nat /\ clock \in Nat
        /\ yielded \in Nat /\ pending # <<>>
    BY DEF Typed, TypeOK, Txn, Publish
  <2>2. \A n \in DOMAIN sent : sent[n] \in Txn
    BY <2>1
  <2>3. \A x \in Txn : x.at \in Nat
    BY DEF Txn
  <2>. QED  BY <2>1, <2>2, <2>3
<1>2. /\ pc = "publish" /\ pc' \in {"sleep", "stream"} /\ UNCHANGED <<clock, now>>
      /\ sent' = Append(sent, txn) /\ pending' = Tail(pending) /\ yielded' = yielded + 1
  BY DEF Publish
<1>3. /\ txn = pending[1] /\ 1 \in DOMAIN pending /\ txn.at \in Nat
      /\ \A i \in DOMAIN Tail(pending) : i + 1 \in DOMAIN pending /\ Tail(pending)[i] = pending[i + 1]
  <2>1. Len(pending) \in Nat \ {0} /\ DOMAIN pending = 1 .. Len(pending)
    BY <1>1
  <2>2. txn = pending[1] /\ 1 \in DOMAIN pending /\ pending[1] \in Txn
    BY <1>1, <2>1
  <2>3. \A x \in Txn : x.at \in Nat
    BY DEF Txn
  <2>4. Len(Tail(pending)) = Len(pending) - 1
        /\ \A i \in 1 .. Len(pending) - 1 : Tail(pending)[i] = pending[i + 1]
        /\ DOMAIN Tail(pending) = 1 .. Len(pending) - 1
    BY <1>1, HeadTailProperties
  <2>. QED  BY <2>1, <2>2, <2>3, <2>4
<1>4. /\ now + LeastStep <= clock /\ clock <= now + RoundAhead
      /\ clock <= txn.at /\ txn.at <= clock + MaxAhead
  BY <1>1, <1>2, <1>3 DEF OnTime, Clocked
<1>5. \A n \in DOMAIN sent' :
        \/ n \in DOMAIN sent /\ sent'[n] = sent[n]
        \/ n = Len(sent) + 1 /\ sent'[n] = txn
  BY <1>1, <1>2
<1>6. \A n \in DOMAIN sent : n \in Nat /\ n <= Len(sent)
  BY <1>1
<1>7. clock <= now + (yielded + 1) * Max(ClockSteps)
  <2>1. yielded * Max(ClockSteps) <= (yielded + 1) * Max(ClockSteps)
        /\ yielded * Max(ClockSteps) \in Nat /\ (yielded + 1) * Max(ClockSteps) \in Nat
    <3>1. yielded + 1 \in Nat /\ yielded <= yielded + 1 /\ Max(ClockSteps) \in Nat
      BY <1>1, Amounts
    <3>. QED  BY <1>1, <3>1, ProductMonotone
  <2>2. clock <= now + yielded * Max(ClockSteps) \/ clock <= now + (yielded + 1) * Max(ClockSteps)
    BY <1>2 DEF OnTime, Clocked
  <2>. DEFINE x == yielded * Max(ClockSteps)
              y == (yielded + 1) * Max(ClockSteps)
  <2>. HIDE DEF x, y
  <2>3. x <= y /\ x \in Nat /\ y \in Nat /\ (clock <= now + x \/ clock <= now + y)
    BY <2>1, <2>2 DEF x, y
  <2>4. clock <= now + y
    BY <1>1, <2>3
  <2>. QED  BY <2>4 DEF y
<1>8. Clocked'
  <2>1. yielded' * Max(ClockSteps) = (yielded + 1) * Max(ClockSteps)
    BY <1>2
  <2>2. clock' <= now' + yielded' * Max(ClockSteps)
    BY <1>2, <1>7, <2>1
  <2>3. now' <= clock' /\ clock' <= now' + RoundAhead /\ clock' >= now' + LeastStep
    BY <1>1, <1>2, <1>4, Amounts
  <2>4. \A i \in DOMAIN pending' : clock' <= pending'[i].at /\ pending'[i].at <= clock' + MaxAhead
    BY <1>2, <1>3 DEF OnTime, Clocked
  <2>. QED  BY <2>2, <2>3, <2>4 DEF Clocked
<1>9. \A n \in DOMAIN sent : \/ sent[n].at <= clock + MaxAhead
                             \/ sent[n].at <= now - Interval + RoundAhead + MaxAhead
  BY <1>2 DEF OnTime, Ahead
<1>10. Ahead'
  <2>1. ASSUME NEW n \in DOMAIN sent'
        PROVE  /\ sent'[n].at <= clock' + MaxAhead
                    \/ sent'[n].at <= now' - Interval + RoundAhead + MaxAhead
               /\ sent'[n].at <= now' + RoundAhead + MaxAhead
    <3>1. CASE sent'[n] = txn
      BY <1>1, <1>2, <1>3, <1>4, <3>1, Amounts
    <3>2. CASE n \in DOMAIN sent /\ sent'[n] = sent[n]
      <4>1. sent[n].at \in Nat /\ (\/ sent[n].at <= clock + MaxAhead
                                   \/ sent[n].at <= now - Interval + RoundAhead + MaxAhead)
        BY <1>1, <1>9, <3>2
      <4>2. sent[n].at <= now + RoundAhead + MaxAhead
        BY <1>1, <1>4, <4>1, Amounts
      <4>. QED  BY <1>2, <3>2, <4>1, <4>2
    <3>. QED  BY <1>5, <3>1, <3>2
  <2>. QED  BY <1>2, <2>1 DEF Ahead
<1>11. NoneLater'
  <2>1. ASSUME NEW m \in DOMAIN sent PROVE sent[m].at - txn.at <= MaxLateness
    <3>1. CASE sent[m].at <= clock + MaxAhead
      BY <1>1, <1>3, <1>4, <3>1, Amounts
    <3>2. CASE sent[m].at <= now - Interval + RoundAhead + MaxAhead
      BY <1>1, <1>3, <1>4, <3>2, Amounts
    <3>. QED  BY <1>9, <3>1, <3>2
  <2>2. ASSUME NEW m \in DOMAIN sent', NEW n \in DOMAIN sent', m < n
        PROVE  sent'[m].at - sent'[n].at <= MaxLateness
    <3>1. m \in DOMAIN sent /\ sent'[m] = sent[m]
      BY <1>1, <1>2, <2>2
    <3>2. CASE n \in DOMAIN sent /\ sent'[n] = sent[n]
      BY <2>2, <3>1, <3>2 DEF OnTime, NoneLater
    <3>3. CASE sent'[n] = txn
      BY <2>1, <3>1, <3>3
    <3>. QED  BY <1>5, <3>2, <3>3
  <2>. QED  BY <2>2 DEF NoneLater
<1>. QED  BY <1>8, <1>10, <1>11 DEF OnTime

LEMMA NextOnTime == OnTime /\ Typed /\ [Next]_vars => OnTime'
<1>. SUFFICES ASSUME OnTime, Typed, [Next]_vars PROVE OnTime'
  OBVIOUS
<1>1. CASE Publish
  BY <1>1, PublishOnTime
<1>2. CASE StartRound \/ LeaveLoop \/ NextTransaction \/ EndRound \/ Sleep
             \/ RetryPublish \/ GiveUp \/ FlushServes \/ FlushDone \/ FlushTimesOut
  <2>1. UNCHANGED sent
    BY <1>2 DEF StartRound, LeaveLoop, NextTransaction, EndRound, Sleep, RetryPublish, GiveUp,
                FlushServes, FlushDone, FlushTimesOut
  <2>. QED  BY <1>2, <2>1, QuietOnTime
<1>3. CASE \/ Sigterm \/ Outage \/ Recover \/ UNCHANGED vars
           \/ \E p \in Partition : Deliver(p) \/ Expire(p)
  <2>1. UNCHANGED sent /\ UNCHANGED <<generator, now, pc>>
    BY <1>3 DEF Sigterm, Outage, Recover, vars, loop, Deliver, Store, Acknowledge, Expire
  <2>. QED  BY <2>1, QuietOnTime
<1>. QED  BY <1>1, <1>2, <1>3 DEF Next, Run

(* The consumer never sees an event of a card later than MaxLateness,      *)
(* whatever is drawn, buffered, retried or stored late.                    *)
THEOREM LatenessAlwaysBounded == Spec => []LatenessBounded
<1>1. ASSUME IInv, OnTime PROVE LatenessBounded
  <2>1. \A p \in Partition : \A i \in DOMAIN topic[p] : topic[p][i] \in DOMAIN sent
    BY <1>1, Positions DEF IInv
  <2>2. ASSUME NEW p \in Partition, NEW i \in DOMAIN topic[p], NEW j \in DOMAIN topic[p], i < j
        PROVE  sent[topic[p][i]].at - sent[topic[p][j]].at <= MaxLateness
    <3>1. topic[p][i] < topic[p][j]
      BY <1>1, <2>2 DEF IInv, Ordered, TopicInOrder
    <3>. QED  BY <1>1, <2>1, <3>1 DEF OnTime, NoneLater
  <2>. QED  BY <2>2 DEF LatenessBounded
<1>2. IInv => Typed
  BY DEF IInv
<1>. QED  BY <1>1, <1>2, InitOnTime, NextOnTime, InductiveInvariant, PTL DEF Spec
=============================================================================
