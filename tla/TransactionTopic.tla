-------------------------- MODULE TransactionTopic --------------------------
(***************************************************************************)
(* What src/ingestion/producer.py promises the consumer of the topic: the  *)
(* transactions of a card are on one partition, in the order in which they *)
(* were handed to publish, each at most once.  Some may be missing: no     *)
(* promise of delivery is made here.                                       *)
(***************************************************************************)
EXTENDS Integers, Sequences

CONSTANTS Card, Partition

VARIABLES
  source,   \* the card of every transaction handed over, in order
  log       \* partition -> the positions in `source` of what it stores

vars == <<source, log>>

Init ==
  /\ source = <<>>
  /\ log = [p \in Partition |-> <<>>]

HandOver(c) ==
  /\ source' = Append(source, c)
  /\ UNCHANGED log

(* n may follow what partition p holds: its card is on no other partition, *)
(* and of that card only earlier transactions are on this one.             *)
MayFollow(p, n) ==
  \A q \in Partition : \A i \in DOMAIN log[q] :
    source[log[q][i]] = source[n] => q = p /\ log[q][i] < n

Store(p, n) ==
  /\ n \in DOMAIN source
  /\ MayFollow(p, n)
  /\ log' = [log EXCEPT ![p] = Append(@, n)]
  /\ UNCHANGED source

Next ==
  \/ \E c \in Card : HandOver(c)
  \/ \E p \in Partition : \E n \in DOMAIN source : Store(p, n)

Spec == Init /\ [][Next]_vars

(* What a consumer relies on: two stored transactions of one card share a  *)
(* partition, where the one handed over first comes first, and neither is  *)
(* there twice.                                                            *)
CardsInOrder ==
  \A p, q \in Partition : \A i \in DOMAIN log[p], j \in DOMAIN log[q] :
    source[log[p][i]] = source[log[q][j]] =>
      /\ p = q
      /\ i < j => log[p][i] < log[q][j]
=============================================================================
