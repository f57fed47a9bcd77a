------------------------ MODULE TransactionGenerator ------------------------
(***************************************************************************)
(* What one turn of the loop in TransactionGenerator.stream can yield for  *)
(* a cardholder at a time of its clock: the event_times of a normal or     *)
(* high-value transaction, of an impossible-travel pair or of a velocity   *)
(* burst.  Which of them, and every delay, is drawn at random; amounts,    *)
(* merchants, places and devices are left out.                             *)
(***************************************************************************)
EXTENDS Integers, Sequences, FiniteSetsExt

CONSTANTS
  ClockSteps,     \* what the clock may advance by before a turn
  TravelDelays,   \* event_time of the second of a pair, after the first
  BurstSizes,     \* transactions of a burst
  BurstGaps       \* the i-th of a burst is i gaps after its start

(* What is drawn, randint(6, 15) or uniform(1, 8), has a least and a       *)
(* greatest value.                                                         *)
Drawn(S) ==
  /\ S \subseteq Nat \ {0} /\ S # {}
  /\ \E least, most \in S : \A x \in S : least <= x /\ x <= most

ASSUME GeneratorAssumption ==
  Drawn(ClockSteps) /\ Drawn(TravelDelays) /\ Drawn(BurstSizes) /\ Drawn(BurstGaps)

Transaction(c, t) == [card |-> c, at |-> t]

(* _normal_transaction, _high_value_transaction, _new_device_high_value *)
Single(c, t) == {<<Transaction(c, t)>>}

ImpossibleTravelPair(c, t) ==
  {<<Transaction(c, t), Transaction(c, t + d)>> : d \in TravelDelays}

(* A gap of its own is drawn for every transaction, so the event_times of  *)
(* a burst need not increase.                                              *)
VelocityAbuseBurst(c, t) ==
  UNION {{[i \in 1 .. k |-> Transaction(c, t + (i - 1) * gap[i])] :
            gap \in [1 .. k -> BurstGaps]} : k \in BurstSizes}

Yields(c, t) ==
  Single(c, t) \cup ImpossibleTravelPair(c, t) \cup VelocityAbuseBurst(c, t)

(* The furthest ahead of the clock an event_time is set. *)
MaxAhead == Max({(Max(BurstSizes) - 1) * Max(BurstGaps), Max(TravelDelays)})
=============================================================================
