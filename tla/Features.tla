------------------------------ MODULE Features ------------------------------
(***************************************************************************)
(* compute_features of src/feature_engineering/features.py in full, over   *)
(* histories whose entries have, besides txn and at, the fields            *)
(*    amount   merchant   device (or NoDevice)   place                     *)
(* and the two rules built on the vector.  Amounts are whole cents and     *)
(* distances whole kilometres; a quotient is kept as the pair it is the    *)
(* quotient of, which leaves the rounding to 2 and 4 digits out.           *)
(***************************************************************************)
EXTENDS HistoryWindows, FiniteSetsExt, Functions

CONSTANTS
  NoDevice,      \* device_id None
  NoValue,       \* a feature that is None
  Km(_, _)       \* haversine_km

Amounts(history, S) == SumFunction([i \in S |-> history[i].amount])
Squares(history, S) == SumFunction([i \in S |-> history[i].amount * history[i].amount])

(* seconds_since_last_txn and distance_from_last_txn_km *)
SinceLast(history, t) ==
  IF Past(history, t) = {} THEN NoValue ELSE t.at - history[LastPast(history, t)].at

DistanceFromLast(history, t) ==
  IF Past(history, t) = {} THEN NoValue ELSE Km(history[LastPast(history, t)].place, t.place)

(* implied_speed_kmh: None when no time has passed, or time runs backwards.*)
ImpliedSpeed(history, t) ==
  IF Past(history, t) # {} /\ SinceLast(history, t) > 0
    THEN [km |-> DistanceFromLast(history, t), elapsed |-> SinceLast(history, t)]
    ELSE NoValue

(* amount_zscore_24h is (n a - S) / sqrt(n Q - S S) for the n past amounts *)
(* of the window, S their sum and Q the sum of their squares; 0.0 for less *)
(* than two, or when they are all equal.                                   *)
AmountZScore(history, t) ==
  LET W == InWindow(history, t, OneDay)
      n == Cardinality(W)
      S == Amounts(history, W)
      variance == n * Squares(history, W) - S * S
  IN  IF n >= 2 /\ variance > 0
        THEN [excess |-> n * t.amount - S, variance |-> variance]
        ELSE [excess |-> 0, variance |-> 1]

KnownDevices(history, t) == {history[i].device : i \in Past(history, t)} \ {NoDevice}

IsNewDevice(history, t) ==
  /\ t.device # NoDevice
  /\ t.device \notin KnownDevices(history, t)
  /\ KnownDevices(history, t) # {}

ComputeVector(history, t) ==
  [txn_count_1h           |-> CountIn(history, t, OneHour),
   txn_count_24h          |-> CountIn(history, t, OneDay),
   sum_amount_1h          |-> Amounts(history, InWindow(history, t, OneHour)) + t.amount,
   sum_amount_24h         |-> Amounts(history, InWindow(history, t, OneDay)) + t.amount,
   distinct_merchants_24h |-> Cardinality({history[i].merchant : i \in InWindow(history, t, OneDay)}
                                          \cup {t.merchant}),
   velocity_5min          |-> CountIn(history, t, FiveMinutes),
   seconds_since_last     |-> SinceLast(history, t),
   distance_from_last     |-> DistanceFromLast(history, t),
   implied_speed          |-> ImpliedSpeed(history, t),
   amount_zscore_24h      |-> AmountZScore(history, t),
   is_new_device          |-> IsNewDevice(history, t)]

(* is_velocity_abuse *)
IsVelocityAbuse(fv, maxTxns) == fv.velocity_5min > maxTxns

(* is_impossible_travel, the speed being km per OneHour. *)
IsImpossibleTravel(fv, maxSpeed) ==
  /\ fv.implied_speed # NoValue
  /\ fv.implied_speed.km * OneHour > maxSpeed * fv.implied_speed.elapsed

(* amount_zscore_24h >= threshold, for a threshold of 1 or more. *)
IsAmountOutlier(fv, threshold) ==
  LET z == fv.amount_zscore_24h IN
  /\ z.excess > 0
  /\ z.excess * z.excess >= threshold * threshold * z.variance
=============================================================================
