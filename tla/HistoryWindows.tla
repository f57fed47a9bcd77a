--------------------------- MODULE HistoryWindows ---------------------------
(***************************************************************************)
(* How src/feature_engineering/features.py selects, out of a card's        *)
(* history, the transactions a feature of the current one is computed      *)
(* from.  A history is a sequence of records with at least the fields      *)
(*    txn : the transaction_id      at : the event_time                    *)
(* Everything is stated on the set of positions of the history, so that a  *)
(* transaction that occurs twice in the history counts twice, as it does   *)
(* in the Python lists.                                                    *)
(***************************************************************************)
EXTENDS Integers, Sequences, FiniteSets

CONSTANTS
  FiveMinutes, OneHour, OneDay   \* the three timedeltas, in units of event_time

ASSUME WindowsAssumption ==
  /\ FiveMinutes \in Nat
  /\ OneHour \in Nat
  /\ OneDay \in Nat
  /\ FiveMinutes <= OneHour
  /\ OneHour <= OneDay

(* `past`: the history without the entries of the current transaction. *)
Past(history, current) ==
  {i \in DOMAIN history : history[i].txn # current.txn}

(* Variant: no lower end. *)
UpToNow(history, current, window) ==
  {i \in Past(history, current) : history[i].at <= current.at}

(* _in_window(past, current.event_time, window): a closed interval. *)
InWindow(history, current, window) ==
  {i \in Past(history, current) : /\ current.at - window <= history[i].at
                                  /\ history[i].at <= current.at}

(* txn_count_1h, txn_count_24h and velocity_5min all count the current one. *)
CountIn(history, current, window) ==
  Cardinality(InWindow(history, current, window)) + 1

(* past[-1] of the list sorted by event_time: the greatest event_time and, *)
(* Python's sort being stable, the last of the history among equals.  It   *)
(* is not bounded by the current event_time: it may lie in the future of a *)
(* transaction that arrives late.                                          *)
LastPast(history, current) ==
  CHOOSE i \in Past(history, current) :
    \A j \in Past(history, current) :
      \/ history[j].at < history[i].at
      \/ history[j].at = history[i].at /\ j <= i
=============================================================================
