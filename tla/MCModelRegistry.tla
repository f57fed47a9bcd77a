-------------------------- MODULE MCModelRegistry --------------------------
(***************************************************************************)
(* Small instances of ModelRegistry for TLC, with the thresholds of        *)
(* config.py in hundredths.                                                *)
(***************************************************************************)
EXTENDS ModelRegistry

CONSTANTS xgboost, lightgbm, alice

Logged(r, p, f) == [recall |-> r, precision |-> p, fairness |-> f]

(* At the floors; every floor cleared but the precision, by one. *)
TwoMetrics == {Logged(70, 30, {65, 80}), Logged(80, 29, {80})}

Both == <<xgboost, lightgbm>>
One  == <<xgboost>>
=============================================================================
