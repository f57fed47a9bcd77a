----------------------------- MODULE RiskPolicy -----------------------------
(***************************************************************************)
(* The two pure policies of the API: the rules that score when no model    *)
(* does (src/api/fallback.py) and the mapping of a score to a decision     *)
(* (src/api/decision.py), with the reason shown for a row of a batch       *)
(* (src/api/batch.py).  Scores are hundredths.                             *)
(***************************************************************************)
EXTENDS Integers

Rule == {"high_velocity", "amount_outlier", "impossible_travel", "new_device"}

(* The rules that are strong signals on their own. *)
HardRule == Rule \ {"new_device"}

(* Settings: thresholds are not validated against each other.              *)
Thresholds == [risk_high : Int, risk_low : Int, band_low : Int, band_high : Int]

InBand(score, s) == s.band_low <= score /\ score <= s.band_high

(* Variant: the two thresholds swapped. *)
DecideSwapped(score, s) ==
  IF score <= s.risk_high /\ ~InBand(score, s) THEN "approve"
  ELSE IF score >= s.risk_high THEN "block" ELSE "review"

Decide(score, s) ==
  IF score >= s.risk_high THEN "block"
  ELSE IF score <= s.risk_low /\ ~InBand(score, s) THEN "approve"
  ELSE "review"

RoutedToReview(score, s) == Decide(score, s) # "approve" \/ InBand(score, s)

Severity(decision) ==
  IF decision = "block" THEN 2 ELSE IF decision = "review" THEN 1 ELSE 0

(* max(score, at) when the rule fires. *)
Raise(score, rule, fired, at) == IF rule \in fired /\ score < at THEN at ELSE score

(* Variant: assigned instead of raised. *)
ScoreOfLast(fired) ==
  IF "new_device" \in fired THEN 35
  ELSE IF "impossible_travel" \in fired THEN 95
  ELSE IF "amount_outlier" \in fired THEN 85
  ELSE IF "high_velocity" \in fired THEN 90 ELSE 5

FallbackScore(fired) ==
  Raise(Raise(Raise(Raise(5, "high_velocity", fired, 90),
                    "amount_outlier", fired, 85),
              "impossible_travel", fired, 95),
        "new_device", fired, 35)

(* Variant: only blocked rows are put down to the model. *)
ReasonOfBlocked(fired, decision) ==
  IF "high_velocity" \in fired THEN "high_velocity"
  ELSE IF "amount_outlier" \in fired THEN "amount_outlier"
  ELSE IF "impossible_travel" \in fired THEN "impossible_travel"
  ELSE IF "new_device" \in fired /\ decision # "approve" THEN "new_device_high_spend"
  ELSE IF decision = "block" THEN "model_signal" ELSE "none"

DeriveReason(fired, decision) ==
  IF "high_velocity" \in fired THEN "high_velocity"
  ELSE IF "amount_outlier" \in fired THEN "amount_outlier"
  ELSE IF "impossible_travel" \in fired THEN "impossible_travel"
  ELSE IF "new_device" \in fired /\ decision # "approve" THEN "new_device_high_spend"
  ELSE IF decision # "approve" THEN "model_signal" ELSE "none"
=============================================================================
