---------------------------- MODULE BatchScoring ----------------------------
(***************************************************************************)
(* POST /batch/score (src/api/batch.py): parse the uploaded file, keep the *)
(* earliest MAX_BATCH_ROWS rows, score them in order of event_time against *)
(* a history per card that the file itself builds, ask MLflow for the      *)
(* metrics of the model's run, and build the dashboard.  ModelState        *)
(* belongs to the whole process: a reload in another thread may take the   *)
(* model away, or bring one, between rows and before the dashboard.        *)
(***************************************************************************)
EXTENDS Features, RiskPolicy

CONSTANTS
  Upload,        \* files: sequences of rows, each with `valid` and `aware`
  Settings,      \* the thresholds
  MaxVelocity, MinZScore, MaxSpeed,    \* fallback_* settings
  ModelScore,    \* scores predict_proba may return
  MaxBatchRows,
  NumBuckets,
  MaxTopAlerts, MaxGeoPoints,   \* 200 and 300 in build_dashboard_payload
  Version, NoModel,             \* model versions; fallback in use
  NoPayload,                    \* no dashboard yet
  MaxReloads                    \* bound: reloads during one upload

(* Of a row that validates the time is an integer, and the amount positive.*)
ASSUME UploadAssumption ==
  \A f \in Upload :
    /\ Len(f) \in Nat /\ DOMAIN f = 1 .. Len(f)
    /\ \A i \in DOMAIN f :
         f[i].valid => f[i].at \in Int /\ f[i].amount \in Nat \ {0}

ASSUME BatchAssumption ==
  /\ Settings \in Thresholds
  /\ MaxBatchRows \in Nat \ {0} /\ NumBuckets \in Nat \ {0}
  /\ ModelScore \subseteq 0 .. 100
  /\ MaxTopAlerts \in Nat /\ MaxGeoPoints \in Nat /\ MaxTopAlerts <= MaxGeoPoints
  /\ MaxReloads \in Nat /\ NoModel \notin Version

VARIABLES
  file,        \* the upload
  pc,          \* where batch_score is
  rows,        \* `transactions`: parsed, then cut
  parsed,      \* history: what parse_transactions_csv returned
  truncated,   \* the file has more valid rows than are scored
  past,        \* `history`, by card, of score_batch
  scored,      \* `results` of score_batch
  model,       \* ModelState: the version loaded, or NoModel
  reloads,     \* how often it changed during the upload
  metrics,     \* `model_metrics`: the version whose run they are of, or NoModel
  payload      \* the dashboard

upload == <<file, rows, parsed, truncated>>
vars == <<upload, pc, past, scored, model, reloads, metrics, payload>>

Card == UNION {{f[i].card : i \in DOMAIN f} : f \in Upload}

TypeOK ==
  /\ file \in Upload
  /\ pc \in {"parse", "cut", "score", "metrics", "payload", "ok",
            "bad_request", "error"}
  /\ DOMAIN past = Card
  /\ truncated \in BOOLEAN
  /\ {model, metrics} \subseteq Version \cup {NoModel}
  /\ reloads \in 0 .. MaxReloads
  /\ pc = "parse" => rows = <<>> /\ parsed = <<>>
  /\ pc \in {"parse", "cut"} => scored = <<>> /\ ~truncated
  /\ pc # "ok" => payload = NoPayload

Init ==
  /\ file \in Upload
  /\ pc = "parse"
  /\ rows = <<>>
  /\ parsed = <<>>
  /\ past = [c \in Card |-> <<>>]
  /\ scored = <<>>
  /\ truncated = FALSE
  /\ model \in Version \cup {NoModel}
  /\ reloads = 0
  /\ metrics = NoModel
  /\ payload = NoPayload

(* A name that does not end in .csv, no bytes, no table of rows, or one    *)
(* without a required column: all of it found before the first row is.     *)
RefuseUpload ==
  /\ pc = "parse"
  /\ pc' = "bad_request"
  /\ UNCHANGED <<upload, past, scored, model, reloads, metrics, payload>>

(* The members of S by ascending key, and equal ones by position.          *)
Rank(S, key, i) ==
  Cardinality({j \in S : key[j] < key[i] \/ (key[j] = key[i] /\ j <= i)})

Ordered(S, key) ==
  [k \in 1 .. Cardinality(S) |-> CHOOSE i \in S : Rank(S, key, i) = k]

RowsAt(s, positions) == [k \in DOMAIN positions |-> s[positions[k]]]

(* [r for r in s if ...]: the entries at the positions S, in their order.  *)
Selected(s, S) == RowsAt(s, Ordered(S, [i \in S |-> i]))

(* Rows that do not validate are skipped; a file of none is refused.       *)
ValidRows(f) == Selected(f, {i \in DOMAIN f : f[i].valid})

ParseTransactions ==
  /\ pc = "parse"
  /\ rows' = ValidRows(file)
  /\ parsed' = rows'
  /\ pc' = IF rows' = <<>> THEN "bad_request" ELSE "cut"
  /\ UNCHANGED <<file, truncated, past, scored, model, reloads, metrics, payload>>

(* Python compares no naive datetime with an aware one.                    *)
Comparable(s) == Len(s) >= 2 => \A i, j \in DOMAIN s : s[i].aware = s[j].aware

(* sorted(), which is stable, with reverse=True too. *)
SortedBy(s, key) == RowsAt(s, Ordered(DOMAIN s, key))

(* Variant: the order of the file. *)
Unsorted(s) == s

Sorted(s) == SortedBy(s, [i \in DOMAIN s |-> s[i].at])

(* Variant: a cut file loses one row more than the limit asks. *)
CutShort(s) ==
  IF Len(s) > MaxBatchRows THEN SubSeq(Sorted(s), 1, MaxBatchRows - 1) ELSE Sorted(s)

(* The order score_batch scores in: cut by event_time, then sorted.        *)
Kept(s) ==
  IF Len(s) > MaxBatchRows THEN SubSeq(Sorted(s), 1, MaxBatchRows) ELSE Sorted(s)

Truncated(s) == Len(s) > MaxBatchRows

CutAndSort ==
  /\ pc = "cut"
  /\ Comparable(rows)
  /\ truncated' = Truncated(rows)
  /\ rows' = Kept(rows)
  /\ pc' = "score"
  /\ UNCHANGED <<file, parsed, past, scored, model, reloads, metrics, payload>>

SortFails ==
  /\ pc = "cut"
  /\ ~Comparable(rows)
  /\ pc' = "error"
  /\ UNCHANGED <<upload, past, scored, model, reloads, metrics, payload>>

(* The rules that fire on a vector; the amounts of a window always add up  *)
(* to more than zero.                                                      *)
Fired(fv) ==
  {r \in Rule :
     CASE r = "high_velocity"     -> IsVelocityAbuse(fv, MaxVelocity)
       [] r = "amount_outlier"    -> IsAmountOutlier(fv, MinZScore)
       [] r = "impossible_travel" -> IsImpossibleTravel(fv, MaxSpeed)
       [] r = "new_device"        -> fv.is_new_device /\ fv.sum_amount_1h > 0}

Result(t, fv, source, score) ==
  [txn |-> t, vector |-> fv, source |-> source, score |-> score,
   decision |-> Decide(score, Settings),
   routed |-> RoutedToReview(score, Settings),
   reason |-> DeriveReason(Fired(fv), Decide(score, Settings))]

(* One turn of the loop: with a model its score, or, if it raises or is    *)
(* not there, that of the rules; then the row joins its card's history.    *)
ScoreRow ==
  /\ pc = "score"
  /\ Len(scored) < Len(rows)
  /\ LET t  == rows[Len(scored) + 1]
         fv == ComputeVector(past[t.card], t)
     IN /\ \/ \E s \in ModelScore :
                model # NoModel /\ scored' = Append(scored, Result(t, fv, "ml", s))
           \/ scored' = Append(scored,
                Result(t, fv, "fallback_rules", FallbackScore(Fired(fv))))
        /\ past' = [past EXCEPT ![t.card] = Append(@, t)]
  /\ UNCHANGED <<upload, pc, model, reloads, metrics, payload>>

EndScoring ==
  /\ pc = "score"
  /\ Len(scored) = Len(rows)
  /\ pc' = "metrics"
  /\ UNCHANGED <<upload, past, scored, model, reloads, metrics, payload>>

(* get_run_metrics, only with a model; if MLflow does not answer, or has   *)
(* none for the run, the upload goes on without them.                      *)
FetchMetrics ==
  /\ pc = "metrics"
  /\ metrics' \in {model, NoModel}
  /\ pc' = "payload"
  /\ UNCHANGED <<upload, past, scored, model, reloads, payload>>

FirstTime == rows[1].at
Span == LET s == rows[Len(rows)].at - FirstTime IN IF s = 0 THEN 1 ELSE s

(* int(offset / bucket_seconds), the last instant in the last bucket; from *)
(* 1 here.                                                                 *)
BucketOf(t) ==
  LET b == ((t.at - FirstTime) * NumBuckets) \div Span
  IN  IF b < NumBuckets - 1 THEN b + 1 ELSE NumBuckets

Alerts == Selected(scored, {k \in DOMAIN scored : scored[k].routed})
Blocked == Selected(scored, {k \in DOMAIN scored : scored[k].decision = "block"})
Count(s, Test(_)) == Cardinality({k \in DOMAIN s : Test(s[k])})

Timeseries ==
  [b \in 1 .. NumBuckets |-> Count(Alerts, LAMBDA r : BucketOf(r.txn) = b)]

Reasons ==
  [g \in {Blocked[k].reason : k \in DOMAIN Blocked} |->
     Count(Blocked, LAMBDA r : r.reason = g)]

(* Variant: reverse=True forgotten. *)
LowestScores(s, n) ==
  LET best == SortedBy(s, [i \in DOMAIN s |-> s[i].score])
  IN  SubSeq(best, 1, IF n < Len(best) THEN n ELSE Len(best))

(* sorted(s, key=fraud_score, reverse=True)[:n] *)
HighestScores(s, n) ==
  LET best == SortedBy(s, [i \in DOMAIN s |-> -s[i].score])
  IN  SubSeq(best, 1, IF n < Len(best) THEN n ELSE Len(best))

(* Variant: a model without metrics is taken for none. *)
PanelOfMetrics ==
  IF metrics # NoModel
  THEN [source |-> "last_validated_run", version |-> model, metrics |-> metrics]
  ELSE [source |-> "fallback_active", version |-> NoModel, metrics |-> NoModel]

(* model_performance: the version is read now, the metrics were before.    *)
Panel ==
  IF model = NoModel
  THEN [source |-> "fallback_active", version |-> NoModel, metrics |-> NoModel]
  ELSE [source |-> IF metrics = NoModel THEN "unavailable" ELSE "last_validated_run",
        version |-> model, metrics |-> metrics]

Kpis ==
  [total_transactions      |-> Len(scored),
   fraudulent_transactions |-> Len(Blocked),
   blocked_amount          |-> SumFunction([k \in DOMAIN Blocked |-> Blocked[k].txn.amount]),
   alerts_triggered        |-> Len(Alerts)]

UploadMeta ==
  [rows_in_file |-> Len(file), rows_scored |-> Len(scored),
   rows_skipped |-> Count(file, LAMBDA r : ~r.valid), truncated |-> truncated]

BuildPayload ==
  /\ pc = "payload"
  /\ payload' = [kpis |-> Kpis, timeseries |-> Timeseries, reasons |-> Reasons,
                  geo_points |-> HighestScores(Alerts, MaxGeoPoints),
                  top_alerts |-> HighestScores(Alerts, MaxTopAlerts),
                  model_performance |-> Panel, upload_meta |-> UploadMeta]
  /\ pc' = "ok"
  /\ UNCHANGED <<upload, past, scored, model, reloads, metrics>>

(* A reload in another thread gains, loses or changes the model. *)
Reload ==
  /\ pc \in {"score", "metrics", "payload"}
  /\ reloads < MaxReloads
  /\ reloads' = reloads + 1
  /\ model' \in (Version \cup {NoModel}) \ {model}
  /\ UNCHANGED <<upload, pc, past, scored, metrics, payload>>

Next ==
  \/ RefuseUpload \/ ParseTransactions \/ CutAndSort \/ SortFails
  \/ ScoreRow \/ EndScoring \/ FetchMetrics \/ BuildPayload \/ Reload

Spec == Init /\ [][Next]_vars

(***************************************************************************)
(* Properties                                                              *)
(***************************************************************************)
(* The positions of the file's valid rows that come before the i-th in     *)
(* order of event_time, on the same card, and are other transactions.      *)
Earlier(i) ==
  {j \in DOMAIN parsed :
     /\ parsed[j].card = parsed[i].card /\ parsed[j].txn # parsed[i].txn
     /\ \/ parsed[j].at < parsed[i].at
        \/ parsed[j].at = parsed[i].at /\ j < i}

Recent(i, window) == {j \in Earlier(i) : parsed[i].at - parsed[j].at <= window}

(* Whatever the order of the file, every scored row is judged on exactly   *)
(* the transactions of its card that precede it in time: the counts, the   *)
(* sum and the merchants of its windows are those of the file.             *)
WindowsChronological ==
  \A k \in DOMAIN scored : \E i \in DOMAIN parsed :
    LET fv == scored[k].vector
        day == Recent(i, OneDay)
    IN /\ parsed[i] = scored[k].txn
       /\ fv.velocity_5min = Cardinality(Recent(i, FiveMinutes)) + 1
       /\ fv.txn_count_1h = Cardinality(Recent(i, OneHour)) + 1
       /\ fv.txn_count_24h = Cardinality(day) + 1
       /\ fv.sum_amount_24h = SumFunction([j \in day |-> parsed[j].amount]) + parsed[i].amount
       /\ fv.distinct_merchants_24h =
            Cardinality({parsed[j].merchant : j \in day} \cup {parsed[i].merchant})

(* The limit drops the latest rows of the file, never one earlier than a   *)
(* row it keeps, and drops no more than it must.                           *)
CutKeepsEarliest ==
  pc \in {"metrics", "payload", "ok"} =>
    /\ Len(scored) = IF Len(parsed) <= MaxBatchRows THEN Len(parsed) ELSE MaxBatchRows
    /\ \A i \in DOMAIN parsed :
         (\A k \in DOMAIN scored : scored[k].txn # parsed[i])
           => \A k \in DOMAIN scored : scored[k].txn.at <= parsed[i].at

(* One policy for a whole file, models and rules mixed: of two rows the    *)
(* one with the higher score never gets the milder decision.               *)
DecisionsMonotone ==
  \A k, l \in DOMAIN scored :
    scored[k].score <= scored[l].score =>
      Severity(scored[k].decision) <= Severity(scored[l].decision)

(* A row the rules scored is blocked when one of the three strong rules    *)
(* fires, whatever else fires, and only then.                              *)
StrongRulesBlock ==
  \A k \in DOMAIN scored : scored[k].source = "fallback_rules" =>
    (scored[k].decision = "block" <=> Fired(scored[k].vector) \cap HardRule # {})

(* What the dashboard shows accounts for every flagged row: it has a       *)
(* reason, and the model is blamed only for a score of the model.          *)
FlaggedHasReason ==
  \A k \in DOMAIN scored :
    /\ scored[k].decision # "approve" => scored[k].reason # "none"
    /\ scored[k].reason = "model_signal" => scored[k].source = "ml"

(* The chart adds up to the count of alerts: no alert of the file falls    *)
(* outside the buckets, the last instant's included.                       *)
AlertsAllCharted ==
  pc = "ok" =>
    SumFunctionOnSet(payload.timeseries, 1 .. NumBuckets) = payload.kpis.alerts_triggered

(* Every blocked row counts under one reason, and only those rows.         *)
ReasonsAddUp ==
  pc = "ok" =>
    LET kpis == payload.kpis
    IN /\ SumFunction(payload.reasons) = kpis.fraudulent_transactions
       /\ kpis.blocked_amount > 0 <=> kpis.fraudulent_transactions > 0

(* The alerts' panels agree: every blocked row is an alert, the table is   *)
(* the start of the map's points, and no alert left out of either scores   *)
(* above one that is shown.                                                *)
WorstAlertsShown ==
  pc = "ok" =>
    LET kpis == payload.kpis
        top == payload.top_alerts
        geo == payload.geo_points
    IN /\ kpis.fraudulent_transactions <= kpis.alerts_triggered
       /\ Len(top) <= Len(geo) /\ \A k \in DOMAIN top : geo[k] = top[k]
       /\ \A k \in DOMAIN scored : \A shown \in {top, geo} :
            (scored[k].routed /\ \A l \in DOMAIN shown : shown[l] # scored[k])
              => \A l \in DOMAIN shown : shown[l].score >= scored[k].score

(* No row of the file goes missing in silence: what is neither scored nor  *)
(* reported as skipped was cut, and upload_meta says so, and only then.    *)
UploadAccounted ==
  pc = "ok" =>
    LET meta == payload.upload_meta
        cut == meta.rows_in_file - meta.rows_scored - meta.rows_skipped
    IN /\ cut >= 0
       /\ meta.truncated <=> cut > 0
       /\ meta.truncated => meta.rows_scored = MaxBatchRows

(* Together: every number on the dashboard adds up with every other.       *)
DashboardAddsUp ==
  AlertsAllCharted /\ ReasonsAddUp /\ WorstAlertsShown /\ UploadAccounted

(* As long as no reload comes in between, the performance panel is about   *)
(* the model that scored the file, with metrics of that model's run, and   *)
(* it speaks of the rules only when they scored every row.  (With one, a   *)
(* version may stand over the metrics of another.)                         *)
PanelOfOneModel ==
  pc = "ok" /\ reloads = 0 =>
    LET panel == payload.model_performance
    IN /\ panel.source = "fallback_active" =>
            \A k \in DOMAIN scored : scored[k].source = "fallback_rules"
       /\ panel.source # "fallback_active" => panel.version = model
       /\ panel.source = "last_validated_run" => panel.metrics = panel.version
=============================================================================
