# A TLA+ model of the fraud detection platform

This directory holds a formal model of the platform's core: the producer that fills the Kafka topic, the streaming
job that turns its messages into Redis features and PostgreSQL rows, the start-up that creates the schema, the inference API with its hot model reload, the queue in which analysts
review flagged transactions, the governance of model versions from training to Production, and the scoring of
uploaded files. The modules are checked with TLC on small instances, and what matters most about them is proved
with TLAPS for all values of their constants.

Paths below are relative to the repository root; `PROJECT.json` maps every definition that models code to
the lines it stands for.

## 1. The system

### 1.1 Components, their state and how they interact

| component | code | state it keeps | operations | talks to |
|---|---|---|---|---|
| Producer | `src/ingestion` | the generator's clock and turn, the flag SIGTERM sets; librdkafka's buffer, reports and counters | one round per interval, publish (3 attempts), delivery reports, flush on SIGTERM | Kafka |
| Streaming job | `src/feature_engineering/spark_consumer.py`, `validation.py` | Spark's checkpoint (offset log, commit log); in a batch, the position of two nested loops and a local history | start, plan a batch, per card: sort, validate, compute, write; then INSERT, audit, gauge, commit | Kafka, Redis, PostgreSQL |
| Feature store | `feature_store.py` | `features:card:*` and `history:card:*`, both with a TTL, the history bounded by LTRIM | write_features, append_history, get_history | |
| Feature engineering | `features.py` | none (pure) | compute_features, two rules | |
| Inference API | `src/api/inference.py`, `routes/score.py`, `explain.py`, `health.py`, `main.py` | `ModelState`: model, name, version, explainer, shared by a thread pool without a lock | /score, /explain, /admin/reload-model, start-up | Redis, MLflow, PostgreSQL |
| Routing policy, fallback | `decision.py`, `fallback.py` | none (pure) | decide, RuleBasedFallback.score | |
| Batch scoring | `src/api/batch.py`, `routes/batch.py` | per upload: a history per card | parse, cut, score, read metrics, build the payload | `ModelState`, MLflow |
| Review queue | `routes/review.py`, `streamlit_app/review_ui.py` | `review_cases`, `analyst_feedback`; in each browser session a page; a cache all sessions share; the depth gauge | list, resolve with a label, rerun the page, clear or expire the cache | PostgreSQL, HTTP |
| Model registry and promotion | `src/ml/registry.py`, `auto_promote.py`, `scripts/promote_model.py` | MLflow stages and run metrics; `model_approvals` | register_and_stage, promote_model, maybe_auto_promote, load_production_model | MLflow, PostgreSQL |
| Drift and retraining DAGs | `dags/`, `src/ml/drift.py`, `train.py` | Airflow task state, `drift_reports` | check drift per model, branch, trigger, wait, retry | MLflow, PostgreSQL, other DAGs |
| PostgreSQL client | `src/storage`, `sql/init.sql` | the seven tables and their indexes | one transaction per method (modelled where it is called); `create_all` at every start-up | PostgreSQL |
| Auth, config, secrets, PII, logging, metrics, dashboards, infrastructure | `src/api/auth.py`, `src/common`, `src/monitoring`, `terraform/`, `docker/` | none that a protocol depends on | | |

The components share four stores: the Kafka topic (producer to job), Redis (job to API), PostgreSQL (everyone),
and the MLflow registry (training and promotion to API). They never call each other's code across processes,
except Airflow's DAGs, which trigger one another.

### 1.2 What is hard

* **Crash and replay.** `process_batch` makes many external calls and Spark commits only after it returns. A
  crash anywhere replays the whole batch; some of the writes are idempotent (INSERT .. DO NOTHING, SET) and
  one is not (LPUSH).
* **Poisoned batches.** An exception in `process_batch` ends the query; a job that kept its checkpoint meets the same
  batch again.
* **A lost checkpoint.** `/tmp/checkpoints/transactions` is on no volume: a job that comes back on another host begins
  at the end of the topic, whatever it left unfinished.
* **Order.** Events arrive late and in batches cut anywhere; windows are by `event_time`, which the generator sets
  ahead of the wall clock.
* **A full buffer, an outage, a late answer.** `produce` may be refused, a message may time out although the broker
  has stored it, and the flush at the end gives up after ten seconds.
* **Several services create one schema** at once, in several statements each, and any of them may die between two.
* **Attribute races.** Requests read `ModelState` attribute by attribute, sometimes twice, while a reload
  assigns it attribute by attribute; a promotion may come between the two MLflow calls of one reload.
* **Two transactions for one decision**: the prediction, then its review case; likewise the approval row, then
  the stage transition.
* **Retries and waits across DAGs**: a retried training task registers again, a retried trigger creates another run; a
  drift run waits for a retrain that may fail.
* **Stale pages**: every click runs the analyst's page from the top over a cached queue; an answer may come after
  the page gave up on it, and others label the same cases meanwhile.
* **Boundaries**: thresholds that overlap, the last bucket of a chart, the cut at the maximum of rows.

### 1.3 What makes each component correct

* Producer: the two counters tell the truth; an orderly stop loses nothing silently; a card's transactions are on its
  partition in the order they were sent, each once; no event lies further ahead than the generator means it to; run ends.
* Schema: a service that is up finds every table, and every table has its indexes; every service comes up.
* Job: a committed valid row is in PostgreSQL and is never rewritten; a committed invalid row is in the audit
  log; Redis never lags behind the checkpoint; windows miss nothing; every row is committed in the end unless its batch
  cannot be, or the checkpoint was lost before it.
* API: what a client was told is on record; a case has a prediction; a row never misreports who made the score,
  nor an explanation whose score it explains; after a reload the API serves what the registry says; every request ends.
* Registry: nothing is in Production without approval; one Production version per model, and never zero again;
  the automated policy keeps its gates and acts on fresh candidates; drift runs end.
* Batch: features by time, not by file order; the limit drops the latest rows; one monotone policy; strong rules
  block; every flagged row has a reason and a bar in the chart; the panels of one dashboard agree with each other,
  with the file and with the model.
* Review queue: a case is resolved exactly by a label; nobody repeats a label unaware; what is trained on is
  what was labelled, with the features that were scored, and within lookback and LIMIT no usable label is lost; a lasting backlog alerts; no case starves.

## 2. Modules

    TransactionGenerator    what one turn of the generator yields
      Producer              run(), publish, the client library, the broker
        (INSTANCE) TransactionTopic      what the producer promises of the topic
        MCProducer          a small instance     ProducerProofs         proofs
    HistoryWindows          windows over a card's history (compute_features)
      StreamPipeline        the streaming job, Redis, PostgreSQL, the checkpoint
        (INSTANCE) TransactionSink       what the job promises of the table
        MCStreamPipeline                         StreamPipelineProofs (PostgreSQL)
                                                 StreamRedisProofs (Redis, windows)
      Features              the whole feature vector and the rules on it
    RiskPolicy              decide(), the fallback's score, the reason
      BatchScoring          POST /batch/score, over Features and RiskPolicy
        MCBatchScoring                           BatchScoringProofs
    ScoreService            /score, /explain, /admin/reload-model on one replica
        MCScoreService                           ScoreServiceProofs
    ReviewQueue             cases, the analysts' page, feedback, its training rows
        MCReviewQueue                            ReviewQueueProofs
    ModelRegistry           training, drift DAG, promotion
        (INSTANCE) ProductionPointer     what governance promises who serves a model
        MCModelRegistry                          ModelRegistryProofs
    SchemaBootstrap         create_all of every service, over PostgreSQL's DDL
        MCSchemaBootstrap, with PostgresModels   SchemaBootstrapProofs
                            (the tables and indexes of the models and of init.sql)

A definition whose comment starts with "Variant:" is a plausible mistake in the code next to it. No action uses
one. Each serves to confirm that the property it is aimed at would notice the mistake.

### 2.1 StreamPipeline

State: `log` (the topic), `planned`/`committed` (Spark's checkpoint: the last offset of the last planned and of the
last committed batch), `history` and `features` (Redis), `transactions` and `audit` (PostgreSQL), and the driver's own
`pc`, `done`, `card`, `working` (gone after a crash). `deployment` says whether the checkpoint survives a stop. Two
history variables say what a lost one costs: `skipped`, the offsets that no batch will deliver any more, and
`abandoned`, whether a batch that had begun was ever among them.

| code | action |
|---|---|
| `read_kafka_stream`, `run` | `Start` (`StartAtLatest` the first time and whenever the checkpoint is lost, otherwise `StartAtCheckpoint`), `BeginBatch` (replay the planned batch or plan a new one), `CommitBatch`, `Exit` |
| `_process_partition_group` | `LoadCard` (get_history and the sort), `SortFails`, `RejectRow`, `WriteFeatures`, `AppendHistory` (store and local list) |
| `process_batch` | `PersistTransactions`, `WriteAuditLog`, `SetLagGauge`, `LagGaugeFails` |
| environment | `Publish`, `Crash` (also: loss of Redis or PostgreSQL, whose exception ends the query), `ExpireFeatures`, `ExpireHistory` |

Abstractions:

* One log stands for the topic's partitions: rows of different cards never influence each other's windows, and
  a card's rows share a partition.
* A row is `[txn, card, at, valid]`. A message that did not parse is a row of nulls (`NoCard`, `NoTime`). A row
  is published once; two rows may carry the same `txn`, which is what a retry or a replayed id amounts to.
* Two windows (5 minutes, 24 hours) stand for the fields of the feature vector; the other fields are in `Features`.
* A batch is known by its offset range, so `audit` is a set: an entry written again by a replay, which the table
  holds twice, is the same element. That Spark writes the initial offsets before it can fail is taken for granted.
* `Deployments` has two questions the code leaves open. `aware`, which is external: whether `collect()` yields datetimes
  with a time zone; PySpark's `TimestampType` yields naive ones (`FALSE`). `durable`: whether the checkpoint survives
  a stop of the process. `config.py:25` puts it under `/tmp`. The ECS task has no volume
  (`terraform/modules/ecs/main.tf:217-248`) and every stop brings a fresh one (`FALSE`); a job started again on its
  host, or the same docker-compose container started again, finds it (`TRUE`), a container created anew does not.
  `pipeline_safety` has all four combinations; the two runs that show what a replay does have the kept checkpoint and
  aware times.

`TransactionSink` is the abstract specification: a log, a frontier and a table. Rows are accepted from a range
that starts at the frontier, the first row of an id stays, and the frontier passes a range only when the table
holds all of its valid rows or a subscription leaves the range out (`skipped`); a durable job subscribes once.
`ImplementsSink` says that the job implements it with `frontier <- committed`, `table <- transactions`,
`subscribed <- (pc # "new")`, and `log`, `durable` and `skipped` as they are: a replayed INSERT is a stuttering step,
a start without the checkpoint is another subscription.

### 2.2 Producer

| code | action |
|---|---|
| `run` | `StartRound` (a new `stream()`, whose clock starts at the wall clock), `NextTransaction`, `EndRound`, `Sleep`, `LeaveLoop`; `Sigterm` at any moment |
| `publish` | `Publish` (`produce`, `poll(0)`, the end of a retry), `RetryPublish` and `GiveUp` when the buffer is full |
| `_delivery_callback` | `ServeReports`, inside `Publish` and `FlushServes` |
| `flush(10.0)` | `FlushServes`, `FlushDone`, `FlushTimesOut` |
| librdkafka and Kafka (external) | `Store`, `Acknowledge`, `Expire` (a message timed out, stored or not), `Outage`, `Recover` |

`TransactionGenerator` gives what one turn yields: a single transaction, an impossible-travel pair, or a burst whose
gaps are drawn anew for each of its transactions; which kind, and every delay, is a choice, and all that is assumed of a
draw is that it is positive and has a least and a greatest value (`Drawn`). A message counts against the
buffer from `produce` until its callback ran, and callbacks run only in `poll` and `flush`: that is why a retry does not
relieve a full buffer. A message is a position in `sent`; a partition's queue and log hold positions.

`TransactionTopic` is the abstract specification: of the transactions handed over, some are stored, each at most once, and
those of a card on one partition in the order in which they were handed over. `ImplementsTopic` says that the producer
implements it with `source <-` the cards of `sent` and `log <- topic`, through retries, lost answers and outages.
`StreamPipeline` starts from the topic and does not assume that order.

### 2.3 ScoreService

One replica: `state` (the `ModelState` object), the request threads (`rpc`, `route`, `result`), the loader
threads (`lpc`, `found`, `loaded`), the registry's `production` version, and the two tables /score writes. Every
read or assignment of an attribute and every external call is a step of its own. `reload()` is `Lookup`, `Load`,
`SetModel`, `SetName`, `SetVersion`, `SetExplainer` (or the `Clear...` steps, or `RegistryFails`), `EndReload`;
a request is `Receive`, `CheckModel`, `Predict`, `ReadName`, `ReadVersion`, then `WritePrediction` and
`CreateReviewCase`, or `CheckExplainer` and `Explain`, then `Answer`; `DatabaseError` is the session's rollback;
`Crash` loses the process. `explained` is the version whose explainer made an answer's explanation. A score is reduced to whether it is routed to review, since that is all the handler
branches on. `run_id` is assigned and cleared with the version. `fresh` (the registry was read since it last
changed), `overtaken` (a promotion came inside a reload), `overlapped` (the requests a reload overlapped) and `collided`
(a reload began while another was in progress) are history variables that only properties read. A read of Redis changes nothing, and its failure ends a request
before it has written anything, so it is left out.

### 2.4 ModelRegistry

The processes are the `retrain_pipeline` runs (the daily one, the one a drift run waits for, and one whose waiting
task died), the `drift_detection` run with its mapped check tasks,
the mapped `automated_promotion` tasks and the people who run `promote_model.py`.
They share MLflow's `stage` and `metrics`, and PostgreSQL's `approvals` and `report`. `promote_model` is four calls
(`FetchVersion`, `RecordModelApproval`, `CheckApproval`, `TransitionToProduction`), each of which may be the last:
`PromotionFails`, `TrainingFails`, `CheckFails`, `PushMetricsFails` and `DriftTaskFails` are the deaths, with
Airflow's retries. The drift DAG's trigger tasks are retried once, and `TriggerDagRunOperator` creates a run under a new
id at each attempt: `TriggerRetrainDies` leaves the run it waited for to itself (`orphaned`) and another is created, and
`TriggerPromotionCheck`, which does not wait, may die after creating its run and create a second. A `Task` is therefore a
model and an attempt, and the promotions of two attempts run side by side. The results of the checks are
forgotten once `decide_next_step` has read them. A check that fails after its INSERT, in `push_drift_metrics`, leaves the report behind.
The statistics of the drift check and the training are a choice of outcome; the metrics are those
the validation gate reads.

Assumed of the schedule: a drift run starts when the promotions of the last one are over (runs are six hours
apart, a promotion is a few calls). Bound: one orphaned retrain at a time.
`ProductionPointer` is the abstract specification: a model's pointer moves, in one step, to a version somebody has signed
for, and is never taken away; the exception, of which the code only warns, is a model of which a version was promoted
before it was staged. `ImplementsPointer` has `serving <-` the versions in Production per model, and `signed` and `hasty`
are read off the approvals; a `Switch` stands for MLflow's archiving of the old version as well.
`EnforcesLength` tells PostgreSQL (TRUE) from SQLite, which the tests use (FALSE).

### 2.5 Features, RiskPolicy, BatchScoring

`Features` is `compute_features` in full. Averages and speeds are kept as pairs of numerator and denominator and
compared by cross multiplication, so rounding to floats is left out, and `haversine_km` is a constant table of
distances. `RiskPolicy` is `decide`, `RuleBasedFallback.score` and `_derive_reason`, with scores and thresholds in
hundredths. `BatchScoring` runs an upload through `RefuseUpload` or `ParseTransactions`, `CutAndSort` (or `SortFails`), one `ScoreRow`
per row, `FetchMetrics` and `BuildPayload`, while `Reload` in another thread gains, loses or changes the model anywhere
between the first row and the payload. `ModelState` is one value here (the version); `ScoreService` takes it apart.
`parsed` is history: the rows before the cut, which the properties compare the results with. `Ordered` lists the positions
of a sequence by a key and then by position, which is what a stable sort returns; `Selected` is a list comprehension with
a condition. The payload has all of its panels, and `DashboardAddsUp` has four parts: the chart's buckets add up to the
alerts, the reasons to the blocked rows, the two lists of alerts agree with the scores, and the numbers of rows with the
file. Sums are `SumFunction` of the community modules. Percentages, the labels of an axis and the wording of errors are
left out, as is the CSV reader: a row is valid or not, and its `event_time` is aware or not.

### 2.6 ReviewQueue

| code | action |
|---|---|
| `write_prediction`, `create_review_case` in `/score` | `WritePrediction`, `CreateReviewCase`, `ScoreDies` between the two |
| `review_ui.py`, top to bottom | `RunScript`: read the queue or its cached copy, keep the selection or lose it |
| a filter or another case, "Refresh queue", the 5 s `ttl`, a request that fails | `Browse`, `RefreshQueue`, `ExpireCache`, `FetchFails` |
| the Submit button | `SubmitFeedback`: the script runs again, and posts for what is selected then |
| `POST /review/{id}/feedback` | `StoreFeedback`, `ScriptFeedback` (another client), `FeedbackFails` |
| its answer | `Answer` (clear the cache, rerun), `TimeOut` after 5 s, then `StoreLate` at the server |
| `business_metrics_dag` | `ExportMetrics` |

State: the three tables (`predictions`, `cases`, `feedback`), `cache` (`st.cache_data`, by filter), `screen` and
`posting` of each analyst, `late`, and the two gauges. `fetch_queue.clear()` empties the cache for everyone; entries
are kept by analyst since each token is an argument of `fetch_queue`. A page is the set of its cases, since ids
grow with `created_at`. What Streamlit does is modelled from how the page uses it: a selectbox without a key is
another widget when its options differ, and starts at the first. `aware` is history: the analysts who were told
of a failure, or opened a case from the resolved list, and so know they may be repeating a label.
The training data is read in the steps of the code: `FeedbackWithPrediction` is the three-way join over the labels
within the lookback, `Retrieved` the LIMIT of 50,000, `FeedbackDataset` the two tests of `min_examples` and, between them,
the rows that lack one of `FEATURE_COLUMNS`. Which labels are recent is any subset of them (`created_at` is set before the
commit, so neither order determines it), and which predictions have today's columns is any subset too. The LIMIT has
no ORDER BY: beyond it, which labels are trained on is left open, by the model as by the code. Every label is in
`label_map`, since the API's `Literal` admits no other.

### 2.7 SchemaBootstrap

Every service runs `create_all` over `Base.metadata.sorted_tables`: `CheckFirst` (has_table), then `CreateTable`,
`CreateIndex` of each index and `Commit`, in one transaction per table; `AlreadyExists` is the ProgrammingError the code
expects, `LoseRace` the IntegrityError it lets through; `Serve` is the end of start-up, `StartUp` and `Crash` are ECS and the
environment. PostgreSQL is external: a CREATE TABLE of a name that an open transaction has created waits for it. The
volume may be empty, or hold the tables of a phase of the project as `init.sql` creates them.

## 3. Runs

| run | specification | states | what it shows |
|---|---|---|---|
| `pipeline_safety` | `FairSpec` | 1.3 million | five invariants, the refinement of `TransactionSink`, and `EveryRowCommitted` |
| `pipeline_replay` | `Spec` | violation | `WindowsExact` fails after a crash and a replay |
| `pipeline_malformed` | `FairSpec` | violation | `InvalidRowsSkipped` fails with two unparsed rows in a batch |
| `producer` | `FairSpec` | 1.3 million | three invariants, the refinement of `TransactionTopic`, and `StopEnds` |
| `score_service` | `FairSpec` | 1.9 million | six invariants and `EveryRequestEnds` |
| `score_label` | `Spec` | violation | `LabelTruthful`: a row may name another version than scored it |
| `registry_safety` | `FairSpec` | 850 thousand | four invariants, the refinement of `ProductionPointer`, and `DriftRunEnds` |
| `registry_report` | `Spec` | violation | `DriftReportStored`: the report does not fit its column |
| `batch_scoring` | `Spec` | 1.0 million | seven invariants over every small file |
| `review_queue` | `FairSpec` | 140 thousand | three invariants, `BacklogAlerts` and `EveryCaseResolved` |
| `review_wrong_case` | `Spec` | violation | `LabelsReviewedCase`: a label goes to a case nobody looked at |
| `schema_bootstrap` | `FairSpec` | 250 thousand | two invariants and `EveryServiceStarts` |

The type invariants are not listed in the runs: each is proved (section 5), and is small enough to add to any of
the configurations.

### 3.1 Bounds, and why they are enough

* **Pipeline.** Three messages among six (two cards, a late event, a second row with a known id, a row that parsed
  and is invalid, and two that did not parse), batches of at most two rows, histories of at most three entries, one
  crash at any step. That allows a batch boundary inside a card, a replay of a batch of two, a history that is cut,
  both poisoned batches, and a checkpoint lost before, within and between batches. With the topic bounded, that no row
  waits again and again (`EveryRowCommitted`, an `[]<>`) is that none waits for ever. Windows of 1, 2 and 3 ticks separate rows inside, at the edge of and outside them.
* **Producer.** Two cards on two partitions, a buffer of two, three attempts, two rounds of at least two transactions,
  singles, pairs and bursts of two, one outage, SIGTERM at any step. A round may yield more than the buffer holds, so it
  fills; the burst of the first round overtakes the second one's clock; an answer may be lost on either partition.
* **Score.** One request, one admin who reloads any number of times, the start-up thread, two versions, any of them
  in Production at first, two changes of Production and one crash. Handlers share nothing but what `reload` writes, so a
  second request adds no interleaving that one does not have. A second admin would multiply the states and adds nothing
  to what the invariants speak of, since reloads that overlap are excluded from them (see 6); the theorems
  hold for any number of requests and reloading threads.
* **Registry.** One model with two versions, one drift run, one scheduled retrain, one run of the script,
  one retry each: up to three trainers compete for two versions, a person overtakes the automated promotions, of which
  there are two when the trigger was retried, and every process may die between two calls. `registry_report` has both models, since the drift run waits for both checks.
* **Batch.** Every file of up to four rows out of a burst of one card and up to three rows with a second card, a
  naive time and an invalid row as well, in any order and with repetitions; a cut at three rows; two buckets; a table
  of one alert and a map of two. Model scores lie in each decision and in the uncertain band, and one reload
  among two versions comes at any point.
* **Review.** Two predictions of one transaction, so that a join by transaction would show; a page of one case, so
  that one case hides the other; an alert above one; one label more than there are cases (`MaxRelabels`), so that three labels
  exceed the LIMIT and one falls short of the minimum (both are two); one analyst
  with both filters, and a script. A second analyst does what the script does to the first; `review_wrong_case` needs
  only a new case. The proofs have none of these bounds: every constant is any number.
* **Schema.** Two API replicas and a consumer, the seven tables with their indexes, four kinds of volume and two deaths:
  any two may race for a table while the third passes, and a holder may die while another waits.

Every configuration switches the check for deadlock off, because each system may stop: publishing, promotions, crashes
and uploads are bounded, and a registry nobody uses is not an error.

### 3.2 Fairness

* Pipeline: `WF(Consumer)`. Spark's trigger keeps firing while the query runs. ECS replaces the task whenever it stops
  (`desired_count = 1` in `terraform/`), with a fresh one and so without the checkpoint: for `durable = FALSE` the
  repository justifies the restart. For `durable = TRUE` nothing in it starts the job again (docker-compose sets no
  `restart`); that whoever runs the host does so is an assumption. Nothing forces a message to be published or a key to expire, and
  crashes are finitely many.
* Producer: weak fairness for the steps of the process together (it is one thread), for each partition's `Store` and
  `Acknowledge`, and for `Recover`: the broker comes back. SIGTERM is not fair; `StopEnds` has it as its hypothesis.
* Schema: weak fairness for each service, which ECS starts again; deaths by accident are finitely many, lost races are not bounded.
* Score: weak fairness for each handler, each loader and the start-up, as the threads of a live process are
  scheduled. Nothing makes a request or a reload arrive, and a replica may stay dead.
* Registry: weak fairness for the tasks of a DAG run that has started. Starting runs and the people are not fair.
* Review: weak fairness for the metrics DAG (a schedule of five minutes), for the expiry of a cached page and for
  requests under way, which are answered or time out. Analysts owe nothing: `EveryCaseResolved` has what it needs of
  one as its hypothesis, `Diligent` (she comes back to the pending list, submits when something is selected
  there, and not every one of her requests fails).

## 4. Findings

Each is a run in which TLC finds a counterexample to what a comment or document of the repository says.

1. **A replayed batch counts twice** (`pipeline_replay`). `append_history` is an unconditional LPUSH. After a crash
   before the commit the batch is run again, and its other transactions are in the history twice, which inflates
   velocity and counts until they leave the window. They are exact when nothing was replayed
   (`WindowsExactUnlessReplayed`), and never too small (`WindowsComplete`).
2. **Two malformed messages stop the job** (`pipeline_malformed`). They share the group `None`, and sorting it compares
   `None` with `None` before `validate_row` sees either. That is the job with its checkpoint; without it the batch is
   skipped at the next start, and its invalid rows are in no audit entry.
3. **A prediction may name the wrong version** (`score_label`), by a reload between `predict_proba` and the reads
   of the label, or by a promotion between the two MLflow calls of a reload. `LabelTruthfulIfQuiet` holds without these.
4. **No drift report fits its column** (`registry_report`): a label of 85 characters in a `String(64)`.
5. **A label goes to another case than the analyst reviewed** (`review_wrong_case`). The Submit click runs the page
   again; if the cached queue has expired and a case came or went, the selectbox has other options and starts
   at the newest case, and `submit_feedback` posts the label for that one and resolves it unseen.

Seen while modelling, without a run of their own:

* Streaming job. **The lag gauge raises on naive datetimes**, `now(timezone.utc) - event_time` in
  `spark_consumer.py:158-161`, after the INSERT and before the commit: with the naive values `TimestampType` collects to,
  every batch with a valid row is replayed for ever, or, without a checkpoint, ends the task, which comes back behind it.
  `EveryRowCommitted` says "committed" of a kept checkpoint only when the times are aware, and names the exception.
  **A lost checkpoint loses rows**: on ECS, as in a docker-compose container created anew, `startingOffsets` `latest`
  (`spark_consumer.py:69`) is taken at every start, so that rows uncommitted, or published while the job was down, are
  never delivered; of a batch left halfway, transactions stay in the histories that the table
  never gets. The properties speak of what is not `skipped`. Each deployment of a new image replaces the task as well.
* Producer. A full buffer is never relieved by `publish`'s retries, since no `poll` runs between them, and the `RetryError`
  leaves `run()` past the flush: what is in the buffer is lost with the process (`GiveUp`; `StopLosesNothing` speaks of the
  stops that flush). `except ValidationError` around `publish` catches nothing that `publish` raises.
* Schema. Of two services that create one table at once, the loser gets an IntegrityError, which `create_all` lets
  through, and dies; ECS starts it again, docker-compose does not. `init.sql` says it mirrors `postgres_models.py`, but lacks
  `ix_model_approvals_model_name` and `_created_at` and has `ix_review_cases_status`; checkfirst never adds an index.
* API. A reload that finds no model between a prediction and its write leaves the label `None` in a column that is NOT NULL,
  so the request ends in a 500 (`DatabaseError`). `/explain` tests `state.explainer` and reads it again, and may explain the
  score of one version by another (`ExplanationTruthfulIfQuiet` holds without a reload). `MODEL_AVAILABLE` is set at
  start-up only. A reload reaches one of the two replicas.
* Batch and policy. A new device alone scores 0.35, which `decide` sends to review, while the comment in `fallback.py:84-86`
  says the rule does not. An upload that mixes naive and aware times fails as a whole in `sorted` (`SortFails`). With a
  reload in between, the panel may show one version over another's metrics (`PanelOfOneModel` holds without).
  `/batch/template` promises identical downloads, but its times start at now minus six hours.
* Governance. The automated promotion may take an older candidate, but only after the retrained version was approved
  (`FreshUnlessApproved`): by a person, or by the policy itself. `trigger_promotion_check` has one retry and does not wait, so an
  attempt that dies after it created its run creates a second one. That run finds the fresh version in Production, takes
  the next one still in Staging, and on the same report of drift promotes it over the fresh one, with no person involved;
  `automated_promotion_dag.py:27` sets its own retries to 0 as "promotion is not something to blindly retry". A failed push to the Pushgateway leaves the drift report stored, and the retry stores another.
* Review. `alert_rules.yml:92-96` calls the queue-depth gauge "the same signal" as the pushed count, but it counts one page,
  whose default of 50 never passes the alert's 100 (`BacklogAlerts` holds by the pushed count). A resolved case accepts a
  second label. The read of the training labels has a LIMIT and no ORDER BY: past 50,000 it is left to PostgreSQL which train.

## 5. Proofs

All are checked by TLAPS with no bound on the constants; the named `ASSUME`s of the modules are the only
assumptions, and TLC evaluates each of them in the runs.

**StreamPipelineProofs.** The inductive invariant adds to `TypeOK` the order of the offsets (`committed <= planned <=
Len(log)`, and what was skipped lies behind `committed`), and that from the INSERT to the commit the table holds every
valid row of the batch. Neither `CommittedPersisted` nor the refinement is inductive without the last. Proved:
`TypeCorrect`, `NoLoss` (`CommittedPersisted`), `FirstWriteWins` (a stored row is never rewritten), `InvalidAccountedFor`
(`CommittedAudited`) and `SinkImplemented` (`ImplementsSink`): the initial state maps to an initial state, and each
step of the job to a step of the sink or a stutter.

**StreamRedisProofs.** Three invariants, one on top of the other, all about `Handled`: the rows of the batches up to the
last commit, and of the running batch those the two nested loops have worked through (`Ahead` are the others).

* `RedisInv` ties the loops to the stores: `Loops` says what `pc` knows of the batch, `HistoryHolds` that every valid handled
  row is in its card's history (unless the key expired or the list is full), `HeadShown` that a features key shows the
  head of its history or a row of that card is still ahead, and `InHand` that between `WriteFeatures` and `AppendHistory`
  the features are those of the row in hand. A crash between the two commands makes both claims false of
  the card until the batch has been run again, which is why they speak of `Ahead`; where it never is, because the
  checkpoint was lost with it, `HeadShown` is given up (`abandoned`). Gives `RedisAlwaysKeepsUp`
  (`RedisKeepsUp`).
* `WindowsInv`: the local list (`WorkingHolds`) and the windows computed from it (`WindowsHold`) miss no row handled so far.
  The count is at least that of the handled rows of the log because each that is due has a position in the list, no
  two the same: an injection. Gives `WindowsNeverMiss` (`WindowsComplete`).
* `ExactInv`: as long as no batch is run again or left unfinished for good (`Intact`), no row is in a history or in the list twice (`HistoryOnce`, `WorkingOnce`), so
  there is an injection the other way as well (`WindowsNoMore`). Gives `WindowsExactWithoutReplay`
  (`WindowsExactUnlessReplayed`). Finding 1 is what happens when the assumption goes.

**ProducerProofs.** `Reported`, the delivery reports served and unserved in one sequence, is what the invariant speaks of,
since serving them does not change it. It has two parts: `Ordered` (queues and partitions ascend, hold only what the
partitioner sends there, and what is still to be stored is later than all that is on the topic) and `Accounted` (each
accepted message is queued or reported, never both and never twice; the first `stored` of a queue, and what was
reported as delivered, are on the topic). Proved: `TypeCorrect`, `CountersAlwaysTruthful` (`CountersTruthful`),
`NothingLostSilently` (`StopLosesNothing`), `TopicImplemented` (`ImplementsTopic`) and `CardsAlwaysInOrder` (its consequence
for a consumer), for any partitioner, buffer and number of outages.
`LatenessAlwaysBounded` (`LatenessBounded`) rests on that order and on `OnTime`, an invariant of the generator's clock:
how far a round's clock has run ahead of the wall clock after so many turns (`Clocked`), how far ahead of both an event_time
may lie (`Ahead`), and that of any two transactions handed over the second is behind the first by no more than
`MaxLateness` (`NoneLater`). The last is not inductive without the other two.

**ScoreServiceProofs.** `InOrder(r)` says of each place a request can be in what it has computed and written: a
model's result until it is labelled, no row before the write, a row and no case in between, a case exactly if
routed after it; and of each stored row that its name and source agree. It is kept by a handler's own steps
(`ResultStep`, `MoveStep`, `WritingStep`), by those of other requests (`OneRequest`), and by reloads,
promotions and crashes, which write nothing of a request's (`Elsewhere`). Proved: `TypeCorrect`, `Recorded`
(`AnsweredRecorded`), `Predicted` (`CasesArePredicted`) and `Sourced` (`SourceTruthful`).
What holds of the attributes of `ModelState` is a second invariant, `QInv`. `Settled` says when they belong together, and
`Converged` that they are of the Production version; `InReload(l)` says, for each place of a reload, which of the
assignments are made and how `found` and `loaded` agree with the registry; `BootFirst` and `Alone` say that
at most one loader is at work unless reloads collided, the start-up before any request. `Quiet(r)` says of a request no
reload has overlapped that none is in progress and that what it has read so far agrees with what is there to read. Proved from
it: `Labels` (`LabelTruthfulIfQuiet`), `Explanations` (`ExplanationTruthfulIfQuiet`) and `Converges` (`ReloadConverges`).

**ModelRegistryProofs.** The invariant ties a promotion's place to the approval it has recorded and to the gate it
passed, and a stage to the approvals behind it. Proved: `TypeCorrect`, `Approved` (`ProductionApproved`),
`UniqueProduction` (`OneProduction`), `AutomationGated` (`AutoPromotionGated`), `ProductionKept` (a model never goes
back to no Production version, but for the exception) and `PointerImplemented` (`ImplementsPointer`), which
rests on those three. `FreshPromotion` (`FreshUnlessApproved`) needs an invariant of its own, `RetrainInOrder`: the version a
retrain staged is still in Staging or one at least as new is approved (`Retained`), and no drift run stages another
while automated promotions run (`OneAtATime`). That the promotions of two attempts run at once, and that a retrain may go on
without its drift run, is in the model it is proved of; the version of an orphaned retrain is not the one it speaks of.

**BatchScoringProofs.** `DecideMonotone` and `BandRouted` are about `decide` for every setting of the thresholds that
satisfies the stated conditions; they carry over to every row of every file: `BatchMonotone`
(`DecisionsMonotone`), `BatchStrongRulesBlock` (`StrongRulesBlock`) and `BatchReasons` (`FlaggedHasReason`). The
conditions are assumptions of the theorems, and the defaults of `config.py` satisfy them: an uncertain band that is
empty or reaches up to `risk_low`; `0.35 < risk_high <= 0.85`, the scores of the weak and of the weakest strong
rule; and a baseline score that is approved. `TypeCorrect` adds that nothing is scored before the cut and no payload
exists before the end. The rest is for every file, in any order and of any length:

* `Ranking` shows that `Rank` numbers a finite set without gaps, by key and then by position; `SortedByKey`, `SortedPrefix`,
  `SelectedRows` and `HighestFirst` are what follows for sorting, cutting, filtering and the lists of the worst alerts.
* `UploadInOrder` is the invariant of an upload: what `rows` and `truncated` are at each place, and that the k-th result is
  of the k-th row. Gives `CutEarliest` (`CutKeepsEarliest`), `UploadAccountedFor` and `WorstAlertsFirst` (two parts of
  `DashboardAddsUp`). `OneModel` adds what `metrics` and the results know of a model that nothing has replaced:
  `PanelTruthful` (`PanelOfOneModel`).
* Sums. The sum of a function with natural values over a finite set is the size of its `Pile` (`SumIsPile`), a set with as many
  points for each member as the function has there. The definition of the community module determines the sum by
  well-founded recursion on subsets (`SumIs`), so no induction is left to do. From it: `SumAlike` (a bijection
  that keeps the terms keeps the sum), `SumOfClasses` (the sizes of the classes of a set add up to its own) and `SumPositive`.
  Gives `DashboardAlwaysAddsUp` (`DashboardAddsUp`).
* `ChronInv`: the history `score_batch` keeps of a card mirrors, one for one, the rows of that card scored so far
  (`HistoryOf`), and these are, `score_batch` going by `event_time`, the ones that precede the next row in the file
  (`KeptInOrder`). So a window over the history mirrors the rows of the file (`WindowIsRecent`), and counts,
  sum and merchants are the same. Gives `WindowsAlwaysChronological` (`WindowsChronological`).

**ReviewQueueProofs.** Neither property about labels is inductive. `SettledOK` is what makes them so: a case an
analyst has labelled, and that she has no reason to label again, is on no pending page of hers and in no cached
one, unless the answer to that label is still to come, and the answer empties both. A run of the page
keeps it, because a list read from the table has no resolved case and a cached one had none of hers (`RunScriptHides`,
`ClearAndRunHides`); a committed label resolves its case in the same transaction (`RecordedSettles`); a late one makes
no case settled, since its author was told of a failure. Proved: `TypeCorrect` (for which a page is shown to have
at most `PageLimit` cases, `PageBounded`), `ResolvedByLabels` (`ResolvedIffLabelled`) and `NoUnawareRelabel`
(`OneLabelPerAnalyst`). `LabelsTrainOnce` (`EachLabelTrainsOnce`) rests on `CasesOK`, that every case is
of a prediction in the table: the join then finds, for each recent label, one prediction, so labels and joined rows are
as many (a bijection), the LIMIT cuts nothing as long as the labels fit it, and each usable one is one row of the dataset.

**SchemaBootstrapProofs.** The invariant is the type, `TablesWhole`, and `PassedTables`: every table a service has passed in
this start-up is committed, by it or by another. Proved: `TypeCorrect`, `SchemaComplete` (`SchemaBeforeTraffic`) and
`WholeTables` (`TablesWhole`), for any number of services and deaths and any tables.

Every invariant a passing run checks, and every refinement, is now a theorem. Only model-checked: the liveness
properties (`EveryRowCommitted`, `StopEnds`, `EveryRequestEnds`, `DriftRunEnds`, `BacklogAlerts`, `EveryCaseResolved`,
`EveryServiceStarts`), since ENABLED and fairness are out of the prover's reach.

## 6. What is not modelled

* Two consumer tasks at once: a deployment may start the new task before the old one ends
  (`deployment_maximum_percent = 200`), and both then write the same tables and keys. One driver is modelled.
* Overlapping reloads are modelled, but nothing is claimed of what they leave: the code has no lock, and two of them may
  leave the attributes of different versions. `ReloadConverges`, `LabelTruthfulIfQuiet` and `ExplanationTruthfulIfQuiet`
  exclude them (`collided`). The second API replica, which shares nothing with the first but the stores.
* What a transaction of the generator looks like beyond its card and time; its cardholders and random draws.
* The statistics of `drift.py` and what they are computed from: the live window is cut at 50,000 rows by
  `fetch_predictions_since`, which the checks do not model.
* In the review page: login, the text of a case, and more than one unanswered request of one analyst at a time. Other
  business metrics are read-only aggregates pushed in the same run.
* Authentication (a check of a signed token), training and statistics (numerical), the CSV reader, SHAP, metrics other
  than `MODEL_AVAILABLE`, PII masking, secrets, dashboards, infrastructure: no protocol state.
* Floating point and rounding; the field rules of `Transaction` (a row is valid or it is not).

## 7. Plan

Done, the most important behaviour first: StreamPipeline with its abstract sink, ScoreService, ModelRegistry with
its abstract pointer, BatchScoring, ReviewQueue, Producer with its abstract topic, SchemaBootstrap; each with
proofs. Next, in this order:

1. `Serving`: `ScoreService` over `ProductionPointer` with two replicas. Property: a version that serves was approved.
   Today `ImplementsPointer` gives the half that `ScoreService`'s `ChangeProduction` relies on.
2. `Producer` and `StreamPipeline` joined at the topic, with `Publish` of the latter refined by `Store` of the former.
3. An abstract specification of the API (a decision is recorded once, by one version), implemented by `ScoreService`
   without overlapping reloads.
