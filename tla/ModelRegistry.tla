--------------------------- MODULE ModelRegistry ---------------------------
(***************************************************************************)
(* The life of a model version: the training pipeline registers it and     *)
(* moves it to Staging, the drift DAG asks for retraining and then for an  *)
(* automated promotion, and promote_model, run by a member of staff or by  *)
(* the automated policy, moves it to Production behind an approval row.    *)
(* The DAGs, their tasks and the command line are separate processes that  *)
(* share the MLflow registry and PostgreSQL; each call of either is a step.*)
(***************************************************************************)
EXTENDS Integers, FiniteSets, Sequences

CONSTANTS
  Model,           \* registered model names
  TrainingOrder,   \* the order run() trains them in
  MaxVersion,      \* bound: versions of a model
  Staff,           \* people who run scripts/promote_model.py
  Metrics,         \* what training may log: [recall, precision, fairness]
  MinRecall, MinPrecision, MaxRecallGap,     \* auto_promotion_* settings
  EnableAutomatedPromotion,
  TrainingRetries, DriftRetries,             \* Airflow `retries`
  TasksMayDie,     \* may a task be killed, or lose MLflow or PostgreSQL?
  EnforcesLength,  \* does the database enforce VARCHAR lengths (not SQLite)?
  None,
  MaxDriftRuns,    \* bound: runs of the drift_detection DAG
  MaxDailyRuns,    \* bound: scheduled runs of the retrain_pipeline DAG
  MaxScriptRuns    \* bound: runs of scripts/promote_model.py

Version == 1 .. MaxVersion

ASSUME RegistryAssumption ==
  /\ MaxVersion \in Nat
  /\ Staff \cap (Model \X (0 .. DriftRetries)) = {}
  /\ None \notin Model
  /\ EnableAutomatedPromotion \in BOOLEAN /\ EnforcesLength \in BOOLEAN
  /\ TasksMayDie \in BOOLEAN
  /\ TrainingRetries \in Nat /\ DriftRetries \in Nat
  /\ MaxDriftRuns \in Nat /\ MaxDailyRuns \in Nat
  /\ MaxScriptRuns \in Nat
  /\ TrainingOrder \in Seq(Model)
  /\ Metrics \subseteq [recall : Int, precision : Int, fairness : SUBSET Int]

(* trigger_promotion_check does not wait, and each attempt of it creates a *)
(* run of automated_promotion under a run id of its own: <<m, n>> is the   *)
(* mapped task of model m in the run that attempt n created.               *)
Task == Model \X (0 .. DriftRetries)

(* Promotions are run by people and by those tasks. *)
Promoter == Staff \cup Task

(* retrain_pipeline runs: its own schedule, the one the drift DAG waits    *)
(* for, and one whose waiting task died (bound: one of them at a time).    *)
Trainer == {"scheduled", "drift_triggered", "orphaned"}

VARIABLES
  stage,       \* MLflow: stage of each version, "absent" before it exists
  metrics,     \* MLflow: metrics of the run behind each version
  approvals,   \* PostgreSQL: model_approvals
  report,      \* PostgreSQL: newest drift report of each model
  training,    \* retrain_pipeline: its run, by trainer
  drift,       \* drift_detection: its run
  checks,      \* drift_detection: the mapped task check_model_drift, by model
  promotion,   \* promote_model: its call, by promoter
  triggerFailures, \* drift_detection: failed attempts of the trigger it is at
  driftRuns, dailyRuns, scriptRuns,   \* bounds
  retrained    \* history: newest version staged by a retrain a drift run waited for

registry == <<stage, metrics>>
postgres == <<approvals, report>>
dags     == <<training, drift, checks, triggerFailures>>
bounds   == <<driftRuns, dailyRuns, scriptRuns>>
vars == <<registry, postgres, dags, promotion, bounds, retrained>>

Stage == {"absent", "None", "Staging", "Production", "Archived"}
Idle == [pc |-> "idle", version |-> 0, from |-> "absent", model |-> None]
NotChecked == [m \in Model |-> [result |-> "pending", failures |-> 0]]
NotTraining == [pc |-> "idle", next |-> 1, version |-> 0, failures |-> 0]

Promoting == {"fetch", "record", "gate", "transition"}

Approval == [model : Model, version : Version, from : Stage, by : Promoter]

TrainingRun == [pc : {"idle", "register", "stage"}, next : Nat,
                version : 0 .. MaxVersion, failures : 0 .. TrainingRetries]

DriftCheck == [result : {"pending", "skipped", "drift", "stable", "failed"},
               failures : 0 .. DriftRetries]

Promotion == [pc : Promoting \cup {"idle", "report", "candidate"},
              version : 0 .. MaxVersion, from : Stage, model : Model \cup {None}]

TypeOK ==
  /\ stage \in [Model -> [Version -> Stage]]
  /\ metrics \in [Model -> [Version -> Metrics \cup {None}]]
  /\ approvals \subseteq Approval
  /\ report \in [Model -> {"none", "drift", "stable"}]
  /\ training \in [Trainer -> TrainingRun]
  /\ drift \in {"idle", "checking", "retrain", "retraining", "promote"}
  /\ checks \in [Model -> DriftCheck]
  /\ promotion \in [Promoter -> Promotion]
  /\ triggerFailures \in 0 .. DriftRetries
  /\ driftRuns \in 0 .. MaxDriftRuns
  /\ dailyRuns \in 0 .. MaxDailyRuns
  /\ scriptRuns \in 0 .. MaxScriptRuns
  /\ retrained \in [Model -> 0 .. MaxVersion]

Init ==
  /\ stage = [m \in Model |-> [v \in Version |-> "absent"]]
  /\ metrics = [m \in Model |-> [v \in Version |-> None]]
  /\ approvals = {}
  /\ report = [m \in Model |-> "none"]
  /\ training = [t \in Trainer |-> NotTraining]
  /\ drift = "idle"
  /\ checks = NotChecked
  /\ promotion = [p \in Promoter |-> Idle]
  /\ triggerFailures = 0
  /\ driftRuns = 0 /\ dailyRuns = 0 /\ scriptRuns = 0
  /\ retrained = [m \in Model |-> 0]

(***************************************************************************)
(* Training: run() trains the models one after the other and registers     *)
(* each (a new version, in no stage) before it stages it.                  *)
(***************************************************************************)
Begin(t) ==
  /\ training[t].pc = "idle"
  /\ training' = [training EXCEPT ![t] = [NotTraining EXCEPT !.pc = "register"]]

StartDailyRetrain ==
  /\ dailyRuns < MaxDailyRuns
  /\ dailyRuns' = dailyRuns + 1
  /\ Begin("scheduled")
  /\ UNCHANGED <<registry, postgres, drift, checks, triggerFailures, promotion, driftRuns, scriptRuns, retrained>>

RegisterVersion(t) ==
  /\ training[t].pc = "register"
  /\ training[t].next \in DOMAIN TrainingOrder
  /\ LET m == TrainingOrder[training[t].next] IN
     \E v \in Version, logged \in Metrics :
       /\ stage[m][v] = "absent"
       /\ \A w \in 1 .. v - 1 : stage[m][w] # "absent"
       /\ stage' = [stage EXCEPT ![m][v] = "None"]
       /\ metrics' = [metrics EXCEPT ![m][v] = logged]
       /\ training' = [training EXCEPT ![t] = [@ EXCEPT !.pc = "stage", !.version = v]]
  /\ UNCHANGED <<postgres, drift, checks, triggerFailures, promotion, bounds, retrained>>

(* transition to Staging, archive_existing_versions=False. *)
StageVersion(t) ==
  /\ training[t].pc = "stage"
  /\ LET m == TrainingOrder[training[t].next]
         v == training[t].version IN
     /\ stage' = [stage EXCEPT ![m][v] = "Staging"]
     /\ retrained' = IF t = "drift_triggered" THEN [retrained EXCEPT ![m] = v] ELSE retrained
  /\ training' = [training EXCEPT ![t] =
                 [@ EXCEPT !.pc = "register", !.next = training[t].next + 1, !.version = 0]]
  /\ UNCHANGED <<metrics, postgres, drift, checks, triggerFailures, promotion, bounds>>

(* The drift DAG waits for the run it triggered (wait_for_completion).     *)
FinishTraining(t) ==
  /\ training[t].pc = "register"
  /\ training[t].next \notin DOMAIN TrainingOrder
  /\ training' = [training EXCEPT ![t] = NotTraining]
  /\ IF t = "drift_triggered" THEN drift' = "promote" /\ triggerFailures' = 0
     ELSE UNCHANGED <<drift, triggerFailures>>
  /\ UNCHANGED <<registry, postgres, checks, promotion, bounds, retrained>>

(* Variant: the operator that waits polls for a success only. *)
FailUnnoticed(t) ==
  /\ TasksMayDie
  /\ training[t].pc # "idle"
  /\ training' = [training EXCEPT ![t] = NotTraining]
  /\ UNCHANGED <<registry, postgres, drift, checks, triggerFailures, promotion, bounds, retrained>>

RetryLeft(t) == training[t].failures < TrainingRetries

(* An attempt of a trigger task failed: another follows, or the drift run  *)
(* fails with the task.                                                    *)
TriggerAttemptFails(again) ==
  IF triggerFailures < DriftRetries
    THEN drift' = again /\ triggerFailures' = triggerFailures + 1
    ELSE drift' = "idle" /\ triggerFailures' = 0

(* The task dies between any two calls and is retried from the start.  A   *)
(* run that has no retry left fails, and with it the attempt of            *)
(* trigger_retrain that was waiting for it.                                *)
TrainingFails(t) ==
  /\ TasksMayDie
  /\ training[t].pc # "idle"
  /\ \/ /\ RetryLeft(t)
        /\ training' = [training EXCEPT ![t] =
             [NotTraining EXCEPT !.pc = "register", !.failures = training[t].failures + 1]]
        /\ UNCHANGED <<drift, triggerFailures>>
     \/ /\ ~RetryLeft(t)
        /\ training' = [training EXCEPT ![t] = NotTraining]
        /\ IF t = "drift_triggered" THEN TriggerAttemptFails("retrain")
           ELSE UNCHANGED <<drift, triggerFailures>>
  /\ UNCHANGED <<registry, postgres, checks, promotion, bounds, retrained>>

(***************************************************************************)
(* The drift_detection DAG                                                 *)
(***************************************************************************)
(* Runs are hours apart: the promotions the last one asked for are over.   *)
StartDriftRun ==
  /\ drift = "idle"
  /\ driftRuns < MaxDriftRuns
  /\ \A k \in Task : promotion[k].pc = "idle"
  /\ driftRuns' = driftRuns + 1
  /\ drift' = "checking"
  /\ UNCHANGED <<registry, postgres, training, checks, triggerFailures, promotion, dailyRuns, scriptRuns, retrained>>

(* "live predictions <isoformat> .. <isoformat>" against String(64). *)
WindowLabelLength == 17 + 32 + 4 + 32
CurrentWindowLength == 64

Storable == EnforcesLength => WindowLabelLength <= CurrentWindowLength

(* Fewer than 30 live predictions: no report is made. *)
SkipCheck(m) ==
  /\ drift = "checking" /\ checks[m].result = "pending"
  /\ checks' = [checks EXCEPT ![m] = [@ EXCEPT !.result = "skipped"]]
  /\ UNCHANGED <<registry, postgres, training, drift, triggerFailures, promotion, bounds, retrained>>

(* build_drift_report: drift when the KS test or the PSI of any feature, or *)
(* of the scores if both windows have them, crosses its threshold.  What   *)
(* the statistics come to is left open.                                    *)
DriftVerdict == {"drift", "stable"}

RecordDriftReport(m) ==
  /\ drift = "checking" /\ checks[m].result = "pending"
  /\ Storable
  /\ \E r \in DriftVerdict :
       /\ report' = [report EXCEPT ![m] = r]
       /\ checks' = [checks EXCEPT ![m] = [@ EXCEPT !.result = r]]
  /\ UNCHANGED <<registry, approvals, training, drift, triggerFailures, promotion, bounds, retrained>>

(* Airflow tries the task again from its start, or gives it up. *)
FailedAttempt(m) ==
  \/ /\ checks[m].failures < DriftRetries
     /\ checks' = [checks EXCEPT ![m] = [@ EXCEPT !.failures = checks[m].failures + 1]]
  \/ /\ checks[m].failures = DriftRetries
     /\ checks' = [checks EXCEPT ![m] = [@ EXCEPT !.result = "failed"]]

(* The task dies, or the INSERT is refused and it raises. *)
CheckFails(m) ==
  /\ drift = "checking" /\ checks[m].result = "pending"
  /\ TasksMayDie \/ ~Storable
  /\ FailedAttempt(m)
  /\ UNCHANGED <<registry, postgres, training, drift, triggerFailures, promotion, bounds, retrained>>

(* push_drift_metrics raises, or the task dies, after the INSERT: the      *)
(* report stays, and so does the newest one when no retry is left.         *)
PushMetricsFails(m) ==
  /\ drift = "checking" /\ checks[m].result = "pending"
  /\ TasksMayDie /\ Storable
  /\ \E r \in DriftVerdict : report' = [report EXCEPT ![m] = r]
  /\ FailedAttempt(m)
  /\ UNCHANGED <<registry, approvals, training, drift, triggerFailures, promotion, bounds, retrained>>

(* decide_next_step does not run when a task before it failed.  Nothing    *)
(* reads the results of the checks after it.                               *)
DecideNextStep ==
  /\ drift = "checking"
  /\ \A m \in Model : checks[m].result # "pending"
  /\ drift' = IF /\ \A m \in Model : checks[m].result # "failed"
                /\ \E m \in Model : checks[m].result = "drift"
                THEN "retrain" ELSE "idle"
  /\ checks' = NotChecked
  /\ UNCHANGED <<registry, postgres, training, triggerFailures, promotion, bounds, retrained>>

TriggerRetrain ==
  /\ drift = "retrain"
  /\ drift' = "retraining"
  /\ Begin("drift_triggered")
  /\ UNCHANGED <<registry, postgres, checks, triggerFailures, promotion, bounds, retrained>>

(* trigger_retrain dies in its wait: the run it created goes on, and what  *)
(* is tried again creates another.                                         *)
TriggerRetrainDies ==
  /\ TasksMayDie
  /\ drift = "retraining"
  /\ training["orphaned"].pc = "idle"
  /\ training' = [training EXCEPT !["orphaned"] = training["drift_triggered"],
                                  !["drift_triggered"] = NotTraining]
  /\ TriggerAttemptFails("retrain")
  /\ UNCHANGED <<registry, postgres, checks, promotion, bounds, retrained>>

(* decide_next_step is out of retries, or a trigger task dies before it    *)
(* creates its run.  A death of decide_next_step that is retried changes   *)
(* nothing.                                                                *)
DriftTaskFails ==
  /\ TasksMayDie
  /\ \/ /\ drift = "checking"
        /\ \A m \in Model : checks[m].result # "pending"
        /\ drift' = "idle" /\ checks' = NotChecked
        /\ UNCHANGED triggerFailures
     \/ /\ drift \in {"retrain", "promote"}
        /\ TriggerAttemptFails(drift)
        /\ UNCHANGED checks
  /\ UNCHANGED <<registry, postgres, training, promotion, bounds, retrained>>

(* One evaluate_and_promote task for each model, whichever drifted.  The   *)
(* attempt may die once its run is created, and be tried again like any.   *)
TriggerPromotionCheck ==
  /\ drift = "promote"
  /\ \/ drift' = "idle" /\ triggerFailures' = 0
     \/ TasksMayDie /\ TriggerAttemptFails("promote")
  /\ promotion' = [p \in Promoter |->
       IF p \in Model \X {triggerFailures}
         THEN [Idle EXCEPT !.pc = "report", !.model = p[1]] ELSE promotion[p]]
  /\ UNCHANGED <<registry, postgres, training, checks, bounds, retrained>>

(***************************************************************************)
(* maybe_auto_promote                                                      *)
(***************************************************************************)
Greatest(S) == CHOOSE x \in S : \A y \in S : y <= x
Least(S) == CHOOSE x \in S : \A y \in S : x <= y

(* evaluate_validation_gate; `fairness` holds the recalls by country, and  *)
(* equal ones or a single one have no gap.                                 *)
ValidationGate(m) ==
  /\ m.recall >= MinRecall
  /\ m.precision >= MinPrecision
  /\ m.fairness # {} => Greatest(m.fairness) - Least(m.fairness) <= MaxRecallGap

(* The flag, then the newest report, of whichever run. *)
ReadDriftReport(k) ==
  /\ promotion[k].pc = "report"
  /\ promotion' = [promotion EXCEPT ![k] =
       IF EnableAutomatedPromotion /\ report[k[1]] = "drift"
         THEN [@ EXCEPT !.pc = "candidate"] ELSE Idle]
  /\ UNCHANGED <<registry, postgres, dags, bounds, retrained>>

InStage(m, s) == {v \in Version : stage[m][v] = s}

(* Variant: get_latest_versions is taken to return the oldest first. *)
OldestStaging(m) ==
  {v \in InStage(m, "Staging") : \A w \in InStage(m, "Staging") : v <= w}

(* get_latest_staging_version: the greatest number in the stage, if any.   *)
LatestStaging(m) ==
  {v \in InStage(m, "Staging") : \A w \in InStage(m, "Staging") : w <= v}

(* Variant: the gate's result is only reported. *)
EvaluateAndPromote(k) ==
  /\ promotion[k].pc = "candidate"
  /\ \E v \in LatestStaging(k[1]) :
       promotion' = [promotion EXCEPT ![k] = [@ EXCEPT !.pc = "fetch", !.version = v]]
  /\ UNCHANGED <<registry, postgres, dags, bounds, retrained>>

EvaluateCandidate(k) ==
  /\ promotion[k].pc = "candidate"
  /\ \/ \E v \in LatestStaging(k[1]) :
          /\ ValidationGate(metrics[k[1]][v])
          /\ promotion' = [promotion EXCEPT ![k] = [@ EXCEPT !.pc = "fetch", !.version = v]]
     \/ /\ \A v \in LatestStaging(k[1]) : ~ValidationGate(metrics[k[1]][v])
        /\ promotion' = [promotion EXCEPT ![k] = Idle]
  /\ UNCHANGED <<registry, postgres, dags, bounds, retrained>>

(***************************************************************************)
(* promote_model                                                           *)
(***************************************************************************)
(* A person names a model and any version of it. *)
RunPromoteScript(p, m, v) ==
  /\ scriptRuns < MaxScriptRuns
  /\ scriptRuns' = scriptRuns + 1
  /\ promotion[p].pc = "idle"
  /\ stage[m][v] # "absent"
  /\ promotion' = [promotion EXCEPT ![p] =
       [Idle EXCEPT !.pc = "fetch", !.model = m, !.version = v]]
  /\ UNCHANGED <<registry, postgres, dags, driftRuns, dailyRuns, retrained>>

(* get_model_version: a stage other than Staging is only logged. *)
FetchVersion(p) ==
  /\ promotion[p].pc = "fetch"
  /\ promotion' = [promotion EXCEPT ![p] =
       [@ EXCEPT !.pc = "record", !.from = stage[promotion[p].model][promotion[p].version]]]
  /\ UNCHANGED <<registry, postgres, dags, bounds, retrained>>

(* Variant: the audit row is left to the end. *)
RecordNothing(p) ==
  /\ promotion[p].pc = "record"
  /\ promotion' = [promotion EXCEPT ![p] = [@ EXCEPT !.pc = "transition"]]
  /\ UNCHANGED <<registry, postgres, dags, bounds, retrained>>

RecordModelApproval(p) ==
  /\ promotion[p].pc = "record"
  /\ approvals' = approvals \cup
       {[model |-> promotion[p].model, version |-> promotion[p].version,
         from |-> promotion[p].from, by |-> p]}
  /\ promotion' = [promotion EXCEPT ![p] = [@ EXCEPT !.pc = "gate"]]
  /\ UNCHANGED <<registry, report, dags, bounds, retrained>>

HasApproval(m, v) == \E a \in approvals : a.model = m /\ a.version = v

CheckApproval(p) ==
  /\ promotion[p].pc = "gate"
  /\ HasApproval(promotion[p].model, promotion[p].version)
  /\ promotion' = [promotion EXCEPT ![p] = [@ EXCEPT !.pc = "transition"]]
  /\ UNCHANGED <<registry, postgres, dags, bounds, retrained>>

(* Variant: archive_existing_versions=False. *)
PromotedBeside(s, v) == [s EXCEPT ![v] = "Production"]

(* Variant: the archiving comes last. *)
PromotedThenArchived(s, v) ==
  [w \in Version |-> IF s[w] = "Production" THEN "Archived"
                     ELSE IF w = v THEN "Production" ELSE s[w]]

(* archive_existing_versions=True. *)
Promoted(s, v) ==
  [w \in Version |-> IF w = v THEN "Production"
                     ELSE IF s[w] = "Production" THEN "Archived" ELSE s[w]]

TransitionToProduction(p) ==
  /\ promotion[p].pc = "transition"
  /\ stage' = [stage EXCEPT ![promotion[p].model] = Promoted(@, promotion[p].version)]
  /\ promotion' = [promotion EXCEPT ![p] = Idle]
  /\ UNCHANGED <<metrics, postgres, dags, bounds, retrained>>

(* MLflow or PostgreSQL is away, or the process is killed; neither the     *)
(* script nor the task (retries=0) is tried again.                         *)
PromotionFails(p) ==
  /\ TasksMayDie
  /\ promotion[p].pc # "idle"
  /\ promotion' = [promotion EXCEPT ![p] = Idle]
  /\ UNCHANGED <<registry, postgres, dags, bounds, retrained>>

TrainingStep(t) ==
  \/ RegisterVersion(t) \/ StageVersion(t) \/ FinishTraining(t) \/ TrainingFails(t)

CheckStep(m) ==
  SkipCheck(m) \/ RecordDriftReport(m) \/ CheckFails(m) \/ PushMetricsFails(m)

DriftStep == DecideNextStep \/ TriggerRetrain \/ TriggerPromotionCheck \/ DriftTaskFails

PromotionStep(p) ==
  \/ FetchVersion(p) \/ RecordModelApproval(p) \/ CheckApproval(p)
  \/ TransitionToProduction(p) \/ PromotionFails(p)

AutoPromotionStep(k) == ReadDriftReport(k) \/ EvaluateCandidate(k)

Next ==
  \/ StartDailyRetrain \/ StartDriftRun \/ DriftStep \/ TriggerRetrainDies
  \/ \E t \in Trainer : TrainingStep(t)
  \/ \E m \in Model : CheckStep(m)
  \/ \E k \in Task : AutoPromotionStep(k)
  \/ \E p \in Staff, m \in Model, v \in Version : RunPromoteScript(p, m, v)
  \/ \E p \in Promoter : PromotionStep(p)

Spec == Init /\ [][Next]_vars

(* Airflow keeps scheduling the tasks of a run it has started; nobody has  *)
(* to start one, and a person may leave.                                   *)
FairSpec ==
  /\ Spec
  /\ WF_vars(DriftStep)
  /\ \A t \in Trainer : WF_vars(TrainingStep(t))
  /\ \A m \in Model : WF_vars(CheckStep(m))
  /\ \A k \in Task : WF_vars(AutoPromotionStep(k)) /\ WF_vars(PromotionStep(k))

(***************************************************************************)
(* Properties that hold                                                    *)
(***************************************************************************)

(* "MLflow's registry state can never advance to Production ahead of the   *)
(* audit trail": every version that is, or was, in Production has an       *)
(* approval row, whoever promoted it and whatever failed on the way.       *)
ProductionApproved ==
  \A m \in Model, v \in Version :
    stage[m][v] \in {"Production", "Archived"} => HasApproval(m, v)

(* What load_production_model picks is unique: concurrent promotions of a  *)
(* model leave one version in Production.                                  *)
OneProduction ==
  \A m \in Model : \A v, w \in InStage(m, "Production") : v = w

(* The API is never left without a model by the registry: once a model has *)
(* a Production version every later step leaves it one, a promotion of the *)
(* version already there included.  This needs every promotion to find its *)
(* version staged: of one promoted between register_model and the move to  *)
(* Staging (the script only warns) that move would undo the promotion.     *)
ProductionStays ==
  [][\A m \in Model :
       /\ InStage(m, "Production") # {}
       /\ \A a \in approvals : a.model = m => a.from # "None"
       => (\E v \in Version : stage'[m][v] = "Production")]_vars

(* What a server of the model relies on: see ProductionPointer.  It covers *)
(* ProductionStays, OneProduction and, of the step that switches,          *)
(* ProductionApproved: no interleaving of promotions shows two versions or *)
(* none in Production, or one that nobody signed for.                      *)
Signed == {<<a.model, a.version>> : a \in approvals}
Hasty  == {m \in Model : \E a \in approvals : a.model = m /\ a.from = "None"}

Pointer == INSTANCE ProductionPointer
             WITH serving <- [m \in Model |-> InStage(m, "Production")],
                  signed <- Signed, hasty <- Hasty

ImplementsPointer == Pointer!Spec

(* The automated policy is "gated three ways, all of which must hold": a   *)
(* version it is promoting, or has approved, cleared the whole gate with   *)
(* the flag on, and it promotes only where the newest report says drift.   *)
AutoPromotionGated ==
  /\ \A a \in approvals : a.by \in Task =>
       EnableAutomatedPromotion /\ ValidationGate(metrics[a.model][a.version])
  /\ \A k \in Task : promotion[k].pc \in Promoting => report[k[1]] = "drift"

(* The automated policy works on what the retrain behind it produced, or   *)
(* something newer ("the retraining DAG's freshly-registered candidate"),  *)
(* as long as nobody has approved that one.  Once somebody has (a person,  *)
(* or the policy itself in the run of an earlier attempt of                *)
(* trigger_promotion_check) it has left Staging, and what is promoted over *)
(* it is the greatest version still there, an older one.                   *)
FreshUnlessApproved ==
  \A k \in Task :
    promotion[k].pc \in Promoting /\ promotion[k].version < retrained[k[1]] =>
      \E a \in approvals : a.model = k[1] /\ a.version >= retrained[k[1]]

(* A drift run comes to an end, whatever fails in it or in the retrain it  *)
(* waits for.                                                              *)
DriftRunEnds == (drift # "idle") ~> (drift = "idle")

(***************************************************************************)
(* What the documents say and the code does not do                         *)
(***************************************************************************)

(* DriftReportRecord: "One row per `dags/drift_detection_dag.py` run: the  *)
(* full KS-test/PSI report": while nothing dies, no report is refused.     *)
DriftReportStored == ~TasksMayDie => \A m \in Model : checks[m].failures = 0
=============================================================================
