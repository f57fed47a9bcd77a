------------------------ MODULE ModelRegistryProofs ------------------------
(***************************************************************************)
(* Proofs about ModelRegistry, for any number of models, versions, people  *)
(* and runs, any metrics and thresholds, and any pattern of failures: the  *)
(* types, that Production is approved, unique and never vacated, and that  *)
(* the automated policy keeps its three gates and promotes no version      *)
(* older than the retrain behind it left.                                  *)
(***************************************************************************)
EXTENDS ModelRegistry, TLAPS

(***************************************************************************)
(* The inductive invariant                                                 *)
(***************************************************************************)
Approves(a, m, v) == a.model = m /\ a.version = v

(* Somebody promoted a version of the model before it was staged.          *)
EarlyApproval(m) == \E a \in approvals : a.model = m /\ a.from = "None"

(* A promotion is of a version that exists, and the row it has written is  *)
(* there until it ends.                                                    *)
PromotionsInOrder ==
  \A p \in Promoter :
    /\ promotion[p].pc \in Promoting =>
         /\ promotion[p].model \in Model /\ promotion[p].version \in Version
         /\ stage[promotion[p].model][promotion[p].version] # "absent"
    /\ promotion[p].pc \in {"gate", "transition"} =>
         [model |-> promotion[p].model, version |-> promotion[p].version,
          from |-> promotion[p].from, by |-> p] \in approvals

ApprovedExist == \A a \in approvals : stage[a.model][a.version] # "absent"

Staging(t, m, v) ==
  /\ training[t].pc = "stage"
  /\ TrainingOrder[training[t].next] = m
  /\ training[t].version = v

(* Between register_model and the move to Staging a version belongs to one *)
(* training run, and is in no stage unless somebody promoted it early.     *)
StagingInOrder ==
  /\ \A t \in Trainer : training[t].pc = "stage" =>
       training[t].next \in DOMAIN TrainingOrder /\ training[t].version \in Version
  /\ \A t \in Trainer, m \in Model, v \in Version : Staging(t, m, v) =>
       /\ stage[m][v] # "absent"
       /\ \A u \in Trainer : Staging(u, m, v) => u = t
       /\ EarlyApproval(m) \/
            (/\ stage[m][v] = "None"
             /\ \A p \in Promoter :
                  /\ promotion[p].pc \in Promoting \ {"fetch"}
                  /\ promotion[p].model = m
                  /\ promotion[p].version = v
                  => promotion[p].from = "None")

(* What the automated policy has established by the time it promotes.      *)
AutomatedInOrder ==
  /\ drift = "checking" => \A k \in Task : promotion[k].pc = "idle"
  /\ \A k \in Task :
       /\ promotion[k].pc # "idle" => promotion[k].model = k[1]
       /\ promotion[k].pc \in Promoting \cup {"candidate"} =>
            EnableAutomatedPromotion /\ report[k[1]] = "drift"
       /\ promotion[k].pc \in Promoting =>
            ValidationGate(metrics[k[1]][promotion[k].version])
  /\ \A a \in approvals : a.by \in Task =>
       EnableAutomatedPromotion /\ ValidationGate(metrics[a.model][a.version])

IInv ==
  /\ TypeOK /\ PromotionsInOrder /\ ApprovedExist /\ StagingInOrder
  /\ AutomatedInOrder /\ ProductionApproved /\ OneProduction

(***************************************************************************)
(* Types                                                                   *)
(***************************************************************************)
LEMMA Records ==
  /\ NotTraining \in TrainingRun
  /\ [NotTraining EXCEPT !.pc = "register"] \in TrainingRun
  /\ Idle \in Promotion
  /\ [result |-> "pending", failures |-> 0] \in DriftCheck
  /\ 0 \in 0 .. DriftRetries
  /\ Version \subseteq 0 .. MaxVersion
BY RegistryAssumption
DEF NotTraining, TrainingRun, Idle, Promotion, Stage, DriftCheck, Version

LEMMA Tasks ==
  /\ Task \subseteq Promoter /\ Staff \subseteq Promoter /\ Staff \cap Task = {}
  /\ \A k \in Task : k[1] \in Model
BY RegistryAssumption DEF Task, Promoter

LEMMA NoChecks == NotChecked \in [Model -> DriftCheck]
BY Records DEF NotChecked

LEMMA InitType == Init => TypeOK
BY Records, NoChecks, RegistryAssumption DEF Init, TypeOK, Stage

(* A step of a training run changes it as the type allows.                 *)
LEMMA TrainingRecord ==
  ASSUME NEW r \in TrainingRun
  PROVE  /\ \A v \in Version : [r EXCEPT !.pc = "stage", !.version = v] \in TrainingRun
         /\ [r EXCEPT !.pc = "register", !.next = r.next + 1, !.version = 0] \in TrainingRun
         /\ r.failures < TrainingRetries =>
              [NotTraining EXCEPT !.pc = "register", !.failures = r.failures + 1] \in TrainingRun
<1>. USE RegistryAssumption, Records
<1>1. r.failures < TrainingRetries => r.failures + 1 \in 0 .. TrainingRetries
  BY DEF TrainingRun
<1>2. 0 \in 0 .. MaxVersion
  OBVIOUS
<1>3. \A v \in Version : [r EXCEPT !.pc = "stage", !.version = v] \in TrainingRun
  BY DEF TrainingRun
<1>4. [r EXCEPT !.pc = "register", !.next = r.next + 1, !.version = 0] \in TrainingRun
  <2>1. r.next + 1 \in Nat
    BY DEF TrainingRun
  <2>. QED  BY <1>2, <2>1 DEF TrainingRun
<1>5. ASSUME r.failures < TrainingRetries
      PROVE  [NotTraining EXCEPT !.pc = "register", !.failures = r.failures + 1] \in TrainingRun
  BY <1>1, <1>2, <1>5 DEF TrainingRun, NotTraining
<1>. QED  BY <1>3, <1>4, <1>5

(* So does a step of a promotion, and a drift check that fails.            *)
LEMMA PromotionRecord ==
  /\ \A r \in Promotion, pc \in Promoting \cup {"idle", "report", "candidate"} :
       [r EXCEPT !.pc = pc] \in Promotion
  /\ \A r \in Promotion, v \in Version :
       [r EXCEPT !.pc = "fetch", !.version = v] \in Promotion
  /\ \A r \in Promotion, s \in Stage :
       [r EXCEPT !.pc = "record", !.from = s] \in Promotion
  /\ \A m \in Model : [Idle EXCEPT !.pc = "report", !.model = m] \in Promotion
  /\ \A m \in Model, v \in Version :
       [Idle EXCEPT !.pc = "fetch", !.model = m, !.version = v] \in Promotion
BY Records DEF Promotion, Promoting, Idle

(* So does a failed attempt of a trigger task change the drift run.        *)
LEMMA AttemptTypes ==
  ASSUME TypeOK, NEW again \in {"retrain", "promote"}, TriggerAttemptFails(again)
  PROVE  triggerFailures' \in 0 .. DriftRetries /\ drift' \in {"idle", again}
BY RegistryAssumption DEF TypeOK, TriggerAttemptFails

LEMMA CheckRecord ==
  ASSUME NEW c \in DriftCheck
  PROVE  /\ \A r \in {"skipped", "drift", "stable", "failed"} :
              [c EXCEPT !.result = r] \in DriftCheck
         /\ c.failures < DriftRetries => [c EXCEPT !.failures = c.failures + 1] \in DriftCheck
<1>1. c.failures < DriftRetries => c.failures + 1 \in 0 .. DriftRetries
  BY RegistryAssumption DEF DriftCheck
<1>. QED  BY <1>1 DEF DriftCheck

LEMMA NextType == TypeOK /\ PromotionsInOrder /\ [Next]_vars => TypeOK'
<1>. SUFFICES ASSUME TypeOK, PromotionsInOrder, [Next]_vars PROVE TypeOK'
  OBVIOUS
<1>. USE RegistryAssumption, Records DEF TypeOK, registry, postgres, dags, bounds
<1>1. CASE StartDailyRetrain
  BY <1>1 DEF StartDailyRetrain, Begin, Trainer
<1>2. CASE StartDriftRun
  BY <1>2 DEF StartDriftRun
<1>3. CASE DecideNextStep
  BY <1>3, NoChecks DEF DecideNextStep
<1>4. CASE TriggerRetrain
  BY <1>4 DEF TriggerRetrain, Begin, Trainer
<1>5. CASE TriggerPromotionCheck
  <2>1. promotion' \in [Promoter -> Promotion]
    <3>1. promotion' = [p \in Promoter |->
            IF p \in Model \X {triggerFailures}
              THEN [Idle EXCEPT !.pc = "report", !.model = p[1]] ELSE promotion[p]]
      BY <1>5 DEF TriggerPromotionCheck
    <3>2. \A p \in Model \X {triggerFailures} :
            [Idle EXCEPT !.pc = "report", !.model = p[1]] \in Promotion
      <4>1. \A p \in Model \X {triggerFailures} : p[1] \in Model
        OBVIOUS
      <4>. QED  BY <4>1, PromotionRecord
    <3>. QED  BY <3>1, <3>2
  <2>2. triggerFailures' \in 0 .. DriftRetries /\ drift' \in {"idle", "promote"}
    BY <1>5, AttemptTypes DEF TriggerPromotionCheck
  <2>. QED  BY <1>5, <2>1, <2>2 DEF TriggerPromotionCheck
<1>6. CASE DriftTaskFails
  <2>1. CASE drift = "checking" /\ drift' = "idle" /\ checks' = NotChecked /\ UNCHANGED triggerFailures
    BY <1>6, <2>1, NoChecks DEF DriftTaskFails
  <2>2. CASE drift \in {"retrain", "promote"} /\ TriggerAttemptFails(drift) /\ UNCHANGED checks
    <3>1. triggerFailures' \in 0 .. DriftRetries /\ drift' \in {"idle", drift}
      BY <2>2, AttemptTypes
    <3>. QED  BY <1>6, <2>2, <3>1 DEF DriftTaskFails
  <2>. QED  BY <1>6, <2>1, <2>2 DEF DriftTaskFails
<1>23. CASE TriggerRetrainDies
  <2>1. triggerFailures' \in 0 .. DriftRetries /\ drift' \in {"idle", "retrain"}
    BY <1>23, AttemptTypes DEF TriggerRetrainDies
  <2>2. training' \in [Trainer -> TrainingRun]
    BY <1>23 DEF TriggerRetrainDies, Trainer
  <2>. QED  BY <1>23, <2>1, <2>2 DEF TriggerRetrainDies
<1>7. ASSUME NEW t \in Trainer, RegisterVersion(t) PROVE TypeOK'
  <2>1. training' \in [Trainer -> TrainingRun]
    <3>1. PICK v \in Version :
            training' = [training EXCEPT ![t] = [training[t] EXCEPT !.pc = "stage", !.version = v]]
      BY <1>7 DEF RegisterVersion
    <3>2. training[t] \in TrainingRun
      OBVIOUS
    <3>. QED  BY <3>1, <3>2, TrainingRecord
  <2>2. /\ stage' \in [Model -> [Version -> Stage]]
        /\ metrics' \in [Model -> [Version -> Metrics \cup {None}]]
    BY <1>7 DEF RegisterVersion, Stage
  <2>. QED  BY <1>7, <2>1, <2>2 DEF RegisterVersion
<1>8. ASSUME NEW t \in Trainer, StageVersion(t) PROVE TypeOK'
  <2>1. training[t].version \in 0 .. MaxVersion
    BY DEF TrainingRun
  <2>2. training' \in [Trainer -> TrainingRun]
    <3>1. training' = [training EXCEPT ![t] =
                         [training[t] EXCEPT !.pc = "register", !.next = training[t].next + 1,
                                             !.version = 0]]
      BY <1>8 DEF StageVersion
    <3>2. training[t] \in TrainingRun
      OBVIOUS
    <3>. QED  BY <3>1, <3>2, TrainingRecord
  <2>3. stage' \in [Model -> [Version -> Stage]]
    BY <1>8 DEF StageVersion, Stage
  <2>4. retrained' \in [Model -> 0 .. MaxVersion]
    BY <1>8, <2>1 DEF StageVersion
  <2>. QED  BY <1>8, <2>2, <2>3, <2>4 DEF StageVersion
<1>9. ASSUME NEW t \in Trainer, FinishTraining(t) PROVE TypeOK'
  BY <1>9 DEF FinishTraining
<1>10. ASSUME NEW t \in Trainer, TrainingFails(t) PROVE TypeOK'
  <2>1. training' \in [Trainer -> TrainingRun]
    <3>1. training[t] \in TrainingRun
      OBVIOUS
    <3>2. \/ training' = [training EXCEPT ![t] = NotTraining]
          \/ /\ training[t].failures < TrainingRetries
             /\ training' = [training EXCEPT ![t] =
                  [NotTraining EXCEPT !.pc = "register", !.failures = training[t].failures + 1]]
      BY <1>10 DEF TrainingFails, RetryLeft
    <3>. QED  BY <3>1, <3>2, TrainingRecord
  <2>2. /\ triggerFailures' \in 0 .. DriftRetries
        /\ drift' \in {"idle", "checking", "retrain", "retraining", "promote"}
    <3>1. UNCHANGED <<drift, triggerFailures>> \/ TriggerAttemptFails("retrain")
      BY <1>10 DEF TrainingFails
    <3>. QED  BY <3>1, AttemptTypes
  <2>. QED  BY <1>10, <2>1, <2>2 DEF TrainingFails
<1>11. ASSUME NEW m \in Model, SkipCheck(m) PROVE TypeOK'
  BY <1>11, CheckRecord DEF SkipCheck
<1>12. ASSUME NEW m \in Model, RecordDriftReport(m) PROVE TypeOK'
  <2>1. checks' \in [Model -> DriftCheck]
    <3>1. PICK r \in {"drift", "stable"} :
            checks' = [checks EXCEPT ![m] = [checks[m] EXCEPT !.result = r]]
      BY <1>12 DEF RecordDriftReport, DriftVerdict
    <3>2. checks[m] \in DriftCheck
      OBVIOUS
    <3>. QED  BY <3>1, <3>2, CheckRecord
  <2>. QED  BY <1>12, <2>1 DEF RecordDriftReport, DriftVerdict
<1>13. ASSUME NEW m \in Model, CheckFails(m) \/ PushMetricsFails(m) PROVE TypeOK'
  <2>1. checks' \in [Model -> DriftCheck]
    <3>1. checks[m] \in DriftCheck
      OBVIOUS
    <3>2. \/ /\ checks[m].failures < DriftRetries
             /\ checks' = [checks EXCEPT ![m] = [checks[m] EXCEPT !.failures = checks[m].failures + 1]]
          \/ checks' = [checks EXCEPT ![m] = [checks[m] EXCEPT !.result = "failed"]]
      BY <1>13 DEF CheckFails, PushMetricsFails, FailedAttempt
    <3>. QED  BY <3>1, <3>2, CheckRecord
  <2>2. report' \in [Model -> {"none", "drift", "stable"}] /\ approvals' \subseteq Approval
    BY <1>13 DEF CheckFails, PushMetricsFails, DriftVerdict
  <2>3. UNCHANGED <<registry, training, drift, triggerFailures, promotion, bounds, retrained>>
    BY <1>13 DEF CheckFails, PushMetricsFails
  <2>. QED  BY <2>1, <2>2, <2>3
<1>14. ASSUME NEW k \in Task, ReadDriftReport(k) PROVE TypeOK'
  BY <1>14, Tasks, PromotionRecord DEF ReadDriftReport
<1>15. ASSUME NEW k \in Task, EvaluateCandidate(k) PROVE TypeOK'
  <2>1. k \in Promoter /\ promotion[k] \in Promotion
    BY Tasks
  <2>2. \/ promotion' = [promotion EXCEPT ![k] = Idle]
        \/ \E v \in Version :
             promotion' = [promotion EXCEPT ![k] =
                             [promotion[k] EXCEPT !.pc = "fetch", !.version = v]]
    BY <1>15 DEF EvaluateCandidate, LatestStaging, InStage
  <2>3. promotion' \in [Promoter -> Promotion]
    <3>1. CASE promotion' = [promotion EXCEPT ![k] = Idle]
      BY <2>1, <3>1
    <3>2. ASSUME NEW v \in Version,
                 promotion' = [promotion EXCEPT ![k] =
                                 [promotion[k] EXCEPT !.pc = "fetch", !.version = v]]
          PROVE  promotion' \in [Promoter -> Promotion]
      <4>1. [promotion[k] EXCEPT !.pc = "fetch", !.version = v] \in Promotion
        BY <2>1, PromotionRecord
      <4>. QED  BY <2>1, <3>2, <4>1
    <3>. QED  BY <2>2, <3>1, <3>2
  <2>. QED  BY <1>15, <2>3 DEF EvaluateCandidate
<1>16. ASSUME NEW p \in Staff, NEW m \in Model, NEW v \in Version, RunPromoteScript(p, m, v)
       PROVE  TypeOK'
  <2>1. promotion' \in [Promoter -> Promotion]
    BY <1>16, PromotionRecord DEF RunPromoteScript, Promoter
  <2>. QED  BY <1>16, <2>1 DEF RunPromoteScript
<1>17. ASSUME NEW p \in Promoter, FetchVersion(p) PROVE TypeOK'
  <2>1. stage[promotion[p].model][promotion[p].version] \in Stage
    <3>1. promotion[p].model \in Model /\ promotion[p].version \in Version
      BY <1>17 DEF FetchVersion, PromotionsInOrder, Promoting
    <3>. QED  BY <3>1
  <2>2. promotion' \in [Promoter -> Promotion]
    BY <1>17, <2>1, PromotionRecord DEF FetchVersion
  <2>. QED  BY <1>17, <2>2 DEF FetchVersion
<1>18. ASSUME NEW p \in Promoter, RecordModelApproval(p) PROVE TypeOK'
  <2>1. promotion[p].model \in Model /\ promotion[p].version \in Version
        /\ promotion[p].from \in Stage
    BY <1>18 DEF RecordModelApproval, PromotionsInOrder, Promoting, Promotion
  <2>2. approvals' \subseteq Approval
    BY <1>18, <2>1 DEF RecordModelApproval, Approval
  <2>3. promotion' \in [Promoter -> Promotion]
    BY <1>18, PromotionRecord DEF RecordModelApproval, Promoting
  <2>. QED  BY <1>18, <2>2, <2>3 DEF RecordModelApproval
<1>19. ASSUME NEW p \in Promoter, CheckApproval(p) PROVE TypeOK'
  BY <1>19, PromotionRecord DEF CheckApproval, Promoting
<1>20. ASSUME NEW p \in Promoter, TransitionToProduction(p) PROVE TypeOK'
  BY <1>20 DEF TransitionToProduction, Promoted, Stage
<1>21. ASSUME NEW p \in Promoter, PromotionFails(p) PROVE TypeOK'
  BY <1>21 DEF PromotionFails
<1>22. CASE UNCHANGED vars
  BY <1>22 DEF vars
<1>. QED
  BY <1>1, <1>2, <1>3, <1>4, <1>5, <1>6, <1>7, <1>8, <1>9, <1>10, <1>11, <1>12,
     <1>13, <1>14, <1>15, <1>16, <1>17, <1>18, <1>19, <1>20, <1>21, <1>22, <1>23
  DEF Next, DriftStep, TrainingStep, CheckStep, AutoPromotionStep, PromotionStep

(***************************************************************************)
(* Steps that leave the registry, the approvals, the reports and the       *)
(* promotions alone: the DAGs' own bookkeeping.                            *)
(***************************************************************************)
Ordered ==
  /\ PromotionsInOrder /\ ApprovedExist /\ StagingInOrder /\ AutomatedInOrder
  /\ ProductionApproved /\ OneProduction

LEMMA Bookkeeping ==
  ASSUME IInv, UNCHANGED <<stage, metrics, approvals, report, promotion>>,
         \A u \in Trainer : training'[u].pc = "stage" => training'[u] = training[u],
         drift' = "checking" =>
           drift = "checking" \/ (\A k \in Task : promotion[k].pc = "idle")
  PROVE  Ordered'
<1>1. PromotionsInOrder' /\ ApprovedExist'
  BY DEF IInv, PromotionsInOrder, ApprovedExist
<1>2. StagingInOrder'
  <2>1. \A t \in Trainer, m \in Model, v \in Version : Staging(t, m, v)' => Staging(t, m, v)
    BY DEF Staging
  <2>. QED  BY <2>1 DEF IInv, StagingInOrder, EarlyApproval
<1>3. AutomatedInOrder'
  BY DEF IInv, AutomatedInOrder
<1>4. ProductionApproved' /\ OneProduction'
  BY DEF IInv, ProductionApproved, HasApproval, OneProduction, InStage
<1>. QED  BY <1>1, <1>2, <1>3, <1>4 DEF Ordered

LEMMA DagSteps ==
  ASSUME IInv,
         \/ StartDailyRetrain \/ StartDriftRun \/ DecideNextStep \/ TriggerRetrain \/ DriftTaskFails
         \/ \E t \in Trainer : FinishTraining(t) \/ TrainingFails(t)
         \/ \E m \in Model : SkipCheck(m) \/ CheckFails(m)
         \/ UNCHANGED vars
  PROVE  Ordered'
<1>. DEFINE Kept(u) == training'[u].pc = "stage" => training'[u] = training[u]
<1>0. training \in [Trainer -> TrainingRun]
  BY DEF IInv, TypeOK
<1>. USE DEF registry, postgres
<1>1. CASE StartDailyRetrain
  <2>1. \A u \in Trainer : Kept(u)
    BY <1>0, <1>1 DEF StartDailyRetrain, Begin, NotTraining
  <2>. QED  BY <1>1, <2>1, Bookkeeping DEF StartDailyRetrain
<1>2. CASE StartDriftRun
  BY <1>2, Bookkeeping DEF StartDriftRun
<1>3. CASE DecideNextStep
  BY <1>3, Bookkeeping DEF DecideNextStep
<1>4. CASE TriggerRetrain
  <2>1. \A u \in Trainer : Kept(u)
    BY <1>0, <1>4 DEF TriggerRetrain, Begin, NotTraining
  <2>. QED  BY <1>4, <2>1, Bookkeeping DEF TriggerRetrain
<1>5. CASE DriftTaskFails
  <2>1. drift' # "checking"
    BY <1>5 DEF DriftTaskFails, TriggerAttemptFails
  <2>2. UNCHANGED <<stage, metrics, approvals, report, promotion, training>>
    BY <1>5 DEF DriftTaskFails
  <2>. QED  BY <2>1, <2>2, Bookkeeping
<1>6. ASSUME NEW t \in Trainer, FinishTraining(t) PROVE Ordered'
  <2>1. \A u \in Trainer : Kept(u)
    BY <1>0, <1>6 DEF FinishTraining, NotTraining
  <2>. QED  BY <1>6, <2>1, Bookkeeping DEF FinishTraining
<1>7. ASSUME NEW t \in Trainer, TrainingFails(t) PROVE Ordered'
  <2>1. \A u \in Trainer : Kept(u)
    <3>1. \/ training' = [training EXCEPT ![t] = NotTraining]
          \/ training' = [training EXCEPT ![t] =
               [NotTraining EXCEPT !.pc = "register", !.failures = training[t].failures + 1]]
      BY <1>7 DEF TrainingFails
    <3>2. \A u \in Trainer \ {t} : training'[u] = training[u]
      BY <1>0, <3>1
    <3>3. training'[t].pc # "stage"
      <4>1. CASE training' = [training EXCEPT ![t] = NotTraining]
        BY <1>0, <4>1 DEF NotTraining
      <4>2. ASSUME NEW n, training' = [training EXCEPT ![t] =
                     [NotTraining EXCEPT !.pc = "register", !.failures = n]]
            PROVE  training'[t].pc # "stage"
        <5>1. training'[t] = [NotTraining EXCEPT !.pc = "register", !.failures = n]
          BY <1>0, <4>2
        <5>. QED  BY <5>1 DEF NotTraining
      <4>. QED  BY <3>1, <4>1, <4>2
    <3>. QED  BY <3>2, <3>3
  <2>2. drift' = "checking" => drift = "checking"
    BY <1>7 DEF TrainingFails, TriggerAttemptFails
  <2>3. UNCHANGED <<stage, metrics, approvals, report, promotion>>
    BY <1>7 DEF TrainingFails
  <2>. QED  BY <2>1, <2>2, <2>3, Bookkeeping
<1>8. ASSUME NEW m \in Model, SkipCheck(m) PROVE Ordered'
  BY <1>8, Bookkeeping DEF SkipCheck
<1>9. ASSUME NEW m \in Model, CheckFails(m) PROVE Ordered'
  BY <1>9, Bookkeeping DEF CheckFails
<1>10. CASE UNCHANGED vars
  BY <1>10, Bookkeeping DEF vars, dags
<1>. QED  BY <1>1, <1>2, <1>3, <1>4, <1>5, <1>6, <1>7, <1>8, <1>9, <1>10

(* A retrain that nobody waits for any more holds its version as before.   *)
LEMMA OrphanStep ==
  ASSUME IInv, TriggerRetrainDies
  PROVE  Ordered'
<1>. UNCHANGED <<stage, metrics, approvals, report, promotion>>
  BY DEF TriggerRetrainDies, registry, postgres
<1>. DEFINE heir == [u \in Trainer |-> IF u = "orphaned" THEN "drift_triggered" ELSE u]
<1>1. PromotionsInOrder' /\ ApprovedExist'
  BY DEF IInv, PromotionsInOrder, ApprovedExist
<1>2. StagingInOrder'
  <2>0. /\ training' = [training EXCEPT !["orphaned"] = training["drift_triggered"],
                                       !["drift_triggered"] = NotTraining]
        /\ training["orphaned"].pc = "idle"
        /\ training \in [Trainer -> TrainingRun]
    BY DEF TriggerRetrainDies, IInv, TypeOK
  <2>1. /\ training'["orphaned"] = training["drift_triggered"]
        /\ training'["drift_triggered"].pc = "idle"
        /\ training'["scheduled"] = training["scheduled"]
    BY <2>0 DEF Trainer, NotTraining
  <2>2. \A u \in Trainer, m \in Model, v \in Version :
          Staging(u, m, v)' => u # "drift_triggered" /\ heir[u] \in Trainer /\ Staging(heir[u], m, v)
    BY <2>1 DEF Staging, Trainer
  <2>3. \A u, w \in Trainer :
          u # "drift_triggered" /\ w # "drift_triggered" /\ heir[u] = heir[w] => u = w
    BY DEF Trainer
  <2>4. \A u \in Trainer : training'[u].pc = "stage" =>
          training'[u].next \in DOMAIN TrainingOrder /\ training'[u].version \in Version
    BY <2>1 DEF IInv, StagingInOrder, Trainer
  <2>5. \A m \in Model : EarlyApproval(m)' = EarlyApproval(m)
    BY DEF EarlyApproval
  <2>6. ASSUME NEW u \in Trainer, NEW m \in Model, NEW v \in Version, Staging(u, m, v)'
        PROVE  /\ stage[m][v] # "absent"
               /\ \A x \in Trainer : Staging(x, m, v)' => x = u
               /\ EarlyApproval(m) \/
                    (/\ stage[m][v] = "None"
                     /\ \A p \in Promoter :
                          /\ promotion[p].pc \in Promoting \ {"fetch"}
                          /\ promotion[p].model = m
                          /\ promotion[p].version = v
                          => promotion[p].from = "None")
    <3>1. u # "drift_triggered" /\ heir[u] \in Trainer /\ Staging(heir[u], m, v)
      BY <2>2, <2>6
    <3>2. \A x \in Trainer : Staging(x, m, v)' => x = u
      BY <2>2, <2>3, <3>1 DEF IInv, StagingInOrder
    <3>. QED  BY <3>1, <3>2 DEF IInv, StagingInOrder
  <2>. QED  BY <2>4, <2>5, <2>6 DEF StagingInOrder
<1>3. AutomatedInOrder'
  <2>1. drift' # "checking"
    BY DEF TriggerRetrainDies, TriggerAttemptFails
  <2>. QED  BY <2>1 DEF IInv, AutomatedInOrder
<1>4. ProductionApproved' /\ OneProduction'
  BY DEF IInv, ProductionApproved, HasApproval, OneProduction, InStage
<1>. QED  BY <1>1, <1>2, <1>3, <1>4 DEF Ordered

(* A report is recorded while no automated promotion runs.                 *)
LEMMA ReportStep ==
  ASSUME IInv, NEW m \in Model, RecordDriftReport(m) \/ PushMetricsFails(m)
  PROVE  Ordered'
<1>. USE DEF RecordDriftReport, PushMetricsFails, DriftVerdict, registry, postgres
<1>1. PromotionsInOrder' /\ ApprovedExist'
  BY DEF IInv, PromotionsInOrder, ApprovedExist
<1>2. StagingInOrder'
  BY DEF IInv, StagingInOrder, Staging, EarlyApproval
<1>3. AutomatedInOrder'
  BY Tasks DEF IInv, AutomatedInOrder, Promoting
<1>4. ProductionApproved' /\ OneProduction'
  BY DEF IInv, ProductionApproved, HasApproval, OneProduction, InStage
<1>. QED  BY <1>1, <1>2, <1>3, <1>4 DEF Ordered

(***************************************************************************)
(* Steps of one promotion that leave the registry and the approvals alone  *)
(***************************************************************************)
LEMMA PromotionOnly ==
  ASSUME IInv, NEW p \in Promoter, NEW r \in Promotion,
         UNCHANGED <<stage, metrics, approvals, report, training, drift>>,
         promotion' = [promotion EXCEPT ![p] = r],
         r.pc \in Promoting =>
           /\ r.model \in Model /\ r.version \in Version
           /\ stage[r.model][r.version] # "absent",
         r.pc \in {"gate", "transition"} =>
           [model |-> r.model, version |-> r.version, from |-> r.from, by |-> p] \in approvals,
         r.pc \in Promoting \ {"fetch"} =>
           \/ r.from = stage[r.model][r.version]
           \/ /\ promotion[p].pc \in Promoting \ {"fetch"} /\ promotion[p].from = r.from
              /\ promotion[p].model = r.model /\ promotion[p].version = r.version,
         p \in Task =>
           /\ r.pc # "idle" => r.model = p[1] /\ drift # "checking"
           /\ r.pc \in Promoting \cup {"candidate"} =>
                EnableAutomatedPromotion /\ report[p[1]] = "drift"
           /\ r.pc \in Promoting => ValidationGate(metrics[p[1]][r.version])
  PROVE  Ordered'
<1>0. promotion \in [Promoter -> Promotion] /\ Task \subseteq Promoter
  BY Tasks DEF IInv, TypeOK
<1>1. promotion'[p] = r /\ \A q \in Promoter \ {p} : promotion'[q] = promotion[q]
  BY <1>0
<1>2. PromotionsInOrder'
  BY <1>1 DEF IInv, PromotionsInOrder
<1>3. ApprovedExist'
  BY DEF IInv, ApprovedExist
<1>4. StagingInOrder'
  <2>1. \A t \in Trainer, m \in Model, v \in Version : Staging(t, m, v)' = Staging(t, m, v)
    BY DEF Staging
  <2>2. \A m \in Model : EarlyApproval(m)' = EarlyApproval(m)
    BY DEF EarlyApproval
  <2>3. ASSUME NEW t \in Trainer, NEW m \in Model, NEW v \in Version,
               Staging(t, m, v), ~EarlyApproval(m), NEW q \in Promoter,
               promotion'[q].pc \in Promoting \ {"fetch"},
               promotion'[q].model = m, promotion'[q].version = v
        PROVE  promotion'[q].from = "None"
    BY <1>1, <2>3 DEF IInv, StagingInOrder
  <2>. QED  BY <2>1, <2>2, <2>3 DEF IInv, StagingInOrder
<1>5. AutomatedInOrder'
  BY <1>0, <1>1 DEF IInv, AutomatedInOrder
<1>6. ProductionApproved' /\ OneProduction'
  BY DEF IInv, ProductionApproved, HasApproval, OneProduction, InStage
<1>. QED  BY <1>2, <1>3, <1>4, <1>5, <1>6 DEF Ordered

LEMMA PromotionSteps ==
  ASSUME IInv
  PROVE  /\ \A k \in Task : ReadDriftReport(k) \/ EvaluateCandidate(k) => Ordered'
         /\ \A p \in Staff, m \in Model, v \in Version : RunPromoteScript(p, m, v) => Ordered'
         /\ \A p \in Promoter : FetchVersion(p) \/ CheckApproval(p) \/ PromotionFails(p) => Ordered'
<1>0. /\ promotion \in [Promoter -> Promotion]
      /\ \A p \in Promoter : promotion[p] \in Promotion
      /\ Task \subseteq Promoter /\ Staff \subseteq Promoter /\ Staff \cap Task = {}
      /\ \A k \in Task : k[1] \in Model
  BY Tasks DEF IInv, TypeOK
<1>. USE DEF registry, postgres, dags
<1>1. ASSUME NEW k \in Task, ReadDriftReport(k) PROVE Ordered'
  <2>1. CASE EnableAutomatedPromotion /\ report[k[1]] = "drift"
    <3>. DEFINE r == [promotion[k] EXCEPT !.pc = "candidate"]
    <3>1. promotion' = [promotion EXCEPT ![k] = r]
      BY <1>1, <2>1 DEF ReadDriftReport
    <3>2. r \in Promotion /\ r.pc = "candidate" /\ r.model = k[1] /\ drift # "checking"
      <4>1. promotion[k] \in Promotion
        BY <1>0
      <4>2. r \in Promotion
        BY <4>1, PromotionRecord
      <4>3. promotion[k].model = k[1] /\ drift # "checking"
        BY <1>1 DEF ReadDriftReport, IInv, AutomatedInOrder
      <4>4. r.pc = "candidate" /\ r.model = promotion[k].model
        BY <4>1 DEF Promotion
      <4>. QED  BY <4>2, <4>3, <4>4
    <3>. HIDE DEF r
    <3>. QED  BY <1>0, <1>1, <2>1, <3>1, <3>2, PromotionOnly DEF ReadDriftReport, Promoting
  <2>2. CASE ~(EnableAutomatedPromotion /\ report[k[1]] = "drift")
    <3>1. promotion' = [promotion EXCEPT ![k] = Idle]
      BY <1>1, <2>2 DEF ReadDriftReport
    <3>2. Idle.pc = "idle"
      BY DEF Idle
    <3>. QED
      BY <1>0, <1>1, <3>1, <3>2, Records, PromotionOnly DEF ReadDriftReport, Promoting
  <2>. QED  BY <2>1, <2>2
<1>2. ASSUME NEW k \in Task, EvaluateCandidate(k) PROVE Ordered'
  <2>1. ASSUME NEW v \in Version, stage[k[1]][v] = "Staging", ValidationGate(metrics[k[1]][v]),
               promotion' = [promotion EXCEPT ![k] =
                               [promotion[k] EXCEPT !.pc = "fetch", !.version = v]]
        PROVE  Ordered'
    <3>. DEFINE r == [promotion[k] EXCEPT !.pc = "fetch", !.version = v]
    <3>1. /\ r \in Promotion /\ r.pc = "fetch" /\ r.model = k[1] /\ r.version = v
          /\ drift # "checking" /\ EnableAutomatedPromotion /\ report[k[1]] = "drift"
      <4>1. promotion[k] \in Promotion
        BY <1>0
      <4>2. r \in Promotion
        BY <4>1, PromotionRecord
      <4>3. /\ promotion[k].model = k[1]
            /\ drift # "checking" /\ EnableAutomatedPromotion /\ report[k[1]] = "drift"
        BY <1>2 DEF EvaluateCandidate, IInv, AutomatedInOrder
      <4>4. r.pc = "fetch" /\ r.model = promotion[k].model /\ r.version = v
        BY <4>1 DEF Promotion
      <4>. QED  BY <4>2, <4>3, <4>4
    <3>2. promotion' = [promotion EXCEPT ![k] = r]
      BY <2>1
    <3>3. UNCHANGED <<stage, metrics, approvals, report, training, drift>>
      BY <1>2 DEF EvaluateCandidate
    <3>. HIDE DEF r
    <3>4. stage[r.model][r.version] # "absent"
      BY <2>1, <3>1
    <3>5. r.model \in Model /\ r.version \in Version /\ ValidationGate(metrics[k[1]][r.version])
      BY <2>1, <3>1, Tasks
    <3>6. r.pc \notin {"gate", "transition"} /\ r.pc \notin Promoting \ {"fetch"}
      BY <3>1
    <3>. QED  BY <1>0, <3>1, <3>2, <3>3, <3>4, <3>5, <3>6, PromotionOnly
  <2>2. CASE promotion' = [promotion EXCEPT ![k] = Idle]
    <3>1. Idle.pc = "idle"
      BY DEF Idle
    <3>. QED
      BY <1>0, <1>2, <2>2, <3>1, Records, PromotionOnly DEF EvaluateCandidate, Promoting
  <2>. QED  BY <1>2, <2>1, <2>2 DEF EvaluateCandidate, LatestStaging, InStage
<1>3. ASSUME NEW p \in Staff, NEW m \in Model, NEW v \in Version, RunPromoteScript(p, m, v)
      PROVE  Ordered'
  <2>. DEFINE r == [Idle EXCEPT !.pc = "fetch", !.model = m, !.version = v]
  <2>1. promotion' = [promotion EXCEPT ![p] = r] /\ stage[m][v] # "absent"
    BY <1>3 DEF RunPromoteScript
  <2>2. r \in Promotion /\ r.pc = "fetch" /\ r.model = m /\ r.version = v
    BY PromotionRecord DEF Idle
  <2>. HIDE DEF r
  <2>. QED  BY <1>0, <1>3, <2>1, <2>2, PromotionOnly DEF RunPromoteScript, Promoting
<1>4. ASSUME NEW p \in Promoter, FetchVersion(p) PROVE Ordered'
  <2>. DEFINE old == promotion[p]
              r == [old EXCEPT !.pc = "record", !.from = stage[old.model][old.version]]
  <2>1. /\ old.model \in Model /\ old.version \in Version
        /\ stage[old.model][old.version] \in Stage \ {"absent"}
    BY <1>4 DEF FetchVersion, IInv, PromotionsInOrder, Promoting, TypeOK
  <2>2. promotion' = [promotion EXCEPT ![p] = r]
    BY <1>4 DEF FetchVersion
  <2>3. /\ r \in Promotion /\ r.pc = "record" /\ r.model = old.model
        /\ r.version = old.version /\ r.from = stage[old.model][old.version]
    <3>1. old \in Promotion
      BY <1>0
    <3>2. r \in Promotion
      BY <2>1, <3>1, PromotionRecord
    <3>3. /\ r.pc = "record" /\ r.model = old.model
          /\ r.version = old.version /\ r.from = stage[old.model][old.version]
      BY <3>1 DEF Promotion
    <3>. QED  BY <3>2, <3>3
  <2>4. p \in Task => /\ old.model = p[1] /\ drift # "checking"
                      /\ EnableAutomatedPromotion /\ report[p[1]] = "drift"
                      /\ ValidationGate(metrics[p[1]][old.version])
    BY <1>4 DEF FetchVersion, IInv, AutomatedInOrder, Promoting
  <2>5. UNCHANGED <<stage, metrics, approvals, report, training, drift>>
    BY <1>4 DEF FetchVersion
  <2>. HIDE DEF r, old
  <2>6. r.model \in Model /\ r.version \in Version /\ stage[r.model][r.version] # "absent"
        /\ r.from = stage[r.model][r.version]
    BY <2>1, <2>3
  <2>. QED  BY <1>0, <2>2, <2>3, <2>4, <2>5, <2>6, PromotionOnly DEF Promoting
<1>5. ASSUME NEW p \in Promoter, CheckApproval(p) PROVE Ordered'
  <2>. DEFINE old == promotion[p]
              r == [old EXCEPT !.pc = "transition"]
  <2>1. /\ old.model \in Model /\ old.version \in Version
        /\ stage[old.model][old.version] # "absent"
        /\ [model |-> old.model, version |-> old.version, from |-> old.from, by |-> p] \in approvals
    BY <1>5 DEF CheckApproval, IInv, PromotionsInOrder, Promoting
  <2>2. promotion' = [promotion EXCEPT ![p] = r]
    BY <1>5 DEF CheckApproval
  <2>3. /\ r \in Promotion /\ r.pc = "transition" /\ r.model = old.model
        /\ r.version = old.version /\ r.from = old.from
    <3>1. old \in Promotion
      BY <1>0
    <3>2. \A pc \in Promoting : [old EXCEPT !.pc = pc] \in Promotion
      BY <3>1, PromotionRecord
    <3>3. r \in Promotion
      BY <3>2 DEF Promoting
    <3>4. r.pc = "transition" /\ r.model = old.model /\ r.version = old.version /\ r.from = old.from
      BY <3>1 DEF Promotion
    <3>. QED  BY <3>3, <3>4
  <2>4. p \in Task => /\ old.model = p[1] /\ drift # "checking"
                      /\ EnableAutomatedPromotion /\ report[p[1]] = "drift"
                      /\ ValidationGate(metrics[p[1]][old.version])
    BY <1>5 DEF CheckApproval, IInv, AutomatedInOrder, Promoting
  <2>5. old.pc \in Promoting \ {"fetch"}
    BY <1>5 DEF CheckApproval, Promoting
  <2>6. UNCHANGED <<stage, metrics, approvals, report, training, drift>>
    BY <1>5 DEF CheckApproval
  <2>. HIDE DEF r
  <2>7. r.model \in Model /\ r.version \in Version /\ stage[r.model][r.version] # "absent"
        /\ [model |-> r.model, version |-> r.version, from |-> r.from, by |-> p] \in approvals
    BY <2>1, <2>3
  <2>. QED  BY <1>0, <2>2, <2>3, <2>4, <2>5, <2>6, <2>7, PromotionOnly DEF Promoting
<1>6. ASSUME NEW p \in Promoter, PromotionFails(p) PROVE Ordered'
  <2>1. Idle.pc = "idle"
    BY DEF Idle
  <2>. QED  BY <1>6, <2>1, Records, PromotionOnly DEF PromotionFails, Promoting
<1>. QED  BY <1>1, <1>2, <1>3, <1>4, <1>5, <1>6

(* An attempt starts the automated promotion of every model at once.       *)
LEMMA TriggerStep ==
  ASSUME IInv, TriggerPromotionCheck
  PROVE  Ordered'
<1>. /\ UNCHANGED <<stage, metrics, approvals, report, training>> /\ drift' # "checking"
     /\ drift = "promote"
  BY DEF TriggerPromotionCheck, TriggerAttemptFails, registry, postgres
<1>0. \A p \in Promoter :
        IF p \in Model \X {triggerFailures}
          THEN promotion'[p].pc = "report" /\ promotion'[p].model = p[1]
          ELSE promotion'[p] = promotion[p]
  BY DEF TriggerPromotionCheck, Idle
<1>1. PromotionsInOrder' /\ ApprovedExist'
  BY <1>0 DEF IInv, PromotionsInOrder, ApprovedExist, Promoting
<1>2. StagingInOrder'
  <2>1. \A t \in Trainer, m \in Model, v \in Version : Staging(t, m, v)' = Staging(t, m, v)
    BY DEF Staging
  <2>2. \A m \in Model : EarlyApproval(m)' = EarlyApproval(m)
    BY DEF EarlyApproval
  <2>3. \A q \in Promoter : promotion'[q].pc \in Promoting => promotion'[q] = promotion[q]
    BY <1>0 DEF Promoting
  <2>4. ASSUME NEW t \in Trainer, NEW m \in Model, NEW v \in Version,
               Staging(t, m, v), ~EarlyApproval(m), NEW q \in Promoter,
               promotion'[q].pc \in Promoting \ {"fetch"},
               promotion'[q].model = m, promotion'[q].version = v
        PROVE  promotion'[q].from = "None"
    BY <2>3, <2>4 DEF IInv, StagingInOrder
  <2>. QED  BY <2>1, <2>2, <2>4 DEF IInv, StagingInOrder
<1>3. AutomatedInOrder'
  BY <1>0, Tasks DEF IInv, AutomatedInOrder, Promoting
<1>4. ProductionApproved' /\ OneProduction'
  BY DEF IInv, ProductionApproved, HasApproval, OneProduction, InStage
<1>. QED  BY <1>1, <1>2, <1>3, <1>4 DEF Ordered

(***************************************************************************)
(* Steps that write the registry or the approvals                          *)
(***************************************************************************)

(* A new version: nobody promotes it, approved it or is staging it.        *)
LEMMA RegisterStep ==
  ASSUME IInv, NEW t \in Trainer, RegisterVersion(t)
  PROVE  Ordered'
<1>1. PICK m \in Model, v \in Version, logged \in Metrics :
        /\ TrainingOrder[training[t].next] = m /\ training[t].next \in DOMAIN TrainingOrder
        /\ stage[m][v] = "absent"
        /\ stage' = [stage EXCEPT ![m][v] = "None"]
        /\ metrics' = [metrics EXCEPT ![m][v] = logged]
        /\ training' = [training EXCEPT ![t] = [training[t] EXCEPT !.pc = "stage", !.version = v]]
  <2>1. TrainingOrder[training[t].next] \in Model
    BY RegistryAssumption DEF RegisterVersion
  <2>. QED  BY <2>1 DEF RegisterVersion
<1>2. UNCHANGED <<approvals, report, promotion, drift>> /\ training[t].pc = "register"
  BY DEF RegisterVersion, postgres
<1>3. /\ stage \in [Model -> [Version -> Stage]] /\ approvals \subseteq Approval
      /\ metrics \in [Model -> [Version -> Metrics \cup {None}]]
      /\ training \in [Trainer -> TrainingRun]
  BY DEF IInv, TypeOK
<1>4. \A n \in Model, w \in Version :
        IF n = m /\ w = v THEN stage'[n][w] = "None"
        ELSE stage'[n][w] = stage[n][w] /\ metrics'[n][w] = metrics[n][w]
  BY <1>1, <1>3
<1>5. PromotionsInOrder'
  BY <1>1, <1>2, <1>4 DEF IInv, PromotionsInOrder
<1>6. ApprovedExist'
  BY <1>1, <1>2, <1>3, <1>4 DEF IInv, ApprovedExist, Approval
<1>7. StagingInOrder'
  <2>1. /\ training'[t].pc = "stage" /\ training'[t].version = v
        /\ training'[t].next = training[t].next
        /\ \A u \in Trainer \ {t} : training'[u] = training[u]
    BY <1>1, <1>3 DEF TrainingRun
  <2>2. /\ \A n \in Model, w \in Version :
             ~Staging(t, n, w) /\ (Staging(t, n, w)' <=> n = m /\ w = v)
        /\ \A u \in Trainer \ {t}, n \in Model, w \in Version :
             Staging(u, n, w)' <=> Staging(u, n, w)
    <3>1. \A n \in Model, w \in Version :
            ~Staging(t, n, w) /\ (Staging(t, n, w)' <=> n = m /\ w = v)
      BY <1>1, <1>2, <2>1 DEF Staging
    <3>2. \A u \in Trainer \ {t}, n \in Model, w \in Version :
            Staging(u, n, w)' <=> Staging(u, n, w)
      BY <2>1 DEF Staging
    <3>. QED  BY <3>1, <3>2
  <2>3. \A u \in Trainer : ~Staging(u, m, v)
    BY <1>1 DEF IInv, StagingInOrder
  <2>4. \A n \in Model : EarlyApproval(n)' = EarlyApproval(n)
    BY <1>2 DEF EarlyApproval
  <2>5. \A p \in Promoter :
          ~(promotion[p].pc \in Promoting /\ promotion[p].model = m /\ promotion[p].version = v)
    BY <1>1 DEF IInv, PromotionsInOrder
  <2>6. \A u \in Trainer : training'[u].pc = "stage" =>
          training'[u].next \in DOMAIN TrainingOrder /\ training'[u].version \in Version
    BY <1>1, <2>1 DEF IInv, StagingInOrder
  <2>7. ASSUME NEW u \in Trainer, NEW n \in Model, NEW w \in Version, Staging(u, n, w)'
        PROVE  /\ stage'[n][w] # "absent"
               /\ \A x \in Trainer : Staging(x, n, w)' => x = u
               /\ EarlyApproval(n)' \/
                    (/\ stage'[n][w] = "None"
                     /\ \A p \in Promoter :
                          /\ promotion'[p].pc \in Promoting \ {"fetch"}
                          /\ promotion'[p].model = n
                          /\ promotion'[p].version = w
                          => promotion'[p].from = "None")
    <3>1. CASE n = m /\ w = v
      BY <1>2, <1>4, <2>2, <2>3, <2>5, <2>7, <3>1
    <3>2. CASE ~(n = m /\ w = v)
      <4>1. Staging(u, n, w) /\ stage'[n][w] = stage[n][w]
        BY <1>4, <2>2, <2>7, <3>2
      <4>. QED  BY <1>2, <2>2, <2>4, <3>2, <4>1 DEF IInv, StagingInOrder
    <3>. QED  BY <3>1, <3>2
  <2>. QED  BY <2>6, <2>7 DEF StagingInOrder
<1>8. AutomatedInOrder'
  <2>1. \A k \in Task : promotion[k].pc \in Promoting =>
          metrics'[k[1]][promotion[k].version] = metrics[k[1]][promotion[k].version]
    <3>1. \A k \in Task : promotion[k].pc \in Promoting =>
            promotion[k].version \in Version /\ stage[k[1]][promotion[k].version] # "absent"
      BY Tasks DEF IInv, AutomatedInOrder, PromotionsInOrder, Promoting
    <3>. QED  BY <1>1, <1>4, <3>1, Tasks
  <2>2. \A a \in approvals : metrics'[a.model][a.version] = metrics[a.model][a.version]
    BY <1>1, <1>3, <1>4 DEF IInv, ApprovedExist, Approval
  <2>. QED  BY <1>2, <2>1, <2>2 DEF IInv, AutomatedInOrder
<1>9. ProductionApproved' /\ OneProduction'
  BY <1>2, <1>4 DEF IInv, ProductionApproved, HasApproval, OneProduction, InStage
<1>. QED  BY <1>5, <1>6, <1>7, <1>8, <1>9 DEF Ordered

(* The move to Staging ends the trainer's hold on the version.             *)
LEMMA StageStep ==
  ASSUME IInv, NEW t \in Trainer, StageVersion(t)
  PROVE  Ordered'
<1>. DEFINE m == TrainingOrder[training[t].next]
            v == training[t].version
<1>1. /\ stage' = [stage EXCEPT ![m][v] = "Staging"]
      /\ UNCHANGED <<metrics, approvals, report, promotion, drift>>
      /\ training' = [training EXCEPT ![t] =
           [training[t] EXCEPT !.pc = "register", !.next = training[t].next + 1, !.version = 0]]
  BY DEF StageVersion, postgres
<1>2. Staging(t, m, v) /\ m \in Model /\ v \in Version /\ stage[m][v] # "absent"
  <2>1. m \in Model /\ v \in Version
    BY RegistryAssumption DEF StageVersion, IInv, StagingInOrder
  <2>2. Staging(t, m, v)
    BY DEF StageVersion, Staging
  <2>. QED  BY <2>1, <2>2 DEF IInv, StagingInOrder
<1>3. /\ stage \in [Model -> [Version -> Stage]] /\ approvals \subseteq Approval
      /\ training \in [Trainer -> TrainingRun]
  BY DEF IInv, TypeOK
<1>. HIDE DEF m, v
<1>4. \A n \in Model, w \in Version :
        stage'[n][w] = IF n = m /\ w = v THEN "Staging" ELSE stage[n][w]
  BY <1>1, <1>2, <1>3
<1>5. PromotionsInOrder'
  BY <1>1, <1>2, <1>4 DEF IInv, PromotionsInOrder
<1>6. ApprovedExist'
  BY <1>1, <1>3, <1>4 DEF IInv, ApprovedExist, Approval
<1>7. StagingInOrder'
  <2>1. training'[t].pc = "register" /\ \A u \in Trainer \ {t} : training'[u] = training[u]
    BY <1>1, <1>3 DEF TrainingRun
  <2>2. \A u \in Trainer, n \in Model, w \in Version :
          Staging(u, n, w)' => Staging(u, n, w) /\ u # t /\ ~(n = m /\ w = v)
    BY <1>2, <2>1 DEF Staging, IInv, StagingInOrder
  <2>3. \A n \in Model : EarlyApproval(n)' = EarlyApproval(n)
    BY <1>1 DEF EarlyApproval
  <2>4. \A u \in Trainer : training'[u].pc = "stage" =>
          training'[u].next \in DOMAIN TrainingOrder /\ training'[u].version \in Version
    BY <2>1 DEF IInv, StagingInOrder
  <2>5. ASSUME NEW u \in Trainer, NEW n \in Model, NEW w \in Version, Staging(u, n, w)'
        PROVE  /\ stage'[n][w] # "absent"
               /\ \A x \in Trainer : Staging(x, n, w)' => x = u
               /\ EarlyApproval(n)' \/
                    (/\ stage'[n][w] = "None"
                     /\ \A p \in Promoter :
                          /\ promotion'[p].pc \in Promoting \ {"fetch"}
                          /\ promotion'[p].model = n
                          /\ promotion'[p].version = w
                          => promotion'[p].from = "None")
    <3>1. Staging(u, n, w) /\ stage'[n][w] = stage[n][w]
      BY <1>4, <2>2, <2>5
    <3>. QED  BY <1>1, <2>2, <2>3, <3>1 DEF IInv, StagingInOrder
  <2>. QED  BY <2>4, <2>5 DEF StagingInOrder
<1>8. AutomatedInOrder'
  BY <1>1 DEF IInv, AutomatedInOrder
<1>9. ProductionApproved' /\ OneProduction'
  BY <1>1, <1>4 DEF IInv, ProductionApproved, HasApproval, OneProduction, InStage
<1>. QED  BY <1>5, <1>6, <1>7, <1>8, <1>9 DEF Ordered

(* The approval row makes what the promotion does next accountable.        *)
LEMMA ApprovalStep ==
  ASSUME IInv, NEW p \in Promoter, RecordModelApproval(p)
  PROVE  Ordered'
<1>. DEFINE old == promotion[p]
            row == [model |-> old.model, version |-> old.version, from |-> old.from, by |-> p]
            r == [old EXCEPT !.pc = "gate"]
<1>1. /\ UNCHANGED <<stage, metrics, report, training, drift>>
      /\ approvals' = approvals \cup {row}
      /\ promotion' = [promotion EXCEPT ![p] = r]
      /\ old.pc = "record"
  BY DEF RecordModelApproval, registry, dags
<1>2. /\ old.model \in Model /\ old.version \in Version
      /\ stage[old.model][old.version] # "absent" /\ old.from \in Stage
  BY <1>1 DEF IInv, PromotionsInOrder, Promoting, TypeOK, Promotion
<1>3. /\ r.pc = "gate" /\ r.model = old.model /\ r.version = old.version /\ r.from = old.from
      /\ promotion'[p] = r /\ \A q \in Promoter \ {p} : promotion'[q] = promotion[q]
  BY <1>1 DEF IInv, TypeOK, Promotion
<1>4. /\ row.model = old.model /\ row.version = old.version
      /\ row.from = old.from /\ row.by = p
  OBVIOUS
<1>5. p \in Task => /\ old.model = p[1] /\ drift # "checking"
                    /\ EnableAutomatedPromotion /\ report[p[1]] = "drift"
                    /\ ValidationGate(metrics[p[1]][old.version])
  BY <1>1 DEF IInv, AutomatedInOrder, Promoting
<1>. HIDE DEF r, old
<1>6. PromotionsInOrder'
  BY <1>1, <1>2, <1>3 DEF IInv, PromotionsInOrder
<1>7. ApprovedExist'
  BY <1>1, <1>2, <1>4 DEF IInv, ApprovedExist
<1>8. StagingInOrder'
  <2>1. \A t \in Trainer, m \in Model, v \in Version : Staging(t, m, v)' = Staging(t, m, v)
    BY <1>1 DEF Staging
  <2>2. \A m \in Model : EarlyApproval(m) => EarlyApproval(m)'
    BY <1>1 DEF EarlyApproval
  <2>3. ASSUME NEW t \in Trainer, NEW m \in Model, NEW v \in Version,
               Staging(t, m, v), ~EarlyApproval(m)', NEW q \in Promoter,
               promotion'[q].pc \in Promoting \ {"fetch"},
               promotion'[q].model = m, promotion'[q].version = v
        PROVE  promotion'[q].from = "None"
    <3>1. promotion[q].pc \in Promoting \ {"fetch"} /\ promotion[q].model = m
          /\ promotion[q].version = v /\ promotion'[q].from = promotion[q].from
      BY <1>1, <1>3, <2>3 DEF Promoting, old
    <3>. QED  BY <2>2, <2>3, <3>1 DEF IInv, StagingInOrder
  <2>. QED  BY <1>1, <2>1, <2>2, <2>3 DEF IInv, StagingInOrder
<1>9. AutomatedInOrder'
  <2>1. drift' = "checking" => \A k \in Task : promotion'[k].pc = "idle"
    BY <1>1, <1>3, <1>5, Tasks DEF IInv, AutomatedInOrder
  <2>2. \A k \in Task :
          /\ promotion'[k].pc # "idle" => promotion'[k].model = k[1]
          /\ promotion'[k].pc \in Promoting \cup {"candidate"} =>
               EnableAutomatedPromotion /\ report'[k[1]] = "drift"
          /\ promotion'[k].pc \in Promoting =>
               ValidationGate(metrics'[k[1]][promotion'[k].version])
    BY <1>1, <1>3, <1>5, Tasks DEF IInv, AutomatedInOrder
  <2>3. \A a \in approvals' : a.by \in Task =>
          EnableAutomatedPromotion /\ ValidationGate(metrics'[a.model][a.version])
    BY <1>1, <1>4, <1>5 DEF IInv, AutomatedInOrder
  <2>. QED  BY <2>1, <2>2, <2>3 DEF AutomatedInOrder
<1>10. ProductionApproved' /\ OneProduction'
  BY <1>1 DEF IInv, ProductionApproved, HasApproval, OneProduction, InStage
<1>. QED  BY <1>6, <1>7, <1>8, <1>9, <1>10 DEF Ordered

(* The version is approved, and the one it replaces was.                   *)
LEMMA TransitionStep ==
  ASSUME IInv, NEW p \in Promoter, TransitionToProduction(p)
  PROVE  Ordered'
<1>. DEFINE m == promotion[p].model
            v == promotion[p].version
            row == [model |-> m, version |-> v, from |-> promotion[p].from, by |-> p]
<1>1. /\ stage' = [stage EXCEPT ![m] = Promoted(stage[m], v)]
      /\ UNCHANGED <<metrics, approvals, report, training, drift>>
      /\ promotion' = [promotion EXCEPT ![p] = Idle]
      /\ promotion[p].pc = "transition"
  BY DEF TransitionToProduction, postgres, dags
<1>2. m \in Model /\ v \in Version /\ stage[m][v] # "absent" /\ row \in approvals
  BY <1>1 DEF IInv, PromotionsInOrder, Promoting
<1>3. stage \in [Model -> [Version -> Stage]] /\ approvals \subseteq Approval
  BY DEF IInv, TypeOK
<1>4. \A n \in Model, w \in Version :
        stage'[n][w] = IF n # m THEN stage[n][w]
                       ELSE IF w = v THEN "Production"
                       ELSE IF stage[n][w] = "Production" THEN "Archived" ELSE stage[n][w]
  BY <1>1, <1>2, <1>3 DEF Promoted
<1>5. promotion'[p].pc = "idle" /\ \A q \in Promoter \ {p} : promotion'[q] = promotion[q]
  BY <1>1 DEF IInv, TypeOK, Idle
<1>6. HasApproval(m, v)
  BY <1>2 DEF HasApproval
<1>7. (\E t \in Trainer : Staging(t, m, v)) => EarlyApproval(m)
  BY <1>1, <1>2 DEF IInv, StagingInOrder, EarlyApproval, Promoting
<1>. HIDE DEF m, v
<1>8. PromotionsInOrder'
  BY <1>1, <1>4, <1>5 DEF IInv, PromotionsInOrder, Promoting
<1>9. ApprovedExist'
  BY <1>1, <1>3, <1>4 DEF IInv, ApprovedExist, Approval
<1>10. StagingInOrder'
  <2>1. \A t \in Trainer, n \in Model, w \in Version : Staging(t, n, w)' = Staging(t, n, w)
    BY <1>1 DEF Staging
  <2>2. \A n \in Model : EarlyApproval(n)' = EarlyApproval(n)
    BY <1>1 DEF EarlyApproval
  <2>3. ASSUME NEW t \in Trainer, NEW n \in Model, NEW w \in Version, Staging(t, n, w),
               ~EarlyApproval(n)
        PROVE  /\ stage'[n][w] = "None"
               /\ \A q \in Promoter :
                    /\ promotion'[q].pc \in Promoting \ {"fetch"}
                    /\ promotion'[q].model = n
                    /\ promotion'[q].version = w
                    => promotion'[q].from = "None"
    <3>1. ~(n = m /\ w = v)
      BY <1>7, <2>3
    <3>2. stage[n][w] = "None"
      BY <2>3 DEF IInv, StagingInOrder
    <3>3. stage'[n][w] = "None"
      BY <1>4, <3>1, <3>2
    <3>4. \A q \in Promoter : promotion'[q].pc \in Promoting => promotion'[q] = promotion[q]
      BY <1>5 DEF Promoting
    <3>. QED  BY <2>3, <3>3, <3>4 DEF IInv, StagingInOrder
  <2>4. \A t \in Trainer, n \in Model, w \in Version :
          Staging(t, n, w) => stage'[n][w] # "absent"
    BY <1>4 DEF IInv, StagingInOrder
  <2>5. \A t \in Trainer : training'[t].pc = "stage" =>
          training'[t].next \in DOMAIN TrainingOrder /\ training'[t].version \in Version
    BY <1>1 DEF IInv, StagingInOrder
  <2>6. \A t, u \in Trainer, n \in Model, w \in Version :
          Staging(t, n, w) /\ Staging(u, n, w) => u = t
    BY DEF IInv, StagingInOrder
  <2>. QED  BY <2>1, <2>2, <2>3, <2>4, <2>5, <2>6 DEF StagingInOrder
<1>11. AutomatedInOrder'
  BY <1>1, <1>5, Tasks DEF IInv, AutomatedInOrder, Promoting
<1>12. ProductionApproved'
  BY <1>1, <1>4, <1>6 DEF IInv, ProductionApproved, HasApproval
<1>13. OneProduction'
  BY <1>2, <1>4 DEF IInv, OneProduction, InStage
<1>. QED  BY <1>8, <1>9, <1>10, <1>11, <1>12, <1>13 DEF Ordered

(***************************************************************************)
(* Theorems                                                                *)
(***************************************************************************)
LEMMA InitIInv == Init => IInv
<1>. SUFFICES ASSUME Init PROVE IInv
  OBVIOUS
<1>1. TypeOK
  BY InitType
<1>2. PromotionsInOrder /\ ApprovedExist
  BY DEF Init, PromotionsInOrder, ApprovedExist, Idle, Promoting
<1>3. StagingInOrder
  BY DEF Init, StagingInOrder, Staging, NotTraining
<1>4. AutomatedInOrder
  BY Tasks DEF Init, AutomatedInOrder, Idle, Promoting
<1>5. ProductionApproved /\ OneProduction
  BY DEF Init, ProductionApproved, OneProduction, InStage
<1>. QED  BY <1>1, <1>2, <1>3, <1>4, <1>5 DEF IInv

LEMMA NextIInv == IInv /\ [Next]_vars => IInv'
<1>. SUFFICES ASSUME IInv, [Next]_vars PROVE IInv'
  OBVIOUS
<1>1. TypeOK'
  BY NextType DEF IInv
<1>2. Ordered'
  BY DagSteps, OrphanStep, ReportStep, PromotionSteps, TriggerStep, RegisterStep, StageStep,
     ApprovalStep, TransitionStep
  DEF Next, DriftStep, TrainingStep, CheckStep, AutoPromotionStep, PromotionStep
<1>. QED  BY <1>1, <1>2 DEF IInv, Ordered

LEMMA Invariance == Spec => []IInv
BY InitIInv, NextIInv, PTL DEF Spec

(* Every value stays in its type.                                          *)
THEOREM TypeCorrect == Spec => []TypeOK
BY Invariance, PTL DEF IInv

(* No version is, or was, in Production without an approval row, whoever   *)
(* promoted it and wherever a promotion died.                              *)
THEOREM Approved == Spec => []ProductionApproved
BY Invariance, PTL DEF IInv

(* However many promotions of a model run at once, at most one version of  *)
(* it is in Production.                                                    *)
THEOREM UniqueProduction == Spec => []OneProduction
BY Invariance, PTL DEF IInv

(* What the automated policy promotes has cleared its gates.               *)
THEOREM AutomationGated == Spec => []AutoPromotionGated
<1>1. IInv => AutoPromotionGated
  BY DEF IInv, AutomatedInOrder, AutoPromotionGated
<1>. QED  BY <1>1, Invariance, PTL

(* Stages and approvals change in four actions only.                       *)
LEMMA StageMoves ==
  ASSUME [Next]_vars
  PROVE  \/ UNCHANGED <<stage, approvals>>
         \/ \E t \in Trainer : RegisterVersion(t) \/ StageVersion(t)
         \/ \E p \in Promoter : RecordModelApproval(p) \/ TransitionToProduction(p)
<1>. USE DEF registry, postgres
<1>1. DriftStep \/ TriggerRetrainDies \/ StartDailyRetrain \/ StartDriftRun \/ UNCHANGED vars
        => UNCHANGED <<stage, approvals>>
  BY DEF DriftStep, DecideNextStep, TriggerRetrain, TriggerPromotionCheck, DriftTaskFails,
         TriggerRetrainDies, StartDailyRetrain, StartDriftRun, vars
<1>2. \A t \in Trainer : FinishTraining(t) \/ TrainingFails(t) => UNCHANGED <<stage, approvals>>
  BY DEF FinishTraining, TrainingFails
<1>3. /\ \A n \in Model : CheckStep(n) => UNCHANGED <<stage, approvals>>
      /\ \A k \in Task : AutoPromotionStep(k) => UNCHANGED <<stage, approvals>>
  BY DEF CheckStep, AutoPromotionStep, SkipCheck, RecordDriftReport, CheckFails, PushMetricsFails,
         ReadDriftReport, EvaluateCandidate
<1>4. \A p \in Staff, n \in Model, v \in Version :
        RunPromoteScript(p, n, v) => UNCHANGED <<stage, approvals>>
  BY DEF RunPromoteScript
<1>5. \A p \in Promoter : FetchVersion(p) \/ CheckApproval(p) \/ PromotionFails(p)
        => UNCHANGED <<stage, approvals>>
  BY DEF FetchVersion, CheckApproval, PromotionFails
<1>. QED  BY <1>1, <1>2, <1>3, <1>4, <1>5 DEF Next, TrainingStep, PromotionStep

(* A version leaves Production only when another takes its place, or when  *)
(* the training run that registered it moves it to Staging after all.      *)
LEMMA ProductionStep ==
  ASSUME IInv, [Next]_vars, NEW m \in Model, InStage(m, "Production") # {},
         \A a \in approvals : a.model = m => a.from # "None"
  PROVE  \E v \in Version : stage'[m][v] = "Production"
<1>0. PICK w \in Version : stage[m][w] = "Production"
  BY DEF InStage
<1>1. stage \in [Model -> [Version -> Stage]]
  BY DEF IInv, TypeOK
<1>. USE DEF registry
<1>2. CASE UNCHANGED stage
  BY <1>0, <1>2
<1>3. ASSUME NEW t \in Trainer, RegisterVersion(t)
      PROVE  stage'[m][w] = "Production"
  <2>1. PICK n \in Model, v \in Version :
          stage[n][v] = "absent" /\ stage' = [stage EXCEPT ![n][v] = "None"]
    <3>1. TrainingOrder[training[t].next] \in Model
      BY <1>3, RegistryAssumption DEF RegisterVersion
    <3>. QED  BY <1>3, <3>1 DEF RegisterVersion
  <2>. QED  BY <1>0, <1>1, <2>1
<1>4. ASSUME NEW t \in Trainer, StageVersion(t)
      PROVE  stage'[m][w] = "Production"
  <2>. DEFINE n == TrainingOrder[training[t].next]
              v == training[t].version
  <2>1. stage' = [stage EXCEPT ![n][v] = "Staging"] /\ training[t].pc = "stage"
    BY <1>4 DEF StageVersion
  <2>2. n \in Model /\ v \in Version
    BY <2>1, RegistryAssumption DEF IInv, StagingInOrder
  <2>3. Staging(t, n, v)
    BY <2>1 DEF Staging
  <2>4. ~(n = m /\ v = w)
    BY <1>0, <2>2, <2>3 DEF IInv, StagingInOrder, EarlyApproval
  <2>. HIDE DEF n, v
  <2>. QED  BY <1>0, <1>1, <2>1, <2>2, <2>4
<1>5. ASSUME NEW p \in Promoter, TransitionToProduction(p)
      PROVE  \E v \in Version : stage'[m][v] = "Production"
  <2>. DEFINE n == promotion[p].model
              v == promotion[p].version
  <2>1. /\ stage' = [stage EXCEPT ![n] = Promoted(stage[n], v)]
        /\ promotion[p].pc = "transition"
    BY <1>5 DEF TransitionToProduction
  <2>2. n \in Model /\ v \in Version
    BY <2>1 DEF IInv, PromotionsInOrder, Promoting
  <2>. HIDE DEF n, v
  <2>3. CASE n = m
    BY <1>1, <2>1, <2>2, <2>3 DEF Promoted
  <2>4. CASE n # m
    BY <1>0, <1>1, <2>1, <2>4
  <2>. QED  BY <2>3, <2>4
<1>6. \/ UNCHANGED stage
      \/ \E t \in Trainer : RegisterVersion(t) \/ StageVersion(t)
      \/ \E p \in Promoter : TransitionToProduction(p)
  BY StageMoves DEF RecordModelApproval
<1>. QED  BY <1>2, <1>3, <1>4, <1>5, <1>6

(* No step of any process leaves a model that has a Production version     *)
(* without one, as long as every promotion of it was from a real stage.    *)
THEOREM ProductionKept == Spec => ProductionStays
<1>. DEFINE Kept == \A m \in Model :
              /\ InStage(m, "Production") # {}
              /\ \A a \in approvals : a.model = m => a.from # "None"
              => (\E v \in Version : stage'[m][v] = "Production")
<1>1. IInv /\ [Next]_vars => Kept
  BY ProductionStep
<1>2. IInv /\ [Next]_vars => [Kept]_vars
  BY <1>1
<1>. QED  BY <1>2, Invariance, PTL DEF Spec, ProductionStays

(***************************************************************************)
(* What a retrain leaves for the promotion behind it                       *)
(***************************************************************************)
Superseded(m) ==
  \E a \in approvals : a.model = m /\ a.version >= retrained[m]

(* A retrain leaves its version in Staging, until somebody promotes it.    *)
Retained(m) ==
  retrained[m] = 0 \/ stage[m][retrained[m]] = "Staging" \/ Superseded(m)

(* A drift run trains, then promotes, then the next one starts.            *)
OneAtATime ==
  /\ training["drift_triggered"].pc # "idle" => drift = "retraining"
  /\ drift \in {"checking", "retrain", "retraining"} =>
       \A k \in Task : promotion[k].pc = "idle"

RetrainInOrder ==
  OneAtATime /\ (\A m \in Model : Retained(m)) /\ FreshUnlessApproved

LEMMA StagedVersion ==
  ASSUME IInv, NEW t \in Trainer, StageVersion(t)
  PROVE  /\ TrainingOrder[training[t].next] \in Model
         /\ training[t].version \in Version
         /\ UNCHANGED approvals
         /\ stage' = [stage EXCEPT ![TrainingOrder[training[t].next]][training[t].version] = "Staging"]
BY RegistryAssumption DEF StageVersion, IInv, StagingInOrder, postgres

(* Only a promotion of that very version moves the retrained one out of    *)
(* Staging, and it has an approval row.                                    *)
LEMMA RetainedStays ==
  ASSUME IInv, RetrainInOrder, [Next]_vars, NEW m \in Model, retrained'[m] = retrained[m]
  PROVE  Retained(m)'
<1>. DEFINE w == retrained[m]
<1>2. Retained(m)
  BY DEF RetrainInOrder
<1>1. /\ stage \in [Model -> [Version -> Stage]] /\ approvals \subseteq Approval
      /\ w = 0 \/ (w \in Version /\ w \in Int)
  <2>1. w \in 0 .. MaxVersion
    BY DEF IInv, TypeOK
  <2>. QED  BY <2>1, RegistryAssumption DEF IInv, TypeOK, Version
<1>3. CASE w = 0
  BY <1>3 DEF Retained
<1>4. CASE w # 0 /\ Superseded(m)
  <2>1. approvals \subseteq approvals'
    BY StageMoves DEF RegisterVersion, StageVersion, RecordModelApproval, TransitionToProduction,
                      postgres
  <2>. QED  BY <1>4, <2>1 DEF Superseded, Retained
<1>5. CASE w # 0 /\ stage[m][w] = "Staging"
  <2>0. w \in Version
    BY <1>1, <1>5
  <2>1. CASE UNCHANGED stage
    BY <1>5, <2>1 DEF Retained
  <2>2. ASSUME NEW t \in Trainer, RegisterVersion(t)
        PROVE  stage'[m][w] = "Staging"
    <3>1. PICK n \in Model, v \in Version :
            stage[n][v] = "absent" /\ stage' = [stage EXCEPT ![n][v] = "None"]
      <4>1. TrainingOrder[training[t].next] \in Model
        BY <2>2, RegistryAssumption DEF RegisterVersion
      <4>. QED  BY <2>2, <4>1 DEF RegisterVersion
    <3>. HIDE DEF w
    <3>. QED  BY <1>1, <1>5, <2>0, <3>1
  <2>3. ASSUME NEW t \in Trainer, StageVersion(t)
        PROVE  stage'[m][w] = "Staging"
    <3>1. PICK n \in Model, v \in Version : stage' = [stage EXCEPT ![n][v] = "Staging"]
      BY <2>3, StagedVersion
    <3>. HIDE DEF w
    <3>. QED  BY <1>1, <1>5, <2>0, <3>1
  <2>4. ASSUME NEW p \in Promoter, TransitionToProduction(p)
        PROVE  stage'[m][w] = "Staging" \/ Superseded(m)'
    <3>. DEFINE n == promotion[p].model
                v == promotion[p].version
                a == [model |-> n, version |-> v, from |-> promotion[p].from, by |-> p]
    <3>1. /\ stage' = [stage EXCEPT ![n] = Promoted(stage[n], v)]
          /\ promotion[p].pc = "transition" /\ UNCHANGED approvals
      BY <2>4 DEF TransitionToProduction, postgres
    <3>2. n \in Model /\ v \in Version /\ a \in approvals
      BY <3>1 DEF IInv, PromotionsInOrder, Promoting
    <3>3. a.model = n /\ a.version = v
      OBVIOUS
    <3>. HIDE DEF n, v, a
    <3>5. CASE n = m /\ v = w
      <4>1. a \in approvals' /\ a.model = m /\ a.version = retrained'[m]
        BY <3>1, <3>2, <3>3, <3>5
      <4>2. retrained'[m] \in Int
        BY <1>1, <1>5
      <4>. QED  BY <4>1, <4>2 DEF Superseded
    <3>6. CASE ~(n = m /\ v = w)
      <4>. HIDE DEF w
      <4>. QED  BY <1>1, <1>5, <2>0, <3>1, <3>2, <3>6 DEF Promoted
    <3>. QED  BY <3>5, <3>6
  <2>5. \/ UNCHANGED stage
        \/ \E t \in Trainer : RegisterVersion(t) \/ StageVersion(t)
        \/ \E p \in Promoter : TransitionToProduction(p)
    BY StageMoves DEF RecordModelApproval, registry
  <2>. QED  BY <2>1, <2>2, <2>3, <2>4, <2>5 DEF Retained
<1>. QED  BY <1>2, <1>3, <1>4, <1>5 DEF Retained

(* A step that starts no promotion but of a fresh version.                 *)
LEMMA RetrainUntouched ==
  ASSUME IInv, RetrainInOrder, [Next]_vars, UNCHANGED retrained, OneAtATime',
         \A k \in Task : promotion'[k].pc \in Promoting /\ promotion'[k].version < retrained[k[1]]
                         => Superseded(k[1]) \/
                            (promotion[k].pc \in Promoting /\ promotion[k].version < retrained[k[1]])
  PROVE  RetrainInOrder'
<1>1. \A m \in Model : Retained(m)'
  BY RetainedStays
<1>2. approvals \subseteq approvals'
  BY StageMoves DEF RegisterVersion, StageVersion, RecordModelApproval, TransitionToProduction,
                    postgres
<1>3. FreshUnlessApproved'
  BY <1>2 DEF RetrainInOrder, FreshUnlessApproved, Superseded
<1>. QED  BY <1>1, <1>3 DEF RetrainInOrder

LEMMA RetrainElsewhere ==
  ASSUME IInv, RetrainInOrder, [Next]_vars, UNCHANGED <<promotion, retrained>>, OneAtATime'
  PROVE  RetrainInOrder'
<1>1. UNCHANGED retrained /\ UNCHANGED promotion
  OBVIOUS
<1>. QED  BY <1>1, RetrainUntouched

LEMMA RetrainTraining ==
  ASSUME IInv, RetrainInOrder, [Next]_vars, NEW t \in Trainer,
         RegisterVersion(t) \/ FinishTraining(t) \/ TrainingFails(t)
  PROVE  RetrainInOrder'
<1>. DEFINE d == "drift_triggered"
<1>1. training \in [Trainer -> TrainingRun] /\ d \in Trainer
  BY DEF IInv, TypeOK, Trainer
<1>2. UNCHANGED <<promotion, retrained>>
  BY DEF RegisterVersion, FinishTraining, TrainingFails
<1>3. training[d].pc # "idle" => drift = "retraining"
  BY DEF RetrainInOrder, OneAtATime
<1>4. drift \in {"checking", "retrain", "retraining"} => \A k \in Task : promotion[k].pc = "idle"
  BY DEF RetrainInOrder, OneAtATime
<1>5. training'[t].pc # "idle" => training[t].pc # "idle"
  <2>1. training[t].pc # "idle"
    BY DEF RegisterVersion, FinishTraining, TrainingFails
  <2>. QED  BY <2>1
<1>6. \A u \in Trainer \ {t} : training'[u] = training[u]
  BY <1>1 DEF RegisterVersion, FinishTraining, TrainingFails
<1>7. CASE t # d \/ RegisterVersion(t)
  <2>1. UNCHANGED drift
    BY <1>7 DEF RegisterVersion, FinishTraining, TrainingFails
  <2>2. training'[d].pc # "idle" => training[d].pc # "idle"
    BY <1>1, <1>5, <1>6
  <2>3. OneAtATime'
    BY <1>2, <1>3, <1>4, <2>1, <2>2 DEF OneAtATime
  <2>. QED  BY <1>2, <2>3, RetrainElsewhere
<1>8. CASE t = d /\ FinishTraining(t)
  <2>1. drift' = "promote" /\ training'[d].pc = "idle"
    BY <1>1, <1>8 DEF FinishTraining, NotTraining
  <2>2. OneAtATime'
    BY <2>1 DEF OneAtATime
  <2>. QED  BY <1>2, <2>2, RetrainElsewhere
<1>9. CASE t = d /\ TrainingFails(t)
  <2>1. drift = "retraining" /\ \A k \in Task : promotion'[k].pc = "idle"
    BY <1>2, <1>3, <1>4, <1>9 DEF TrainingFails
  <2>2. UNCHANGED drift \/ training'[d].pc = "idle"
    BY <1>1, <1>9 DEF TrainingFails, NotTraining
  <2>3. OneAtATime'
    BY <2>1, <2>2 DEF OneAtATime
  <2>. QED  BY <1>2, <2>3, RetrainElsewhere
<1>. QED  BY <1>7, <1>8, <1>9

(* The version a drift-triggered run stages is the retrained one, and no   *)
(* automated promotion is under way.                                       *)
LEMMA RetrainStaging ==
  ASSUME IInv, RetrainInOrder, [Next]_vars, NEW t \in Trainer, StageVersion(t)
  PROVE  RetrainInOrder'
<1>. DEFINE n == TrainingOrder[training[t].next]
            v == training[t].version
<1>1. /\ training \in [Trainer -> TrainingRun] /\ "drift_triggered" \in Trainer
      /\ stage \in [Model -> [Version -> Stage]] /\ retrained \in [Model -> 0 .. MaxVersion]
  BY DEF IInv, TypeOK, Trainer
<1>2. /\ UNCHANGED <<promotion, drift>> /\ n \in Model /\ v \in Version
      /\ training[t].pc = "stage"
      /\ stage' = [stage EXCEPT ![n][v] = "Staging"]
      /\ retrained' = IF t = "drift_triggered" THEN [retrained EXCEPT ![n] = v] ELSE retrained
  BY StagedVersion DEF StageVersion
<1>3. \A u \in Trainer : training'[u].pc # "idle" => training[u].pc # "idle"
  <2>1. \A u \in Trainer \ {t} : training'[u] = training[u]
    BY <1>1 DEF StageVersion
  <2>. QED  BY <1>2, <2>1
<1>4. OneAtATime'
  <2>. HIDE DEF n, v
  <2>. QED  BY <1>1, <1>2, <1>3 DEF RetrainInOrder, OneAtATime
<1>6. CASE t # "drift_triggered"
  <2>1. UNCHANGED <<retrained, promotion>>
    BY <1>2, <1>6
  <2>. QED  BY <1>4, <2>1, RetrainElsewhere
<1>7. CASE t = "drift_triggered"
  <2>1. \A k \in Task : promotion'[k].pc = "idle"
    BY <1>2, <1>7 DEF RetrainInOrder, OneAtATime
  <2>2. ASSUME NEW m \in Model PROVE Retained(m)'
    <3>1. CASE m = n
      BY <1>1, <1>2, <1>7, <3>1 DEF Retained
    <3>2. CASE m # n
      <4>1. retrained'[m] = retrained[m]
        BY <1>1, <1>2, <3>2
      <4>. QED  BY <4>1, RetainedStays
    <3>. QED  BY <3>1, <3>2
  <2>3. FreshUnlessApproved'
    BY <2>1 DEF FreshUnlessApproved, Promoting
  <2>. QED  BY <1>4, <2>2, <2>3 DEF RetrainInOrder
<1>. QED  BY <1>6, <1>7

LEMMA RetrainDag ==
  ASSUME IInv, RetrainInOrder, [Next]_vars,
         StartDailyRetrain \/ StartDriftRun \/ DriftStep \/ TriggerRetrainDies \/ UNCHANGED vars
         \/ \E m \in Model : CheckStep(m)
  PROVE  RetrainInOrder'
<1>. USE DEF registry, postgres, dags
<1>0. /\ training \in [Trainer -> TrainingRun]
      /\ "drift_triggered" \in Trainer /\ "orphaned" \in Trainer
  BY DEF IInv, TypeOK, Trainer
<1>1. /\ training["drift_triggered"].pc # "idle" => drift = "retraining"
      /\ drift \in {"checking", "retrain", "retraining"} => \A k \in Task : promotion[k].pc = "idle"
  BY DEF RetrainInOrder, OneAtATime
<1>2. CASE StartDailyRetrain \/ UNCHANGED vars \/ \E m \in Model : CheckStep(m)
  <2>1. UNCHANGED <<drift, promotion, retrained>>
    BY <1>2 DEF StartDailyRetrain, vars, CheckStep, SkipCheck, RecordDriftReport, CheckFails,
                PushMetricsFails
  <2>2. training'["drift_triggered"] = training["drift_triggered"]
    BY <1>0, <1>2 DEF StartDailyRetrain, Begin, vars, CheckStep, SkipCheck, RecordDriftReport,
                      CheckFails, PushMetricsFails
  <2>3. OneAtATime'
    BY <1>1, <2>1, <2>2 DEF OneAtATime
  <2>. QED  BY <2>1, <2>3, RetrainElsewhere
<1>3. CASE TriggerRetrain
  <2>1. UNCHANGED <<promotion, retrained>> /\ drift = "retrain" /\ drift' = "retraining"
    BY <1>3 DEF TriggerRetrain
  <2>2. OneAtATime'
    BY <1>1, <2>1 DEF OneAtATime
  <2>. QED  BY <2>1, <2>2, RetrainElsewhere
<1>4. CASE StartDriftRun \/ DecideNextStep
  <2>1. UNCHANGED <<training, promotion, retrained>> /\ drift # "retraining"
    BY <1>4 DEF StartDriftRun, DecideNextStep
  <2>2. drift' # "idle" => \A k \in Task : promotion[k].pc = "idle"
    BY <1>1, <1>4 DEF StartDriftRun, DecideNextStep
  <2>3. OneAtATime'
    BY <1>1, <2>1, <2>2 DEF OneAtATime
  <2>. QED  BY <2>1, <2>3, RetrainElsewhere
<1>5. CASE DriftTaskFails
  <2>1. UNCHANGED <<training, promotion, retrained>> /\ drift # "retraining"
    BY <1>5 DEF DriftTaskFails
  <2>2. drift' \in {"idle", drift}
    BY <1>5 DEF DriftTaskFails, TriggerAttemptFails
  <2>3. OneAtATime'
    BY <1>1, <2>1, <2>2 DEF OneAtATime
  <2>. QED  BY <2>1, <2>3, RetrainElsewhere
<1>6. CASE TriggerRetrainDies
  <2>1. UNCHANGED <<promotion, retrained>> /\ drift = "retraining" /\ drift' # "retraining"
    BY <1>6 DEF TriggerRetrainDies, TriggerAttemptFails
  <2>2. training'["drift_triggered"].pc = "idle"
    BY <1>0, <1>6 DEF TriggerRetrainDies, NotTraining
  <2>3. OneAtATime'
    BY <1>1, <2>1, <2>2 DEF OneAtATime
  <2>. QED  BY <2>1, <2>3, RetrainElsewhere
<1>7. CASE TriggerPromotionCheck
  <2>1. drift = "promote" /\ drift' \in {"idle", "promote"} /\ UNCHANGED <<training, retrained>>
    BY <1>7 DEF TriggerPromotionCheck, TriggerAttemptFails
  <2>2. OneAtATime'
    BY <1>1, <2>1 DEF OneAtATime
  <2>3. \A k \in Task : promotion'[k].pc = "report" \/ promotion'[k] = promotion[k]
    BY <1>7, Tasks DEF TriggerPromotionCheck, Idle
  <2>4. \A k \in Task : promotion'[k].pc \in Promoting => promotion'[k] = promotion[k]
    BY <2>3 DEF Promoting
  <2>5. UNCHANGED retrained
    BY <2>1
  <2>. QED  BY <2>2, <2>4, <2>5, RetrainUntouched
<1>. QED  BY <1>2, <1>3, <1>4, <1>5, <1>6, <1>7 DEF DriftStep

(* The candidate is the retrained version or a later one, as long as the   *)
(* retrained one is in Staging.                                            *)
LEMMA CandidateFresh ==
  ASSUME IInv, RetrainInOrder, NEW k \in Task, EvaluateCandidate(k)
  PROVE  /\ promotion'[k].pc \in {"idle", "fetch"}
         /\ promotion'[k].pc = "fetch" /\ promotion'[k].version < retrained[k[1]]
              => Superseded(k[1])
<1>1. /\ promotion \in [Promoter -> Promotion] /\ k \in Promoter /\ k[1] \in Model
      /\ retrained[k[1]] \in 0 .. MaxVersion
  BY Tasks DEF IInv, TypeOK
<1>2. CASE promotion' = [promotion EXCEPT ![k] = Idle]
  BY <1>1, <1>2 DEF Idle
<1>3. ASSUME NEW v \in LatestStaging(k[1]),
             promotion' = [promotion EXCEPT ![k] = [promotion[k] EXCEPT !.pc = "fetch", !.version = v]]
      PROVE  /\ promotion'[k].pc = "fetch"
             /\ promotion'[k].version < retrained[k[1]] => Superseded(k[1])
  <2>. DEFINE m == k[1]
  <2>1. promotion'[k].pc = "fetch" /\ promotion'[k].version = v
    BY <1>1, <1>3 DEF Promotion
  <2>2. Retained(m)
    BY <1>1 DEF RetrainInOrder
  <2>3. v \in Version /\ \A w \in Version : stage[m][w] = "Staging" => w <= v
    BY DEF LatestStaging, InStage
  <2>4. ASSUME v < retrained[m] PROVE Superseded(m)
    <3>1. retrained[m] # 0 /\ retrained[m] \in Version
      BY <1>1, <2>3, <2>4, RegistryAssumption DEF Version
    <3>2. stage[m][retrained[m]] # "Staging"
      BY <2>3, <2>4, <3>1, RegistryAssumption DEF Version
    <3>. QED  BY <2>2, <3>1, <3>2 DEF Retained
  <2>. QED  BY <2>1, <2>4
<1>. QED  BY <1>2, <1>3 DEF EvaluateCandidate

LEMMA RetrainPromotion ==
  ASSUME IInv, RetrainInOrder, [Next]_vars,
         \/ \E k \in Task : AutoPromotionStep(k)
         \/ \E p \in Staff, m \in Model, v \in Version : RunPromoteScript(p, m, v)
         \/ \E p \in Promoter : PromotionStep(p)
  PROVE  RetrainInOrder'
<1>. USE DEF registry, postgres, dags
<1>0. promotion \in [Promoter -> Promotion] /\ Task \subseteq Promoter /\ Staff \cap Task = {}
  BY Tasks DEF IInv, TypeOK
<1>1. UNCHANGED <<training, drift, retrained>>
  BY DEF AutoPromotionStep, ReadDriftReport, EvaluateCandidate, RunPromoteScript, PromotionStep,
         FetchVersion, RecordModelApproval, CheckApproval, TransitionToProduction, PromotionFails
<1>2. ASSUME NEW k \in Task
      PROVE  /\ promotion[k].pc = "idle" => promotion'[k].pc = "idle"
             /\ promotion'[k].pc \in Promoting /\ promotion'[k].version < retrained[k[1]]
                  => Superseded(k[1]) \/
                     (promotion[k].pc \in Promoting /\ promotion[k].version < retrained[k[1]])
  <2>1. CASE ReadDriftReport(k)
    BY <1>0, <2>1 DEF ReadDriftReport, Idle, Promotion, Promoting
  <2>2. CASE EvaluateCandidate(k)
    <3>1. promotion[k].pc = "candidate"
      BY <2>2 DEF EvaluateCandidate
    <3>2. /\ promotion'[k].pc \in {"idle", "fetch"}
          /\ promotion'[k].pc = "fetch" /\ promotion'[k].version < retrained[k[1]]
               => Superseded(k[1])
      BY <2>2, CandidateFresh
    <3>3. promotion[k].pc # "idle"
      BY <3>1
    <3>4. promotion'[k].pc \in Promoting => promotion'[k].pc = "fetch"
      BY <3>2 DEF Promoting
    <3>5. promotion'[k].pc \in Promoting /\ promotion'[k].version < retrained[k[1]]
            => Superseded(k[1])
      BY <3>2, <3>4, Zenon
    <3>. QED  BY <3>3, <3>5, Zenon
  <2>3. CASE PromotionStep(k)
    <3>1. \/ promotion' = [promotion EXCEPT ![k] = Idle]
          \/ \E s : promotion' = [promotion EXCEPT ![k] = [@ EXCEPT !.pc = "record", !.from = s]]
          \/ \E pc : promotion' = [promotion EXCEPT ![k] = [@ EXCEPT !.pc = pc]]
                     /\ pc \in Promoting
      BY <2>3 DEF PromotionStep, FetchVersion, RecordModelApproval, CheckApproval,
                  TransitionToProduction, PromotionFails, Promoting
    <3>2. promotion[k].pc \in Promoting \/ promotion' = [promotion EXCEPT ![k] = Idle]
      BY <2>3 DEF PromotionStep, FetchVersion, RecordModelApproval, CheckApproval,
                  TransitionToProduction, PromotionFails, Promoting
    <3>3. \/ promotion'[k] = Idle
          \/ promotion[k].pc \in Promoting /\ promotion'[k].version = promotion[k].version
             /\ promotion'[k].pc \in Promoting
      BY <1>0, <3>1, <3>2 DEF Promotion, Promoting
    <3>. QED  BY <3>3 DEF Idle, Promoting
  <2>4. ASSUME NEW p \in Promoter, p # k,
               PromotionStep(p) \/ (p \in Task /\ AutoPromotionStep(p))
               \/ \E n \in Model, v \in Version : RunPromoteScript(p, n, v)
        PROVE  promotion'[k] = promotion[k]
    BY <1>0, <2>4 DEF PromotionStep, FetchVersion, RecordModelApproval, CheckApproval,
                      TransitionToProduction, PromotionFails, AutoPromotionStep, ReadDriftReport,
                      EvaluateCandidate, RunPromoteScript
  <2>5. CASE promotion'[k] = promotion[k]
    BY <2>5
  <2>. QED  BY <1>0, <2>1, <2>2, <2>3, <2>4, <2>5, Tasks DEF AutoPromotionStep
<1>3. OneAtATime'
  BY <1>1, <1>2 DEF RetrainInOrder, OneAtATime
<1>4. UNCHANGED retrained
  BY <1>1
<1>. QED  BY <1>2, <1>3, <1>4, RetrainUntouched

(* The automated policy promotes what the retrain behind it staged, or     *)
(* something newer, unless that was approved meanwhile, by a person or in  *)
(* the run of another attempt of the trigger: for any number of models,    *)
(* versions, drift runs, attempts and failures.                            *)
THEOREM FreshPromotion == Spec => []FreshUnlessApproved
<1>1. ASSUME Init PROVE RetrainInOrder
  <2>1. /\ drift = "idle" /\ \A m \in Model : retrained[m] = 0
        /\ \A k \in Task : promotion[k].pc = "idle"
        /\ training["drift_triggered"].pc = "idle"
    BY <1>1, Tasks DEF Init, Idle, NotTraining, Trainer
  <2>2. OneAtATime
    BY <2>1 DEF OneAtATime
  <2>3. \A m \in Model : Retained(m)
    BY <2>1 DEF Retained
  <2>4. FreshUnlessApproved
    BY <2>1 DEF FreshUnlessApproved, Promoting
  <2>. QED  BY <2>2, <2>3, <2>4 DEF RetrainInOrder
<1>2. IInv /\ RetrainInOrder /\ [Next]_vars => RetrainInOrder'
  BY RetrainTraining, RetrainStaging, RetrainDag, RetrainPromotion DEF Next, TrainingStep
<1>3. RetrainInOrder => FreshUnlessApproved
  BY DEF RetrainInOrder
<1>. QED  BY <1>1, <1>2, <1>3, Invariance, PTL DEF Spec

(***************************************************************************)
(* The refinement of ProductionPointer                                     *)
(***************************************************************************)
Served == [m \in Model |-> InStage(m, "Production")]

(* A step that changes neither stages nor approvals is a stuttering step.  *)
LEMMA PointerStutters ==
  ASSUME UNCHANGED <<stage, approvals>>
  PROVE  UNCHANGED <<Served, Signed, Hasty>>
BY DEF Served, Signed, Hasty, InStage

LEMMA ApprovalSigns ==
  ASSUME IInv, NEW p \in Promoter, RecordModelApproval(p)
  PROVE  Pointer!Next
<1>. DEFINE m == promotion[p].model
            v == promotion[p].version
            a == [model |-> m, version |-> v, from |-> promotion[p].from, by |-> p]
<1>1. m \in Model /\ v \in Version
  BY DEF RecordModelApproval, IInv, PromotionsInOrder, Promoting
<1>2. approvals' = approvals \cup {a} /\ UNCHANGED stage
  BY DEF RecordModelApproval, registry
<1>3. a.model = m /\ a.version = v
  OBVIOUS
<1>. HIDE DEF a, m, v
<1>4. Signed' = Signed \cup {<<m, v>>}
  BY <1>2, <1>3 DEF Signed
<1>5. Hasty' \in {Hasty, Hasty \cup {m}}
  <2>1. CASE a.from = "None"
    <3>1. Hasty' = Hasty \cup {m}
      BY <1>1, <1>2, <1>3, <2>1 DEF Hasty
    <3>. QED  BY <3>1
  <2>2. CASE a.from # "None"
    <3>1. Hasty' = Hasty
      BY <1>1, <1>2, <1>3, <2>2 DEF Hasty
    <3>. QED  BY <3>1
  <2>. QED  BY <2>1, <2>2
<1>6. UNCHANGED Served
  BY <1>2 DEF Served, InStage
<1>. QED  BY <1>1, <1>4, <1>5, <1>6 DEF Pointer!Next, Pointer!Sign, Served

LEMMA RegisterStutters ==
  ASSUME IInv, NEW t \in Trainer, RegisterVersion(t)
  PROVE  UNCHANGED <<Served, Signed, Hasty>>
<1>1. stage \in [Model -> [Version -> Stage]] /\ UNCHANGED approvals
  BY DEF IInv, TypeOK, RegisterVersion, postgres
<1>2. PICK n \in Model, v \in Version :
        stage[n][v] = "absent" /\ stage' = [stage EXCEPT ![n][v] = "None"]
  <2>1. TrainingOrder[training[t].next] \in Model
    BY RegistryAssumption DEF RegisterVersion
  <2>. QED  BY <2>1 DEF RegisterVersion
<1>3. \A m \in Model, w \in Version :
        stage'[m][w] = "Production" <=> stage[m][w] = "Production"
  BY <1>1, <1>2
<1>. QED  BY <1>1, <1>3 DEF Served, Signed, Hasty, InStage

LEMMA StagingKeepsOrWithdraws ==
  ASSUME IInv, NEW t \in Trainer, StageVersion(t)
  PROVE  Pointer!Next \/ UNCHANGED <<Served, Signed, Hasty>>
<1>. DEFINE n == TrainingOrder[training[t].next]
            v == training[t].version
<1>1. /\ stage' = [stage EXCEPT ![n][v] = "Staging"] /\ training[t].pc = "stage"
      /\ UNCHANGED approvals /\ stage \in [Model -> [Version -> Stage]]
  BY DEF StageVersion, IInv, TypeOK, postgres
<1>2. n \in Model /\ v \in Version
  BY <1>1, RegistryAssumption DEF IInv, StagingInOrder
<1>3. Staging(t, n, v)
  BY <1>1 DEF Staging
<1>4. UNCHANGED <<Signed, Hasty>>
  BY <1>1 DEF Signed, Hasty
<1>. HIDE DEF n, v
<1>5. CASE stage[n][v] # "Production"
  <2>1. \A m \in Model, w \in Version :
          stage'[m][w] = "Production" <=> stage[m][w] = "Production"
    BY <1>1, <1>2, <1>5
  <2>. QED  BY <1>4, <2>1 DEF Served, InStage
<1>6. CASE stage[n][v] = "Production"
  <2>1. n \in Hasty
    BY <1>2, <1>3, <1>6 DEF IInv, StagingInOrder, EarlyApproval, Hasty
  <2>2. \A w \in Version : stage[n][w] = "Production" => w = v
    BY <1>2, <1>6 DEF IInv, OneProduction, InStage
  <2>3. \A m \in Model, w \in Version :
          stage'[m][w] = "Production" <=> stage[m][w] = "Production" /\ m # n
    BY <1>1, <1>2, <2>2
  <2>4. Served' = [Served EXCEPT ![n] = {}]
    BY <1>2, <2>3 DEF Served, InStage
  <2>. QED  BY <1>2, <1>4, <2>1, <2>4 DEF Pointer!Next, Pointer!Withdraw, Served
<1>. QED  BY <1>5, <1>6

LEMMA TransitionSwitches ==
  ASSUME IInv, NEW p \in Promoter, TransitionToProduction(p)
  PROVE  Pointer!Next
<1>. DEFINE n == promotion[p].model
            v == promotion[p].version
            a == [model |-> n, version |-> v, from |-> promotion[p].from, by |-> p]
<1>1. /\ stage' = [stage EXCEPT ![n] = Promoted(stage[n], v)]
      /\ promotion[p].pc = "transition" /\ UNCHANGED approvals
      /\ stage \in [Model -> [Version -> Stage]]
  BY DEF TransitionToProduction, IInv, TypeOK, postgres
<1>2. n \in Model /\ v \in Version /\ a \in approvals
  BY <1>1 DEF IInv, PromotionsInOrder, Promoting
<1>3. <<n, v>> \in Signed
  <2>1. a.model = n /\ a.version = v
    OBVIOUS
  <2>. HIDE DEF a
  <2>. QED  BY <1>2, <2>1 DEF Signed
<1>4. UNCHANGED <<Signed, Hasty>>
  BY <1>1 DEF Signed, Hasty
<1>. HIDE DEF n, v, a
<1>5. \A m \in Model, w \in Version :
        stage'[m][w] = "Production" <=>
          IF m = n THEN w = v ELSE stage[m][w] = "Production"
  BY <1>1, <1>2 DEF Promoted
<1>6. Served' = [Served EXCEPT ![n] = {v}]
  BY <1>2, <1>5 DEF Served, InStage
<1>. QED  BY <1>2, <1>3, <1>4, <1>6 DEF Pointer!Next, Pointer!Switch, Served

LEMMA PointerStep ==
  ASSUME IInv, [Next]_vars
  PROVE  [Pointer!Next]_(Pointer!vars)
<1>1. Pointer!Next \/ UNCHANGED <<Served, Signed, Hasty>>
  BY StageMoves, PointerStutters, ApprovalSigns, RegisterStutters, StagingKeepsOrWithdraws,
     TransitionSwitches
<1>. QED  BY <1>1 DEF Pointer!vars, Served

LEMMA PointerInit == Init => Pointer!Init
BY DEF Init, Pointer!Init, InStage, Signed, Hasty

(* The registry, with all its processes and failures, implements a pointer *)
(* per model that moves in one step and only to what was signed for.       *)
THEOREM PointerImplemented == Spec => ImplementsPointer
BY PointerInit, PointerStep, Invariance, PTL DEF Spec, ImplementsPointer, Pointer!Spec
=============================================================================
