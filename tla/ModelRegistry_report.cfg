SPECIFICATION Spec
CHECK_DEADLOCK FALSE
CONSTANTS
  xgboost = xgboost
  lightgbm = lightgbm
  alice = alice
  None = None
  Model = {xgboost, lightgbm}
  TrainingOrder <- Both
  Staff = {alice}
  MaxVersion = 1
  Metrics <- TwoMetrics
  TasksMayDie = FALSE
  EnforcesLength = TRUE
  MaxDriftRuns = 1
  MaxDailyRuns = 1
  MaxScriptRuns = 1
  MinRecall = 70
  MinPrecision = 30
  MaxRecallGap = 15
  EnableAutomatedPromotion = TRUE
  TrainingRetries = 1
  DriftRetries = 1
INVARIANTS
  DriftReportStored
