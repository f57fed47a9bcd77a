SPECIFICATION FairSpec
CHECK_DEADLOCK FALSE
CONSTANTS
  xgboost = xgboost
  lightgbm = lightgbm
  alice = alice
  None = None
  Model = {xgboost}
  TrainingOrder <- One
  Staff = {alice}
  MaxVersion = 2
  Metrics <- TwoMetrics
  TasksMayDie = TRUE
  EnforcesLength = FALSE
  MaxDriftRuns = 1
  MaxDailyRuns = 1
  MaxScriptRuns = 1
  MinRecall = 70
  MinPrecision = 30
  MaxRecallGap = 15
  EnableAutomatedPromotion = TRUE
  TrainingRetries = 1
  DriftRetries = 1
INVARIANTS
  ProductionApproved
  OneProduction
  AutoPromotionGated
  FreshUnlessApproved
PROPERTIES
  ImplementsPointer
  DriftRunEnds
