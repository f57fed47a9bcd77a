SPECIFICATION FairSpec
CHECK_DEADLOCK FALSE
CONSTANTS
  q1 = q1
  a1 = a1
  v1 = v1
  v2 = v2
  Boot = Boot
  None = None
  Request = {q1}
  Reloader = {a1}
  Version = {v1, v2}
  DatabaseMayFail = TRUE
  MaxPromotions = 2
  MaxCrashes = 1
INVARIANTS
  AnsweredRecorded
  CasesArePredicted
  SourceTruthful
  LabelTruthfulIfQuiet
  ExplanationTruthfulIfQuiet
  ReloadConverges
PROPERTIES
  EveryRequestEnds
