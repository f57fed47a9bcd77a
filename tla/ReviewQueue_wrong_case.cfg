SPECIFICATION Spec
CHECK_DEADLOCK FALSE
CONSTANTS
  t1 = t1
  t2 = t2
  ann = ann
  bob = bob
  etl = etl
  Script = {etl}
  None = None
  Txn = {t1}
  Analyst = {ann, bob}
  Label = {"confirmed_fraud"}
  View = {"pending", "resolved"}
  PageLimit = 1
  BacklogLimit = 1
  FetchLimit = 2
  MinExamples = 2
  MayFail = TRUE
  MaxPredictions = 2
  MaxRelabels = 1
INVARIANTS
  LabelsReviewedCase
