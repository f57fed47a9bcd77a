SPECIFICATION FairSpec
CHECK_DEADLOCK FALSE
CONSTANTS
  t1 = t1
  t2 = t2
  t3 = t3
  c1 = c1
  c2 = c2
  Txn = {t1, t2, t3}
  Card = {c1, c2}
  NoCard = NoCard
  NoTime = NoTime
  None = None
  FiveMinutes = 1
  OneHour = 2
  OneDay = 2
  Row <- TwoMalformed
  MaxOffsetsPerTrigger = 2
  MaxHistoryLen = 2
  Deployments <- KeptAndAware
  MaxLog = 3
  MaxCrashes = 0
PROPERTIES
  InvalidRowsSkipped
