SPECIFICATION FairSpec
CHECK_DEADLOCK FALSE
CONSTANTS
  t1 = t1
  t2 = t2
  t3 = t3
  c1 = c1
  c2 = c2
  Txn = {t1, t2, t3}
  Card = {c1, c2}
  NoCard = NoCard
  NoTime = NoTime
  None = None
  FiveMinutes = 1
  OneHour = 2
  OneDay = 3
  Row <- RowsAndMalformed
  MaxOffsetsPerTrigger = 2
  MaxHistoryLen = 3
  Deployments <- AllDeployments
  MaxLog = 3
  MaxCrashes = 1
INVARIANTS
  CommittedPersisted
  CommittedAudited
  RedisKeepsUp
  WindowsComplete
  WindowsExactUnlessReplayed
PROPERTIES
  EveryRowCommitted
  ImplementsSink
