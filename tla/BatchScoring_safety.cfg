SPECIFICATION Spec
CHECK_DEADLOCK FALSE
CONSTANTS
  NoDevice = NoDevice
  NoValue = NoValue
  FiveMinutes = 1
  OneHour = 3
  OneDay = 8
  Km <- MCKm
  Upload <- MCUpload
  Settings <- Defaults
  MaxVelocity = 2
  MinZScore = 5
  MaxSpeed = 900
  ModelScore = {20, 50, 80}
  MaxBatchRows = 3
  NumBuckets = 2
  MaxTopAlerts = 1
  MaxGeoPoints = 2
  Version = {v1, v2}
  NoModel = NoModel
  NoPayload = NoPayload
  MaxReloads = 1
INVARIANTS
  WindowsChronological
  CutKeepsEarliest
  DecisionsMonotone
  StrongRulesBlock
  FlaggedHasReason
  DashboardAddsUp
  PanelOfOneModel
