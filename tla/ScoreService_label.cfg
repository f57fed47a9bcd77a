SPECIFICATION Spec
CHECK_DEADLOCK FALSE
CONSTANTS
  q1 = q1
  a1 = a1
  v1 = v1
  v2 = v2
  Boot = Boot
  None = None
  Request = {q1}
  Reloader = {a1}
  Version = {v1, v2}
  DatabaseMayFail = FALSE
  MaxPromotions = 2
  MaxCrashes = 0
INVARIANTS
  LabelTruthful
