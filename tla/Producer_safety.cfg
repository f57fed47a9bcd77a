SPECIFICATION FairSpec
CHECK_DEADLOCK FALSE
CONSTANTS
  c1 = c1
  c2 = c2
  p1 = p1
  p2 = p2
  Card = {c1, c2}
  Partition = {p1, p2}
  PartitionOf <- OnePerCard
  ClockSteps = {2}
  TravelDelays = {2}
  BurstSizes = {2}
  BurstGaps = {3}
  Tps = 2
  Interval = 1
  Attempts = 3
  MaxBuffer = 2
  MaxRounds = 2
  MaxOutages = 1
INVARIANTS
  CountersTruthful
  StopLosesNothing
  LatenessBounded
PROPERTIES
  ImplementsTopic
  StopEnds
