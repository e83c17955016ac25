SPECIFICATION FairSpec
CONSTANTS
  p1 = p1
  p2 = p2
  Dispatchers = {p1, p2}
  Counts = {1, 2}
  MaxLen = 2
  HighWater = 2
  MaxJobs = 3
INVARIANTS
  TypeOK
  DriftIsBounded
PROPERTIES
  RefusalsAreJustified
  EveryJobLeavesTheQueue
CHECK_DEADLOCK FALSE
