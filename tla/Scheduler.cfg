SPECIFICATION FairSpec
CONSTANTS
  i1 = i1
  i2 = i2
  s1 = s1
  s2 = s2
  Instances = {i1, i2}
  Nobody = Nobody
  Schedules = {s1}
  Crons = {0, 1, 2}
  WebOps = {"update", "skip", "delete"}
  Faults = {"connection", "tick"}
  Horizon = 2
  MaxFaults = 1
  MaxEdits = 1
INVARIANTS
  TypeOK
  LeaderFiresOnce
PROPERTIES
  DueIsHandled
CHECK_DEADLOCK FALSE
