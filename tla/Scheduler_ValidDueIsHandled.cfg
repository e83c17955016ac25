SPECIFICATION FairSpec
CONSTANTS
  i1 = i1
  i2 = i2
  s1 = s1
  s2 = s2
  Instances = {i1}
  Nobody = Nobody
  Schedules = {s1, s2}
  Crons = {0, 1}
  WebOps = {"update"}
  Faults = {}
  Horizon = 2
  MaxFaults = 0
  MaxEdits = 1
PROPERTIES
  ValidDueIsHandled
CHECK_DEADLOCK FALSE
