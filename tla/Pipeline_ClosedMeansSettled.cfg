SPECIFICATION Spec
CONSTANTS
  b1 = b1
  b2 = b2
  r1 = r1
  r2 = r2
  r3 = r3
  w1 = w1
  w2 = w2
  Batches = {b1}
  Runs = {r1, r2}
  BatchOf <- OneBatch
  NoRun = NoRun
  WebWorkers = {w1}
  AdminOps = {"purge"}
  ReadCount = 2
  MaxFaults = 0
INVARIANT ClosedMeansSettled
CHECK_DEADLOCK FALSE
