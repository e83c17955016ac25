SPECIFICATION FairSpec
CONSTANTS
  b1 = b1
  b2 = b2
  r1 = r1
  r2 = r2
  r3 = r3
  w1 = w1
  w2 = w2
  Batches = {b1, b2}
  Runs = {r1, r2}
  BatchOf <- OneBatch
  NoRun = NoRun
  WebWorkers = {w1}
  AdminOps = {"purge"}
  ReadCount = 1
  MaxFaults = 1
PROPERTY EveryBatchCloses
CHECK_DEADLOCK FALSE
