SPECIFICATION Spec
CONSTANTS
  b1 = b1
  b2 = b2
  r1 = r1
  r2 = r2
  r3 = r3
  w1 = w1
  w2 = w2
  Batches = {b1}
  Runs = {r1, r2, r3}
  BatchOf <- OneBatch
  NoRun = NoRun
  WebWorkers = {w1, w2}
  AdminOps = {"cancel"}
  ReadCount = 2
  MaxFaults = 1
SYMMETRY Symmetry
INVARIANTS
  TypeOK
  SucceededIsExact
  CountedRunsAreSettled
  ClosedMeansSettled
PROPERTIES
  SuccessNeverFails
  HandlesJobs
CHECK_DEADLOCK FALSE
