SPECIFICATION Spec
CONSTANTS
  j1 = j1
  j2 = j2
  j3 = j3
  Jobs = {j1, j2, j3}
  Concurrency = 2
  Queues <- MCQueues
  MaxFaults = 2
INVARIANTS
  TypeOK
  SuccessMeansTheWholeSession
  DefinitionsAreRemoved
  GracefulStopLeavesNothing
PROPERTIES
  ImplementsHandling
  StopEnds
  TakenEnds
CHECK_DEADLOCK FALSE
