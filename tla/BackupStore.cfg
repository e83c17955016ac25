SPECIFICATION FairSpec
CONSTANTS
  b1 = b1
  b2 = b2
  d1 = d1
  d2 = d2
  Devices = {d1, d2}
  Batches = {b1, b2}
  Targets <- Overlapping
  Content = {c1, c2}
  Blank = Blank
  NoBackup = NoBackup
  WebOps = {"cancel", "purge"}
  MaxFaults = 1
INVARIANTS
  TypeOK
  StampsExist
  SearchSeesDisk
PROPERTIES
  ForgottenInFourWays
  TrackedIsHandled
CHECK_DEADLOCK FALSE
