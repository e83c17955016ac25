SPECIFICATION Spec
CONSTANTS
  c1 = c1
  c2 = c2
  d1 = d1
  d2 = d2
  g1 = g1
  g2 = g2
  g3 = g3
  j1 = j1
  j2 = j2
  w1 = w1
  w2 = w2
  Names = {"n1", "n2"}
  None = None
  Keep = Keep
  Fresh = Fresh
  Gone = Gone
  Creds = {c1, c2}
  Devices = {d1, d2}
  Groups = {g1, g2, g3}
  Secrets = {"p", "e"}
  Slots = {w1, w2}
  CredForms <- MCCredForms
  CredTable <- MCCredTable
  DeviceForms <- MCDeviceForms
  DeviceTable <- MCDeviceTable
  GroupTable <- MCGroupTable
  GroupForms <- MCGroupForms
  BulkForms <- MCBulkForms
  ImportFiles <- MCImportFiles
  Jobs = {j1, j2}
  JobTable <- MCJobTable
  JobForms <- MCJobForms
  Platforms = {"yaml", "yaml2"}
  PlatformTable <- MCPlatformTable
  MaxRequests = 4
SYMMETRY Symmetry
INVARIANTS
  TypeOK
  RowsAreConsistent
  JobsUseWhatIsAssigned
PROPERTIES
  DefaultIsReplacedNeverLost
  ImportTakesNothingAway
  ImportIsWhole
  PlatformsMixOnlyByImportOrOverlap
CHECK_DEADLOCK FALSE
