SPECIFICATION Spec
CONSTANTS
  d1 = d1
  d2 = d2
  g1 = g1
  w1 = w1
  w2 = w2
  Texts <- MCTexts
  Blank = ""
  None = None
  NoneText = "None"
  NumberOf <- MCNumberOf
  Within <- MCWithin
  Matches <- MCWithin
  Patterns = {"", "None", "10", "10.0"}
  Parsers = {"p1", "p2"}
  Contents = {"k1", "k2"}
  Parsed <- MCParsed
  Devices = {d1, d2}
  Groups = {g1}
  Members <- MCMembers
  Batched = {d1, d2}
  Definitions <- MCDefinitions
  Edited <- MCEdited
  Drafts <- MCDrafts
  WebWorkers = {w1, w2}
  Recorder = Recorder
  NoContent = NoContent
  NoVerdict = NoVerdict
  NoDevice = NoDevice
  MaxId = 2
  MaxRequests = 3
  MaxBatches = 1
SYMMETRY Symmetry
INVARIANTS
  TypeOK
  VerdictsAreJustified
  DeletedPolicyLeavesNothing
PROPERTIES
  QuietRunIsCurrent
  ClosingEvaluatesWhatIsStored
  SavedFormIsThePolicy
  AddingChecksNeverExcuses
CHECK_DEADLOCK FALSE
