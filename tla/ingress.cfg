SPECIFICATION FairSpec
CONSTANTS
  Ids = {a, b}
  Names = {a}
  MaxReg = 2
  MaxReq = 2
  MaxWork = 6
  Kinds = {"h1", "h2", "web", "rev", "dyn", "masque", "ws"}
  OpenSlots = 1
  DynSlots = 1
  WebSlots = 1
  FlowSlots = 1
  WebStreams = 1
  BindTries = 2
  None = None
INVARIANTS SlotsExact ServedByOwner SignalConnExact
PROPERTIES LateStreamClosed RegistrationDrains
CHECK_DEADLOCK FALSE
