SPECIFICATION FairSpec
CONSTANTS
  Ids = {a, b}
  Regs = {r1, r2}
  Main = Main
  None = None
INVARIANTS StateFileLoadable SavedWhileRegistered
PROPERTIES ShutdownCompletes 
CHECK_DEADLOCK FALSE
