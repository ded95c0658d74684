SPECIFICATION Spec
CONSTANTS
  Ids = {a, b}
  Names = {a, b}
  Regs = {r1, r2}
  MuxConns = {m1}
  QuicConns = {}
  None = None
  Stoppable = FALSE
SYMMETRY Symmetric
INVARIANTS RoutesLeadToRegistered GaugeCountsRegistered
PROPERTIES LateAttachRefused
CHECK_DEADLOCK FALSE
