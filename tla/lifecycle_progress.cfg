SPECIFICATION FairSpec
CONSTANTS
  Ids = {a}
  Names = {a}
  Regs = {r1}
  MuxConns = {m1, m2}
  QuicConns = {q1}
  None = None
  Stoppable = TRUE
PROPERTIES UnattachedIsReleased LostCarrierReleases EndedRegistrationEndsCarrier
CHECK_DEADLOCK FALSE
