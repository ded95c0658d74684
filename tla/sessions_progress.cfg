SPECIFICATION FairSpec
CONSTANTS
  Peers = {p}
  Sessions = {s1}
  Tasks = {t1, t2}
  Socks = {x1}
  Relays = {y1}
  MaxEpoch = 1
  Configs <- Answering
  Replays = TRUE
  None = None
INVARIANTS ResourcesOwned
PROPERTIES ResourcesReleased ChecksEnd DeadSessionRemoved
CHECK_DEADLOCK FALSE
