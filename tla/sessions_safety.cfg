SPECIFICATION Spec
CONSTANTS
  Peers = {p}
  Sessions = {s1, s2}
  Tasks = {t1, t2, t3}
  Socks = {x1, x2}
  Relays = {y1}
  MaxEpoch = 1
  Configs <- BothRoles
  Replays = FALSE
  None = None
SYMMETRY Symmetric
INVARIANTS CheckedSocketAdvertised SessionsOwnAlone
PROPERTIES SuccessorSurvives
CHECK_DEADLOCK FALSE
