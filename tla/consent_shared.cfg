SPECIFICATION Spec
CONSTANTS
  Writes = {w1, w2, w3, w4}
  Reliable = FALSE
  Window = 2
  Retries = 1
  MaxPending = 3
  None = None
SYMMETRY Symmetric
INVARIANTS InOrderOnce BufferBounded
CHECK_DEADLOCK FALSE
