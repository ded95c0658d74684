SPECIFICATION FairSpec
CONSTANTS
  Writes = {w1, w2, w3}
  Reliable = TRUE
  Window = 2
  Retries = 1
  MaxPending = 2
  None = None
INVARIANTS ConfirmedIsReceived
PROPERTIES ImplementsPipe WriteReturns
CHECK_DEADLOCK FALSE
