SPECIFICATION Spec
CONSTANTS
  Ends = {A, B}
  Controlling = A
  Calls = {c1, c2}
  Handlers = {h1, h2, h3}
  ReqFrames = 1
  RespFrames = 1
  Losable = FALSE
  None = None
SYMMETRY Symmetric
INVARIANTS ResponsesMatchRequests StreamsMapExact
CHECK_DEADLOCK FALSE
