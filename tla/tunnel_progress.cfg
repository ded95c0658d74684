SPECIFICATION FairSpec
CONSTANTS
  Ends = {A, B}
  Controlling = A
  Calls = {c1}
  Handlers = {h1, h2}
  ReqFrames = 1
  RespFrames = 1
  Losable = TRUE
  None = None
PROPERTIES WritesComplete RequestsReturn HandlersEnd
CHECK_DEADLOCK FALSE
