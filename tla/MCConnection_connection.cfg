SPECIFICATION FairSpec
CONSTANTS
  Scripts <- ManyScripts
  Modes = {"clear", "level"}
  Small = 4
  Large = 5
  Num = 2
  BodyBuf = 2
  Response = 2
  Room = 3
INVARIANTS
  Consistent
  AsSent
  OneResponse
PROPERTIES
  RequestEnds
CHECK_DEADLOCK FALSE
