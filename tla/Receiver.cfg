\* A worker that is stopped once at any point and started again.
CONSTANTS
  Shapes = {"empty", "reply", "fake", "huge", "wraps"}
  MaxFrames = 3
  Traffic <- AllTraffic
  ReadMax = 4
  BufSize = 7
  MaxFrame = 4
  SizeMod = 100
  Budget = 0
  MaxRestarts = 1
  TestsRun = TRUE
SPECIFICATION FairSpec
CHECK_DEADLOCK FALSE
INVARIANTS
  TypeOK
  NoOverrun
  HandledAsSent
  HandledInOrder
  NothingWithheld
PROPERTIES
  Resynchronises
