\* The link may break at any moment and the garbage collection takes over.
CONSTANTS
  login = login
  c1 = c1
  c2 = c2
  Msgs <- AllMsgs
  LoginMsg = login
  NoMsg = NoMsg
  MAX_CMD_QUEUE_SIZE = 2
  MaxRetries = 2
  Size = 2
SPECIFICATION FairSpec
CHECK_DEADLOCK FALSE
PROPERTIES
  GcReleasesSessions
