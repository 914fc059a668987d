\* The application sends and logs out, and the link breaks, at any moment.
\* The system may stop for good: the two message locks deadlock.
CONSTANTS
  login = login
  c1 = c1
  c2 = c2
  Msgs <- AllMsgs
  LoginMsg = login
  NoMsg = NoMsg
  MAX_CMD_QUEUE_SIZE = 2
  MaxRetries = 2
  Size = 2
SPECIFICATION FairSpec
CHECK_DEADLOCK FALSE
INVARIANTS
  TypeOK
  NoDanglingMessage
  FramesWhole
  LogoutFreesAll
  LeaksRefusedOrLate
PROPERTIES
  DeliversInOrder
  LogoutReturns
  QueuedLeaves
  CollectedOrDeadlocked
