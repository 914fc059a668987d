\* Three receiving threads, two audio packets, all three teardowns.
\* A deleted client, and a deadlock, are the end.
CONSTANTS
  Kinds = {"cmd", "av", "pir"}
  MaxThreads = 2
  p1 = p1
  p2 = p2
  Packets <- TwoPackets
  NoPacket = NoPacket
  MAX_TALK_DATA_QUEUE_SIZE = 2
  MaxTurns = 1
  Size = 2
SPECIFICATION FairSpec
CHECK_DEADLOCK FALSE
INVARIANTS
  TypeOK
  OneReaderPerChannel
  
  PacketsOwned
PROPERTIES
  TalkInOrder
  MutexReleasedOrDeadlock
