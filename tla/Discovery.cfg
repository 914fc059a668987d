\* Two searches' worth of rounds, a buffer for two datagrams, a list that two
\* devices fill; configuration threads beside them.
CONSTANTS
  d1 = d1
  d2 = d2
  Devices <- TwoDevices
  NoDevice = NoDevice
  Datagrams <- SomeDatagrams
  MAX_RECV_BUF_SIZE = 9
  MAX_DEV_LIST_NUM = 2
  Rounds = 2
  MaxReceived = 3
  MaxConfigs = 1
SPECIFICATION FairSpec
CHECK_DEADLOCK FALSE
INVARIANTS
  TypeOK
  AnswersListed
PROPERTIES
  StopsReturn
