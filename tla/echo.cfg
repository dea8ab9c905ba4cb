SPECIFICATION FairSpec
CONSTANTS
  EventsNum = 4
  TrbNum = 4
  MaximumSpeed = "ss"
  Requests <- MCRequests
  BufPackets <- MCBufPackets
  MaxPackets = 3
  MaxRequests = 4
  MaxBus = 4
INVARIANTS TypeOK EventsInOrder BufferInOnePlace AssertionsHold EchoInOrder SizesAgree
PROPERTIES EchoAnswered
CHECK_DEADLOCK FALSE
