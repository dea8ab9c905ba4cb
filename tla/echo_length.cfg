SPECIFICATION Spec
CONSTANTS
  EventsNum = 4
  TrbNum = 4
  MaximumSpeed = "ss"
  Requests <- MCRequests
  BufPackets <- MCBufPackets
  MaxPackets = 3
  MaxRequests = 4
  MaxBus = 4
CHECK_DEADLOCK FALSE
INVARIANTS LengthReceived
