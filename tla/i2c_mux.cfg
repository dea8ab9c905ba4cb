SPECIFICATION FairSpec
CONSTANTS
  Threads = {t1, t2}
  Channels = {c0, c1}
  NoChan = NoChan
  Nobody = Nobody
  MuxChip = MuxChip
  NoThread = NoThread
  Transfers <- MCTransfers
  IgnoreFailure = FALSE
INVARIANTS TypeOK OneTransfer CacheExact RightDevice WritesDelivered ReadsGenuine BusReleased
PROPERTIES EveryCallReturns
