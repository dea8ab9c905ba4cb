SPECIFICATION FairSpec
CONSTANTS
  TrbNum = 3
  Buffers = {b1, b2, b3}
  Callers = {main, usbd}
  Preemptible = {}
  Worker = worker
  NoBuf = NoBuf
  NoCtx = NoCtx
INVARIANTS NoEarlyDelivery FullFlagExact
PROPERTIES HaltBlocksPush FetchOutsideWindow NothingStuck EveryBufferReturns
