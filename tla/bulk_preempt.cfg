SPECIFICATION Spec
CONSTANTS
  TrbNum = 4
  Buffers = {b1, b2, b3, b4}
  Callers = {main, usbd}
  Preemptible = {main}
  Worker = worker
  NoBuf = NoBuf
  NoCtx = NoCtx
SYMMETRY BufferSymmetry
INVARIANTS TypeOK CriticalSection RingExact PopFindsBuffer NoStranded Conserved
PROPERTIES NoOverwrite AbstractSpec
