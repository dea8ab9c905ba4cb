SPECIFICATION Spec
CONSTANTS
  TrbNum = 3
  Buffers = {b1, b2, b3}
  Callers = {main, usbd}
  Preemptible = {main}
  Worker = worker
  NoBuf = NoBuf
  NoCtx = NoCtx
SYMMETRY BufferSymmetry
INVARIANTS NothingLeftBehind
