\* Keys may be hit from irq_enable_global on: the ring.
SPECIFICATION Spec
CONSTANTS
  Code = {30}
  NoByte = NoByte
  BufferSize = 3
  TickLimit = 2
  EarlyKeys = TRUE
INVARIANT RingConsistent
