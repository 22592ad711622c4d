\* The running system: keys are hit once init_keyboard is done.
SPECIFICATION FairSpec
CONSTANTS
  Code = {30, 158}
  NoByte = NoByte
  BufferSize = 3
  TickLimit = 2
  EarlyKeys = FALSE
INVARIANTS
  TypeOK
  HandlersExcluded
  EoiComplete
  ByteSignalled
  RingConsistent
  GetFinds
PROPERTIES
  ImplementsQueue
  OfferedByteArrives
  ControllerServed
