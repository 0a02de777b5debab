SPECIFICATION Spec
CONSTANTS
  NumChannels = 2
  FifoDepth = 2
  Watermark = 2
  RingLength = 2
  PageFrames = 2
  MaxPages = 1
  BatchMax = 2
  DeltaMax = 3
  MaxFrames = 3
  MaxRequests = 3
  MaxFaults = 1
INVARIANTS
  TypeOK
  LoggedInOrder
  LossIsReported
  CommitCoversSession
  DeltaDoesNotWrap
CHECK_DEADLOCK FALSE
