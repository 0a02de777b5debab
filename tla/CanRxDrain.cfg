SPECIFICATION Spec
CONSTANTS
  NumChannels = 1
  FifoDepth = 3
  Watermark = 2
  RingLength = 2
  PageFrames = 2
  MaxPages = 1
  BatchMax = 2
  DeltaMax = 3
  MaxFrames = 3
  MaxRequests = 2
  MaxFaults = 0
INVARIANT DrainTakesPendingFrames
CHECK_DEADLOCK FALSE
