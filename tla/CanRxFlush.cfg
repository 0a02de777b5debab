SPECIFICATION FairSpec
CONSTANTS
  NumChannels = 1
  FifoDepth = 3
  Watermark = 2
  RingLength = 2
  PageFrames = 2
  MaxPages = 1
  BatchMax = 2
  DeltaMax = 3
  MaxFrames = 6
  MaxRequests = 2
  MaxFaults = 0
PROPERTY FlushEnds
CHECK_DEADLOCK FALSE
