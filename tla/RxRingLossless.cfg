SPECIFICATION Spec
CONSTANTS
  NumChannels = 2
  Length = 3
  MaxFrames = 2
INVARIANT TransferIsLossless
CHECK_DEADLOCK FALSE
