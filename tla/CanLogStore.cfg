SPECIFICATION FairSpec
CONSTANTS
  BlockSize = 5
  NumBlocks = 3
  HeaderSize = 1
  FrameLens <- MCFrameLens
  SyncLen = 2
  CntModulus = 4
  MaxEntries = 5
  MaxFaults = 2
INVARIANTS
  TypeOK
  NothingLost
  CardInOrder
  EntriesWithinBlocks
  ReadyBlockIsReadable
  FullMeansFull
  HeaderMatchesBlock
PROPERTIES
  ImplementsFrameLog
  BlockBehindFrameIsWritten
CHECK_DEADLOCK FALSE
