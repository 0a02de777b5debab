SPECIFICATION FairSpec
CONSTANTS
  NumChannels = 2
  Length = 2
  MaxFrames = 5
INVARIANTS
  TypeOK
  NoGhostFrames
  ExactUnlessRaced
  RefusalEnds
PROPERTY StoredIsDelivered
CHECK_DEADLOCK FALSE
