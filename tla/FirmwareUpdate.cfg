SPECIFICATION FairSpec
CONSTANTS
  SlotSize = 4
  EraseSize = 2
  ProgSize = 2
  VerifySize = 2
  Conns = {a, b}
  NoConn = NoConn
  NumEntries = 2
  BodySizes = {0, 1, 4}
  MaxPosts = 3
  MaxPrepares = 1
  MaxFaults = 1
  MaxBoots = 1
  SilentLoss = TRUE
INVARIANTS TypeOK VerifiedSlotHoldsImage StatusTellsWriter OnePipeline
PROPERTIES ImplementsImageStaging ProgramsErasedFlash VerificationEnds
CHECK_DEADLOCK FALSE
