SPECIFICATION FairSpec
CONSTANTS
    SlotCount = 3
    MaxRequests = 5
    MaxFaults = 3
INVARIANTS
    TypeOK
    RightAnswer
    RxSlotsAccounted
PROPERTIES
    CallbacksInOrder
    Answered
CHECK_DEADLOCK FALSE
