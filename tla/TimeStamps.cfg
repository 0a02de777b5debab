SPECIFICATION Spec
CONSTANTS
    Period = 5
    Watermark = 2
    FifoDepth = 2
    MaxPeriods = 2
    MaxFrames = 3
INVARIANTS
    SampleExact
PROPERTIES
    StampFollowsSample
\* MaxPeriods stops the timer.
CHECK_DEADLOCK FALSE
