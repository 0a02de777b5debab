SPECIFICATION Spec
CONSTANTS
    NumFiles = 3
    FileBlocks = 2
    EpochRange = 2
    MaxBlocks = 13
    MaxBoots = 3
    MaxFaults = 3
INVARIANTS
    ExportIsContiguous
    ExportHoldsCompleteFiles
    EpochTellsBoots
    AllFilesExist
CHECK_DEADLOCK FALSE
