SPECIFICATION Spec
CONSTANTS
    Bauds = {250, 500, 1000}
    Modes = {"listen only", "off"}
    MaxChanges = 4
    MaxBoots = 3
    MaxFaults = 1
INVARIANTS
    SavedConfigLoads
    NoChangeForgotten
    HardwareFollows
CHECK_DEADLOCK FALSE
