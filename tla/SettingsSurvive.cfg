SPECIFICATION Spec
CONSTANTS
    Bauds = {250, 500, 1000}
    Modes = {"listen only"}
    MaxChanges = 4
    MaxBoots = 3
    MaxFaults = 1
INVARIANT SavedConfigSurvives
CHECK_DEADLOCK FALSE
