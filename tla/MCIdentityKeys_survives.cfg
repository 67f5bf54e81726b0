SPECIFICATION Spec
CONSTANTS
    Keys = {1, 2, 3, 4, 5, 6}
    NoKey = 0
    Inits = {"init1"}
    None = None
    MaxFaults = 1
    MaxOthers = 0
    Overlap = FALSE
PROPERTY SurvivingKeyKept
