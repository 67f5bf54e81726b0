SPECIFICATION Spec
CONSTANTS
    Keys = {1, 2, 3, 4, 5, 6}
    NoKey = 0
    Inits = {"init1", "init2"}
    None = None
    MaxFaults = 3
    MaxOthers = 1
    Overlap = TRUE
PROPERTY KeyKept
