SPECIFICATION LiveSpec
CONSTANTS
    Keys = {1, 2, 3, 4, 5, 6}
    NoKey = 0
    Inits = {"init1"}
    None = None
    MaxFaults = 3
    MaxOthers = 1
    Overlap = FALSE
INVARIANTS TypeOK PairWhole
PROPERTIES SuccessHasKeys KeyKept Recovers
