SPECIFICATION Spec
CONSTANTS
    Calls = {call1, call2}
    Screens = {"gallery", "lightbox"}
    Cancels = {"lightbox"}
    None = None
    MAX_CONCURRENT = 1
    MaxWaiting = 1
    MaxFaults = 1
    MaxVisits = 2
INVARIANT FlagMeansConfirmed
