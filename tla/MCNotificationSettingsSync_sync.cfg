SPECIFICATION Spec
CONSTANTS
    Users = {u1, u2}
    Targets = {t1, t2}
    Keys = {}
    Taps = {c1, c2}
    Syncs = {s1}
    MaxAttempts = 2
    MaxQueue = 1
    InitialMutes = {{}, {t1, t2}}
    MaxEvents = 5
    None = None
    Sent = Sent
    Failed = Failed
SYMMETRY Symmetry
CHECK_DEADLOCK FALSE
INVARIANTS TypeOK IntentsShown OwnRequests OwnSettings OneRunner
