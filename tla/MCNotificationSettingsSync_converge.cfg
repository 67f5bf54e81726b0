SPECIFICATION FairSpec
CONSTANTS
    Users = {u1}
    Targets = {t1}
    Keys = {k1}
    Taps = {c1}
    Syncs = {s1, s2}
    MaxAttempts = 2
    MaxQueue = 1
    InitialMutes = {{}, {t1}}
    MaxEvents = 3
    None = None
    Sent = Sent
    Failed = Failed
INVARIANT IntentsShown
PROPERTY Converges
CHECK_DEADLOCK FALSE
