SPECIFICATION Spec
CONSTANTS
    Sockets = {s1}
    ConnectCalls = {c1}
    ReconnectTimers = {r1}
    GraceTimers = {g1}
    Screens = {w1, w2}
    Conversations = {v1}
    AppStates = {"active"}
    Operations = {}
    MaxAttempt = 0
    PromptClose = TRUE
    LateMessages = FALSE
    None = None
INVARIANT MountedTracked
