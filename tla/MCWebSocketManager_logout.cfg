SPECIFICATION Spec
CONSTANTS
    Sockets = {s1}
    ConnectCalls = {c1}
    ReconnectTimers = {r1}
    GraceTimers = {g1}
    Screens = {}
    Conversations = {}
    AppStates = {"active"}
    Operations = {"logout"}
    MaxAttempt = 0
    PromptClose = TRUE
    LateMessages = FALSE
    None = None
INVARIANT NoReconnectDuringLogout
