SPECIFICATION Spec
CONSTANTS
    Sockets = {s1}
    ConnectCalls = {c1}
    ReconnectTimers = {r1}
    GraceTimers = {g1}
    Screens = {}
    Conversations = {}
    AppStates = {"active"}
    Operations = {"recovery"}
    MaxAttempt = 0
    PromptClose = TRUE
    LateMessages = FALSE
    None = None
PROPERTY RefreshReconnects
