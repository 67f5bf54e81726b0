SPECIFICATION Spec
CONSTANTS
    Sockets = {s1}
    ConnectCalls = {c1, c2}
    ReconnectTimers = {r1}
    GraceTimers = {g1}
    Screens = {}
    Conversations = {}
    AppStates = {"active"}
    Operations = {"delete"}
    MaxAttempt = 0
    PromptClose = TRUE
    LateMessages = FALSE
    None = None
PROPERTY CancelledConnectBails
