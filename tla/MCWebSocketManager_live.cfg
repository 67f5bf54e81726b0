SPECIFICATION FairSpec
CONSTANTS
    Sockets = {s1, s2}
    ConnectCalls = {c1, c2}
    ReconnectTimers = {r1}
    GraceTimers = {g1}
    Screens = {}
    Conversations = {}
    AppStates = {"active", "background"}
    Operations = {"logout"}
    MaxAttempt = 0
    PromptClose = FALSE
    LateMessages = FALSE
    None = None
PROPERTY ReconnectingEnds
