SPECIFICATION Spec
CONSTANTS
    Sockets = {s1}
    ConnectCalls = {c1}
    ReconnectTimers = {r1}
    GraceTimers = {g1, g2}
    Screens = {}
    Conversations = {}
    AppStates = {"active", "inactive", "background"}
    Operations = {}
    MaxAttempt = 0
    PromptClose = TRUE
    LateMessages = FALSE
    None = None
INVARIANT GraceCancelled
