SPECIFICATION Spec
CONSTANTS
    Sockets = {s1, s2}
    ConnectCalls = {c1}
    ReconnectTimers = {r1, r2}
    GraceTimers = {g1}
    Screens = {}
    Conversations = {}
    AppStates = {"active", "inactive", "background"}
    Operations = {"logout", "recovery"}
    MaxAttempt = 0
    PromptClose = TRUE
    LateMessages = TRUE
    None = None
SYMMETRY Symmetry
INVARIANTS NoOrphanSocket
PROPERTIES ImplementsSingleConnection
