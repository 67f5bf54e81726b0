SPECIFICATION Spec
CONSTANTS
    Sockets = {s1, s2}
    ConnectCalls = {c1, c2}
    ReconnectTimers = {r1}
    GraceTimers = {g1}
    Screens = {w1}
    Conversations = {v1}
    AppStates = {"active", "background"}
    Operations = {"delete", "recovery"}
    MaxAttempt = 1
    PromptClose = FALSE
    LateMessages = TRUE
    None = None
SYMMETRY Symmetry
INVARIANTS TypeOK SubscriptionsReplayed HeartbeatArmed StatusBacked
