-------------------------- MODULE WebSocketManager --------------------------
(***************************************************************************)
(* The WebSocket connection manager of the Orbital client                  *)
(* (src/src/services/websocket/websocketManager.ts), with the callers that *)
(* drive it: the App effect, logout, account deletion, key recovery, the   *)
(* AppState listener, the token manager and the subscription hook.         *)
(*                                                                         *)
(* JavaScript runs one task at a time, so an action is the code between    *)
(* two points where other tasks may run.  connect() is the one function    *)
(* that suspends (at `await tokenManager.getAccessToken()`): its two       *)
(* halves are Connect and Resume, with the Keychain read between them.     *)
(* Sockets and timers are names from small pools; a name is free again     *)
(* when its close event was delivered or the timer fired or was cleared.   *)
(***************************************************************************)
EXTENDS Naturals, FiniteSets

CONSTANTS
    Sockets,          \* names of sockets that may exist at the same time
    ConnectCalls,     \* names of connect() calls suspended at the same time
    ReconnectTimers,  \* names of armed reconnect timeouts
    GraceTimers,      \* names of armed background-grace timeouts
    Screens,          \* mounted screens that use useWebSocketSubscription
    Conversations,    \* conversation ids
    AppStates,        \* the AppState values of the platform
    Operations,       \* the account operations the run lets the user start
    MaxAttempt,       \* bound on the reconnect counter (it saturates)
    PromptClose,      \* TRUE: a closed socket's event precedes the next socket
    LateMessages,     \* TRUE: frames may still arrive on a closing socket
    None

ASSUME PoolsAssumption ==
    None \notin Sockets \cup ReconnectTimers \cup GraceTimers \cup Conversations
ASSUME AppStatesAssumption ==
    {"active"} \subseteq AppStates /\ AppStates \subseteq {"active", "inactive", "background"}
ASSUME OperationsAssumption == Operations \subseteq {"logout", "delete", "recovery"}
ASSUME BoundsAssumption ==
    MaxAttempt \in Nat /\ PromptClose \in BOOLEAN /\ LateMessages \in BOOLEAN

VARIABLES
    connectionStatus,     \* store: disconnected, connecting, connected, reconnecting
    socket,               \* the manager's current socket, or None
    readyState,           \* per socket: unused, connecting, open, closing
    subscribed,           \* per socket: subscribe frames sent on it
    subscriptions,        \* the manager's set, replayed on open
    pingTimer,            \* the 25 s ping interval is running
    watchdogTimer,        \* the 45 s watchdog is armed
    reconnectTimer,       \* handle of the reconnect timeout, or None
    armedReconnects,      \* the reconnect timeouts that will fire
    backgroundGraceTimer, \* handle of the grace timeout, or None
    armedGraces,          \* the grace timeouts that will fire
    reconnectAttempt,     \* backoff exponent of the next reconnect
    disconnectRequested,  \* the #110 flag shared by every connect() call
    appStateSubscription, \* the AppState listener is registered
    unsubTokenRefresh,    \* the token refresh listener is registered
    connectCalls,         \* per call: idle, reading, or the token it read
    cancelled,            \* history: calls suspended when disconnect() ran
    isAuthenticated,      \* store flag
    effect,               \* App's lifecycle effect: unmounted, or the value it last saw
    hasToken,             \* an access token is stored
    clearing,             \* clearTokens erased the token, listeners not yet told
    appState,
    operation,            \* account operation in progress
    mounted               \* per screen: the conversation it shows, or None

link == <<socket, readyState>>
frames == <<subscribed, subscriptions>>
timers == <<pingTimer, watchdogTimer>>
reconnect == <<reconnectTimer, armedReconnects>>
grace == <<backgroundGraceTimer, armedGraces>>
listeners == <<appStateSubscription, unsubTokenRefresh>>
calls == <<disconnectRequested, connectCalls, cancelled>>
manager == <<connectionStatus, link, frames, timers, reconnect, grace, reconnectAttempt,
             listeners, calls>>
account == <<isAuthenticated, hasToken, clearing>>
session == <<account, effect, appState, operation, mounted>>
vars == <<manager, session>>

Statuses == {"disconnected", "connecting", "connected", "reconnecting"}
ReadyStates == {"unused", "connecting", "open", "closing"}
CallStates == {"idle", "reading", "token", "null"}
CloseCodes == {"normal", "auth", "abnormal"}
RunningOperations == {"none", "logout", "delete", "recovery", "relogin"}

Live == {s \in Sockets : readyState[s] # "unused"}
Usable == {s \in Sockets : readyState[s] \in {"connecting", "open"}}
CurrentOpen == socket # None /\ readyState[socket] = "open"
Pending == {c \in ConnectCalls : connectCalls[c] # "idle"}
NoScreens == [s \in Screens |-> None]

-----------------------------------------------------------------------------
\* isAuthenticated is never persisted; the first run of App's effect has
\* already called disconnect().
Init ==
    /\ connectionStatus = "disconnected"
    /\ socket = None
    /\ readyState = [s \in Sockets |-> "unused"]
    /\ subscribed = [s \in Sockets |-> {}]
    /\ subscriptions = {}
    /\ pingTimer = FALSE /\ watchdogTimer = FALSE
    /\ reconnectTimer = None /\ armedReconnects = {}
    /\ backgroundGraceTimer = None /\ armedGraces = {}
    /\ reconnectAttempt = 0
    /\ appStateSubscription = FALSE /\ unsubTokenRefresh = FALSE
    /\ disconnectRequested = TRUE
    /\ connectCalls = [c \in ConnectCalls |-> "idle"]
    /\ cancelled = {}
    /\ isAuthenticated = FALSE /\ hasToken \in BOOLEAN /\ clearing = FALSE
    /\ effect = "out"
    /\ appState = "active"
    /\ operation = "none"
    /\ mounted = NoScreens

-----------------------------------------------------------------------------
\* Mutants of BusyStatuses: 'connecting' is forgotten; 'reconnecting' counts.
BusyWhenConnected == {"connected"}
BusyUnlessDisconnected == {"connecting", "connected", "reconnecting"}

\* The statuses on which connect() is a no-op.
BusyStatuses == {"connecting", "connected"}

\* The synchronous half of connect(): it resets the shared flag before it
\* looks at the status.
Connect ==
    /\ disconnectRequested' = FALSE
    /\ IF connectionStatus \in BusyStatuses
         THEN UNCHANGED <<connectCalls, cancelled>>
         ELSE \E c \in ConnectCalls \ Pending :
                /\ connectCalls' = [connectCalls EXCEPT ![c] = "reading"]
                /\ UNCHANGED cancelled

\* Mutant of ClosedCurrent: the reference is dropped, the socket stays open.
LeakedCurrent == readyState

\* socket.close() on the current socket.
ClosedCurrent ==
    IF socket \in Usable THEN [readyState EXCEPT ![socket] = "closing"] ELSE readyState

\* disconnect(), given the timeouts that survive its clearAllTimers().
Teardown(reconnects, graces) ==
    /\ disconnectRequested' = TRUE
    /\ pingTimer' = FALSE /\ watchdogTimer' = FALSE
    /\ reconnectTimer' = None /\ armedReconnects' = reconnects
    /\ backgroundGraceTimer' = None /\ armedGraces' = graces
    /\ appStateSubscription' = FALSE /\ unsubTokenRefresh' = FALSE
    /\ readyState' = ClosedCurrent /\ socket' = None
    /\ subscriptions' = {}
    /\ reconnectAttempt' = 0
    /\ connectionStatus' = "disconnected"
    /\ cancelled' = Pending
    /\ UNCHANGED <<subscribed, connectCalls>>

\* Only the timeouts whose handles the manager still holds are cleared.
Disconnect == Teardown(armedReconnects \ {reconnectTimer}, armedGraces \ {backgroundGraceTimer})

\* A caller's connect(): nothing else changes before it suspends.
ConnectOnly ==
    /\ Connect
    /\ UNCHANGED <<connectionStatus, link, frames, timers, reconnect, grace, reconnectAttempt,
                   listeners>>

-----------------------------------------------------------------------------
\* The Keychain read of a suspended connect() completes.
ReadToken(c) ==
    /\ connectCalls[c] = "reading"
    /\ connectCalls' = [connectCalls EXCEPT ![c] = IF hasToken THEN "token" ELSE "null"]
    /\ UNCHANGED <<connectionStatus, link, frames, timers, reconnect, grace, reconnectAttempt,
                   listeners, disconnectRequested, cancelled, session>>

EndCall(c) ==
    /\ connectCalls' = [connectCalls EXCEPT ![c] = "idle"]
    /\ cancelled' = cancelled \ {c}
    /\ UNCHANGED disconnectRequested

\* connect() continues and gives up: disconnect() was called, or no token.
ResumeBails(c) ==
    /\ connectCalls[c] \in {"token", "null"}
    /\ disconnectRequested \/ connectCalls[c] = "null"
    /\ EndCall(c)
    /\ UNCHANGED <<connectionStatus, link, frames, timers, reconnect, grace, reconnectAttempt,
                   listeners, session>>

RegisterListeners == appStateSubscription' = TRUE /\ unsubTokenRefresh' = TRUE

\* connect() continues and opens a socket, whatever the status is by now.
ResumeOpens(c) ==
    /\ connectCalls[c] = "token" /\ ~disconnectRequested
    /\ PromptClose => \A s \in Sockets : readyState[s] # "closing"
    /\ EndCall(c)
    /\ connectionStatus' = "connecting"
    /\ \E s \in Sockets \ Live :
         /\ socket' = s
         /\ readyState' = [readyState EXCEPT ![s] = "connecting"]
         /\ subscribed' = [subscribed EXCEPT ![s] = {}]
    /\ RegisterListeners
    /\ UNCHANGED <<subscriptions, timers, reconnect, grace, reconnectAttempt, session>>

\* Frames go to the CURRENT socket, whichever socket's event is handled.
SendSubscribes(ids, states) ==
    subscribed' = IF socket # None /\ states[socket] = "open"
                    THEN [subscribed EXCEPT ![socket] = @ \cup ids]
                    ELSE subscribed

\* Mutant of ReplaySubscriptions: onOpen replays nothing.
SkipReplay(states) == UNCHANGED subscribed

ReplaySubscriptions(states) == SendSubscribes(subscriptions, states)

OnOpen(s) ==
    /\ readyState[s] = "connecting"
    /\ readyState' = [readyState EXCEPT ![s] = "open"]
    /\ ReplaySubscriptions(readyState')
    /\ pingTimer' = TRUE /\ watchdogTimer' = TRUE
    /\ UNCHANGED <<connectionStatus, socket, subscriptions, reconnect, grace, reconnectAttempt,
                   listeners, calls, session>>

\* A frame on any socket resets the one watchdog.  Only connection_ack, from
\* whichever socket, sets 'connected'; other frames leave the manager alone.
OnMessage(s, type) ==
    /\ readyState[s] = "open" \/ (LateMessages /\ readyState[s] = "closing")
    /\ watchdogTimer' = TRUE
    /\ connectionStatus' = IF type = "connection_ack" THEN "connected" ELSE connectionStatus
    /\ UNCHANGED <<link, frames, pingTimer, reconnect, grace, reconnectAttempt, listeners,
                   calls, session>>

\* The close codes a socket in each state can report.
PossibleCodes(s) == CASE readyState[s] = "connecting" -> {"abnormal"}
                      [] readyState[s] = "open" -> CloseCodes
                      [] readyState[s] = "closing" -> {"normal", "abnormal"}
                      [] OTHER -> {}

ShouldReconnect(code) == code \notin {"normal", "auth"}

\* Mutant of Bump: the counter is not held at its bound.
BumpUnbounded(n) == n + 1

Bump(n) == IF n < MaxAttempt THEN n + 1 ELSE n

ArmReconnect == \E t \in ReconnectTimers \ armedReconnects :
                  reconnectTimer' = t /\ armedReconnects' = armedReconnects \cup {t}

\* Mutant of ScheduleReconnect: the status is left as it was.
ScheduleSilently ==
    ArmReconnect /\ reconnectAttempt' = Bump(reconnectAttempt) /\ UNCHANGED connectionStatus

\* The new handle replaces the old one, whose timeout is not cleared.
ScheduleReconnect ==
    /\ ArmReconnect
    /\ reconnectAttempt' = Bump(reconnectAttempt)
    /\ connectionStatus' = "reconnecting"

\* Mutant of CleanupSocket: a stale socket's event stops the shared timers but
\* keeps the current socket.
CleanupTimers(s) ==
    /\ pingTimer' = FALSE /\ watchdogTimer' = FALSE
    /\ socket' = IF socket = s THEN None ELSE socket

\* The current socket is dropped, whichever socket closed.
CleanupSocket(s) == pingTimer' = FALSE /\ watchdogTimer' = FALSE /\ socket' = None

\* onClose is installed on every socket.
OnClose(s, code) ==
    /\ code \in PossibleCodes(s)
    /\ readyState' = [readyState EXCEPT ![s] = "unused"]
    /\ CleanupSocket(s)
    /\ IF ShouldReconnect(code) /\ isAuthenticated
         THEN ScheduleReconnect
         ELSE /\ connectionStatus' = "disconnected"
              /\ reconnectAttempt' = 0
              /\ UNCHANGED reconnect
    /\ UNCHANGED <<frames, grace, listeners, calls, session>>

-----------------------------------------------------------------------------
\* No frame for 45 s: close the current socket and wait for its close event.
WatchdogFires ==
    /\ watchdogTimer
    /\ watchdogTimer' = FALSE
    /\ readyState' = ClosedCurrent
    /\ UNCHANGED <<connectionStatus, socket, frames, pingTimer, reconnect, grace,
                   reconnectAttempt, listeners, calls, session>>

\* The callback forgets the handle even when it belongs to a later timeout.
ReconnectTimerFires(t) ==
    /\ t \in armedReconnects
    /\ armedReconnects' = armedReconnects \ {t} /\ reconnectTimer' = None
    /\ Connect
    /\ UNCHANGED <<connectionStatus, link, frames, timers, grace, reconnectAttempt, listeners,
                   session>>

GraceTimerFires(t) ==
    /\ t \in armedGraces
    /\ Teardown(armedReconnects \ {reconnectTimer}, armedGraces \ {t})
    /\ UNCHANGED session

-----------------------------------------------------------------------------
AppStateFollows(next) ==
    /\ next \in AppStates \ {appState}
    /\ appState = "background" => next = "active"
    /\ appState' = next
    /\ UNCHANGED <<account, effect, operation, mounted>>

AppStateUnheard(next) ==
    /\ AppStateFollows(next)
    /\ ~appStateSubscription
    /\ UNCHANGED manager

BecomeActive ==
    /\ AppStateFollows("active")
    /\ appStateSubscription
    /\ backgroundGraceTimer' = None /\ armedGraces' = armedGraces \ {backgroundGraceTimer}
    /\ IF connectionStatus = "disconnected" /\ isAuthenticated THEN Connect ELSE UNCHANGED calls
    /\ UNCHANGED <<connectionStatus, link, frames, timers, reconnect, reconnectAttempt, listeners>>

\* 'inactive' and 'background' both arm the timer; the old one keeps running.
LeaveForeground(next) ==
    /\ next # "active"
    /\ AppStateFollows(next)
    /\ appStateSubscription
    /\ \E t \in GraceTimers \ armedGraces :
         backgroundGraceTimer' = t /\ armedGraces' = armedGraces \cup {t}
    /\ UNCHANGED <<connectionStatus, link, frames, timers, reconnect, reconnectAttempt,
                   listeners, calls>>

-----------------------------------------------------------------------------
\* useWebSocketSubscription subscribes on mount and unsubscribes on unmount.
\* The recovery screens show no conversation.
MountScreen(screen, id) ==
    /\ effect = "in" /\ isAuthenticated /\ operation \notin {"recovery", "relogin"}
    /\ mounted[screen] = None
    /\ mounted' = [mounted EXCEPT ![screen] = id]
    /\ subscriptions' = subscriptions \cup {id}
    /\ SendSubscribes({id}, readyState)
    /\ UNCHANGED <<connectionStatus, link, timers, reconnect, grace, reconnectAttempt,
                   listeners, calls, account, effect, appState, operation>>

UnmountScreen(screen) ==
    /\ mounted[screen] # None
    /\ mounted' = [mounted EXCEPT ![screen] = None]
    /\ subscriptions' = subscriptions \ {mounted[screen]}
    /\ UNCHANGED <<connectionStatus, link, subscribed, timers, reconnect, grace,
                   reconnectAttempt, listeners, calls, account, effect, appState, operation>>

-----------------------------------------------------------------------------
\* App's lifecycle effect runs after a render, later than the store change.
EffectConnects ==
    /\ isAuthenticated /\ effect # "in"
    /\ effect' = "in"
    /\ ConnectOnly
    /\ UNCHANGED <<account, appState, operation, mounted>>

\* The screens unmount in the same commit.
EffectCleanup(next) ==
    /\ effect' = next
    /\ mounted' = NoScreens
    /\ Disconnect
    /\ UNCHANGED <<account, appState, operation>>

EffectDisconnects == ~isAuthenticated /\ effect # "out" /\ EffectCleanup("out")

\* Android re-creates the activity: the tree unmounts (the effect's cleanup
\* disconnects) and mounts again later (EffectConnects, EffectDisconnects).
ActivityDestroyed == effect = "in" /\ EffectCleanup("unmounted")

\* setTokens: the onTokenRefresh listener runs only when a token is replaced.
SetTokens ==
    /\ hasToken' = TRUE /\ isAuthenticated' = TRUE
    /\ IF hasToken /\ unsubTokenRefresh /\ CurrentOpen
         THEN /\ readyState' = ClosedCurrent
              /\ CleanupSocket(socket)
              /\ reconnectAttempt' = 0
              /\ Connect
              /\ UNCHANGED <<connectionStatus, frames, reconnect, grace, listeners>>
         ELSE UNCHANGED manager

Login ==
    /\ ~isAuthenticated /\ effect = "out" /\ operation = "none"
    /\ SetTokens
    /\ UNCHANGED <<clearing, effect, appState, operation, mounted>>

RestoreSession ==
    /\ ~isAuthenticated /\ effect = "out" /\ operation = "none" /\ hasToken
    /\ isAuthenticated' = TRUE
    /\ UNCHANGED <<manager, hasToken, clearing, effect, appState, operation, mounted>>

\* A 401: clearTokens erases the stored token, then tells its listeners.
Unauthorized ==
    /\ hasToken /\ ~clearing
    /\ hasToken' = FALSE /\ clearing' = TRUE
    /\ UNCHANGED <<manager, isAuthenticated, effect, appState, operation, mounted>>

HandleTokensCleared ==
    /\ clearing
    /\ clearing' = FALSE
    /\ isAuthenticated' = (isAuthenticated /\ operation \in {"recovery", "relogin"})
    /\ UNCHANGED <<manager, hasToken, effect, appState, operation, mounted>>

-----------------------------------------------------------------------------
\* logout(), deleteAccount() and recoverIdentityKeys() disconnect first and
\* then wait for the server.
StartOperation(op) ==
    /\ operation = "none" /\ isAuthenticated /\ effect = "in"
    /\ op = "recovery" => mounted = NoScreens
    /\ operation' = op
    /\ Disconnect
    /\ UNCHANGED <<account, effect, appState, mounted>>

\* localWipe: clearTokens, whose listeners clear the auth state.
LocalWipe ==
    /\ operation \in {"logout", "delete"}
    /\ operation' = "none"
    /\ hasToken' = FALSE /\ isAuthenticated' = FALSE
    /\ UNCHANGED <<manager, clearing, effect, appState, mounted>>

\* A refused deletion, an aborted recovery and a finished one reconnect.
OperationReconnects ==
    /\ operation \in {"delete", "recovery", "relogin"}
    /\ operation' = "none"
    /\ ConnectOnly
    /\ UNCHANGED <<account, effect, appState, mounted>>

LoginForRecovery ==
    /\ operation = "recovery"
    /\ operation' = "relogin"
    /\ SetTokens
    /\ UNCHANGED <<clearing, effect, appState, mounted>>

\* A recovery that fails after its wipe returns without reconnecting.
RecoveryFails ==
    /\ operation \in {"recovery", "relogin"}
    /\ operation' = "none"
    /\ UNCHANGED <<manager, account, effect, appState, mounted>>

-----------------------------------------------------------------------------
SocketEvent(s) ==
    \/ OnOpen(s)
    \/ \E type \in {"connection_ack", "other"} : OnMessage(s, type)
    \/ \E code \in CloseCodes : OnClose(s, code)

CallStep(c) == ReadToken(c) \/ ResumeBails(c) \/ ResumeOpens(c)

TimerStep ==
    \/ WatchdogFires
    \/ \E t \in ReconnectTimers : ReconnectTimerFires(t)
    \/ \E t \in GraceTimers : GraceTimerFires(t)

AppStateStep ==
    \/ BecomeActive
    \/ \E next \in AppStates : AppStateUnheard(next) \/ LeaveForeground(next)

ScreenStep ==
    \E screen \in Screens : \/ UnmountScreen(screen)
                            \/ \E id \in Conversations : MountScreen(screen, id)

SessionStep ==
    \/ EffectConnects \/ EffectDisconnects \/ ActivityDestroyed
    \/ Login \/ RestoreSession \/ Unauthorized \/ HandleTokensCleared

OperationStep ==
    \/ \E op \in Operations : StartOperation(op)
    \/ LocalWipe \/ OperationReconnects \/ LoginForRecovery \/ RecoveryFails

Next ==
    \/ \E s \in Sockets : SocketEvent(s)
    \/ \E c \in ConnectCalls : CallStep(c)
    \/ TimerStep \/ AppStateStep \/ ScreenStep \/ SessionStep \/ OperationStep

Spec == Init /\ [][Next]_vars

(***************************************************************************)
(* Fairness: the JavaScript event loop runs what is ready.  Native reads   *)
(* resolve, suspended functions resume, due reconnect timeouts fire, React *)
(* flushes effects, and a socket that was closed reports it.  Nothing is   *)
(* assumed of the network, the server or the user.                         *)
(***************************************************************************)
Fairness ==
    /\ \A c \in ConnectCalls : WF_vars(CallStep(c))
    /\ \A t \in ReconnectTimers : WF_vars(ReconnectTimerFires(t))
    /\ \A s \in Sockets : WF_vars(readyState[s] = "closing" /\ \E code \in CloseCodes : OnClose(s, code))
    /\ WF_vars(EffectConnects) /\ WF_vars(EffectDisconnects)
    /\ WF_vars(HandleTokensCleared)

FairSpec == Spec /\ Fairness

-----------------------------------------------------------------------------
(***************************************************************************)
(* Properties.                                                             *)
(***************************************************************************)

LinkTypeOK ==
    /\ connectionStatus \in Statuses
    /\ socket \in Sockets \cup {None}
    /\ readyState \in [Sockets -> ReadyStates]
    /\ subscribed \in [Sockets -> SUBSET Conversations]
    /\ subscriptions \subseteq Conversations

TimersTypeOK ==
    /\ pingTimer \in BOOLEAN /\ watchdogTimer \in BOOLEAN
    /\ reconnectTimer \in ReconnectTimers \cup {None}
    /\ armedReconnects \subseteq ReconnectTimers
    /\ backgroundGraceTimer \in GraceTimers \cup {None}
    /\ armedGraces \subseteq GraceTimers
    /\ reconnectAttempt \in 0..MaxAttempt

CallsTypeOK ==
    /\ disconnectRequested \in BOOLEAN
    /\ appStateSubscription \in BOOLEAN /\ unsubTokenRefresh \in BOOLEAN
    /\ connectCalls \in [ConnectCalls -> CallStates]
    /\ cancelled \subseteq ConnectCalls

SessionTypeOK ==
    /\ isAuthenticated \in BOOLEAN /\ hasToken \in BOOLEAN /\ clearing \in BOOLEAN
    /\ effect \in {"unmounted", "out", "in"}
    /\ appState \in AppStates
    /\ operation \in RunningOperations
    /\ mounted \in [Screens -> Conversations \cup {None}]

TypeOK == LinkTypeOK /\ TimersTypeOK /\ CallsTypeOK /\ SessionTypeOK

\* Whatever the order of mounts, opens, closes and overlapping connects, every
\* conversation in the set has a subscribe frame on the current open socket:
\* the one sent by subscribe() or the one replayed by onOpen.
SubscriptionsReplayed == CurrentOpen => subscriptions \subseteq subscribed[socket]

\* A current open socket is always being pinged and watched, although the two
\* timers are shared by every socket and any socket's close event stops them.
HeartbeatArmed == CurrentOpen => pingTimer /\ watchdogTimer

\* A current socket always has the two listeners that may close it; both are
\* removed by every disconnect() and put back by whichever connect() resumes.
ListenersWithSocket == socket # None => appStateSubscription /\ unsubTokenRefresh

\* connect() returns early on 'connecting' and 'connected', so a status left
\* behind without a socket would keep the client offline for good: some socket,
\* current or not, is still there to report its close.
StatusBacked == connectionStatus \in {"connecting", "connected"} => Live # {}

\* The header's "single WebSocket connection": at most one socket is being
\* opened or open.
SingleSocket == \A s, t \in Usable : s = t

\* Every usable socket is the one the manager can close.
NoOrphanSocket == Usable \subseteq {socket}

\* #110: a connect() suspended when disconnect() ran opens no socket.
CancelledConnectBails ==
    [][\A c \in cancelled : connectCalls[c] # "idle" /\ connectCalls'[c] = "idle"
                              => socket' = socket]_vars

\* "reconnect attempts ... during the cleanup window": once logout() called
\* disconnect(), nothing is dialled while it waits to wipe the session.
NoReconnectDuringLogout == operation = "logout" => armedReconnects = {}

\* "cancels grace timer when returning to active": in the foreground, with the
\* listener installed, no grace timeout is left to disconnect the user.
GraceCancelled == appState = "active" /\ appStateSubscription => armedGraces = {}

\* Returning to the foreground, disconnected and authenticated with nothing in
\* progress, starts a connect().
ForegroundReconnects ==
    [][appState # "active" /\ appState' = "active" /\ connectionStatus = "disconnected"
         /\ isAuthenticated /\ hasToken /\ effect = "in" /\ operation = "none" /\ Pending = {}
       => Pending' # {}]_vars

\* "Token refresh triggers reconnect": a refresh that closes the current socket
\* also starts a connect().
RefreshReconnects ==
    [][hasToken /\ CurrentOpen /\ operation = "recovery" /\ operation' = "relogin"
       => Pending' # Pending]_vars

\* "Always tracked in the subscriptions set for replay on reconnect": what a
\* mounted screen shows is in the set.
MountedTracked == \A s \in Screens : mounted[s] # None => mounted[s] \in subscriptions

\* "0 = first reconnect": the retry after a working connection starts from the
\* base delay.
FirstReconnectIsFast ==
    [][connectionStatus = "connected" /\ connectionStatus' = "reconnecting"
       => reconnectAttempt = 0]_vars

\* 'reconnecting' is a promise to the user (ThreadsScreen shows it): while the
\* session lasts it ends, because a timeout, a suspended connect() or App's
\* effect is always left to move it on, whatever disconnects and late close
\* events happened in between.
ReconnectingEnds ==
    connectionStatus = "reconnecting" /\ isAuthenticated
        ~> connectionStatus # "reconnecting" \/ ~isAuthenticated

-----------------------------------------------------------------------------
\* The environment in which the manager is what its header says: one connect()
\* at a time, and a closed socket gone before the next one is made.
Phase(states) ==
    CASE \E s \in Sockets : states[s] = "open" -> "open"
      [] \E s \in Sockets : states[s] = "connecting" -> "dialing"
      [] \E s \in Sockets : states[s] = "closing" -> "closing"
      [] OTHER -> "idle"

Lifecycle == INSTANCE SingleConnection WITH connection <- Phase(readyState)
ImplementsSingleConnection == Lifecycle!Spec
=============================================================================
