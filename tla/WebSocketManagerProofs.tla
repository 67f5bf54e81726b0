----------------------- MODULE WebSocketManagerProofs -----------------------
(***************************************************************************)
(* Proofs about WebSocketManager, for every set of sockets, calls, timers, *)
(* screens and conversations.                                              *)
(***************************************************************************)
EXTENDS WebSocketManager, TLAPS

-----------------------------------------------------------------------------
(* Type correctness. *)

\* The backoff counter stays within its bound.
LEMMA BumpRange ==
    /\ 0 \in 0..MaxAttempt
    /\ \A n \in 0..MaxAttempt : Bump(n) \in 0..MaxAttempt
BY BoundsAssumption DEF Bump

\* Every initial state of the manager and its callers has the declared types.
LEMMA InitTypeOK == Init => TypeOK
<1> SUFFICES ASSUME Init PROVE TypeOK
  OBVIOUS
<1>1. LinkTypeOK
  <2>1. readyState \in [Sockets -> ReadyStates] /\ subscribed \in [Sockets -> SUBSET Conversations]
    BY DEF Init, ReadyStates
  <2> QED
    BY <2>1 DEF Init, LinkTypeOK, Statuses
<1>2. TimersTypeOK
  BY BumpRange, Zenon DEF Init, TimersTypeOK
<1>3. CallsTypeOK
  BY DEF Init, CallsTypeOK, CallStates
<1>4. SessionTypeOK
  BY AppStatesAssumption DEF Init, SessionTypeOK, RunningOperations, NoScreens
<1> QED
  BY <1>1, <1>2, <1>3, <1>4 DEF TypeOK

\* The synchronous half of connect() keeps the types of the call table; the
\* listeners are registered and removed elsewhere.
LEMMA ConnectType ==
    ASSUME CallsTypeOK, Connect, UNCHANGED listeners
    PROVE  CallsTypeOK'
BY DEF CallsTypeOK, Connect, BusyStatuses, Pending, CallStates, listeners

\* disconnect() keeps the types of the manager, whatever timeouts survive it.
LEMMA TeardownType ==
    ASSUME LinkTypeOK, CallsTypeOK, TimersTypeOK,
           NEW R \in SUBSET ReconnectTimers, NEW G \in SUBSET GraceTimers,
           Teardown(R, G)
    PROVE  LinkTypeOK' /\ TimersTypeOK' /\ CallsTypeOK'
<1>1. LinkTypeOK'
  <2>1. readyState' \in [Sockets -> ReadyStates]
    BY DEF LinkTypeOK, Teardown, ClosedCurrent, ReadyStates
  <2> QED
    BY <2>1 DEF LinkTypeOK, Teardown, Statuses
<1>2. TimersTypeOK'
  BY BumpRange, Zenon DEF TimersTypeOK, Teardown
<1>3. CallsTypeOK'
  BY DEF CallsTypeOK, Teardown, Pending
<1> QED
  BY <1>1, <1>2, <1>3

\* Steps of the suspended connect() calls keep the types.
LEMMA CallStepType ==
    ASSUME TypeOK, NEW c \in ConnectCalls, CallStep(c)
    PROVE  TypeOK'
<1> USE DEF TypeOK
<1>1. CASE ReadToken(c)
  <2>1. CallsTypeOK'
    BY <1>1 DEF ReadToken, CallsTypeOK, CallStates, listeners
  <2> QED
    BY <1>1, <2>1 DEF ReadToken, LinkTypeOK, TimersTypeOK, SessionTypeOK, session, account,
       link, frames, timers, reconnect, grace
<1>2. CASE ResumeBails(c)
  <2>1. CallsTypeOK'
    BY <1>2 DEF ResumeBails, EndCall, CallsTypeOK, CallStates, listeners
  <2> QED
    BY <1>2, <2>1 DEF ResumeBails, LinkTypeOK, TimersTypeOK, SessionTypeOK, session, account,
       link, frames, timers, reconnect, grace
<1>3. CASE ResumeOpens(c)
  <2>1. CallsTypeOK'
    BY <1>3 DEF ResumeOpens, EndCall, RegisterListeners, CallsTypeOK, CallStates
  <2>2. LinkTypeOK'
    BY <1>3 DEF ResumeOpens, LinkTypeOK, Live, Statuses, ReadyStates
  <2> QED
    BY <1>3, <2>1, <2>2 DEF ResumeOpens, TimersTypeOK, SessionTypeOK, session, account,
       timers, reconnect, grace
<1> QED
  BY <1>1, <1>2, <1>3 DEF CallStep

\* Socket events keep the types.
LEMMA SocketEventType ==
    ASSUME TypeOK, NEW s \in Sockets, SocketEvent(s)
    PROVE  TypeOK'
<1> USE DEF TypeOK
<1>1. CASE OnOpen(s)
  <2>1. LinkTypeOK'
    <3>1. readyState' \in [Sockets -> ReadyStates]
      BY <1>1 DEF OnOpen, LinkTypeOK, ReadyStates
    <3>2. subscribed' \in [Sockets -> SUBSET Conversations]
      BY <1>1 DEF OnOpen, ReplaySubscriptions, SendSubscribes, LinkTypeOK
    <3> QED
      BY <1>1, <3>1, <3>2 DEF OnOpen, LinkTypeOK
  <2> QED
    BY <1>1, <2>1 DEF OnOpen, TimersTypeOK, CallsTypeOK, SessionTypeOK, session, account,
       reconnect, grace, calls, listeners
<1>2. ASSUME NEW type, OnMessage(s, type) PROVE TypeOK'
  <2>1. LinkTypeOK'
    BY <1>2 DEF OnMessage, LinkTypeOK, Statuses, link, frames
  <2> QED
    BY <1>2, <2>1 DEF OnMessage, TimersTypeOK, CallsTypeOK, SessionTypeOK, session, account,
       reconnect, grace, calls, listeners
<1>3. ASSUME NEW code, OnClose(s, code) PROVE TypeOK'
  <2>1. LinkTypeOK'
    BY <1>3 DEF OnClose, CleanupSocket, ScheduleReconnect, LinkTypeOK, Statuses, ReadyStates,
       frames
  <2>2. TimersTypeOK'
    <3>1. CASE ShouldReconnect(code) /\ isAuthenticated
      BY <1>3, <3>1, BumpRange, Zenon
         DEF OnClose, CleanupSocket, ScheduleReconnect, ArmReconnect, TimersTypeOK, grace
    <3>2. CASE ~(ShouldReconnect(code) /\ isAuthenticated)
      BY <1>3, <3>2, BumpRange, Zenon DEF OnClose, CleanupSocket, TimersTypeOK, reconnect, grace
    <3> QED
      BY <3>1, <3>2
  <2> QED
    BY <1>3, <2>1, <2>2 DEF OnClose, CallsTypeOK, SessionTypeOK, session, account, calls, listeners
<1> QED
  BY <1>1, <1>2, <1>3 DEF SocketEvent

\* Timeouts keep the types.
LEMMA TimerStepType ==
    ASSUME TypeOK, TimerStep
    PROVE  TypeOK'
<1> USE DEF TypeOK
<1>1. CASE WatchdogFires
  <2>1. LinkTypeOK'
    BY <1>1 DEF WatchdogFires, ClosedCurrent, Usable, LinkTypeOK, ReadyStates, frames
  <2> QED
    BY <1>1, <2>1 DEF WatchdogFires, TimersTypeOK, CallsTypeOK, SessionTypeOK, session, account,
       reconnect, grace, calls, listeners
<1>2. ASSUME NEW t \in ReconnectTimers, ReconnectTimerFires(t) PROVE TypeOK'
  <2>1. CallsTypeOK'
    BY <1>2, ConnectType DEF ReconnectTimerFires
  <2> QED
    BY <1>2, <2>1 DEF ReconnectTimerFires, LinkTypeOK, TimersTypeOK, SessionTypeOK, session,
       account, link, frames, timers, grace
<1>3. ASSUME NEW t \in GraceTimers, GraceTimerFires(t) PROVE TypeOK'
  <2>1. /\ armedReconnects \ {reconnectTimer} \in SUBSET ReconnectTimers
        /\ armedGraces \ {t} \in SUBSET GraceTimers
    BY DEF TimersTypeOK
  <2>2. LinkTypeOK' /\ TimersTypeOK' /\ CallsTypeOK'
    BY <1>3, <2>1, TeardownType DEF GraceTimerFires
  <2> QED
    BY <1>3, <2>2 DEF GraceTimerFires, SessionTypeOK, session, account
<1> QED
  BY <1>1, <1>2, <1>3 DEF TimerStep

\* AppState changes keep the types.
LEMMA AppStateStepType ==
    ASSUME TypeOK, AppStateStep
    PROVE  TypeOK'
<1> USE DEF TypeOK
<1>1. ASSUME NEW next \in AppStates, AppStateFollows(next) PROVE SessionTypeOK'
  BY <1>1 DEF AppStateFollows, SessionTypeOK, account
<1>2. ASSUME NEW next \in AppStates, AppStateUnheard(next) PROVE TypeOK'
  BY <1>1, <1>2 DEF AppStateUnheard, LinkTypeOK, TimersTypeOK, CallsTypeOK, manager, link, frames,
     timers, reconnect, grace, listeners, calls
<1>3. CASE BecomeActive
  <2>1. CallsTypeOK'
    BY <1>3, ConnectType DEF BecomeActive, CallsTypeOK, calls, listeners
  <2>2. LinkTypeOK' /\ TimersTypeOK'
    BY <1>3, Zenon DEF BecomeActive, LinkTypeOK, TimersTypeOK, link, frames, timers, reconnect
  <2> QED
    BY <1>1, <1>3, <2>1, <2>2, AppStatesAssumption DEF BecomeActive
<1>4. ASSUME NEW next \in AppStates, LeaveForeground(next) PROVE TypeOK'
  <2>1. TimersTypeOK'
    BY <1>4, Zenon DEF LeaveForeground, TimersTypeOK, timers, reconnect
  <2> QED
    BY <1>1, <1>4, <2>1 DEF LeaveForeground, LinkTypeOK, CallsTypeOK, link, frames, listeners, calls
<1> QED
  BY <1>2, <1>3, <1>4 DEF AppStateStep

\* Mounting and unmounting screens keeps the types.
LEMMA ScreenStepType ==
    ASSUME TypeOK, ScreenStep
    PROVE  TypeOK'
<1> USE DEF TypeOK
<1>1. ASSUME NEW w \in Screens, NEW id \in Conversations, MountScreen(w, id) PROVE TypeOK'
  <2>1. subscribed' \in [Sockets -> SUBSET Conversations]
    BY <1>1 DEF MountScreen, SendSubscribes, LinkTypeOK
  <2>2. LinkTypeOK'
    BY <1>1, <2>1 DEF MountScreen, LinkTypeOK, link
  <2>3. SessionTypeOK'
    BY <1>1 DEF MountScreen, SessionTypeOK, account
  <2> QED
    BY <1>1, <2>2, <2>3 DEF MountScreen, TimersTypeOK, CallsTypeOK, timers, reconnect, grace,
       listeners, calls
<1>2. ASSUME NEW w \in Screens, UnmountScreen(w) PROVE TypeOK'
  <2>1. LinkTypeOK'
    BY <1>2 DEF UnmountScreen, LinkTypeOK, link
  <2>2. SessionTypeOK'
    BY <1>2 DEF UnmountScreen, SessionTypeOK, account
  <2> QED
    BY <1>2, <2>1, <2>2 DEF UnmountScreen, TimersTypeOK, CallsTypeOK, timers, reconnect, grace,
       listeners, calls
<1> QED
  BY <1>1, <1>2 DEF ScreenStep

\* disconnect() keeps the types.
LEMMA DisconnectType ==
    ASSUME LinkTypeOK, CallsTypeOK, TimersTypeOK, Disconnect
    PROVE  LinkTypeOK' /\ TimersTypeOK' /\ CallsTypeOK'
<1>1. /\ armedReconnects \ {reconnectTimer} \in SUBSET ReconnectTimers
      /\ armedGraces \ {backgroundGraceTimer} \in SUBSET GraceTimers
  BY DEF TimersTypeOK
<1> QED
  BY <1>1, TeardownType DEF Disconnect

\* A connect() from outside the manager keeps the types.
LEMMA ConnectOnlyType ==
    ASSUME LinkTypeOK, CallsTypeOK, TimersTypeOK, ConnectOnly
    PROVE  LinkTypeOK' /\ TimersTypeOK' /\ CallsTypeOK'
<1>1. CallsTypeOK'
  BY ConnectType DEF ConnectOnly
<1> QED
  BY <1>1 DEF ConnectOnly, LinkTypeOK, TimersTypeOK, link, frames, timers, reconnect, grace

\* Storing new tokens keeps the types of the manager, whether or not the
\* refresh listener replaces the socket.
LEMMA SetTokensType ==
    ASSUME LinkTypeOK, CallsTypeOK, TimersTypeOK, SetTokens
    PROVE  LinkTypeOK' /\ TimersTypeOK' /\ CallsTypeOK'
<1>1. CASE hasToken /\ unsubTokenRefresh /\ CurrentOpen
  <2>1. /\ readyState' = ClosedCurrent /\ CleanupSocket(socket) /\ reconnectAttempt' = 0
        /\ Connect /\ UNCHANGED <<connectionStatus, frames, reconnect, grace, listeners>>
    BY <1>1 DEF SetTokens
  <2>2. CallsTypeOK'
    BY <2>1, ConnectType
  <2>3. readyState' \in [Sockets -> ReadyStates]
    BY <2>1 DEF LinkTypeOK, ClosedCurrent, ReadyStates
  <2>4. LinkTypeOK'
    BY <2>1, <2>3 DEF LinkTypeOK, CleanupSocket, frames
  <2>5. TimersTypeOK'
    BY <2>1, BumpRange, Zenon DEF TimersTypeOK, CleanupSocket, reconnect, grace
  <2> QED
    BY <2>2, <2>4, <2>5
<1>2. CASE ~(hasToken /\ unsubTokenRefresh /\ CurrentOpen)
  BY <1>2 DEF SetTokens, LinkTypeOK, TimersTypeOK, CallsTypeOK, manager, link, frames, timers,
     reconnect, grace, listeners, calls
<1> QED
  BY <1>1, <1>2

\* A step that leaves the manager alone leaves its types alone.
LEMMA ManagerUnchangedType ==
    ASSUME LinkTypeOK, TimersTypeOK, CallsTypeOK, UNCHANGED manager
    PROVE  LinkTypeOK' /\ TimersTypeOK' /\ CallsTypeOK'
BY DEF LinkTypeOK, TimersTypeOK, CallsTypeOK, manager, link, frames, timers, reconnect, grace,
   listeners, calls

\* The App effect, logins, restores and 401s keep the types.
LEMMA SessionStepType ==
    ASSUME TypeOK, SessionStep
    PROVE  TypeOK'
<1> USE DEF TypeOK
<1>1. CASE EffectConnects
  <2>1. SessionTypeOK'
    BY <1>1 DEF EffectConnects, SessionTypeOK, account
  <2> QED
    BY <1>1, <2>1, ConnectOnlyType DEF EffectConnects
<1>2. ASSUME NEW next \in {"unmounted", "out"}, EffectCleanup(next) PROVE TypeOK'
  <2>1. SessionTypeOK'
    BY <1>2 DEF EffectCleanup, NoScreens, SessionTypeOK, account
  <2> QED
    BY <1>2, <2>1, DisconnectType DEF EffectCleanup
<1>3. CASE Login
  <2>1. SessionTypeOK'
    BY <1>3 DEF Login, SetTokens, SessionTypeOK
  <2> QED
    BY <1>3, <2>1, SetTokensType DEF Login
<1>4. CASE RestoreSession
  BY <1>4, ManagerUnchangedType DEF RestoreSession, SessionTypeOK
<1>5. CASE Unauthorized
  BY <1>5, ManagerUnchangedType DEF Unauthorized, SessionTypeOK
<1>6. CASE HandleTokensCleared
  <2>1. SessionTypeOK'
    BY <1>6, Zenon DEF HandleTokensCleared, SessionTypeOK
  <2> QED
    BY <1>6, <2>1, ManagerUnchangedType DEF HandleTokensCleared
<1> QED
  BY <1>1, <1>2, <1>3, <1>4, <1>5, <1>6 DEF SessionStep, EffectDisconnects, ActivityDestroyed

\* Logout, deletion and recovery keep the types.
LEMMA OperationStepType ==
    ASSUME TypeOK, OperationStep
    PROVE  TypeOK'
<1> USE DEF TypeOK
<1>1. ASSUME NEW op \in Operations, StartOperation(op) PROVE TypeOK'
  <2>1. SessionTypeOK'
    BY <1>1, OperationsAssumption DEF StartOperation, SessionTypeOK, RunningOperations, account
  <2> QED
    BY <1>1, <2>1, DisconnectType DEF StartOperation
<1>2. CASE LocalWipe
  BY <1>2, ManagerUnchangedType DEF LocalWipe, SessionTypeOK, RunningOperations
<1>3. CASE OperationReconnects
  <2>1. SessionTypeOK'
    BY <1>3 DEF OperationReconnects, SessionTypeOK, RunningOperations, account
  <2> QED
    BY <1>3, <2>1, ConnectOnlyType DEF OperationReconnects
<1>4. CASE LoginForRecovery
  <2>1. SessionTypeOK'
    BY <1>4 DEF LoginForRecovery, SetTokens, SessionTypeOK, RunningOperations
  <2> QED
    BY <1>4, <2>1, SetTokensType DEF LoginForRecovery
<1>5. CASE RecoveryFails
  BY <1>5, ManagerUnchangedType DEF RecoveryFails, SessionTypeOK, RunningOperations, account
<1> QED
  BY <1>1, <1>2, <1>3, <1>4, <1>5 DEF OperationStep

\* A stuttering step keeps the types.
LEMMA StutterType ==
    ASSUME TypeOK, UNCHANGED vars
    PROVE  TypeOK'
<1>1. SessionTypeOK'
  BY DEF TypeOK, SessionTypeOK, vars, session, account
<1> QED
  BY <1>1, ManagerUnchangedType DEF TypeOK, vars

\* Every reachable state of the manager and its callers is well typed.
THEOREM TypeCorrect == Spec => []TypeOK
<1>1. TypeOK /\ [Next]_vars => TypeOK'
  BY CallStepType, SocketEventType, TimerStepType, AppStateStepType, ScreenStepType,
     SessionStepType, OperationStepType, StutterType DEF Next
<1> QED
  BY <1>1, InitTypeOK, PTL DEF Spec

-----------------------------------------------------------------------------
(* What a step can do to the connection.  Most actions leave it alone, so  *)
(* the invariants below need only look at the few that do not.             *)

connection == <<connectionStatus, link, frames, timers, listeners>>

\* The connection is left alone; at most one connect() call starts.
Quiet == UNCHANGED connection /\ (Connect \/ Pending' \subseteq Pending)

\* disconnect(), from whichever caller.
TornDown == \E R \in SUBSET ReconnectTimers, G \in SUBSET GraceTimers : Teardown(R, G)

\* The refresh listener replaces the current socket.
Refreshed ==
    /\ CurrentOpen
    /\ readyState' = ClosedCurrent /\ CleanupSocket(socket)
    /\ Connect
    /\ UNCHANGED <<connectionStatus, frames, listeners>>

\* A frame of subscribe() or none; the set gains or loses a conversation.
Resubscribed ==
    /\ \/ \E id \in Conversations : /\ subscriptions' = subscriptions \cup {id}
                                    /\ SendSubscribes({id}, readyState)
       \/ \E id : subscriptions' = subscriptions \ {id} /\ UNCHANGED subscribed
    /\ UNCHANGED <<connectionStatus, link, timers, listeners, connectCalls>>

ConnectionStep ==
    \/ TornDown \/ Refreshed \/ Resubscribed \/ WatchdogFires
    \/ \E c \in ConnectCalls : ResumeOpens(c)
    \/ \E s \in Sockets : SocketEvent(s)

\* Every step is one of the connection's own or leaves it alone.
LEMMA StepKinds ==
    ASSUME TypeOK, [Next]_vars
    PROVE  Quiet \/ ConnectionStep
<1>1. CASE UNCHANGED vars
  BY <1>1 DEF vars, manager, calls, Quiet, connection, Pending
<1>2. ASSUME UNCHANGED manager PROVE Quiet
  BY <1>2 DEF manager, calls, Quiet, connection, Pending
<1>3. ASSUME ConnectOnly PROVE Quiet
  BY <1>3 DEF ConnectOnly, Quiet, connection
<1>4. ASSUME Disconnect PROVE TornDown
  <2>1. /\ armedReconnects \ {reconnectTimer} \in SUBSET ReconnectTimers
        /\ armedGraces \ {backgroundGraceTimer} \in SUBSET GraceTimers
    BY DEF TypeOK, TimersTypeOK
  <2> QED
    BY <1>4, <2>1 DEF Disconnect, TornDown
<1>5. ASSUME SetTokens PROVE Quiet \/ Refreshed
  BY <1>2, <1>5 DEF SetTokens, Refreshed
<1>6. ASSUME NEW c \in ConnectCalls, CallStep(c) PROVE Quiet \/ ResumeOpens(c)
  <2>1. CASE ReadToken(c)
    BY <2>1 DEF ReadToken, Quiet, connection, Pending, TypeOK, CallsTypeOK
  <2>2. CASE ResumeBails(c)
    BY <2>2 DEF ResumeBails, EndCall, Quiet, connection, Pending, TypeOK, CallsTypeOK
  <2> QED
    BY <1>6, <2>1, <2>2 DEF CallStep
<1>7. CASE TimerStep
  <2>1. ASSUME NEW t \in ReconnectTimers, ReconnectTimerFires(t) PROVE Quiet
    BY <2>1 DEF ReconnectTimerFires, Quiet, connection
  <2>2. ASSUME NEW t \in GraceTimers, GraceTimerFires(t) PROVE TornDown
    <3>1. /\ armedReconnects \ {reconnectTimer} \in SUBSET ReconnectTimers
          /\ armedGraces \ {t} \in SUBSET GraceTimers
      BY DEF TypeOK, TimersTypeOK
    <3> QED
      BY <2>2, <3>1 DEF GraceTimerFires, TornDown
  <2> QED
    BY <1>7, <2>1, <2>2 DEF TimerStep, ConnectionStep
<1>8. CASE AppStateStep
  <2>1. CASE BecomeActive
    BY <2>1 DEF BecomeActive, calls, Quiet, connection, Pending
  <2>2. ASSUME NEW next \in AppStates, LeaveForeground(next) PROVE Quiet
    BY <2>2 DEF LeaveForeground, calls, Quiet, connection, Pending
  <2> QED
    BY <1>2, <1>8, <2>1, <2>2 DEF AppStateStep, AppStateUnheard
<1>9. CASE ScreenStep
  BY <1>9 DEF ScreenStep, MountScreen, UnmountScreen, calls, Resubscribed, ConnectionStep
<1>10. CASE SessionStep
  BY <1>2, <1>3, <1>4, <1>5, <1>10
     DEF SessionStep, EffectConnects, EffectDisconnects, ActivityDestroyed, EffectCleanup, Login,
         RestoreSession, Unauthorized, HandleTokensCleared, ConnectionStep
<1>11. CASE OperationStep
  BY <1>2, <1>3, <1>4, <1>5, <1>11
     DEF OperationStep, StartOperation, LocalWipe, OperationReconnects, LoginForRecovery,
         RecoveryFails, ConnectionStep
<1> QED
  BY <1>1, <1>6, <1>7, <1>8, <1>9, <1>10, <1>11 DEF Next, ConnectionStep

-----------------------------------------------------------------------------
(* Safety of the manager, with any number of overlapping connect() calls.  *)

\* A busy status always has a socket that will report its close: no step
\* leaves 'connecting' or 'connected' behind after the last close event.
THEOREM StatusBackedAlways == Spec => []StatusBacked
<1>1. Init => StatusBacked
  BY DEF Init, StatusBacked
<1>2. ASSUME TypeOK, StatusBacked, [Next]_vars PROVE StatusBacked'
  <2> USE DEF StatusBacked, Live
  <2>1. CASE Quiet
    BY <1>2, <2>1 DEF Quiet, connection, link
  <2>2. CASE TornDown
    BY <2>2 DEF TornDown, Teardown
  <2>3. CASE Refreshed \/ WatchdogFires
    BY <1>2, <2>3 DEF Refreshed, WatchdogFires, ClosedCurrent, Usable, TypeOK, LinkTypeOK
  <2>4. CASE Resubscribed
    BY <1>2, <2>4 DEF Resubscribed, link
  <2>5. ASSUME NEW c \in ConnectCalls, ResumeOpens(c) PROVE StatusBacked'
    BY <1>2, <2>5 DEF ResumeOpens, TypeOK, LinkTypeOK
  <2>6. ASSUME NEW s \in Sockets, SocketEvent(s) PROVE StatusBacked'
    <3>1. CASE OnOpen(s)
      BY <1>2, <3>1 DEF OnOpen, TypeOK, LinkTypeOK
    <3>2. ASSUME NEW type, OnMessage(s, type) PROVE StatusBacked'
      BY <1>2, <3>2 DEF OnMessage, link
    <3>3. ASSUME NEW code, OnClose(s, code) PROVE StatusBacked'
      BY <3>3 DEF OnClose, ScheduleReconnect
    <3> QED
      BY <2>6, <3>1, <3>2, <3>3 DEF SocketEvent
  <2> QED
    BY <1>2, <2>1, <2>2, <2>3, <2>4, <2>5, <2>6, StepKinds DEF ConnectionStep
<1> QED
  BY <1>1, <1>2, TypeCorrect, PTL DEF Spec

\* A current socket always has both listeners: no interleaving of connect()
\* and disconnect() leaves a socket whose refresh or backgrounding is unheard.
THEOREM ListenersWithSocketAlways == Spec => []ListenersWithSocket
<1>1. Init => ListenersWithSocket
  BY DEF Init, ListenersWithSocket
<1>2. ASSUME TypeOK, ListenersWithSocket, [Next]_vars PROVE ListenersWithSocket'
  <2> USE DEF ListenersWithSocket
  <2>1. CASE Quiet \/ Resubscribed \/ WatchdogFires
    BY <1>2, <2>1 DEF Quiet, connection, link, listeners, Resubscribed, WatchdogFires
  <2>2. CASE TornDown \/ Refreshed
    BY <2>2 DEF TornDown, Teardown, Refreshed, CleanupSocket
  <2>3. ASSUME NEW c \in ConnectCalls, ResumeOpens(c) PROVE ListenersWithSocket'
    BY <2>3 DEF ResumeOpens, RegisterListeners
  <2>4. ASSUME NEW s \in Sockets, SocketEvent(s) PROVE ListenersWithSocket'
    BY <1>2, <2>4 DEF SocketEvent, OnOpen, OnMessage, OnClose, CleanupSocket, link, listeners
  <2> QED
    BY <1>2, <2>1, <2>2, <2>3, <2>4, StepKinds DEF ConnectionStep
<1> QED
  BY <1>1, <1>2, TypeCorrect, PTL DEF Spec

\* A current open socket is pinged and watched: its timers outlive the close
\* events of the sockets it replaced.
THEOREM HeartbeatArmedAlways == Spec => []HeartbeatArmed
<1>1. Init => HeartbeatArmed
  BY DEF Init, HeartbeatArmed, CurrentOpen
<1>2. ASSUME TypeOK, HeartbeatArmed, [Next]_vars PROVE HeartbeatArmed'
  <2> USE DEF HeartbeatArmed, CurrentOpen
  <2>1. CASE Quiet \/ Resubscribed
    BY <1>2, <2>1 DEF Quiet, connection, link, timers, Resubscribed
  <2>2. CASE TornDown \/ Refreshed
    BY <2>2 DEF TornDown, Teardown, Refreshed, CleanupSocket
  <2>3. CASE WatchdogFires
    BY <1>2, <2>3 DEF WatchdogFires, ClosedCurrent, Usable, TypeOK, LinkTypeOK
  <2>4. ASSUME NEW c \in ConnectCalls, ResumeOpens(c) PROVE HeartbeatArmed'
    BY <1>2, <2>4 DEF ResumeOpens, TypeOK, LinkTypeOK
  <2>5. ASSUME NEW s \in Sockets, SocketEvent(s) PROVE HeartbeatArmed'
    BY <1>2, <2>5 DEF SocketEvent, OnOpen, OnMessage, OnClose, CleanupSocket, link
  <2> QED
    BY <1>2, <2>1, <2>2, <2>3, <2>4, <2>5, StepKinds DEF ConnectionStep
<1> QED
  BY <1>1, <1>2, TypeCorrect, PTL DEF Spec

\* Every tracked conversation was subscribed on the current open socket,
\* whichever socket's open event sent the replay.
THEOREM SubscriptionsReplayedAlways == Spec => []SubscriptionsReplayed
<1>1. Init => SubscriptionsReplayed
  BY DEF Init, SubscriptionsReplayed
<1>2. ASSUME TypeOK, SubscriptionsReplayed, [Next]_vars PROVE SubscriptionsReplayed'
  <2> USE DEF SubscriptionsReplayed, CurrentOpen
  <2>1. CASE Quiet
    BY <1>2, <2>1 DEF Quiet, connection, link, frames
  <2>2. CASE TornDown \/ Refreshed
    BY <2>2 DEF TornDown, Teardown, Refreshed, CleanupSocket
  <2>3. CASE WatchdogFires
    BY <1>2, <2>3 DEF WatchdogFires, ClosedCurrent, Usable, TypeOK, LinkTypeOK, frames
  <2>4. CASE Resubscribed
    BY <1>2, <2>4 DEF Resubscribed, SendSubscribes, link, TypeOK, LinkTypeOK
  <2>5. ASSUME NEW c \in ConnectCalls, ResumeOpens(c) PROVE SubscriptionsReplayed'
    BY <1>2, <2>5 DEF ResumeOpens, TypeOK, LinkTypeOK
  <2>6. ASSUME NEW s \in Sockets, SocketEvent(s) PROVE SubscriptionsReplayed'
    <3>1. CASE OnOpen(s)
      BY <1>2, <3>1 DEF OnOpen, ReplaySubscriptions, SendSubscribes, TypeOK, LinkTypeOK
    <3>2. ASSUME NEW type, OnMessage(s, type) PROVE SubscriptionsReplayed'
      BY <1>2, <3>2 DEF OnMessage, link, frames
    <3>3. ASSUME NEW code, OnClose(s, code) PROVE SubscriptionsReplayed'
      BY <3>3 DEF OnClose, CleanupSocket
    <3> QED
      BY <2>6, <3>1, <3>2, <3>3 DEF SocketEvent
  <2> QED
    BY <1>2, <2>1, <2>2, <2>3, <2>4, <2>5, <2>6, StepKinds DEF ConnectionStep
<1> QED
  BY <1>1, <1>2, TypeCorrect, PTL DEF Spec

-----------------------------------------------------------------------------
(* What it takes to lose a socket.                                         *)

\* A connect() goes past its guard while another is suspended.
Overlaps == Pending # {} /\ Pending' \ Pending # {}

\* A closed socket reports its close while a later one is in use.
LateClose ==
    \E s \in Sockets : readyState[s] = "closing" /\ readyState'[s] = "unused" /\ Usable # {}

\* A socket is made while a closed one has still to report its close.
EarlyDial ==
    \E s, t \in Sockets : /\ readyState[s] = "closing"
                          /\ readyState[t] = "unused" /\ readyState'[t] = "connecting"

\* Inductive as long as neither of the first two happens: the guard of connect() reads the
\* status, so usable sockets must show in it, and a suspended call, which no longer reads it,
\* must find none.
OwnedInv ==
    /\ \A c, d \in Pending : c = d
    /\ NoOrphanSocket
    /\ Usable # {} => connectionStatus \in BusyStatuses
    /\ Pending # {} => Usable = {}

\* The inductive step.
LEMMA OwnedStep ==
    ASSUME TypeOK, OwnedInv, [Next]_vars, ~Overlaps, ~LateClose
    PROVE  OwnedInv'
<1> USE DEF OwnedInv, NoOrphanSocket
<1>1. CASE Quiet
  <2>1. Usable' = Usable /\ socket' = socket /\ connectionStatus' = connectionStatus
    BY <1>1 DEF Quiet, connection, link, Usable
  <2>2. CASE Pending' \subseteq Pending
    BY <2>1, <2>2
  <2>3. CASE Connect /\ ~(Pending' \subseteq Pending)
    <3>1. Pending = {} /\ connectionStatus \notin BusyStatuses
      BY <2>3 DEF Connect, Overlaps, Pending
    <3>2. \A c, d \in Pending' : c = d
      BY <2>3, <3>1 DEF Connect, Pending, TypeOK, CallsTypeOK
    <3> QED
      BY <2>1, <3>1, <3>2
  <2> QED
    BY <1>1, <2>2, <2>3 DEF Quiet
<1>2. ASSUME readyState' = ClosedCurrent PROVE Usable' = {}
  BY <1>2 DEF ClosedCurrent, Usable, TypeOK, LinkTypeOK
<1>3. ASSUME Pending' = Pending, Usable' = {} PROVE OwnedInv'
  BY <1>3
<1>4. CASE TornDown
  BY <1>2, <1>3, <1>4 DEF TornDown, Teardown, Pending
<1>5. CASE Refreshed
  <2>1. Pending' \subseteq Pending \/ Pending = {}
    BY <1>5 DEF Overlaps
  <2>2. \A c, d \in Pending' : c = d
    BY <1>5, <2>1 DEF Refreshed, Connect, Pending, TypeOK, CallsTypeOK
  <2> QED
    BY <1>2, <1>5, <2>2 DEF Refreshed
<1>6. CASE WatchdogFires
  BY <1>2, <1>3, <1>6 DEF WatchdogFires, calls, Pending
<1>7. CASE Resubscribed
  BY <1>7 DEF Resubscribed, link, Usable, Pending
<1>8. ASSUME NEW c \in ConnectCalls, ResumeOpens(c) PROVE OwnedInv'
  <2>1. c \in Pending /\ Usable = {}
    BY <1>8 DEF ResumeOpens, Pending
  <2>2. PICK s \in Sockets : /\ socket' = s
                             /\ readyState' = [readyState EXCEPT ![s] = "connecting"]
    BY <1>8 DEF ResumeOpens, Live
  <2>3. Usable' = {s}
    BY <2>1, <2>2 DEF Usable, TypeOK, LinkTypeOK
  <2>4. Pending' = {}
    BY <1>8, <2>1 DEF ResumeOpens, EndCall, Pending, TypeOK, CallsTypeOK
  <2> QED
    BY <1>8, <2>2, <2>3, <2>4 DEF ResumeOpens, BusyStatuses
<1>9. ASSUME NEW s \in Sockets, SocketEvent(s) PROVE OwnedInv'
  <2>1. CASE OnOpen(s)
    <3>1. Usable' = Usable /\ Pending' = Pending
      BY <2>1 DEF OnOpen, Usable, Pending, calls, TypeOK, LinkTypeOK
    <3> QED
      BY <2>1, <3>1 DEF OnOpen
  <2>2. ASSUME NEW type, OnMessage(s, type) PROVE OwnedInv'
    BY <2>2 DEF OnMessage, Usable, Pending, calls, link, BusyStatuses
  <2>3. ASSUME NEW code, OnClose(s, code) PROVE OwnedInv'
    <3>1. Pending' = Pending /\ readyState' = [readyState EXCEPT ![s] = "unused"]
      BY <2>3 DEF OnClose, Pending, calls
    <3>2. CASE readyState[s] = "closing"
      BY <1>3, <3>1, <3>2 DEF LateClose, Usable, TypeOK, LinkTypeOK
    <3>3. CASE readyState[s] # "closing"
      <4>1. s \in Usable
        BY <2>3, <3>3 DEF OnClose, PossibleCodes, Usable, TypeOK, LinkTypeOK, ReadyStates
      <4> QED
        BY <1>3, <3>1, <4>1 DEF Usable, TypeOK, LinkTypeOK
    <3> QED
      BY <3>2, <3>3
  <2> QED
    BY <1>9, <2>1, <2>2, <2>3 DEF SocketEvent
<1> QED
  BY <1>1, <1>4, <1>5, <1>6, <1>7, <1>8, <1>9, StepKinds DEF ConnectionStep

LEMMA OwnedInit == Init => OwnedInv
BY DEF Init, OwnedInv, NoOrphanSocket, Usable, Pending

\* A socket that the manager cannot close has a cause: in every behaviour that leaves one, a
\* connect() went past its guard while another was suspended, or a closed socket reported its
\* close after its successor was in use.  Disconnects, refreshes, watchdogs, grace timeouts
\* and acknowledgements on closed sockets, in any order, do it neither alone nor together.
THEOREM OrphanHasCause == Spec => []NoOrphanSocket \/ <><<Overlaps \/ LateClose>>_vars
<1>1. TypeOK /\ OwnedInv /\ [Next]_vars /\ [~(Overlaps \/ LateClose)]_vars => OwnedInv'
  <2>1. UNCHANGED vars => ~Overlaps /\ ~LateClose
    BY DEF vars, manager, calls, link, Overlaps, LateClose, Pending
  <2> QED
    BY <2>1, OwnedStep
<1>2. OwnedInv => NoOrphanSocket
  BY DEF OwnedInv
<1> QED
  BY <1>1, <1>2, OwnedInit, TypeCorrect, PTL DEF Spec

\* Inductive as long as no connect() overlaps another and no dial is early.
SerialInv == OwnedInv /\ \A s, t \in Live : s = t

\* Under it a connect() that dials finds no socket at all.
LEMMA DialsAlone ==
    ASSUME TypeOK, OwnedInv, ~EarlyDial, NEW c \in ConnectCalls, ResumeOpens(c)
    PROVE  Live = {}
<1>1. Usable = {}
  BY DEF OwnedInv, ResumeOpens, Pending
<1>2. PICK t \in Sockets \ Live : readyState' = [readyState EXCEPT ![t] = "connecting"]
  BY DEF ResumeOpens
<1>3. readyState[t] = "unused" /\ readyState'[t] = "connecting"
  BY <1>2 DEF Live, TypeOK, LinkTypeOK
<1> QED
  BY <1>1, <1>3 DEF EarlyDial, Live, Usable, TypeOK, LinkTypeOK, ReadyStates

\* The inductive step.
LEMMA SerialStep ==
    ASSUME TypeOK, SerialInv, [Next]_vars, ~Overlaps, ~EarlyDial
    PROVE  SerialInv'
<1> USE DEF SerialInv
<1>1. ~LateClose
  BY DEF LateClose, Live, Usable
<1>2. OwnedInv'
  BY <1>1, OwnedStep
<1>3. ASSUME Live' \subseteq Live PROVE SerialInv'
  BY <1>2, <1>3
<1>4. CASE Quiet \/ Resubscribed
  BY <1>3, <1>4 DEF Quiet, connection, link, Resubscribed, Live
<1>5. CASE TornDown \/ Refreshed \/ WatchdogFires
  <2>1. readyState' = ClosedCurrent
    BY <1>5 DEF TornDown, Teardown, Refreshed, WatchdogFires
  <2> QED
    BY <1>3, <2>1 DEF ClosedCurrent, Live, Usable, TypeOK, LinkTypeOK
<1>6. ASSUME NEW c \in ConnectCalls, ResumeOpens(c) PROVE SerialInv'
  <2>1. Live = {}
    BY <1>6, DialsAlone
  <2>2. PICK s \in Sockets : readyState' = [readyState EXCEPT ![s] = "connecting"]
    BY <1>6 DEF ResumeOpens, Live
  <2>3. Live' = {s}
    BY <2>1, <2>2 DEF Live, TypeOK, LinkTypeOK
  <2> QED
    BY <1>2, <2>3
<1>7. ASSUME NEW s \in Sockets, SocketEvent(s) PROVE SerialInv'
  <2>1. Live' \subseteq Live
    BY <1>7 DEF SocketEvent, OnOpen, OnMessage, OnClose, link, Live, TypeOK, LinkTypeOK
  <2> QED
    BY <1>3, <2>1
<1> QED
  BY <1>4, <1>5, <1>6, <1>7, StepKinds DEF ConnectionStep

-----------------------------------------------------------------------------
(* Refinement of the abstract lifecycle.                                   *)

\* With no live socket, or one, the phase is that socket's ready state.
LEMMA PhaseOfOne ==
    ASSUME NEW states \in [Sockets -> ReadyStates]
    PROVE  /\ (\A t \in Sockets : states[t] = "unused") => Phase(states) = "idle"
           /\ \A s \in Sockets :
                (\A t \in Sockets : t # s => states[t] = "unused")
                  => /\ states[s] = "open" => Phase(states) = "open"
                     /\ states[s] = "connecting" => Phase(states) = "dialing"
                     /\ states[s] = "closing" => Phase(states) = "closing"
                     /\ states[s] = "unused" => Phase(states) = "idle"
BY DEF Phase, ReadyStates

\* A step of one socket is the same step of the phase.
LEMMA PhaseStep ==
    ASSUME TypeOK, SerialInv, NEW s \in Sockets, NEW state \in ReadyStates,
           readyState' = [readyState EXCEPT ![s] = state],
           Live \subseteq {s}
    PROVE  /\ \A old \in {"open", "closing"} :
                readyState[s] = old => Phase(readyState) = old
           /\ readyState[s] = "connecting" => Phase(readyState) = "dialing"
           /\ readyState[s] = "unused" => Phase(readyState) = "idle"
           /\ \A new \in {"open", "closing"} :
                state = new => Phase(readyState)' = new
           /\ state = "connecting" => Phase(readyState)' = "dialing"
           /\ state = "unused" => Phase(readyState)' = "idle"
<1>1. readyState \in [Sockets -> ReadyStates] /\ readyState' \in [Sockets -> ReadyStates]
  BY DEF TypeOK, LinkTypeOK
<1>2. \A t \in Sockets : t # s => readyState[t] = "unused" /\ readyState'[t] = "unused"
  BY <1>1 DEF Live
<1>3. readyState'[s] = state
  BY <1>1
<1>4. Phase(readyState)' = Phase(readyState')
  BY DEF Phase
<1> QED
  BY <1>1, <1>2, <1>3, <1>4, PhaseOfOne

\* Every step of the manager is a step of the lifecycle or leaves it alone.
LEMMA LifecycleStep ==
    ASSUME TypeOK, SerialInv, [Next]_vars, ~EarlyDial
    PROVE  [Lifecycle!Next]_(Phase(readyState))
<1> USE DEF SerialInv
<1>1. ASSUME UNCHANGED readyState PROVE UNCHANGED Phase(readyState)
  BY <1>1 DEF Phase
<1>2. ASSUME readyState' = ClosedCurrent PROVE [Lifecycle!Next]_(Phase(readyState))
  <2>1. CASE socket \in Usable
    <3>1. socket \in Sockets /\ Live \subseteq {socket} /\ "closing" \in ReadyStates
      BY <2>1 DEF Usable, Live, ReadyStates
    <3>2. readyState' = [readyState EXCEPT ![socket] = "closing"]
      BY <1>2, <2>1 DEF ClosedCurrent
    <3>3. readyState[socket] \in {"connecting", "open"}
      BY <2>1 DEF Usable
    <3> QED
      BY <3>1, <3>2, <3>3, PhaseStep DEF Lifecycle!Next, Lifecycle!Close
  <2> QED
    BY <1>1, <1>2, <2>1 DEF ClosedCurrent
<1>3. CASE Quiet \/ Resubscribed
  BY <1>1, <1>3 DEF Quiet, connection, link, Resubscribed
<1>4. CASE TornDown \/ Refreshed \/ WatchdogFires
  BY <1>2, <1>4 DEF TornDown, Teardown, Refreshed, WatchdogFires
<1>5. ASSUME NEW c \in ConnectCalls, ResumeOpens(c) PROVE Lifecycle!Next
  <2>1. Live = {}
    BY <1>5, DialsAlone
  <2>2. PICK s \in Sockets \ Live : readyState' = [readyState EXCEPT ![s] = "connecting"]
    BY <1>5 DEF ResumeOpens
  <2>3. readyState[s] = "unused" /\ "connecting" \in ReadyStates
    BY <2>2 DEF Live, ReadyStates
  <2> QED
    BY <2>1, <2>2, <2>3, PhaseStep DEF Lifecycle!Next, Lifecycle!Dial
<1>6. ASSUME NEW s \in Sockets, SocketEvent(s) PROVE [Lifecycle!Next]_(Phase(readyState))
  <2>1. CASE OnOpen(s)
    <3>1. Live \subseteq {s} /\ "open" \in ReadyStates
      BY <2>1 DEF OnOpen, Live, ReadyStates
    <3> QED
      BY <2>1, <3>1, PhaseStep DEF OnOpen, Lifecycle!Next, Lifecycle!Open
  <2>2. ASSUME NEW type, OnMessage(s, type) PROVE UNCHANGED Phase(readyState)
    BY <1>1, <2>2 DEF OnMessage, link
  <2>3. ASSUME NEW code, OnClose(s, code) PROVE Lifecycle!Next
    <3>1. readyState[s] \in {"connecting", "open", "closing"}
      BY <2>3 DEF OnClose, PossibleCodes
    <3>2. Live \subseteq {s} /\ "unused" \in ReadyStates
      BY <3>1 DEF Live, ReadyStates
    <3> QED
      BY <2>3, <3>1, <3>2, PhaseStep DEF OnClose, Lifecycle!Next, Lifecycle!Gone
  <2> QED
    BY <1>6, <2>1, <2>2, <2>3 DEF SocketEvent
<1> QED
  BY <1>3, <1>4, <1>5, <1>6, StepKinds DEF ConnectionStep

\* The manager is the single connection that the header names, in every behaviour in which no
\* connect() goes past its guard while another is suspended and no socket is made while a
\* closed one has still to report: nothing else takes it out of the lifecycle.
THEOREM LifecycleHasCause ==
    Spec => ImplementsSingleConnection \/ <><<Overlaps \/ EarlyDial>>_vars
<1>1. Init => SerialInv /\ Lifecycle!Init
  <2>1. Init => Lifecycle!Init
    BY DEF Init, Phase, Lifecycle!Init
  <2>2. Init => \A s, t \in Live : s = t
    BY DEF Init, Live
  <2> QED
    BY <2>1, <2>2, OwnedInit DEF SerialInv
<1>2. TypeOK /\ SerialInv /\ [Next]_vars /\ [~(Overlaps \/ EarlyDial)]_vars
        => SerialInv' /\ [Lifecycle!Next]_(Phase(readyState))
  <2>1. UNCHANGED vars => ~Overlaps /\ ~EarlyDial
    BY DEF vars, manager, calls, link, Overlaps, EarlyDial, Pending
  <2> QED
    BY <2>1, SerialStep, LifecycleStep
<1> QED
  BY <1>1, <1>2, TypeCorrect, PTL DEF Spec, ImplementsSingleConnection, Lifecycle!Spec
-----------------------------------------------------------------------------
(* What 'reconnecting' waits for.                                          *)

\* While the session lasts, somebody is left to move a 'reconnecting' status on: a timeout, a
\* connect() that no disconnect() has cancelled and that has a token or still reads it, App's
\* effect, or the listeners that a 401 has still to call.
ReconnectingBacked ==
    connectionStatus = "reconnecting" /\ isAuthenticated =>
        \/ armedReconnects # {}
        \/ ~disconnectRequested /\ \E c \in ConnectCalls : connectCalls[c] \in {"reading", "token"}
        \/ effect # "in" \/ clearing

\* A token that is gone under a session is one whose listeners are being told.
LossTold == isAuthenticated /\ ~hasToken => clearing

Recovering == operation \in {"recovery", "relogin"}

\* A connect() that is not a no-op backs the status.
LEMMA ConnectBacks ==
    ASSUME CallsTypeOK, Connect, connectionStatus = "reconnecting"
    PROVE  /\ ~disconnectRequested'
           /\ \E c \in ConnectCalls : connectCalls'[c] \in {"reading", "token"}
<1>1. PICK c \in ConnectCalls : connectCalls' = [connectCalls EXCEPT ![c] = "reading"]
  BY DEF Connect, BusyStatuses, Pending
<1>2. connectCalls'[c] = "reading"
  BY <1>1 DEF CallsTypeOK
<1> QED
  BY <1>2 DEF Connect

LEMMA LossToldStep ==
    ASSUME LossTold, ~Recovering, [Next]_vars
    PROVE  LossTold'
<1>1. CASE UNCHANGED account
  BY <1>1 DEF LossTold, account
<1>2. CASE SessionStep
  BY <1>2 DEF SessionStep, EffectConnects, EffectDisconnects, ActivityDestroyed, EffectCleanup,
     Login, SetTokens, RestoreSession, Unauthorized, HandleTokensCleared, LossTold, Recovering,
     account
<1>3. CASE OperationStep
  BY <1>3 DEF OperationStep, StartOperation, LocalWipe, OperationReconnects, LoginForRecovery,
     RecoveryFails, SetTokens, LossTold, account
<1>4. CASE \/ \E s \in Sockets : SocketEvent(s)
           \/ \E c \in ConnectCalls : CallStep(c)
           \/ TimerStep \/ AppStateStep \/ ScreenStep \/ UNCHANGED vars
  BY <1>1, <1>4 DEF SocketEvent, OnOpen, OnMessage, OnClose, CallStep, ReadToken, ResumeBails,
     ResumeOpens, TimerStep, WatchdogFires, ReconnectTimerFires, GraceTimerFires, AppStateStep,
     AppStateUnheard, BecomeActive, LeaveForeground, AppStateFollows, ScreenStep, MountScreen,
     UnmountScreen, session, vars
<1> QED
  BY <1>2, <1>3, <1>4 DEF Next

LEMMA ReconnectingStep ==
    ASSUME TypeOK, LossTold, ReconnectingBacked, ~Recovering, [Next]_vars
    PROVE  ReconnectingBacked'
<1> SUFFICES ASSUME connectionStatus' = "reconnecting", isAuthenticated'
             PROVE  \/ armedReconnects' # {}
                    \/ ~disconnectRequested' /\ \E c \in ConnectCalls :
                                                  connectCalls'[c] \in {"reading", "token"}
                    \/ effect' # "in" \/ clearing'
  BY DEF ReconnectingBacked
<1> DEFINE Backed == /\ ~disconnectRequested'
                     /\ \E c \in ConnectCalls : connectCalls'[c] \in {"reading", "token"}
<1>0. CallsTypeOK
  BY DEF TypeOK
<1>1. ASSUME UNCHANGED <<connectionStatus, reconnect, calls, account, effect>>
      PROVE  armedReconnects' # {} \/ Backed \/ effect' # "in" \/ clearing'
  BY <1>1 DEF ReconnectingBacked, reconnect, calls, account
<1>2. ASSUME ConnectOnly PROVE Backed
  BY <1>0, <1>2, ConnectBacks DEF ConnectOnly
<1>3. ~Disconnect
  BY DEF Disconnect, Teardown
<1>4. ASSUME NEW s \in Sockets, SocketEvent(s)
      PROVE  armedReconnects' # {} \/ Backed \/ effect' # "in" \/ clearing'
  <2>1. CASE OnOpen(s)
    BY <1>1, <2>1 DEF OnOpen, session
  <2>2. ASSUME NEW type, OnMessage(s, type)
        PROVE  armedReconnects' # {} \/ Backed \/ effect' # "in" \/ clearing'
    BY <1>1, <2>2 DEF OnMessage, session
  <2>3. ASSUME NEW code, OnClose(s, code) PROVE armedReconnects' # {}
    BY <2>3 DEF OnClose, ScheduleReconnect, ArmReconnect
  <2> QED
    BY <1>4, <2>1, <2>2, <2>3 DEF SocketEvent
<1>5. ASSUME NEW c \in ConnectCalls, CallStep(c)
      PROVE  armedReconnects' # {} \/ Backed \/ effect' # "in" \/ clearing'
  <2>1. /\ UNCHANGED <<reconnect, account, effect>> /\ disconnectRequested' = disconnectRequested
        /\ connectionStatus' = connectionStatus
    BY <1>5 DEF CallStep, ReadToken, ResumeBails, ResumeOpens, EndCall, session
  <2>2. ASSUME NEW d \in ConnectCalls, connectCalls[d] \in {"reading", "token"}, ~disconnectRequested
        PROVE  Backed \/ clearing'
    <3>1. CASE d # c
      <4>1. connectCalls'[d] = connectCalls[d]
        BY <1>5, <3>1, <1>0 DEF CallStep, ReadToken, ResumeBails, ResumeOpens, EndCall, CallsTypeOK
      <4> QED
        BY <2>1, <2>2, <4>1
    <3>2. CASE d = c /\ ReadToken(c) /\ hasToken
      <4>1. connectCalls'[c] = "token"
        BY <3>2, <1>0 DEF ReadToken, CallsTypeOK
      <4> QED
        BY <2>1, <2>2, <4>1
    <3>3. CASE d = c /\ ReadToken(c) /\ ~hasToken
      BY <2>1, <3>3 DEF LossTold, account
    <3>4. ~(d = c /\ ResumeBails(c)) /\ ~ResumeOpens(c)
      BY <2>2 DEF ResumeBails, ResumeOpens
    <3> QED
      BY <1>5, <3>1, <3>2, <3>3, <3>4 DEF CallStep
  <2> QED
    BY <2>1, <2>2 DEF ReconnectingBacked, reconnect, account
<1>6. CASE TimerStep
  <2>1. CASE WatchdogFires
    BY <1>1, <2>1 DEF WatchdogFires, session
  <2>2. ASSUME NEW t \in ReconnectTimers, ReconnectTimerFires(t) PROVE Backed
    BY <1>0, <2>2, ConnectBacks DEF ReconnectTimerFires
  <2>3. ASSUME NEW t \in GraceTimers PROVE ~GraceTimerFires(t)
    BY DEF GraceTimerFires, Teardown
  <2> QED
    BY <1>6, <2>1, <2>2, <2>3 DEF TimerStep
<1>7. CASE AppStateStep
  BY <1>1, <1>7 DEF AppStateStep, AppStateUnheard, BecomeActive, LeaveForeground, AppStateFollows,
     manager
<1>8. CASE ScreenStep
  BY <1>1, <1>8 DEF ScreenStep, MountScreen, UnmountScreen
<1>9. CASE SessionStep
  BY <1>2, <1>3, <1>9 DEF SessionStep, EffectConnects, EffectDisconnects, ActivityDestroyed,
     EffectCleanup, Login, RestoreSession, Unauthorized, HandleTokensCleared, Recovering
<1>10. CASE OperationStep
  BY <1>2, <1>3, <1>10 DEF OperationStep, StartOperation, LocalWipe, OperationReconnects,
     LoginForRecovery, RecoveryFails, Recovering
<1>11. CASE UNCHANGED vars
  BY <1>1, <1>11 DEF vars, manager, session
<1> QED
  BY <1>4, <1>5, <1>6, <1>7, <1>8, <1>9, <1>10, <1>11 DEF Next

\* As long as no key recovery runs, 'reconnecting' under a session always has somebody left to
\* move it on, whatever disconnects, late close events, overlapping connect() calls, 401s and
\* re-created activities came before.  A recovery that fails returns without reconnecting: it
\* can leave a status that nothing moves.
THEOREM ReconnectingBackedAlways == Spec /\ [](~Recovering) => []ReconnectingBacked
<1>1. Init => LossTold /\ ReconnectingBacked
  BY DEF Init, LossTold, ReconnectingBacked
<1>2. TypeOK /\ LossTold /\ ReconnectingBacked /\ ~Recovering /\ [Next]_vars
        => LossTold' /\ ReconnectingBacked'
  BY LossToldStep, ReconnectingStep
<1> QED
  BY <1>1, <1>2, TypeCorrect, PTL DEF Spec
=============================================================================
