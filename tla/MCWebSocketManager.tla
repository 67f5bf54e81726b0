------------------------ MODULE MCWebSocketManager ------------------------
(***************************************************************************)
(* Small instances of WebSocketManager for TLC.  Sockets, calls and timers *)
(* are interchangeable names.                                              *)
(***************************************************************************)
EXTENDS WebSocketManager, TLC

Symmetry ==
    Permutations(Sockets) \cup Permutations(ConnectCalls) \cup Permutations(ReconnectTimers)
        \cup Permutations(GraceTimers) \cup Permutations(Screens)
=============================================================================
