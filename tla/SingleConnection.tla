-------------------------- MODULE SingleConnection --------------------------
(***************************************************************************)
(* What "manages the lifecycle of a single WebSocket connection" promises: *)
(* one connection that is dialled, opens, is closed by the client or the   *)
(* network, and is gone before the next one is dialled.                    *)
(***************************************************************************)

VARIABLE connection

Phases == {"idle", "dialing", "open", "closing"}

Init == connection = "idle"

Dial == connection = "idle" /\ connection' = "dialing"

Open == connection = "dialing" /\ connection' = "open"

\* The client closes: disconnect(), the watchdog or a token refresh.
Close == connection \in {"dialing", "open"} /\ connection' = "closing"

\* The close event: the connection is gone, asked for or not.
Gone == connection # "idle" /\ connection' = "idle"

Next == Dial \/ Open \/ Close \/ Gone

Spec == Init /\ [][Next]_connection
=============================================================================
