------------------------- MODULE MCPendingWrapClock -------------------------
(***************************************************************************)
(* Small instances of PendingWrapClock for TLC.                            *)
(***************************************************************************)
EXTENDS PendingWrapClock, TLC

Symmetry == Permutations(Groups) \cup Permutations(Users)
=============================================================================
