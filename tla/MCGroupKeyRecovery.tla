------------------------ MODULE MCGroupKeyRecovery ------------------------
(***************************************************************************)
(* Small instances of GroupKeyRecovery for TLC.  Groups and attempts are   *)
(* interchangeable names.                                                  *)
(***************************************************************************)
EXTENDS GroupKeyRecovery, TLC

Symmetry == Permutations(Groups) \cup Permutations(Attempts)
=============================================================================
