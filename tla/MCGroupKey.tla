----------------------------- MODULE MCGroupKey -----------------------------
(***************************************************************************)
(* Small instances of GroupKey for TLC.  Groups, requests and readers are  *)
(* interchangeable names.                                                  *)
(***************************************************************************)
EXTENDS GroupKey, TLC

Symmetry == Permutations(Groups) \cup Permutations(Fetches) \cup Permutations(Readers)
=============================================================================
