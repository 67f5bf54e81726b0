--------------------------- MODULE MCIdentityKeys ---------------------------
(***************************************************************************)
(* Small instances of IdentityKeys for TLC.                                *)
(***************************************************************************)
EXTENDS IdentityKeys
=============================================================================
