--------------------------- MODULE MCMediaDownload ---------------------------
(***************************************************************************)
(* Small instances of MediaDownload for TLC.                               *)
(***************************************************************************)
EXTENDS MediaDownload
=============================================================================
