--------------------- MODULE MCNotificationSettingsSync ---------------------
(***************************************************************************)
(* Small instances of NotificationSettingsSync for TLC.                    *)
(***************************************************************************)
EXTENDS NotificationSettingsSync, TLC

Symmetry == Permutations(Users) \cup Permutations(Targets) \cup Permutations(Taps)
=============================================================================
