------------------------ MODULE MCNotificationConsumer ------------------------
(***************************************************************************)
(* Small instances of NotificationConsumer: every combination of kinds for *)
(* two events.                                                             *)
(***************************************************************************)
EXTENDS NotificationConsumer
=============================================================================
