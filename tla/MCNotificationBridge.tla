------------------------ MODULE MCNotificationBridge ------------------------
(* NotificationBridge on small numbers. *)
EXTENDS NotificationBridge
=============================================================================
