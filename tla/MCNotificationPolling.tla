------------------------ MODULE MCNotificationPolling ------------------------
(* Model checking of NotificationPolling. *)
EXTENDS NotificationPolling
=============================================================================
