------------------------- MODULE MCNotificationStore -------------------------
(* TLC instances of NotificationStore.                                      *)
EXTENDS NotificationStore

CONSTANTS c1, s1
=============================================================================
