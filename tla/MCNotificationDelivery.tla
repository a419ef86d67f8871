----------------------- MODULE MCNotificationDelivery -----------------------
(***************************************************************************)
(* Model-checking instance of the outbox: one delivery, a code or a        *)
(* recovery link. Deliveries share no row, so more of them only interleave.*)
(***************************************************************************)
EXTENDS NotificationDelivery

CONSTANTS message, p1, p2, p3
=============================================================================
