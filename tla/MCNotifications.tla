--------------------------- MODULE MCNotifications ---------------------------
(***************************************************************************)
(* An instance of Notifications for TLC: two events, each of which may be  *)
(* in the topic several times, and a message that does not parse.          *)
(***************************************************************************)
EXTENDS Notifications, TLC

CONSTANTS c1, c2, m1, m2, broken, k1, k2

Keys == m1 :> k1 @@ m2 :> k2 @@ broken :> NoKey

=============================================================================
