---------------------------- MODULE MCNotifications ----------------------------
(* A small instance of Notifications for TLC: an important type that is    *)
(* mailed by default, and one that is not and is dispatched later.         *)
EXTENDS Notifications, TLC

MCCalls ==
  {[defaults |-> Channels, important |-> TRUE, email_feature |-> TRUE,
    include |-> {"websocket", "email"}, dispatch_now |-> TRUE],
   [defaults |-> {"in_app"}, important |-> FALSE, email_feature |-> TRUE,
    include |-> {"websocket", "push"}, dispatch_now |-> FALSE]}

MCPatches ==
  {[websocket |-> FALSE], [in_app |-> FALSE, websocket |-> TRUE],
   [type_preferences |-> [Unset EXCEPT !["websocket"] = "on"]]}

Symmetry == Permutations(Users) \cup Permutations(Senders) \cup Permutations(Requests)
=============================================================================
