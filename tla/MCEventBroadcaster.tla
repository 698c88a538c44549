------------------------- MODULE MCEventBroadcaster -------------------------
(* EventBroadcaster on small instances: one or two apps, by name. *)
EXTENDS EventBroadcaster

CONSTANTS c1, c2
=============================================================================
