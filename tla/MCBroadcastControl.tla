------------------------- MODULE MCBroadcastControl -------------------------
(* Instances of the broadcast control for TLC.                              *)
EXTENDS BroadcastControl
=============================================================================
