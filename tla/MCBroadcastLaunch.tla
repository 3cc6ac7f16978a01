------------------------- MODULE MCBroadcastLaunch -------------------------
(* Instances of the broadcast launch for TLC.                               *)
EXTENDS BroadcastLaunch, TLC

BridgeSymmetry == Permutations(Bridge)
=============================================================================
