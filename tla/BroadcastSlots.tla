--------------------------- MODULE BroadcastSlots ---------------------------
(***************************************************************************)
(* What the launch of broadcasts promises about its capacity               *)
(* (src/convex/eventMediaWorker.ts:468): a session reserves before it is   *)
(* launched, is launched once at most, and gives its reservation back      *)
(* before the launch or after its task stopped.  Who asks, and how often,  *)
(* does not matter.  BroadcastLaunch implements this.                      *)
(***************************************************************************)
EXTENDS Integers, FiniteSets

CONSTANT Session

VARIABLES cap,   \* the concurrency limit
          slot   \* where each session's reservation stands
vars == <<cap, slot>>

Counted == {s \in Session : slot[s] \in {"reserved", "launched", "running", "stopped"}}
Move(s, from, to) == /\ slot[s] = from
                     /\ slot' = [slot EXCEPT ![s] = to]
                     /\ UNCHANGED cap

Init == slot = [s \in Session |-> "free"]

Reserve(s) == Move(s, "free", "reserved") /\ Cardinality(Counted) < cap
Release(s) == Move(s, "reserved", "free")
(* From here on nothing but a stopped task gives the reservation back.      *)
Commit(s) == Move(s, "reserved", "launched")
Launch(s) == Move(s, "launched", "running")
Exit(s) == Move(s, "running", "stopped")
Return(s) == Move(s, "stopped", "returned")

Next == \E s \in Session : \/ Reserve(s) \/ Release(s) \/ Commit(s) \/ Launch(s)
                           \/ Exit(s) \/ Return(s)

Spec == Init /\ [][Next]_vars
=============================================================================
