---------------------------- MODULE ClubPromise ----------------------------
(***************************************************************************)
(* What the club operation queue promises about the one write of each      *)
(* action (src/convex/clubOperations.ts): it is planned, and planned anew, *)
(* until it is committed to once; from then on at most one request goes    *)
(* out; and an outcome is final and says no more than is true.  An         *)
(* invitation is committed to only after its creation succeeded as it was  *)
(* reviewed.  Workers, claims, leases, clocks and events do not appear.    *)
(* ClubOperations implements this.                                         *)
(***************************************************************************)
EXTENDS Naturals

CONSTANTS Op, Creation, NoOp

VARIABLE row   \* per action: its stage, its plan, and what the provider saw

New == [stage |-> "none", revision |-> 0, reviewed |-> 0, writes |-> 0, effects |-> 0]

Init == row = [o \in Op |-> New]

Becomes(o, from, to) == row[o].stage = from /\ row'[o] = [row[o] EXCEPT !.stage = to]

(* An invitation is planned against its creation as it is planned now.      *)
Plan(o) ==
  /\ row[o].stage = "none"
  /\ row'[o] = [stage |-> "planned", revision |-> 1,
                 reviewed |-> IF Creation[o] = NoOp THEN 0 ELSE row[Creation[o]].revision,
                 writes |-> 0, effects |-> 0]

Replan(o) == /\ row[o].stage = "planned"
             /\ row'[o] = [row[o] EXCEPT !.revision = @ + 1]

Drop(o) == \E outcome \in {"cancelled", "missed", "rejected"} : Becomes(o, "planned", outcome)

Commit(o) ==
  /\ Becomes(o, "planned", "committed")
  /\ Creation[o] # NoOp => /\ row[Creation[o]].stage = "succeeded"
                           /\ row[Creation[o]].revision = row[o].reviewed

(* The queue may have given up on the answer before the request is sent.    *)
Send(o) ==
  /\ row[o].stage \in {"committed", "indeterminate"}
  /\ row[o].writes = 0
  /\ \E effects \in {0, 1} : row'[o] = [row[o] EXCEPT !.writes = 1, !.effects = effects]

Answer(o) == \/ Becomes(o, "committed", "succeeded") /\ row[o].effects = 1
             \/ Becomes(o, "committed", "rejected") /\ row[o].effects = 0
             \/ Becomes(o, "committed", "indeterminate")

(* One transaction may move several actions, each by one step.              *)
Next == /\ DOMAIN row' = Op
        /\ \A o \in Op : \/ row'[o] = row[o]
                         \/ Plan(o) \/ Replan(o) \/ Drop(o) \/ Commit(o) \/ Send(o) \/ Answer(o)

Spec == Init /\ [][Next]_row
=============================================================================
