---------------------------- MODULE MCEventSync ----------------------------
(* Instances of the event sync queue for TLC.                               *)
EXTENDS EventSync

(* One run looks at both kinds of connectors, each as far as its properties *)
(* need.  Direct: several runners, and an event that is edited and hidden   *)
(* but not published again.  Operation: one runner and one write that hides *)
(* or publishes.  Fairness stays satisfiable, as the runner's run ends.     *)
Extra == Runner \ {CHOOSE r \in Runner : TRUE}
Scope ==
  IF Direct THEN event'.public => event.public
            ELSE /\ \A r \in Extra : runner'[r] = Idle
                 /\ edits' <= 1 /\ losses' <= 1 /\ pauses' = 0 /\ event'.version = 0

MCSpec == Init /\ [][Next /\ Scope]_vars /\ Fairness
=============================================================================
