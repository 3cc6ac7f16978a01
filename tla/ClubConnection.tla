--------------------------- MODULE ClubConnection ---------------------------
(***************************************************************************)
(* The connection of one community to its VRChat group, as the club        *)
(* operation queue sees it: the integration row and its telemetry epoch,   *)
(* the collector account with its credentials, the collector lease with    *)
(* its fencing token, and what each worker process was told when it        *)
(* claimed the assignment (src/convex/communityTelemetry.ts).              *)
(*                                                                         *)
(* A fleet kill switch or an account kill switch has the effect of         *)
(* integration.kill on `binding`; the three are one flag.  "active" stands *)
(* for the states active and degraded, which every caller here treats      *)
(* alike, "connecting" for the states that do not run operations but keep  *)
(* the connection (connecting, awaiting_*, auth_required, blocked).        *)
(***************************************************************************)
EXTENDS Integers

CONSTANTS Worker,         \* collector worker ids
          NoWorker,       \* the holder of no lease
          LeaseTime,      \* leaseMs of claimDueAssignments
          MaxTime,        \* bound: the clock stops here
          MaxToken,       \* bound on lease generations
          Disturbances,   \* which kinds of bounded environment steps may happen
          MaxDisturbances \* bound on how many of them happen

ASSUME ConnectionAssumption ==
  /\ NoWorker \notin Worker
  /\ LeaseTime \in Nat \ {0}
  /\ MaxTime \in Nat /\ MaxToken \in Nat /\ MaxDisturbances \in Nat

VARIABLES now,          \* Date.now() of the transaction that runs
          integration,  \* communityVrchatIntegrations row
          account,      \* collectorAccounts row
          lease,        \* the active collectorAccountLeases row, or NoLease
          session,      \* per worker: the assignment and the key it works with
          disturbances  \* how many bounded environment steps have happened

connectionVars == <<now, integration, account, lease, session, disturbances>>

Lease == [holder : Worker \cup {NoWorker}, token : Nat, expiresAt : Nat]
NoLease == [holder |-> NoWorker, token |-> 0, expiresAt |-> 0]

Integration == [state : {"active", "connecting", "disconnecting", "disconnected"},
                kill : BOOLEAN, epoch : Nat, generation : Nat]
Account == [ready : BOOLEAN, generation : Nat, key : Nat]
Session == [token : Nat, epoch : Nat, key : Nat]

ConnectionTypeOK ==
  /\ now \in Nat
  /\ integration \in Integration
  /\ account \in Account
  /\ lease \in Lease
  /\ session \in [Worker -> Session]
  /\ disturbances \in Nat

ConnectionInit ==
  /\ now = 0
  /\ integration = [state |-> "active", kill |-> FALSE, epoch |-> 0, generation |-> 0]
  /\ account = [ready |-> TRUE, generation |-> 1, key |-> 1]
  /\ lease = NoLease
  /\ session = [w \in Worker |-> [token |-> 0, epoch |-> 0, key |-> 1]]
  /\ disturbances = 0

Disturb(kind) == /\ kind \in Disturbances
                 /\ disturbances < MaxDisturbances
                 /\ disturbances' = disturbances + 1

(* The worker's key passes HTTP authentication and its account may work.   *)
Admitted(w) == account.ready /\ ~integration.kill /\ session[w].key = account.key

HoldsLease(w) == /\ lease.holder = w
                 /\ lease.token = session[w].token
                 /\ lease.expiresAt > now

(* clubOperations.binding: what claim, authorize, defer and reject demand  *)
(* of a worker before they touch an operation.                             *)
Bound(w) == /\ Admitted(w)
            /\ integration.state = "active"
            /\ session[w].epoch = integration.epoch
            /\ HoldsLease(w)

(* claimDueAssignments: a live lease of another worker is respected; the   *)
(* worker's own, an expired or no lease is replaced under the next fencing *)
(* token.                                                                  *)
ClaimAssignment(w) ==
  /\ Admitted(w)
  /\ integration.state # "disconnected"
  /\ lease.holder \in {w, NoWorker} \/ lease.expiresAt <= now
  /\ integration.generation < MaxToken
  /\ integration' = [integration EXCEPT !.generation = @ + 1]
  /\ lease' = [holder |-> w, token |-> integration.generation + 1,
               expiresAt |-> now + LeaseTime]
  /\ session' = [session EXCEPT ![w].token = integration.generation + 1,
                                ![w].epoch = integration.epoch]
  /\ UNCHANGED <<now, account, disturbances>>

ReleaseLease(w) ==
  /\ session[w].key = account.key
  /\ HoldsLease(w)
  /\ lease' = NoLease
  /\ UNCHANGED <<now, integration, account, session, disturbances>>

(* recordMembershipResult with state "active".                             *)
MembershipActive(w) ==
  /\ session[w].key = account.key
  /\ HoldsLease(w)
  /\ integration.state = "connecting"
  /\ integration' = [integration EXCEPT !.state = "active"]
  /\ UNCHANGED <<now, account, lease, session, disturbances>>

(* recordMembershipResult with state "disconnected": the worker left the   *)
(* group.  The caller also rejects the unsent operations.                  *)
MembershipDisconnected(w) ==
  /\ session[w].key = account.key
  /\ HoldsLease(w)
  /\ integration.state = "disconnecting"
  /\ integration' = [integration EXCEPT !.state = "disconnected"]
  /\ lease' = NoLease
  /\ UNCHANGED <<now, account, session, disturbances>>

(* disconnectGroup; the caller also rejects the unsent operations.         *)
DisconnectGroup ==
  /\ Disturb("disconnect")
  /\ integration.state \in {"active", "connecting"}
  /\ integration' = [integration EXCEPT !.state = "disconnecting", !.kill = FALSE]
  /\ lease' = NoLease
  /\ UNCHANGED <<now, account, session>>

(* connectGroup of the same group: a new epoch under the same row, whose   *)
(* lease generation continues.                                             *)
ConnectGroup ==
  /\ integration.state = "disconnected"
  /\ integration' = [integration EXCEPT !.state = "connecting", !.kill = FALSE,
                                        !.epoch = @ + 1]
  /\ UNCHANGED <<now, account, lease, session, disturbances>>

SetKillSwitch(enabled) ==
  /\ enabled # integration.kill
  /\ IF enabled THEN Disturb("kill") /\ lease' = NoLease
                ELSE UNCHANGED <<lease, disturbances>>
  /\ integration' = [integration EXCEPT !.kill = enabled]
  /\ UNCHANGED <<now, account, session>>

(* registerCollectorAccount on an existing account: the generation always  *)
(* moves, the worker key only when the operator passes a new one.          *)
RotateCredentials(newKey) ==
  /\ Disturb("rotate")
  /\ account' = [ready |-> TRUE, generation |-> account.generation + 1,
                 key |-> IF newKey THEN account.key + 1 ELSE account.key]
  /\ integration' = IF integration.state = "active"
                      THEN [integration EXCEPT !.state = "connecting"] ELSE integration
  /\ UNCHANGED <<now, lease, session>>

(* applyCollectorAccountState with state ready: the group membership is    *)
(* checked again before operations run.                                    *)
AccountReady ==
  /\ ~account.ready
  /\ account' = [account EXCEPT !.ready = TRUE]
  /\ integration' = IF integration.state = "active"
                      THEN [integration EXCEPT !.state = "connecting"] ELSE integration
  /\ UNCHANGED <<now, lease, session, disturbances>>

(* applyCollectorAccountState with a state other than ready: the leases    *)
(* are released; auth_required stops the integration, the other states     *)
(* degrade it.                                                             *)
AccountUnavailable(authRequired) ==
  /\ Disturb("account")
  /\ account.ready
  /\ account' = [account EXCEPT !.ready = FALSE]
  /\ integration' = IF integration.state \in {"disconnecting", "disconnected"}
                      THEN integration
                      ELSE [integration EXCEPT
                              !.state = IF authRequired THEN "connecting" ELSE "active"]
  /\ lease' = NoLease
  /\ UNCHANGED <<now, session>>

(* A worker process dies and is started again with the current key.        *)
Restart(w) ==
  /\ Disturb("restart")
  /\ session' = [session EXCEPT ![w] = [token |-> 0, epoch |-> 0, key |-> account.key]]
  /\ UNCHANGED <<now, integration, account, lease>>

Tick == /\ now < MaxTime
        /\ now' = now + 1
        /\ UNCHANGED <<integration, account, lease, session, disturbances>>
=============================================================================
