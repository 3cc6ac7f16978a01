------------------------ MODULE ClubOperationsTypes -------------------------
(***************************************************************************)
(* Type correctness of the club operation queue, step by step, for every   *)
(* set of workers and operations and every value of the durations and      *)
(* bounds.  ClubOperationsProofs builds on it.                             *)
(***************************************************************************)
EXTENDS ClubOperations, TLAPS

USE ConnectionAssumption, OperationsAssumption

-----------------------------------------------------------------------------
(* Rows stay rows.                                                          *)

(* The constant rows, claims and state sets have the types the rows need.   *)
LEMMA Constants == /\ NoClaim \in Claims /\ Absent \in Operation
                   /\ Failure \subseteq State /\ Settled \subseteq State
                   /\ Unsent \subseteq State /\ Status \subseteq State
  BY DEF NoClaim, Claims, Absent, Operation, State, Unsent, Settled, Failure, Status

(* Settling, unclaiming and giving a row the event's time keep its type.    *)
LEMMA RowOps ==
  ASSUME NEW op \in Operation, TypeOK
  PROVE  /\ \A s \in State : Settle(op, s) \in Operation
         /\ Unclaimed(op) \in Operation
         /\ Retimed(op) \in Operation
<1>1. \A s \in State : Settle(op, s) \in Operation
  BY DEF Settle, Operation
<1>2. Unclaimed(op) \in Operation
  BY Constants DEF Unclaimed, Operation
<1>3. event.startAt \in Nat
  BY DEF TypeOK, Event
<1>4. EventTime(op) \in Int /\ Later(EventTime(op), op.retryAt) \in Int
  BY <1>3 DEF EventTime, Later, Operation
<1>5. Retimed(op) \in Operation
  BY <1>4 DEF Retimed, Operation
<1> QED BY <1>1, <1>2, <1>5

(* A row put back into the queue at the event's time stays a row.           *)
LEMMA RequeuedType ==
  ASSUME NEW op \in Operation, TypeOK
  PROVE  Requeued(op) \in Operation
  BY RowOps, Constants DEF Requeued, State, Unsent

(* The sweep at the head of claim keeps a row a row.                        *)
LEMMA SweptType ==
  ASSUME NEW op \in Operation, TypeOK
  PROVE  Swept(op) \in Operation
<1>1. Settle(op, "pending") \in Operation /\ Settle(op, "indeterminate") \in Operation
  BY RowOps DEF State, Unsent, Settled, Failure
<1>2. Unclaimed(Settle(op, "pending")) \in Operation
  BY <1>1, RowOps
<1> QED BY <1>1, <1>2 DEF Swept

(* The loop of claim keeps a row it does not hand out a row.                *)
LEMMA DisposedType ==
  ASSUME NEW op \in Operation, TypeOK, NEW standing
  PROVE  Disposed(op, standing) \in Operation
<1>1. \A s \in {"cancelled", "missed", "rejected"} : Settle(op, s) \in Operation
  BY RowOps DEF State, Unsent, Settled, Failure
<1>2. Retimed(op) \in Operation
  BY RowOps
<1>3. Sooner(now + Recheck, op.dueAt + LateGrace + 1) \in Int
  BY DEF Sooner, TypeOK, ConnectionTypeOK, Operation
<1>4. [op EXCEPT !.readyAt = Sooner(now + Recheck, op.dueAt + LateGrace + 1)] \in Operation
  BY <1>3 DEF Operation
<1> QED BY <1>1, <1>2, <1>4 DEF Disposed

(* Handing a row to a worker keeps it a row.                                *)
LEMMA ClaimedType ==
  ASSUME NEW op \in Operation, TypeOK, NEW w \in Worker
  PROVE  Claimed(op, w) \in Operation
<1>1. session[w].token \in Nat /\ account.generation \in Nat
  BY DEF TypeOK, ConnectionTypeOK, Session, Account
<1>2. Sooner(now + ClaimTime, lease.expiresAt) \in Nat
  BY DEF Sooner, TypeOK, ConnectionTypeOK, Lease
<1>3. op.nonces + 1 \in Nat
  BY DEF Operation
<1>4. [holder |-> w, nonce |-> op.nonces + 1, token |-> session[w].token,
       generation |-> account.generation,
       expiresAt |-> Sooner(now + ClaimTime, lease.expiresAt)] \in Claims
  BY <1>1, <1>2, <1>3 DEF Claims
<1> QED BY <1>3, <1>4 DEF Claimed, Operation, State, Unsent

(* A refusal by authorizeSubmission keeps the row a row.                    *)
LEMMA DeniedType ==
  ASSUME NEW op \in Operation, TypeOK, NEW standing
  PROVE  Denied(op, standing) \in Operation
<1>1. Settle(op, "missed") \in Operation /\ Settle(op, "rejected") \in Operation
  BY RowOps DEF State, Unsent, Settled, Failure
<1> QED BY <1>1, RequeuedType DEF Denied

(* deferClaim keeps the row a row.                                          *)
LEMMA DeferredType ==
  ASSUME NEW op \in Operation, TypeOK, NEW delay \in Nat
  PROVE  Deferred(op, delay) \in Operation
<1>1. \A s \in {"missed", "rejected", "pending"} : Unclaimed(Settle(op, s)) \in Operation
  BY RowOps DEF State, Unsent, Settled, Failure
<1>2. now \in Nat
  BY DEF TypeOK, ConnectionTypeOK
<1>3. Later(op.dueAt, now + delay) \in Int
  BY <1>2 DEF Later, Operation
<1>4. op.attempts + 1 \in Nat /\ now + delay \in Nat
  BY <1>2 DEF Operation
<1>5. \A q \in Operation : [q EXCEPT !.attempts = op.attempts + 1] \in Operation
  BY <1>4 DEF Operation
<1>6. \A q \in Operation :
        [q EXCEPT !.attempts = op.attempts + 1, !.retryAt = now + delay,
                  !.readyAt = Later(op.dueAt, now + delay)] \in Operation
  BY <1>3, <1>4 DEF Operation
<1>7. \A s : Unclaimed(Settle(op, s)).attempts = op.attempts
  BY DEF Unclaimed, Settle, Operation
<1> QED BY <1>1, <1>5, <1>6, <1>7 DEF Deferred

(* The verdict of expireUnsent keeps the row a row.                         *)
LEMMA ExpiredType ==
  ASSUME NEW op \in Operation, TypeOK
  PROVE  Expired(op) \in Operation
<1>1. \A s \in {"missed", "cancelled"} : Unclaimed(Settle(op, s)) \in Operation
  BY RowOps DEF State, Unsent, Settled, Failure
<1>2. EventTime(op) \in Int /\ op.dueAt \in Int
  BY DEF EventTime, TypeOK, Event, Operation
<1>3. \A due \in Int : [Unclaimed(Settle(op, "missed")) EXCEPT !.dueAt = due] \in Operation
  BY <1>1 DEF Operation
<1> QED BY <1>1, <1>2, <1>3, RequeuedType DEF Expired

(* The fan-out of an event keeps the row a row.                             *)
LEMMA SyncedType ==
  ASSUME NEW op \in Operation, TypeOK, NEW cancel \in BOOLEAN, NEW e \in Event
  PROVE  Synced(op, cancel, e) \in Operation
<1>1. \A s \in {"pending", "cancelled"} : Unclaimed(Settle(op, s)) \in Operation
  BY RowOps DEF State, Unsent, Settled, Failure
<1>2. e.startAt + op.offset \in Int /\ Later(e.startAt + op.offset, op.retryAt) \in Int
  BY DEF Event, Operation, Later
<1>3. [Unclaimed(Settle(op, "pending")) EXCEPT
          !.dueAt = e.startAt + op.offset,
          !.readyAt = Later(e.startAt + op.offset, op.retryAt)] \in Operation
  BY <1>1, <1>2 DEF Operation
<1> QED BY <1>1, <1>3 DEF Synced

(* What an invitation depends on is a row, or the absent one.               *)
LEMMA CreationRow ==
  ASSUME TypeOK, NEW o \in Op
  PROVE  CreationOf(o, ops) \in Operation
  BY Constants DEF CreationOf, TypeOK

(* A schedule staff may ask for has fields of the right types.              *)
LEMMA ScheduleFields ==
  ASSUME NEW s \in Schedules(Times)
  PROVE  s.schedule \in {"fixed", "event", "relative"} /\ s.offset \in Int /\ s.due \in Int
<1>1. \A t \in Times : t \in Int
  <2>1. \A x \in StartTimes, d \in Offsets \cup {0} : x + d \in Int
    OBVIOUS
  <2>2. \A t \in DueTimes : t \in Int
    OBVIOUS
  <2> QED BY <2>1, <2>2 DEF Times
<1>2. s.schedule \in Kinds /\ s.offset \in Offsets \cup {0} /\ s.due \in Times
  BY DEF Schedules
<1>3. \A d \in Offsets \cup {0} : d \in Int
  OBVIOUS
<1>4. s.schedule \in {"fixed", "event", "relative"}
  BY <1>2
<1> QED BY <1>1, <1>2, <1>3, <1>4

(* Scheduling keeps a row a row.                                            *)
LEMMA ScheduledType ==
  ASSUME TypeOK, NEW o \in Op, NEW op \in Operation, NEW s,
         s.schedule \in {"fixed", "event", "relative"}, s.offset \in Int, s.due \in Int
  PROVE  Scheduled(op, o, s) \in Operation
<1>1. (s.schedule # "fixed" \/ CreationOf(o, ops).tied) \in BOOLEAN
  OBVIOUS
<1> QED BY <1>1 DEF Scheduled, Operation

(* The parts of TypeOK that Patch touches, in the next state.               *)
Patched == /\ ops' \in [Op -> Operation]
           /\ notices' \subseteq Op \X Nat \X Failure
           /\ woken' \subseteq Connector

(* patchOperation keeps rows, notices and resumed connectors typed.         *)
LEMMA PatchType ==
  ASSUME TypeOK, NEW new \in [Op -> Operation], Patch(new)
  PROVE  Patched
<1>1. \A o \in Op : new[o].revision \in Nat
  BY DEF Operation
<1>2. ops' = new
  BY DEF Patch
<1>3. notices' \subseteq Op \X Nat \X Failure
  <2>1. \A o \in Op : new[o].state \in Failure =>
                        <<o, new[o].revision, new[o].state>> \in Op \X Nat \X Failure
    BY <1>1
  <2>2. notices \subseteq Op \X Nat \X Failure
    BY DEF TypeOK
  <2> QED BY <2>1, <2>2 DEF Patch
<1>4. woken' \subseteq Connector
  BY DEF Patch, TypeOK
<1> QED BY <1>2, <1>3, <1>4 DEF Patched

-----------------------------------------------------------------------------
(* Type correctness, one step per action.                                   *)

(* Every step of the connection keeps it typed.                             *)
LEMMA ConnectionTypes ==
  ASSUME ConnectionTypeOK,
         \/ \E w \in Worker : \/ ClaimAssignment(w) \/ ReleaseLease(w) \/ MembershipActive(w)
                              \/ MembershipDisconnected(w) \/ Restart(w)
         \/ \E b \in BOOLEAN : SetKillSwitch(b) \/ RotateCredentials(b) \/ AccountUnavailable(b)
         \/ AccountReady \/ DisconnectGroup \/ ConnectGroup \/ Tick
  PROVE  ConnectionTypeOK'
<1> USE DEF ConnectionTypeOK, Integration, Account, Lease, Session, Disturb, NoLease
<1>1. CASE \E w \in Worker : ClaimAssignment(w)
  BY <1>1 DEF ClaimAssignment
<1>2. CASE \E w \in Worker : ReleaseLease(w) \/ MembershipActive(w) \/ MembershipDisconnected(w)
  BY <1>2 DEF ReleaseLease, MembershipActive, MembershipDisconnected
<1>3. CASE \E w \in Worker : Restart(w)
  BY <1>3 DEF Restart
<1>4. CASE \E b \in BOOLEAN : SetKillSwitch(b)
  BY <1>4 DEF SetKillSwitch
<1>5. CASE \E b \in BOOLEAN : RotateCredentials(b)
  BY <1>5 DEF RotateCredentials
<1>6. CASE \E b \in BOOLEAN : AccountUnavailable(b)
  <2>1. PICK b \in BOOLEAN : AccountUnavailable(b)
    BY <1>6
  <2>2. integration' \in Integration
    <3>1. (IF b THEN "connecting" ELSE "active") \in {"active", "connecting"}
      OBVIOUS
    <3> QED BY <2>1, <3>1 DEF AccountUnavailable
  <2>3. account' \in Account
    BY <2>1 DEF AccountUnavailable
  <2>4. lease' = NoLease /\ disturbances' = disturbances + 1 /\ UNCHANGED <<now, session>>
    BY <2>1 DEF AccountUnavailable
  <2> QED BY <2>2, <2>3, <2>4
<1>7. CASE AccountReady
  BY <1>7 DEF AccountReady
<1>8. CASE DisconnectGroup
  <2>1. [integration EXCEPT !.state = "disconnecting", !.kill = FALSE] \in Integration
    OBVIOUS
  <2>2. /\ integration' = [integration EXCEPT !.state = "disconnecting", !.kill = FALSE]
        /\ lease' = NoLease /\ disturbances' = disturbances + 1
        /\ UNCHANGED <<now, account, session>>
    BY <1>8 DEF DisconnectGroup
  <2> QED BY <2>1, <2>2
<1>9. CASE ConnectGroup
  <2>1. integration.epoch + 1 \in Nat
    OBVIOUS
  <2>2. \A n \in Nat : [integration EXCEPT !.state = "connecting", !.kill = FALSE,
                                           !.epoch = n] \in Integration
    OBVIOUS
  <2>3. /\ integration' = [integration EXCEPT !.state = "connecting", !.kill = FALSE,
                                              !.epoch = integration.epoch + 1]
        /\ UNCHANGED <<now, account, lease, session, disturbances>>
    BY <1>9 DEF ConnectGroup
  <2> QED BY <2>1, <2>2, <2>3
<1>10. CASE Tick
  BY <1>10 DEF Tick
<1> QED BY <1>1, <1>2, <1>3, <1>4, <1>5, <1>6, <1>7, <1>8, <1>9, <1>10

(* A step that leaves the connection alone keeps it typed.                  *)
LEMMA ConnectionUnchanged == ASSUME ConnectionTypeOK, UNCHANGED connectionVars
                             PROVE  ConnectionTypeOK'
  BY DEF ConnectionTypeOK, connectionVars

(* The rows of a page and of the claim loop, updated one by one.            *)
LEMMA ClaimTypeOK ==
  ASSUME TypeOK, NEW w \in Worker, Claim(w)
  PROVE  TypeOK'
<1> DEFINE swept == [o \in Op |-> Swept(ops[o])]
           queue == {o \in Op : swept[o].state = "pending" /\ swept[o].readyAt <= now}
           before(p, o) == \/ swept[p].readyAt < swept[o].readyAt
                           \/ swept[p].readyAt = swept[o].readyAt /\ p < o
           disposed(o) == Disposed(swept[o], Standing(o, swept[o], Absent))
           seen(o) == LET c == Creation[o]
                      IN IF c \in queue /\ before(c, o) THEN disposed(c)
                                                       ELSE CreationOf(o, swept)
           standing(o) == Standing(o, swept[o], seen(o))
           ready == {o \in queue : standing(o) = "ready"}
           looped(visited) == [o \in Op |-> IF o \in visited
                                              THEN Disposed(swept[o], standing(o))
                                              ELSE swept[o]]
<1>1. swept \in [Op -> Operation]
  BY SweptType DEF TypeOK
<1>2. \A visited : looped(visited) \in [Op -> Operation]
  <2>1. \A o \in Op : swept[o] \in Operation /\ Disposed(swept[o], standing(o)) \in Operation
    <3> HIDE DEF standing, swept
    <3> QED BY <1>1, DisposedType
  <2> HIDE DEF standing, swept
  <2> QED BY <2>1
<1>3. UNCHANGED <<connectionVars, event, connectorActive, expiries, fanout, rejections,
                  reports, writes, effects>>
  BY DEF Claim
<1>4. Patched /\ worker' \in [Worker -> Process]
  <2>1. CASE Patch(looped(queue)) /\ UNCHANGED worker
    <3> HIDE DEF looped, queue
    <3>1. Patched
      BY <2>1, <1>2, PatchType
    <3> QED BY <2>1, <3>1 DEF TypeOK
  <2>2. ASSUME NEW o \in ready,
               Patch([looped({p \in queue : before(p, o)}) EXCEPT ![o] = Claimed(@, w)]),
               worker' = [worker EXCEPT ![w] =
                  [pc |-> "preflight", op |-> o, nonce |-> swept[o].nonces + 1,
                   revision |-> swept[o].revision,
                   executeBefore |-> swept[o].dueAt + LateGrace]]
        PROVE  Patched /\ worker' \in [Worker -> Process]
    <3> DEFINE visited == {p \in queue : before(p, o)}
               new == [looped(visited) EXCEPT ![o] = Claimed(@, w)]
    <3>1. o \in Op
      OBVIOUS
    <3>2. new \in [Op -> Operation]
      <4> DEFINE rows == looped(visited)
      <4>1. rows \in [Op -> Operation]
        <5> HIDE DEF looped, visited
        <5> QED BY <1>2
      <4>2. new = [rows EXCEPT ![o] = Claimed(rows[o], w)]
        OBVIOUS
      <4> HIDE DEF rows, new
      <4>3. Claimed(rows[o], w) \in Operation
        BY <4>1, <3>1, ClaimedType
      <4> QED BY <4>1, <4>2, <4>3, <3>1
    <3>3. Patch(new)
      BY <2>2
    <3>4. Patched
      <4> HIDE DEF new
      <4> QED BY <3>2, <3>3, PatchType
    <3>5. swept[o].nonces + 1 \in Nat /\ swept[o].revision \in Nat
          /\ swept[o].dueAt + LateGrace \in Int
      <4>1. swept[o] \in Operation
        BY <1>1, <3>1
      <4> HIDE DEF swept
      <4> QED BY <4>1 DEF Operation
    <3>6. worker' \in [Worker -> Process]
      <4> HIDE DEF swept
      <4> QED BY <2>2, <3>1, <3>5 DEF TypeOK, Process
    <3> QED BY <3>4, <3>6
  <2> QED BY <2>1, <2>2 DEF Claim
<1> QED BY <1>3, <1>4, ConnectionUnchanged DEF TypeOK, Patched

(* Patching one row with a row keeps the table typed.                       *)
LEMMA RowPatchType ==
  ASSUME TypeOK, NEW o \in Op, NEW q \in Operation, Patch([ops EXCEPT ![o] = q])
  PROVE  Patched
<1>1. [ops EXCEPT ![o] = q] \in [Op -> Operation]
  BY DEF TypeOK
<1> QED BY <1>1, PatchType

(* enqueue, edit and cancel keep the state typed.                           *)
LEMMA StaffTypeOK ==
  ASSUME TypeOK, NEW o \in Op, Enqueue(o) \/ Edit(o) \/ Cancel(o)
  PROVE  TypeOK'
<1>1. ops[o] \in Operation
  BY DEF TypeOK
<1>2. CASE Enqueue(o)
  <2>1. PICK s : /\ s \in IF o \in Connector
                            THEN {[schedule |-> "fixed", offset |-> 0, due |-> now]}
                            ELSE Schedules(Times)
                 /\ ops' = [ops EXCEPT ![o] =
                      [Scheduled(ops[o], o, s) EXCEPT
                         !.state = "pending", !.revision = 1, !.epoch = integration.epoch,
                         !.dependencyRevision = CreationOf(o, ops).revision]]
    BY <1>2 DEF Enqueue
  <2>2. Scheduled(ops[o], o, s) \in Operation
    <3>1. CASE o \in Connector
      <4>1. s = [schedule |-> "fixed", offset |-> 0, due |-> now] /\ now \in Nat
        BY <2>1, <3>1 DEF TypeOK, ConnectionTypeOK
      <4>2. s.schedule = "fixed" /\ s.offset = 0 /\ s.due = now
        BY <4>1
      <4> QED BY <1>1, <4>1, <4>2, ScheduledType
    <3>2. CASE o \notin Connector
      BY <1>1, <2>1, <3>2, ScheduleFields, ScheduledType
    <3> QED BY <3>1, <3>2
  <2>3. integration.epoch \in Nat /\ CreationOf(o, ops).revision \in Nat
    BY CreationRow DEF TypeOK, ConnectionTypeOK, Integration, Operation
  <2>4. [Scheduled(ops[o], o, s) EXCEPT
           !.state = "pending", !.revision = 1, !.epoch = integration.epoch,
           !.dependencyRevision = CreationOf(o, ops).revision] \in Operation
    BY <2>2, <2>3 DEF Operation, State, Unsent
  <2>5. ops' \in [Op -> Operation]
    BY <2>1, <2>4 DEF TypeOK
  <2> QED BY <1>2, <2>5, ConnectionUnchanged DEF Enqueue, TypeOK
<1>3. CASE Edit(o)
  <2>1. PICK s \in Schedules(Times) : Patch([ops EXCEPT ![o] = Edited(ops[o], o, s)])
    BY <1>3 DEF Edit
  <2>2. Scheduled(ops[o], o, s) \in Operation
    <3>1. s.schedule \in {"fixed", "event", "relative"}
      BY ScheduleFields
    <3>2. s.offset \in Int /\ s.due \in Int
      BY ScheduleFields
    <3> QED BY ONLY <1>1, <3>1, <3>2, ScheduledType, TypeOK
  <2>3. ops[o].revision + 1 \in Nat
    BY <1>1 DEF Operation
  <2>4. Edited(ops[o], o, s) \in Operation
    BY <2>2, <2>3 DEF Edited, Operation
  <2>5. Patched
    BY <2>1, <2>4, RowPatchType
  <2> QED BY <1>3, <2>5, ConnectionUnchanged DEF Edit, TypeOK, Patched
<1>4. CASE Cancel(o)
  <2>1. Settle(ops[o], "cancelled") \in Operation
    BY <1>1, RowOps DEF State, Settled
  <2>2. Patch([ops EXCEPT ![o] = Settle(ops[o], "cancelled")])
    BY <1>4 DEF Cancel
  <2>3. Patched
    BY <2>1, <2>2, RowPatchType
  <2> QED BY <1>4, <2>3, ConnectionUnchanged DEF Cancel, TypeOK, Patched
<1> QED BY <1>2, <1>3, <1>4

(* A worker process that moves on or gives up stays a process.              *)
LEMMA ProceedType ==
  ASSUME TypeOK, NEW w \in Worker
  PROVE  /\ \A pc \in {"refused", "authorized"} :
              Proceed(w, pc) => worker' \in [Worker -> Process]
         /\ Abandon(w) => worker' \in [Worker -> Process]
<1>1. \A p \in Process, pc \in {"refused", "authorized"} : [p EXCEPT !.pc = pc] \in Process
  BY DEF Process
<1>2. Idle \in Process
  BY DEF Idle, Process
<1>3. worker \in [Worker -> Process]
  BY DEF TypeOK
<1>4. worker[w] \in Process
  BY <1>3
<1>5. \A pc \in {"refused", "authorized"} :
        Proceed(w, pc) => worker' = [worker EXCEPT ![w] = [worker[w] EXCEPT !.pc = pc]]
  BY <1>3 DEF Proceed
<1>6. Abandon(w) => worker' = [worker EXCEPT ![w] = Idle]
  BY DEF Abandon
<1>7. \A p \in Process : [worker EXCEPT ![w] = p] \in [Worker -> Process]
  BY <1>3
<1>8. ASSUME NEW pc \in {"refused", "authorized"}, Proceed(w, pc)
      PROVE  worker' \in [Worker -> Process]
  <2>1. [worker[w] EXCEPT !.pc = pc] \in Process
    BY <1>1, <1>4
  <2> QED BY <1>5, <1>7, <1>8, <2>1
<1>9. Abandon(w) => worker' \in [Worker -> Process]
  BY <1>2, <1>6, <1>7
<1> QED BY <1>8, <1>9

(* authorizeSubmission keeps the state typed.                               *)
LEMMA AuthorizeTypeOK ==
  ASSUME TypeOK, NEW w \in Worker, worker[w].op \in Op, AuthorizeSubmission(w)
  PROVE  TypeOK'
<1> DEFINE o == worker[w].op
           standing == Standing(o, ops[o], CreationOf(o, ops))
           submitted == [ops[o] EXCEPT !.state = "submitted", !.submitted = TRUE,
                                       !.claim.expiresAt = now + SubmitTime]
           expiry == [op |-> o, nonce |-> worker[w].nonce, expiresAt |-> now + SubmitTime]
<1>1. ops[o] \in Operation /\ now + SubmitTime \in Nat /\ worker[w].nonce \in Nat
  <2>1. worker[w] \in Process /\ ops[o] \in Operation
    BY DEF TypeOK
  <2>2. now + SubmitTime \in Nat
    BY DEF TypeOK, ConnectionTypeOK
  <2> QED BY <2>1, <2>2 DEF Process
<1>2. submitted \in Operation
  <2>1. \A t \in Nat : [ops[o].claim EXCEPT !.expiresAt = t] \in Claims
    BY <1>1 DEF Operation, Claims
  <2>2. [ops[o].claim EXCEPT !.expiresAt = now + SubmitTime] \in Claims
    BY <1>1, <2>1
  <2> QED BY <1>1, <2>2 DEF Operation, State
<1>3. Settle(ops[o], "rejected") \in Operation /\ Denied(ops[o], standing) \in Operation
  BY <1>1, RowOps, DeniedType DEF State, Settled, Failure
<1>4. expiry \in [op : Op, nonce : Nat, expiresAt : Nat]
  BY <1>1
<1>5. Patched
  <2>1. CASE UNCHANGED <<ops, notices, woken>>
    BY <2>1 DEF TypeOK, Patched
  <2>2. CASE \E q \in {Settle(ops[o], "rejected"), Denied(ops[o], standing), submitted} :
               Patch([ops EXCEPT ![o] = q])
    <3> HIDE DEF standing, submitted, o
    <3> QED BY <1>2, <1>3, <2>2, RowPatchType DEF o
  <2> QED BY <2>1, <2>2 DEF AuthorizeSubmission
<1>6. expiries' \subseteq [op : Op, nonce : Nat, expiresAt : Nat]
  <2>1. expiries' = expiries \/ expiries' = expiries \cup {expiry}
    BY DEF AuthorizeSubmission
  <2> HIDE DEF expiry
  <2> QED BY <2>1, <1>4 DEF TypeOK
<1>7. worker' \in [Worker -> Process]
  BY ProceedType DEF AuthorizeSubmission
<1>8. UNCHANGED <<connectionVars, event, connectorActive, fanout, rejections, reports,
                  writes, effects>>
  BY DEF AuthorizeSubmission
<1> QED BY <1>5, <1>6, <1>7, <1>8, ConnectionUnchanged DEF TypeOK, Patched

(* The other steps of a busy worker keep the state typed.                   *)
LEMMA WorkerTypeOK ==
  ASSUME TypeOK, NEW w \in Worker, worker[w].op \in Op,
         \/ DeferClaim(w) \/ RejectClaim(w) \/ ProviderWrite(w) \/ WriteNotAttempted(w)
  PROVE  TypeOK'
<1> DEFINE o == worker[w].op
<1>1. ops[o] \in Operation
  BY DEF TypeOK
<1>2. CASE DeferClaim(w)
  <2>1. CASE Held(w)
    <3>1. PICK delay \in 1..MaxDelay : Patch([ops EXCEPT ![o] = Deferred(ops[o], delay)])
      BY <1>2, <2>1 DEF DeferClaim
    <3>2. delay \in Nat
      OBVIOUS
    <3>3. Patched
      BY <1>1, <3>1, <3>2, DeferredType, RowPatchType
    <3> QED BY <1>2, <3>3, ProceedType, ConnectionUnchanged DEF DeferClaim, TypeOK, Patched
  <2>2. CASE ~Held(w)
    BY <1>2, <2>2, ProceedType, ConnectionUnchanged DEF DeferClaim, TypeOK
  <2> QED BY <2>1, <2>2
<1>3. CASE RejectClaim(w)
  <2>1. CASE Held(w)
    <3>1. Patch([ops EXCEPT ![o] = Settle(ops[o], "rejected")])
      BY <1>3, <2>1 DEF RejectClaim
    <3>2. Settle(ops[o], "rejected") \in Operation
      BY <1>1, RowOps DEF State, Settled, Failure
    <3>3. Patched
      BY <3>1, <3>2, RowPatchType
    <3> QED BY <1>3, <3>3, ProceedType, ConnectionUnchanged DEF RejectClaim, TypeOK, Patched
  <2>2. CASE ~Held(w)
    BY <1>3, <2>2, ProceedType, ConnectionUnchanged DEF RejectClaim, TypeOK
  <2> QED BY <2>1, <2>2
<1>4. ASSUME NEW status \in Status, SendReport(w, status)
      PROVE  reports' \subseteq Report
  <2>1. worker[w].nonce \in Nat /\ session[w] \in Session
    BY DEF TypeOK, ConnectionTypeOK, Process
  <2>2. [op |-> worker[w].op, nonce |-> worker[w].nonce, holder |-> w,
         token |-> session[w].token, epoch |-> session[w].epoch, key |-> session[w].key,
         status |-> status] \in Report
    BY <2>1 DEF Report, Session
  <2> QED BY <1>4, <2>2 DEF SendReport, TypeOK
<1>5. CASE ProviderWrite(w)
  <2>1. PICK answer \in Answers :
          /\ writes' = [writes EXCEPT ![o] = @ + 1]
          /\ effects' = [effects EXCEPT ![o] = @ + (IF answer.applied THEN 1 ELSE 0)]
          /\ SendReport(w, answer.status)
    BY <1>5 DEF ProviderWrite
  <2>2. answer.status \in Status
    BY DEF Answers, Status
  <2>3. reports' \subseteq Report
    BY <2>1, <2>2, <1>4
  <2>4. writes' \in [Op -> Nat] /\ effects' \in [Op -> Nat]
    <3>1. writes \in [Op -> Nat] /\ effects \in [Op -> Nat]
      BY DEF TypeOK
    <3>2. (IF answer.applied THEN 1 ELSE 0) \in Nat
      OBVIOUS
    <3>3. effects[o] + (IF answer.applied THEN 1 ELSE 0) \in Nat /\ writes[o] + 1 \in Nat
      <4>1. o \in Op /\ effects[o] \in Nat /\ writes[o] \in Nat
        BY <3>1
      <4> HIDE DEF o
      <4> QED BY <3>2, <4>1
    <3> QED BY <2>1, <3>1, <3>3
  <2> QED BY <1>5, <2>3, <2>4, ProceedType, ConnectionUnchanged DEF ProviderWrite, TypeOK
<1>6. CASE WriteNotAttempted(w)
  <2>1. reports' \subseteq Report
    BY <1>4, <1>6 DEF WriteNotAttempted, Status
  <2> QED BY <1>6, <2>1, ProceedType, ConnectionUnchanged DEF WriteNotAttempted, TypeOK
<1> QED BY <1>2, <1>3, <1>5, <1>6

(* complete, expireSubmission and expireUnsent keep the state typed.        *)
LEMMA ServerTypeOK ==
  ASSUME TypeOK,
         \/ \E r \in reports : Complete(r)
         \/ \E e \in expiries : ExpireSubmission(e)
         \/ \E o \in Op : ExpireUnsent(o)
  PROVE  TypeOK'
<1>1. ASSUME NEW r \in reports, Complete(r) PROVE TypeOK'
  <2>1. r.op \in Op /\ r.status \in Status
    BY DEF TypeOK, Report
  <2>2. Settle(ops[r.op], r.status) \in Operation
    BY <2>1, RowOps, Constants DEF TypeOK
  <2>3. Patched
    BY <1>1, <2>1, <2>2, RowPatchType DEF Complete
  <2> QED BY <1>1, <2>3, ConnectionUnchanged DEF Complete, TypeOK, Patched
<1>2. ASSUME NEW e \in expiries, ExpireSubmission(e) PROVE TypeOK'
  <2>1. e.op \in Op
    BY DEF TypeOK
  <2>2. Settle(ops[e.op], "indeterminate") \in Operation
    BY <2>1, RowOps DEF TypeOK, State, Settled, Failure
  <2>3. Patched
    <3>1. CASE UNCHANGED <<ops, notices, woken>>
      BY <3>1 DEF TypeOK, Patched
    <3>2. CASE Patch([ops EXCEPT ![e.op] = Settle(ops[e.op], "indeterminate")])
      BY <2>1, <2>2, <3>2, RowPatchType
    <3> QED BY <1>2, <3>1, <3>2 DEF ExpireSubmission
  <2> QED BY <1>2, <2>3, ConnectionUnchanged DEF ExpireSubmission, TypeOK, Patched
<1>3. ASSUME NEW o \in Op, ExpireUnsent(o) PROVE TypeOK'
  <2>1. Expired(ops[o]) \in Operation
    BY ExpiredType DEF TypeOK
  <2>2. Patched
    BY <1>3, <2>1, RowPatchType DEF ExpireUnsent
  <2> QED BY <1>3, <2>2, ConnectionUnchanged DEF ExpireUnsent, TypeOK, Patched
<1> QED BY <1>1, <1>2, <1>3

(* One page of the fan-out leaves every row a row.                          *)
LEMMA SyncPageType ==
  ASSUME TypeOK, NEW cancel \in BOOLEAN, NEW e \in Event, NEW cursor, SyncPage(cancel, e, cursor)
  PROVE  ops' \in [Op -> Operation]
<1>1. \A o \in Op : ops[o] \in Operation /\ Synced(ops[o], cancel, e) \in Operation
  BY SyncedType DEF TypeOK
<1> QED BY <1>1 DEF SyncPage

(* A change of the event keeps the state typed.                             *)
LEMMA EventTypeOK ==
  ASSUME TypeOK, NEW cancel \in BOOLEAN, NEW e \in Event, ChangeEvent(cancel, e),
         ConnectionTypeOK'
  PROVE  TypeOK'
<1>1. ops' \in [Op -> Operation]
  BY SyncPageType DEF ChangeEvent
<1>2. fanout' \subseteq [cancel : BOOLEAN, cursor : {-1} \cup Op]
  BY DEF ChangeEvent, TypeOK
<1> QED BY <1>1, <1>2 DEF ChangeEvent, TypeOK

(* A continuation page of the fan-out keeps the state typed.                *)
LEMMA FanoutTypeOK ==
  ASSUME TypeOK, NEW c \in fanout, SyncEventSchedule(c)
  PROVE  TypeOK'
<1>1. c \in [cancel : BOOLEAN, cursor : {-1} \cup Op] /\ event \in Event
  BY DEF TypeOK
<1>2. ops' \in [Op -> Operation]
  BY <1>1, SyncPageType DEF SyncEventSchedule
<1>3. fanout' \subseteq [cancel : BOOLEAN, cursor : {-1} \cup Op]
  <2>1. \A o \in Op : [cancel |-> c.cancel, cursor |-> o] \in
                        [cancel : BOOLEAN, cursor : {-1} \cup Op]
    BY <1>1
  <2>2. PageOf(TiedRows(c.cursor)) \subseteq Op
    BY DEF PageOf, TiedRows
  <2> QED BY <2>1, <2>2 DEF SyncEventSchedule, TypeOK
<1> QED BY <1>2, <1>3, ConnectionUnchanged DEF SyncEventSchedule, TypeOK

(* Rejecting a page of rows keeps the table typed.                          *)
LEMMA RejectRowsType ==
  ASSUME TypeOK, NEW page, NEW epoch, RejectRows(page, epoch)
  PROVE  Patched
<1>1. \A o \in Op : ops[o] \in Operation /\ Unclaimed(Settle(ops[o], "rejected")) \in Operation
  BY RowOps DEF TypeOK, State, Settled, Failure
<1>2. [o \in Op |-> IF o \in page /\ ops[o].epoch <= epoch /\ ~ops[o].submitted
                      THEN Unclaimed(Settle(ops[o], "rejected")) ELSE ops[o]] \in [Op -> Operation]
  BY <1>1
<1> QED BY <1>2, PatchType DEF RejectRows

(* Rejecting the unsent rows of a connection keeps the state typed.         *)
LEMMA RejectUnsentTypeOK ==
  ASSUME TypeOK, ConnectionTypeOK', RejectUnsent(integration.epoch)
  PROVE  TypeOK'
<1>1. Patched
  BY RejectRowsType DEF RejectUnsent
<1>2. rejections' \subseteq [epoch : Nat, state : Unsent, cursor : {NoCursor} \cup (Int \X Op)]
  <2>1. integration.epoch \in Nat
    BY DEF TypeOK, ConnectionTypeOK, Integration
  <2>2. \A s \in Unsent : [epoch |-> integration.epoch, state |-> s, cursor |-> NoCursor] \in
                           [epoch : Nat, state : Unsent, cursor : {NoCursor} \cup (Int \X Op)]
    BY <2>1
  <2> QED BY <2>2 DEF RejectUnsent, TypeOK
<1> QED BY <1>1, <1>2 DEF RejectUnsent, TypeOK, Patched

(* A continuation page of the rejection keeps the state typed.              *)
LEMMA RejectPageTypeOK ==
  ASSUME TypeOK, NEW c \in rejections, RejectConnectionOperationsPage(c)
  PROVE  TypeOK'
<1>1. Patched
  BY RejectRowsType DEF RejectConnectionOperationsPage
<1>2. rejections' \subseteq [epoch : Nat, state : Unsent, cursor : {NoCursor} \cup (Int \X Op)]
  <2>1. c \in [epoch : Nat, state : Unsent, cursor : {NoCursor} \cup (Int \X Op)]
    BY DEF TypeOK
  <2>2. \A o \in Op : ops[o].dueAt \in Int
    BY DEF TypeOK, Operation
  <2>3. \A o \in Op : [c EXCEPT !.cursor = <<ops[o].dueAt, o>>] \in
                       [epoch : Nat, state : Unsent, cursor : {NoCursor} \cup (Int \X Op)]
    BY <2>1, <2>2
  <2>4. QueuePage(QueueRows(c.state, c.cursor)) \subseteq Op
    BY DEF QueuePage, QueueRows
  <2> QED BY <2>3, <2>4 DEF RejectConnectionOperationsPage, TypeOK
<1> QED BY <1>1, <1>2, ConnectionUnchanged DEF RejectConnectionOperationsPage, TypeOK, Patched

(* The initial states are typed.                                            *)
LEMMA InitTypeOK == Init => TypeOK
<1> SUFFICES ASSUME Init PROVE TypeOK
  OBVIOUS
<1>1. ConnectionTypeOK
  BY DEF Init, ConnectionInit, ConnectionTypeOK, Integration, Account, Lease, NoLease, Session
<1>2. event \in Event
  BY DEF Init, Event
<1>3. Idle \in Process
  BY DEF Idle, Process
<1> QED BY <1>1, <1>2, <1>3, Constants DEF Init, TypeOK

(* A worker process that is not idle works on an operation.                 *)
Busy == \A w \in Worker : worker[w].pc # "idle" => worker[w].op \in Op

TypeInv == TypeOK /\ Busy

(* Every step from a typed state, with busy workers on real rows, ends in   *)
(* one.                                                                     *)
LEMMA TypeStep ==
  ASSUME TypeInv, Next
  PROVE  TypeOK'
<1> USE DEF TypeInv
<1>1. ASSUME ConnectionTypeOK', UNCHANGED operationVars PROVE TypeOK'
  BY <1>1 DEF operationVars, TypeOK
<1>2. CASE ConnectionStep
  <2>1. ConnectionTypeOK'
    BY <1>2, ConnectionTypes DEF ConnectionStep, TypeOK
  <2> QED BY <1>1, <1>2, <2>1 DEF ConnectionStep
<1>3. CASE Clock
  BY <1>1, <1>3, ConnectionTypes DEF Clock, TypeOK
<1>4. CASE StaffStep
  BY <1>4, StaffTypeOK DEF StaffStep
<1>5. CASE WorkerStep
  <2>1. PICK w \in Worker : \/ Claim(w) \/ AuthorizeSubmission(w) \/ DeferClaim(w)
                            \/ RejectClaim(w) \/ ProviderWrite(w) \/ WriteNotAttempted(w)
                            \/ Crash(w) \/ (worker[w].pc = "idle" /\ Left(w))
    BY <1>5 DEF WorkerStep
  <2>2. CASE Claim(w)
    BY <2>2, ClaimTypeOK
  <2>3. CASE AuthorizeSubmission(w)
    <3>1. worker[w].op \in Op
      BY <2>3 DEF AuthorizeSubmission, Busy
    <3> QED BY <2>3, <3>1, AuthorizeTypeOK
  <2>4. CASE DeferClaim(w) \/ RejectClaim(w) \/ ProviderWrite(w) \/ WriteNotAttempted(w)
    <3>1. worker[w].op \in Op
      BY <2>4 DEF DeferClaim, RejectClaim, ProviderWrite, WriteNotAttempted, Busy
    <3> QED BY <2>4, <3>1, WorkerTypeOK
  <2>5. CASE Crash(w)
    <3>1. ConnectionTypeOK'
      BY <2>5, ConnectionTypes DEF Crash, TypeOK
    <3>2. worker' \in [Worker -> Process]
      BY <2>5, ProceedType DEF Crash
    <3> QED BY <2>5, <3>1, <3>2 DEF Crash, TypeOK
  <2>6. CASE Left(w)
    <3>1. ConnectionTypeOK'
      BY <2>6, ConnectionTypes DEF Left, TypeOK
    <3> QED BY <2>6, <3>1, RejectUnsentTypeOK DEF Left
  <2> QED BY <2>1, <2>2, <2>3, <2>4, <2>5, <2>6
<1>6. CASE ServerStep
  BY <1>6, ServerTypeOK, FanoutTypeOK, RejectPageTypeOK DEF ServerStep
<1>7. CASE EnvironmentStep
  <2>1. ASSUME NEW b \in BOOLEAN, SetEventCancelled(b) PROVE TypeOK'
    <3>1. [event EXCEPT !.cancelled = b] \in Event
      BY DEF TypeOK, Event
    <3>2. ConnectionTypeOK'
      BY <2>1 DEF SetEventCancelled, ConnectionTypeOK, Disturb, TypeOK
    <3> QED BY <2>1, <3>1, <3>2, EventTypeOK DEF SetEventCancelled
  <2>2. CASE RescheduleEvent
    <3>1. PICK timed \in BOOLEAN, start \in StartTimes :
            ChangeEvent(FALSE, [event EXCEPT !.timed = timed, !.startAt = start])
      BY <2>2 DEF RescheduleEvent
    <3>2. [event EXCEPT !.timed = timed, !.startAt = start] \in Event
      BY DEF TypeOK, Event
    <3>3. ConnectionTypeOK'
      BY <2>2 DEF RescheduleEvent, ConnectionTypeOK, Disturb, TypeOK
    <3> QED BY <3>1, <3>2, <3>3, EventTypeOK
  <2>3. CASE RetractEvent
    <3>1. ConnectionTypeOK'
      BY <2>3 DEF RetractEvent, ConnectionTypeOK, Disturb, TypeOK
    <3> QED BY <2>3, <3>1, EventTypeOK DEF RetractEvent, TypeOK
  <2>4. CASE Disconnect \/ Reconnect
    <3>1. ConnectionTypeOK' /\ RejectUnsent(integration.epoch)
      BY <2>4, ConnectionTypes DEF Disconnect, Reconnect, TypeOK
    <3> QED BY <3>1, RejectUnsentTypeOK
  <2>5. CASE SetConnectorActive
    <3>1. ConnectionTypeOK'
      BY <2>5 DEF SetConnectorActive, ConnectionTypeOK, Disturb, TypeOK
    <3> QED BY <2>5, <3>1 DEF SetConnectorActive, TypeOK
  <2> QED BY <1>7, <2>1, <2>2, <2>3, <2>4, <2>5 DEF EnvironmentStep
<1> QED BY <1>2, <1>3, <1>4, <1>5, <1>6, <1>7 DEF Next
=============================================================================
