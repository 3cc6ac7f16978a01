----------------------- MODULE ClubOperationsOutcomes -----------------------
(***************************************************************************)
(* What the club operation queue guarantees about its rows, proved for     *)
(* every set of workers and operations and every value of the durations    *)
(* and bounds: one executor, final and reported outcomes, reviewed writes, *)
(* current submissions, and invitations that follow their creation.        *)
(***************************************************************************)
EXTENDS ClubOperationsProofs

(* What every transaction but enqueue and edit does to a row: what staff    *)
(* planned stays, a settled row stays altogether, a submission keeps its    *)
(* time, and a claim is either the old one or has a new nonce.              *)
Kept(p, q) ==
  /\ q.schedule = p.schedule /\ q.offset = p.offset /\ q.tied = p.tied
  /\ q.revision = p.revision /\ q.dependencyRevision = p.dependencyRevision
  /\ q.nonces >= p.nonces
  /\ p.state \in Settled \cup {"absent"} => q = p
  /\ p.state = "submitted" => q.state \in {"submitted"} \cup Settled /\ q.dueAt = p.dueAt
  /\ q.state = "claimed" => q = p \/ q.claim.nonce > p.nonces

(* enqueue and edit: a row no worker holds is planned, anew or again.       *)
Planned(o, q) ==
  LET p == ops[o]
  IN /\ p.state \in {"absent", "pending"} /\ q.state = "pending"
     /\ q.nonces = p.nonces /\ q.readyAt = q.dueAt
     /\ IF p.state = "absent"
          THEN q.revision = 1 /\ q.dependencyRevision = CreationOf(o, ops).revision
          ELSE q.revision = p.revision + 1 /\ q.dependencyRevision = p.dependencyRevision

RowsMove == \A o \in Op : Kept(ops[o], ops'[o]) \/ Planned(o, ops'[o])

(* Event times need an event; a connector's action never has one.           *)
RowTied(o, op) == /\ o \in Connector => ~op.tied
                  /\ op.schedule # "fixed" => op.tied

(* The queue offers no row before it is due, so none is claimed early.      *)
RowDue(op) == /\ op.state \in Unsent => op.dueAt <= op.readyAt
              /\ op.state = "claimed" => op.dueAt <= now

RowsPlanned == \A o \in Op : RowTied(o, ops[o]) /\ RowDue(ops[o])

(* What a worker was told when it claimed is still what the row says, as    *)
(* long as the claim is the row's claim, and from the authorization on.     *)
Matches(w, op) == /\ worker[w].revision = op.revision
                  /\ worker[w].executeBefore = op.dueAt + LateGrace
ReviewedWorker(w, op) ==
  /\ worker[w].nonce <= op.nonces
  /\ worker[w].pc = "authorized" => Matches(w, op)
  /\ worker[w].pc = "preflight" /\ op.state = "claimed" /\ op.claim.nonce = worker[w].nonce
       => Matches(w, op)
Reviewed == \A w \in Worker : worker[w].pc # "idle" => ReviewedWorker(w, ops[worker[w].op])

(* An invitation that was committed to follows the creation it was reviewed *)
(* against, and a creation that succeeded never changes again.              *)
Invited ==
  \A o \in Op : Creation[o] # NoOp /\ ops[o].submitted =>
    /\ ops[Creation[o]].state = "succeeded"
    /\ ops[Creation[o]].revision = ops[o].dependencyRevision

OutcomeInv == Inv /\ RowsPlanned /\ Reviewed /\ Invited /\ OutcomeReported

-----------------------------------------------------------------------------
(* Row by row.                                                              *)

(* The states a row can be in are told apart.                               *)
LEMMA States == /\ Unsent = {"pending", "claimed"}
                /\ Settled = {"rejected", "indeterminate", "missed", "succeeded", "cancelled"}
                /\ Failure = {"rejected", "indeterminate", "missed"}
                /\ Status \subseteq Settled
  BY DEF Unsent, Settled, Failure, Status

(* A row that is neither settled nor submitted may go wherever it is not    *)
(* claimed, as long as what staff planned stays.                            *)
LEMMA KeptOpen ==
  ASSUME NEW p \in Operation, p.state \in Unsent, NEW q \in Operation,
         q.schedule = p.schedule, q.offset = p.offset, q.tied = p.tied,
         q.revision = p.revision, q.dependencyRevision = p.dependencyRevision,
         q.nonces = p.nonces, q.state # "claimed"
  PROVE  Kept(p, q)
  BY States DEF Kept, Operation

(* Nothing is kept better than what does not change.                        *)
LEMMA KeptSame == ASSUME NEW p \in Operation PROVE Kept(p, p)
  BY DEF Kept, Operation

(* Two transactions in one keep what each keeps.                            *)
LEMMA KeptThen ==
  ASSUME NEW p \in Operation, NEW q \in Operation, NEW r \in Operation,
         Kept(p, q), Kept(q, r)
  PROVE  Kept(p, r)
<1>1. p.nonces \in Nat /\ q.nonces \in Nat /\ r.nonces \in Nat /\ r.claim.nonce \in Nat
  BY DEF Operation, Claims
<1>2. r.nonces >= p.nonces
  BY <1>1 DEF Kept
<1>3. p.state \in Settled \cup {"absent"} => r = p
  BY DEF Kept
<1>4. p.state = "submitted" => r.state \in {"submitted"} \cup Settled /\ r.dueAt = p.dueAt
  BY DEF Kept
<1>5. r.state = "claimed" => r = p \/ r.claim.nonce > p.nonces
  BY <1>1 DEF Kept
<1> QED BY <1>2, <1>3, <1>4, <1>5 DEF Kept

(* Settling an unsent row, with or without its claim, keeps it.             *)
LEMMA KeptSettle ==
  ASSUME NEW op \in Operation, op.state \in Unsent, TypeOK,
         NEW s \in State, s # "claimed"
  PROVE  /\ Kept(op, Settle(op, s)) /\ Kept(op, Unclaimed(Settle(op, s)))
         /\ s \notin Unsent => RowDue(Settle(op, s)) /\ RowDue(Unclaimed(Settle(op, s)))
<1>1. Settle(op, s) \in Operation /\ Unclaimed(Settle(op, s)) \in Operation
  BY RowOps
<1>2. Kept(op, Settle(op, s))
  BY <1>1, KeptOpen DEF Settle, Operation
<1>3. Kept(op, Unclaimed(Settle(op, s)))
  BY <1>1, KeptOpen DEF Settle, Unclaimed, Operation
<1>4. s \notin Unsent => RowDue(Settle(op, s)) /\ RowDue(Unclaimed(Settle(op, s)))
  BY States DEF RowDue, Settle, Unclaimed, Operation
<1> QED BY <1>2, <1>3, <1>4

(* The event's time, or the retry that comes later, is never too early.     *)
LEMMA LaterBound ==
  ASSUME TypeOK, NEW op \in Operation
  PROVE  EventTime(op) \in Int /\ EventTime(op) <= Later(EventTime(op), op.retryAt)
<1>1. event.startAt \in Nat
  BY DEF TypeOK, Event
<1> QED BY <1>1 DEF EventTime, Later, Operation

(* A row put back into the queue at the event's time is kept and not early. *)
LEMMA KeptRequeued ==
  ASSUME NEW op \in Operation, op.state \in Unsent, TypeOK
  PROVE  Kept(op, Requeued(op)) /\ RowDue(Requeued(op))
<1>1. Requeued(op) \in Operation
  BY RequeuedType
<1>2. /\ Requeued(op).state = "pending" /\ Requeued(op).schedule = op.schedule
      /\ Requeued(op).offset = op.offset /\ Requeued(op).tied = op.tied
      /\ Requeued(op).revision = op.revision /\ Requeued(op).nonces = op.nonces
      /\ Requeued(op).dependencyRevision = op.dependencyRevision
      /\ Requeued(op).dueAt = EventTime(op)
      /\ Requeued(op).readyAt = Later(EventTime(op), op.retryAt)
  BY DEF Requeued, Unclaimed, Settle, Retimed, Operation
<1>3. Kept(op, Requeued(op))
  BY <1>1, <1>2, KeptOpen
<1> QED BY <1>2, <1>3, LaterBound DEF RowDue

(* The sweep at the head of claim.                                          *)
LEMMA KeptSwept ==
  ASSUME NEW op \in Operation, RowDue(op), TypeOK
  PROVE  Kept(op, Swept(op)) /\ RowDue(Swept(op))
<1>1. CASE ~(op.state \in {"claimed", "submitted"} /\ op.claim.expiresAt <= now)
  BY <1>1, KeptSame DEF Swept
<1>2. CASE op.state = "submitted" /\ op.claim.expiresAt <= now
  <2>1. Swept(op) = Settle(op, "indeterminate")
    BY <1>2 DEF Swept
  <2> QED BY <1>2, <2>1, States DEF Kept, RowDue, Settle, Operation
<1>3. CASE op.state = "claimed" /\ op.claim.expiresAt <= now
  <2>1. Swept(op) = Unclaimed(Settle(op, "pending"))
    BY <1>3 DEF Swept
  <2>2. Kept(op, Swept(op))
    BY <1>3, <2>1, KeptSettle, States DEF State
  <2>3. RowDue(Swept(op))
    BY <1>3, <2>1, States DEF RowDue, Unclaimed, Settle, Operation
  <2> QED BY <2>2, <2>3
<1> QED BY <1>1, <1>2, <1>3

(* The loop of claim, for a row it does not hand out.                       *)
LEMMA KeptDisposed ==
  ASSUME NEW op \in Operation, op.state = "pending", op.readyAt <= now, RowDue(op), TypeOK,
         NEW standing
  PROVE  Kept(op, Disposed(op, standing)) /\ RowDue(Disposed(op, standing))
<1> DEFINE waiting == [op EXCEPT !.readyAt = Sooner(now + Recheck, op.dueAt + LateGrace + 1)]
<1>1. op.state \in Unsent /\ {"cancelled", "missed", "rejected"} \subseteq State \ Unsent
  BY States DEF State
<1>2. \A s \in {"cancelled", "missed", "rejected"} :
         Kept(op, Settle(op, s)) /\ RowDue(Settle(op, s))
  BY <1>1, KeptSettle, States
<1>3. Kept(op, Retimed(op)) /\ RowDue(Retimed(op))
  <2>1. Retimed(op) \in Operation
    BY RowOps
  <2>2. /\ Retimed(op).state = "pending" /\ Retimed(op).schedule = op.schedule
        /\ Retimed(op).offset = op.offset /\ Retimed(op).tied = op.tied
        /\ Retimed(op).revision = op.revision /\ Retimed(op).nonces = op.nonces
        /\ Retimed(op).dependencyRevision = op.dependencyRevision
        /\ Retimed(op).dueAt = EventTime(op)
        /\ Retimed(op).readyAt = Later(EventTime(op), op.retryAt)
    BY DEF Retimed, Operation
  <2>3. Kept(op, Retimed(op))
    BY <1>1, <2>1, <2>2, KeptOpen
  <2> QED BY <2>2, <2>3, LaterBound DEF RowDue
<1>4. Kept(op, waiting) /\ RowDue(waiting)
  <2>1. now \in Nat /\ op.dueAt \in Int /\ op.readyAt \in Int /\ op.dueAt <= now
    BY <1>1 DEF TypeOK, ConnectionTypeOK, Operation, RowDue
  <2>2. Sooner(now + Recheck, op.dueAt + LateGrace + 1) \in Int
        /\ op.dueAt <= Sooner(now + Recheck, op.dueAt + LateGrace + 1)
    BY <2>1, OperationsAssumption DEF Sooner
  <2>3. waiting \in Operation
    BY <2>2 DEF Operation
  <2>4. Kept(op, waiting)
    BY <1>1, <2>3, KeptOpen DEF Operation
  <2> QED BY <2>2, <2>4 DEF RowDue, Operation
<1> QED BY <1>2, <1>3, <1>4 DEF Disposed

(* Handing a row out gives it a nonce it never had.                         *)
LEMMA KeptClaimed ==
  ASSUME NEW op \in Operation, op.state = "pending", op.readyAt <= now, RowDue(op), TypeOK,
         NEW w \in Worker
  PROVE  /\ Kept(op, Claimed(op, w)) /\ RowDue(Claimed(op, w))
         /\ Claimed(op, w).nonces = op.nonces + 1
         /\ Claimed(op, w).dueAt = op.dueAt /\ Claimed(op, w).revision = op.revision
<1>1. now \in Nat /\ op.dueAt <= op.readyAt /\ op.dueAt \in Int /\ op.readyAt \in Int
  BY States DEF TypeOK, ConnectionTypeOK, RowDue, Operation
<1>2. /\ Claimed(op, w).state = "claimed" /\ Claimed(op, w).nonces = op.nonces + 1
      /\ Claimed(op, w).claim.nonce = op.nonces + 1
      /\ Claimed(op, w).schedule = op.schedule /\ Claimed(op, w).offset = op.offset
      /\ Claimed(op, w).tied = op.tied /\ Claimed(op, w).revision = op.revision
      /\ Claimed(op, w).dependencyRevision = op.dependencyRevision
      /\ Claimed(op, w).dueAt = op.dueAt /\ Claimed(op, w).readyAt = op.readyAt
  BY DEF Claimed, Operation
<1>3. op.nonces \in Nat
  BY DEF Operation
<1>4. Kept(op, Claimed(op, w))
  BY <1>2, <1>3, States DEF Kept
<1>5. RowDue(Claimed(op, w))
  BY <1>1, <1>2 DEF RowDue
<1> QED BY <1>2, <1>4, <1>5

(* A refused authorization.                                                 *)
LEMMA KeptDenied ==
  ASSUME NEW op \in Operation, op.state \in Unsent, TypeOK, NEW standing
  PROVE  Kept(op, Denied(op, standing)) /\ RowDue(Denied(op, standing))
<1>1. \A s \in {"missed", "rejected"} : Kept(op, Settle(op, s)) /\ RowDue(Settle(op, s))
  BY KeptSettle, States DEF State
<1> QED BY <1>1, KeptRequeued DEF Denied

(* A deferral.                                                              *)
LEMMA KeptDeferred ==
  ASSUME NEW op \in Operation, op.state \in Unsent, TypeOK, NEW delay \in Nat
  PROVE  Kept(op, Deferred(op, delay)) /\ RowDue(Deferred(op, delay))
<1> DEFINE q == Deferred(op, delay)
<1>1. q \in Operation
  BY DeferredType
<1>2. /\ q.schedule = op.schedule /\ q.offset = op.offset /\ q.tied = op.tied
      /\ q.revision = op.revision /\ q.dependencyRevision = op.dependencyRevision
      /\ q.nonces = op.nonces /\ q.state \in {"missed", "rejected", "pending"}
  BY DEF Deferred, Unclaimed, Settle, Operation
<1>3. q.state = "pending" => q.dueAt = op.dueAt /\ q.readyAt = Later(op.dueAt, now + delay)
  BY DEF Deferred, Unclaimed, Settle, Operation
<1>4. now \in Nat /\ op.dueAt \in Int
  BY DEF TypeOK, ConnectionTypeOK, Operation
<1>5. op.dueAt <= Later(op.dueAt, now + delay)
  BY <1>4 DEF Later
<1> HIDE DEF q
<1>6. Kept(op, q)
  BY <1>1, <1>2, KeptOpen
<1>7. RowDue(q)
  BY <1>2, <1>3, <1>5, States DEF RowDue
<1> QED BY <1>6, <1>7 DEF q

(* The cron's verdict.                                                      *)
LEMMA KeptExpired ==
  ASSUME NEW op \in Operation, op.state \in Unsent, RowDue(op), TypeOK
  PROVE  Kept(op, Expired(op)) /\ RowDue(Expired(op))
<1>1. Kept(op, Unclaimed(Settle(op, "cancelled"))) /\ RowDue(Unclaimed(Settle(op, "cancelled")))
  BY KeptSettle, States DEF State
<1>2. ASSUME NEW due \in Int
      PROVE  LET q == [Unclaimed(Settle(op, "missed")) EXCEPT !.dueAt = due]
             IN  Kept(op, q) /\ RowDue(q)
  <2> DEFINE r == Unclaimed(Settle(op, "missed"))
             q == [r EXCEPT !.dueAt = due]
  <2>1. r \in Operation /\ r.state = "missed" /\ Kept(op, r)
    BY RowOps, KeptSettle, UnclaimedSettled, States DEF State
  <2> HIDE DEF r
  <2>2. /\ q \in Operation /\ q.state = "missed" /\ q.schedule = r.schedule
        /\ q.offset = r.offset /\ q.tied = r.tied /\ q.revision = r.revision
        /\ q.dependencyRevision = r.dependencyRevision /\ q.nonces = r.nonces
    BY <2>1 DEF Operation
  <2>3. /\ r.schedule = op.schedule /\ r.offset = op.offset /\ r.tied = op.tied
        /\ r.revision = op.revision /\ r.dependencyRevision = op.dependencyRevision
        /\ r.nonces = op.nonces
    BY DEF r, Unclaimed, Settle, Operation
  <2> HIDE DEF q
  <2>4. Kept(op, q) /\ RowDue(q)
    BY <2>2, <2>3, KeptOpen, States DEF RowDue
  <2> QED BY <2>4 DEF q, r
<1>3. EventTime(op) \in Int /\ op.dueAt \in Int
  BY LaterBound DEF Operation
<1> QED BY <1>1, <1>2, <1>3, KeptRequeued, KeptSame DEF Expired

(* The fan-out, for the event as the page reads it.                         *)
LEMMA KeptSynced ==
  ASSUME NEW op \in Operation, RowDue(op), TypeOK, NEW cancel \in BOOLEAN, NEW e \in Event
  PROVE  Kept(op, Synced(op, cancel, e)) /\ RowDue(Synced(op, cancel, e))
<1> DEFINE time == e.startAt + op.offset
           moved == [Unclaimed(Settle(op, "pending")) EXCEPT
                       !.dueAt = time, !.readyAt = Later(time, op.retryAt)]
<1>1. CASE Synced(op, cancel, e) = op
  BY <1>1, KeptSame
<1>2. CASE op.state \in Unsent
  <2>1. Kept(op, Unclaimed(Settle(op, "cancelled")))
        /\ RowDue(Unclaimed(Settle(op, "cancelled")))
    BY <1>2, KeptSettle, States DEF State
  <2>2. time \in Int /\ Later(time, op.retryAt) \in Int /\ time <= Later(time, op.retryAt)
    BY DEF Event, Operation, Later
  <2> HIDE DEF time
  <2>3. /\ moved.state = "pending" /\ moved.schedule = op.schedule
        /\ moved.offset = op.offset /\ moved.tied = op.tied
        /\ moved.revision = op.revision /\ moved.nonces = op.nonces
        /\ moved.dependencyRevision = op.dependencyRevision
        /\ moved.dueAt = time /\ moved.readyAt = Later(time, op.retryAt)
    BY DEF Unclaimed, Settle, Operation
  <2>4. moved \in Operation
    <3>1. Unclaimed(Settle(op, "pending")) \in Operation
      BY RowOps, States DEF State
    <3> QED BY <2>2, <3>1 DEF Operation
  <2>5. Kept(op, moved) /\ RowDue(moved)
    <3> HIDE DEF moved
    <3> QED BY <1>2, <2>2, <2>3, <2>4, KeptOpen DEF RowDue
  <2> QED BY <1>1, <2>1, <2>5 DEF Synced, time
<1> QED BY <1>1, <1>2 DEF Synced

-----------------------------------------------------------------------------
(* Transaction by transaction.                                              *)

(* Rows that are kept and not early stay planned right, as time goes by.    *)
LEMMA KeptRows ==
  ASSUME TypeOK, TypeOK', RowsPlanned, now' \in {now, now + 1},
         \A o \in Op : Kept(ops[o], ops'[o]) /\ RowDue(ops'[o])
  PROVE  RowsMove /\ RowsPlanned'
<1>1. RowsMove
  BY DEF RowsMove
<1>2. ASSUME NEW o \in Op PROVE RowTied(o, ops'[o]) /\ RowDue(ops[o])'
  <2>1. Kept(ops[o], ops'[o]) /\ RowDue(ops'[o]) /\ RowTied(o, ops[o])
    BY DEF RowsPlanned
  <2>2. RowTied(o, ops'[o])
    BY <2>1 DEF Kept, RowTied
  <2>3. now \in Nat /\ ops'[o].dueAt \in Int
    BY DEF TypeOK, ConnectionTypeOK, Operation
  <2>4. RowDue(ops[o])'
    BY <2>1, <2>3 DEF RowDue
  <2> QED BY <2>2, <2>4
<1> QED BY <1>1, <1>2 DEF RowsPlanned, RowTied

(* A table that does not change.                                            *)
LEMMA KeptTable ==
  ASSUME TypeOK, TypeOK', RowsPlanned, now' \in {now, now + 1}, UNCHANGED ops
  PROVE  RowsMove /\ RowsPlanned'
<1>1. \A o \in Op : Kept(ops[o], ops'[o]) /\ RowDue(ops'[o])
  BY KeptSame DEF TypeOK, RowsPlanned
<1> QED BY <1>1, KeptRows

(* Patching one row.                                                        *)
LEMMA KeptPatch ==
  ASSUME TypeOK, TypeOK', RowsPlanned, now' = now, NEW o \in Op, NEW q,
         ops' = [ops EXCEPT ![o] = q], Kept(ops[o], q), RowDue(q)
  PROVE  RowsMove /\ RowsPlanned'
<1>1. \A p \in Op : ops'[p] = IF p = o THEN q ELSE ops[p]
  BY DEF TypeOK
<1>2. \A p \in Op : Kept(ops[p], ops[p]) /\ RowDue(ops[p])
  BY KeptSame DEF TypeOK, RowsPlanned
<1>3. \A p \in Op : Kept(ops[p], ops'[p]) /\ RowDue(ops'[p])
  BY <1>1, <1>2
<1> QED BY <1>3, KeptRows

(* Planning one row.                                                        *)
LEMMA PlannedPatch ==
  ASSUME TypeOK, RowsPlanned, now' = now, NEW o \in Op, NEW q,
         ops' = [ops EXCEPT ![o] = q], Planned(o, q), RowTied(o, q), q.dueAt \in Int
  PROVE  RowsMove /\ RowsPlanned'
<1>1. \A p \in Op : ops'[p] = IF p = o THEN q ELSE ops[p]
  BY DEF TypeOK
<1>2. \A p \in Op : Kept(ops[p], ops[p]) /\ RowTied(p, ops[p]) /\ RowDue(ops[p])
  BY KeptSame DEF TypeOK, RowsPlanned
<1>3. RowDue(q)
  BY DEF Planned, RowDue
<1>4. \A p \in Op : RowTied(p, ops'[p]) /\ RowDue(ops'[p])
  BY <1>1, <1>2, <1>3
<1>5. RowsPlanned'
  BY <1>4 DEF RowsPlanned, RowTied, RowDue
<1> QED BY <1>1, <1>2, <1>5 DEF RowsMove

(* What scheduling an action leaves in its row.                             *)
LEMMA ScheduledRow ==
  ASSUME NEW o \in Op, NEW op \in Operation, NEW s,
         s.schedule \in {"fixed", "event", "relative"}, s.due \in Int
  PROVE  /\ Scheduled(op, o, s).schedule = s.schedule /\ Scheduled(op, o, s).offset = s.offset
         /\ Scheduled(op, o, s).dueAt = s.due /\ Scheduled(op, o, s).readyAt = s.due
         /\ Scheduled(op, o, s).nonces = op.nonces /\ Scheduled(op, o, s).state = op.state
         /\ Scheduled(op, o, s).dependencyRevision = op.dependencyRevision
         /\ Scheduled(op, o, s).tied <=> (s.schedule # "fixed" \/ CreationOf(o, ops).tied)
  BY DEF Scheduled, Operation

(* enqueue plans a new row.                                                 *)
LEMMA EnqueueRows ==
  ASSUME TypeOK, RowsPlanned, NEW o \in Op, Enqueue(o)
  PROVE  RowsMove /\ RowsPlanned'
<1>1. PICK s : /\ s \in IF o \in Connector
                          THEN {[schedule |-> "fixed", offset |-> 0, due |-> now]}
                          ELSE Schedules(Times)
               /\ ops' = [ops EXCEPT ![o] =
                    [Scheduled(ops[o], o, s) EXCEPT
                       !.state = "pending", !.revision = 1, !.epoch = integration.epoch,
                       !.dependencyRevision = CreationOf(o, ops).revision]]
  BY DEF Enqueue
<1> DEFINE r == Scheduled(ops[o], o, s)
           q == [r EXCEPT !.state = "pending", !.revision = 1, !.epoch = integration.epoch,
                          !.dependencyRevision = CreationOf(o, ops).revision]
<1>2. ops[o] \in Operation /\ ops[o].state = "absent" /\ now' = now /\ now \in Nat
  BY DEF Enqueue, TypeOK, ConnectionTypeOK, connectionVars
<1>3. /\ s.schedule \in {"fixed", "event", "relative"} /\ s.due \in Int /\ s.offset \in Int
      /\ o \in Connector => s.schedule = "fixed"
  <2>1. CASE o \in Connector
    <3>1. s = [schedule |-> "fixed", offset |-> 0, due |-> now]
      BY <1>1, <2>1
    <3> QED BY <1>2, <3>1
  <2>2. CASE o \notin Connector
    BY <1>1, <2>2, ScheduleFields
  <2> QED BY <2>1, <2>2
<1>4. /\ r.schedule = s.schedule /\ r.dueAt = s.due /\ r.readyAt = s.due
      /\ r.nonces = ops[o].nonces
      /\ r.tied <=> (s.schedule # "fixed" \/ CreationOf(o, ops).tied)
  BY <1>2, <1>3, ScheduledRow
<1>5. r \in Operation
  <2>1. \A op \in Operation : Scheduled(op, o, s) \in Operation
    BY <1>3, ScheduledType
  <2> QED BY <1>2, <2>1
<1>6. o \in Connector => ~r.tied
  <2>1. o \in Connector => CreationOf(o, ops) = Absent
    BY OperationsAssumption DEF CreationOf
  <2> QED BY <1>3, <1>4, <2>1 DEF Absent
<1>7. ops' = [ops EXCEPT ![o] = q]
  BY <1>1
<1> HIDE DEF r
<1>8. /\ q.state = "pending" /\ q.schedule = r.schedule /\ q.tied = r.tied
      /\ q.dueAt = r.dueAt /\ q.readyAt = r.readyAt /\ q.nonces = r.nonces
      /\ q.revision = 1 /\ q.dependencyRevision = CreationOf(o, ops).revision
  BY <1>5 DEF Operation
<1> HIDE DEF q
<1>9. Planned(o, q) /\ RowTied(o, q) /\ q.dueAt \in Int
  BY <1>2, <1>3, <1>4, <1>6, <1>8 DEF Planned, RowTied
<1> QED BY <1>2, <1>7, <1>9, PlannedPatch

(* edit plans a pending row again.                                          *)
LEMMA EditRows ==
  ASSUME TypeOK, RowsPlanned, NEW o \in Op, Edit(o)
  PROVE  RowsMove /\ RowsPlanned'
<1>1. PICK s \in Schedules(Times) : ops' = [ops EXCEPT ![o] = Edited(ops[o], o, s)]
  BY DEF Edit, Patch
<1> DEFINE r == Scheduled(ops[o], o, s)
           q == Edited(ops[o], o, s)
<1>2. ops[o] \in Operation /\ ops[o].state = "pending" /\ now' = now /\ o \notin Connector
  BY DEF Edit, TypeOK, connectionVars
<1>3. s.schedule \in {"fixed", "event", "relative"} /\ s.due \in Int /\ s.offset \in Int
  BY ScheduleFields
<1>4. /\ r.schedule = s.schedule /\ r.dueAt = s.due /\ r.readyAt = s.due
      /\ r.nonces = ops[o].nonces /\ r.state = "pending"
      /\ r.dependencyRevision = ops[o].dependencyRevision
      /\ r.tied <=> (s.schedule # "fixed" \/ CreationOf(o, ops).tied)
  BY <1>2, <1>3, ScheduledRow
<1>5. r \in Operation
  <2>1. \A op \in Operation : Scheduled(op, o, s) \in Operation
    BY <1>3, ScheduledType
  <2> QED BY <1>2, <2>1
<1>6. q = [r EXCEPT !.retryAt = 0, !.attempts = 0, !.revision = ops[o].revision + 1]
  BY DEF Edited
<1> HIDE DEF r, q
<1>7. /\ q.state = "pending" /\ q.schedule = r.schedule /\ q.tied = r.tied
      /\ q.dueAt = r.dueAt /\ q.readyAt = r.readyAt /\ q.nonces = r.nonces
      /\ q.dependencyRevision = r.dependencyRevision
      /\ q.revision = ops[o].revision + 1
  BY <1>4, <1>5, <1>6 DEF Operation
<1>8. Planned(o, q) /\ RowTied(o, q) /\ q.dueAt \in Int
  BY <1>2, <1>3, <1>4, <1>7 DEF Planned, RowTied
<1> QED BY <1>1, <1>2, <1>8, PlannedPatch DEF q

(* cancel.                                                                  *)
LEMMA CancelRows ==
  ASSUME TypeOK, TypeOK', RowsPlanned, NEW o \in Op, Cancel(o)
  PROVE  RowsMove /\ RowsPlanned'
<1>1. /\ ops' = [ops EXCEPT ![o] = Settle(ops[o], "cancelled")] /\ now' = now
      /\ ops[o].state \in Unsent /\ ops[o] \in Operation
  BY DEF Cancel, Patch, TypeOK, connectionVars
<1>2. Kept(ops[o], Settle(ops[o], "cancelled")) /\ RowDue(Settle(ops[o], "cancelled"))
  BY <1>1, KeptSettle, States DEF State
<1> QED BY <1>1, <1>2, KeptPatch

(* A worker that keeps its task as it was told, or ends it, and one that is *)
(* told what the row says.                                                  *)
Steady(v) ==
  \/ worker'[v] = worker[v]
  \/ worker'[v].pc = "idle"
  \/ /\ worker[v].pc # "idle" /\ worker'[v].pc = "refused"
     /\ worker'[v].op = worker[v].op /\ worker'[v].nonce = worker[v].nonce
Told(v) ==
  LET op == ops'[worker'[v].op]
  IN /\ worker'[v].nonce <= op.nonces
     /\ worker'[v].revision = op.revision
     /\ worker'[v].executeBefore = op.dueAt + LateGrace

WorkersMove == \A v \in Worker : Steady(v) \/ Told(v)

(* claim: sweep, loop and hand-out together.                                *)
LEMMA ClaimRows ==
  ASSUME TypeOK, TypeOK', RowsPlanned, NEW w \in Worker, Claim(w)
  PROVE  RowsMove /\ RowsPlanned' /\ WorkersMove
<1> DEFINE swept == [o \in Op |-> Swept(ops[o])]
           queue == {o \in Op : swept[o].state = "pending" /\ swept[o].readyAt <= now}
           before(p, o) == \/ swept[p].readyAt < swept[o].readyAt
                           \/ swept[p].readyAt = swept[o].readyAt /\ p < o
           disposed(o) == Disposed(swept[o], Standing(o, swept[o], Absent))
           seen(o) == LET c == Creation[o]
                      IN IF c \in queue /\ before(c, o) THEN disposed(c)
                                                       ELSE CreationOf(o, swept)
           standing(o) == Standing(o, swept[o], seen(o))
           ready == {o \in queue : standing(o) = "ready"}
           looped(visited) == [o \in Op |-> IF o \in visited
                                              THEN Disposed(swept[o], standing(o))
                                              ELSE swept[o]]
<1>1. /\ \A o \in Op : ops[o] \in Operation /\ ops'[o] \in Operation /\ RowDue(ops[o])
      /\ now' = now /\ worker \in [Worker -> Process]
  BY DEF Claim, RowsPlanned, TypeOK, connectionVars
<1>2. \A o \in Op : /\ swept[o] = Swept(ops[o]) /\ swept[o] \in Operation
                    /\ Kept(ops[o], swept[o]) /\ RowDue(swept[o])
  BY <1>1, SweptType, KeptSwept
<1>3. \A o \in queue : o \in Op /\ swept[o].state = "pending" /\ swept[o].readyAt <= now
  OBVIOUS
<1>4. ASSUME NEW o \in queue, NEW s
      PROVE  /\ Disposed(swept[o], s) \in Operation
             /\ Kept(ops[o], Disposed(swept[o], s)) /\ RowDue(Disposed(swept[o], s))
  <2> HIDE DEF swept, queue
  <2>1. Disposed(swept[o], s) \in Operation
    BY <1>2, <1>3, DisposedType
  <2>2. Kept(swept[o], Disposed(swept[o], s)) /\ RowDue(Disposed(swept[o], s))
    BY <1>2, <1>3, KeptDisposed
  <2> QED BY <1>1, <1>2, <1>3, <2>1, <2>2, KeptThen
<1>5. ASSUME NEW visited \in SUBSET queue, NEW o \in Op
      PROVE  Kept(ops[o], looped(visited)[o]) /\ RowDue(looped(visited)[o])
  <2>1. looped(visited)[o] = IF o \in visited THEN Disposed(swept[o], standing(o))
                                              ELSE swept[o]
    OBVIOUS
  <2> HIDE DEF looped, swept, standing, queue
  <2>2. CASE o \in visited
    <3>1. o \in queue
      BY <2>2
    <3> QED BY <1>4, <2>1, <2>2, <3>1
  <2>3. CASE o \notin visited
    BY <1>2, <2>1, <2>3
  <2> QED BY <2>2, <2>3
<1>6. CASE Patch(looped(queue)) /\ UNCHANGED worker
  <2>1. ops' = looped(queue)
    BY <1>6 DEF Patch
  <2> HIDE DEF looped, queue, swept
  <2>2. \A o \in Op : Kept(ops[o], ops'[o]) /\ RowDue(ops'[o])
    BY <1>5, <2>1
  <2>3. WorkersMove
    BY <1>6 DEF WorkersMove, Steady
  <2> QED BY <1>1, <2>2, <2>3, KeptRows
<1>7. ASSUME NEW o \in ready,
             Patch([looped({p \in queue : before(p, o)}) EXCEPT ![o] = Claimed(@, w)]),
             worker' = [worker EXCEPT ![w] =
                [pc |-> "preflight", op |-> o, nonce |-> swept[o].nonces + 1,
                 revision |-> swept[o].revision,
                 executeBefore |-> swept[o].dueAt + LateGrace]]
      PROVE  RowsMove /\ RowsPlanned' /\ WorkersMove
  <2> DEFINE visited == {p \in queue : before(p, o)}
             rows == looped(visited)
  <2>1. o \in queue /\ o \in Op /\ swept[o].state = "pending" /\ swept[o].readyAt <= now
    BY <1>3
  <2>2. ops' = [rows EXCEPT ![o] = Claimed(rows[o], w)]
    BY <1>7 DEF Patch
  <2>3. visited \in SUBSET queue
    OBVIOUS
  <2>4. DOMAIN rows = Op
    OBVIOUS
  <2>5. \A p \in Op : Kept(ops[p], rows[p]) /\ RowDue(rows[p])
    <3> HIDE DEF visited, looped, queue, swept
    <3> QED BY <1>5, <2>3
  <2>6. rows[o] = swept[o]
    <3>1. swept[o].readyAt \in Int /\ o \in Int
      <4>1. swept[o] \in Operation
        BY <1>2, <2>1
      <4> HIDE DEF swept
      <4> QED BY <2>1, <4>1, OperationsAssumption DEF Operation
    <3>2. ~before(o, o)
      <4> HIDE DEF swept
      <4> QED BY <3>1
    <3>3. o \notin visited
      <4> HIDE DEF before
      <4> QED BY <3>2
    <3> HIDE DEF visited, swept, standing
    <3> QED BY <2>1, <3>3
  <2>7. /\ Kept(ops[o], Claimed(swept[o], w)) /\ RowDue(Claimed(swept[o], w))
        /\ Claimed(swept[o], w).nonces = swept[o].nonces + 1
        /\ Claimed(swept[o], w).dueAt = swept[o].dueAt
        /\ Claimed(swept[o], w).revision = swept[o].revision
    <3> HIDE DEF swept, queue
    <3>1. /\ Kept(swept[o], Claimed(swept[o], w)) /\ RowDue(Claimed(swept[o], w))
          /\ Claimed(swept[o], w).nonces = swept[o].nonces + 1
          /\ Claimed(swept[o], w).dueAt = swept[o].dueAt
          /\ Claimed(swept[o], w).revision = swept[o].revision
      BY <1>2, <2>1, KeptClaimed
    <3>2. Claimed(swept[o], w) \in Operation
      BY <1>2, <2>1, ClaimedType
    <3> QED BY <1>1, <1>2, <2>1, <3>1, <3>2, KeptThen
  <2>8. \A p \in Op : ops'[p] = IF p = o THEN Claimed(swept[o], w) ELSE rows[p]
    <3> HIDE DEF rows, swept
    <3> QED BY <2>2, <2>4, <2>6
  <2>9. RowsMove /\ RowsPlanned'
    <3> HIDE DEF rows, swept
    <3>1. \A p \in Op : Kept(ops[p], ops'[p]) /\ RowDue(ops'[p])
      BY <2>5, <2>7, <2>8
    <3> QED BY <1>1, <3>1, KeptRows
  <2>10. WorkersMove
    <3> HIDE DEF swept, queue, rows
    <3>1. \A v \in Worker : v # w => worker'[v] = worker[v]
      BY <1>1, <1>7
    <3>2. /\ worker'[w].op = o /\ worker'[w].nonce = swept[o].nonces + 1
          /\ worker'[w].revision = swept[o].revision
          /\ worker'[w].executeBefore = swept[o].dueAt + LateGrace
      BY <1>1, <1>7
    <3>3. swept[o].nonces + 1 \in Nat
      BY <1>2, <2>1 DEF Operation
    <3>4. Told(w)
      BY <2>1, <2>7, <2>8, <3>2, <3>3 DEF Told
    <3> QED BY <3>1, <3>4 DEF WorkersMove, Steady
  <2> QED BY <2>9, <2>10
<1> QED BY <1>6, <1>7 DEF Claim

(* A worker that is refused or gives up, beside workers that do nothing.    *)
LEMMA SteadyProceed ==
  ASSUME TypeOK, NEW w \in Worker,
         \/ worker[w].pc # "idle" /\ Proceed(w, "refused")
         \/ Abandon(w)
  PROVE  WorkersMove
<1>1. \A v \in Worker : v # w => worker'[v] = worker[v]
  BY DEF Proceed, Abandon, TypeOK
<1>2. Steady(w)
  BY DEF Proceed, Abandon, Idle, Steady, TypeOK, Process
<1> QED BY <1>1, <1>2 DEF WorkersMove, Steady

(* authorizeSubmission: whatever it decides, it decides on a held claim, so *)
(* that the row a worker is let loose on is the row it was told of.         *)
LEMMA AuthorizeRows ==
  ASSUME TypeInv, TypeOK', RowsPlanned, Reviewed, NEW w \in Worker, AuthorizeSubmission(w)
  PROVE  RowsMove /\ RowsPlanned' /\ WorkersMove
<1> DEFINE o == worker[w].op
           standing == Standing(o, ops[o], CreationOf(o, ops))
           submitted == [ops[o] EXCEPT !.state = "submitted", !.submitted = TRUE,
                                       !.claim.expiresAt = now + SubmitTime]
<1>1. /\ TypeOK /\ worker[w].pc = "preflight" /\ now' = now /\ o \in Op
      /\ ops[o] \in Operation /\ RowDue(ops[o])
  BY DEF TypeInv, Busy, TypeOK, AuthorizeSubmission, RowsPlanned, connectionVars
<1>2. Held(w) => ops[o].state = "claimed" /\ ops[o].claim.nonce = worker[w].nonce
  BY DEF Held
<1>3. CASE Proceed(w, "refused") /\ UNCHANGED ops
  BY <1>1, <1>3, KeptTable, SteadyProceed
<1>4. ASSUME Proceed(w, "refused"), NEW q, ops' = [ops EXCEPT ![o] = q],
             Kept(ops[o], q), RowDue(q)
      PROVE  RowsMove /\ RowsPlanned' /\ WorkersMove
  BY <1>1, <1>4, KeptPatch, SteadyProceed
<1>5. CASE /\ Held(w) /\ Proceed(w, "refused")
           /\ ops' = [ops EXCEPT ![o] = Denied(ops[o], standing)]
  <2> HIDE DEF standing, o
  <2> QED BY <1>1, <1>2, <1>4, <1>5, KeptDenied, States
<1>6. CASE /\ Held(w) /\ Proceed(w, "refused")
           /\ ops' = [ops EXCEPT ![o] = Settle(ops[o], "rejected")]
  <2> HIDE DEF o
  <2> QED BY <1>1, <1>2, <1>4, <1>6, KeptSettle, States DEF State
<1>7. CASE /\ Held(w) /\ ops' = [ops EXCEPT ![o] = submitted]
           /\ Proceed(w, "authorized") \/ Abandon(w)
  <2>1. /\ submitted.state = "submitted" /\ submitted.schedule = ops[o].schedule
        /\ submitted.offset = ops[o].offset /\ submitted.tied = ops[o].tied
        /\ submitted.revision = ops[o].revision /\ submitted.nonces = ops[o].nonces
        /\ submitted.dependencyRevision = ops[o].dependencyRevision
        /\ submitted.dueAt = ops[o].dueAt
    BY <1>1 DEF Operation
  <2>2. Kept(ops[o], submitted) /\ RowDue(submitted)
    <3> HIDE DEF submitted, o
    <3> QED BY <1>1, <1>2, <1>7, <2>1, States DEF Kept, RowDue, Operation
  <2>3. RowsMove /\ RowsPlanned'
    <3> HIDE DEF submitted, o
    <3> QED BY <1>1, <1>7, <2>2, KeptPatch
  <2>4. ReviewedWorker(w, ops[o])
    BY <1>1 DEF Reviewed
  <2>5. worker[w].nonce <= ops[o].nonces /\ Matches(w, ops[o])
    BY <1>1, <1>2, <1>7, <2>4 DEF ReviewedWorker
  <2>6. Proceed(w, "authorized") => Told(w)
    <3>1. ASSUME Proceed(w, "authorized")
          PROVE  /\ worker'[w].op = o /\ worker'[w].nonce = worker[w].nonce
                 /\ worker'[w].revision = worker[w].revision
                 /\ worker'[w].executeBefore = worker[w].executeBefore
      BY <1>1, <3>1 DEF Proceed, TypeOK, Process
    <3>2. ops'[o] = submitted
      <4> HIDE DEF submitted, o
      <4> QED BY <1>1, <1>7 DEF TypeOK
    <3> HIDE DEF submitted, o
    <3> QED BY <2>1, <2>5, <3>1, <3>2 DEF Told, Matches
  <2>7. \A v \in Worker : v # w => worker'[v] = worker[v]
    BY <1>1, <1>7 DEF Proceed, Abandon, TypeOK
  <2>8. Abandon(w) => worker'[w].pc = "idle"
    BY <1>1 DEF Abandon, Idle, TypeOK
  <2>9. WorkersMove
    BY <1>7, <2>6, <2>7, <2>8 DEF WorkersMove, Steady
  <2> QED BY <2>3, <2>9
<1> QED BY <1>3, <1>5, <1>6, <1>7 DEF AuthorizeSubmission, Patch

(* deferClaim and rejectClaim.                                              *)
LEMMA ClaimEndRows ==
  ASSUME TypeInv, TypeOK', RowsPlanned, NEW w \in Worker, DeferClaim(w) \/ RejectClaim(w)
  PROVE  RowsMove /\ RowsPlanned' /\ WorkersMove
<1> DEFINE o == worker[w].op
<1>1. TypeOK /\ o \in Op /\ ops[o] \in Operation /\ now' = now
  BY DEF TypeInv, Busy, TypeOK, DeferClaim, RejectClaim, connectionVars
<1>2. WorkersMove
  BY <1>1, SteadyProceed DEF DeferClaim, RejectClaim
<1>3. Held(w) => ops[o].state \in Unsent
  BY States DEF Held
<1>4. CASE UNCHANGED ops
  BY <1>1, <1>2, <1>4, KeptTable
<1>5. CASE DeferClaim(w) /\ Held(w)
  <2>1. PICK delay \in 1..MaxDelay : ops' = [ops EXCEPT ![o] = Deferred(ops[o], delay)]
    BY <1>5 DEF DeferClaim, Patch
  <2>2. delay \in Nat
    BY OperationsAssumption
  <2>3. Kept(ops[o], Deferred(ops[o], delay)) /\ RowDue(Deferred(ops[o], delay))
    BY <1>1, <1>3, <1>5, <2>2, KeptDeferred
  <2> QED BY <1>1, <1>2, <2>1, <2>3, KeptPatch
<1>6. CASE RejectClaim(w) /\ Held(w)
  <2>1. ops' = [ops EXCEPT ![o] = Settle(ops[o], "rejected")]
    BY <1>6 DEF RejectClaim, Patch
  <2>2. Kept(ops[o], Settle(ops[o], "rejected")) /\ RowDue(Settle(ops[o], "rejected"))
    BY <1>1, <1>3, <1>6, KeptSettle, States DEF State
  <2> QED BY <1>1, <1>2, <2>1, <2>2, KeptPatch
<1> QED BY <1>4, <1>5, <1>6 DEF DeferClaim, RejectClaim

(* complete, expireSubmission and the cron.                                 *)
LEMMA ServerRows ==
  ASSUME TypeOK, TypeOK', RowsPlanned,
         \/ \E r \in reports : Complete(r)
         \/ \E e \in expiries : ExpireSubmission(e)
         \/ \E o \in Op : ExpireUnsent(o)
  PROVE  RowsMove /\ RowsPlanned'
<1>1. ASSUME NEW o \in Op, ops[o].state = "submitted", NEW s \in Settled, now' = now,
             ops' = [ops EXCEPT ![o] = Settle(ops[o], s)]
      PROVE  RowsMove /\ RowsPlanned'
  <2>1. ops[o] \in Operation
    BY DEF TypeOK
  <2>2. Kept(ops[o], Settle(ops[o], s)) /\ RowDue(Settle(ops[o], s))
    BY <1>1, <2>1, States DEF Kept, RowDue, Settle, Operation
  <2> QED BY <1>1, <2>2, KeptPatch
<1>2. ASSUME NEW r \in reports, Complete(r) PROVE RowsMove /\ RowsPlanned'
  <2>1. r.op \in Op /\ r.status \in Settled
    BY States DEF TypeOK, Report
  <2> QED BY <1>1, <1>2, <2>1 DEF Complete, Patch, connectionVars
<1>3. ASSUME NEW e \in expiries, ExpireSubmission(e) PROVE RowsMove /\ RowsPlanned'
  <2>1. e.op \in Op /\ now' = now
    BY <1>3 DEF TypeOK, ExpireSubmission, connectionVars
  <2>2. CASE UNCHANGED ops
    BY <2>1, <2>2, KeptTable
  <2>3. CASE /\ ops[e.op].state = "submitted"
             /\ ops' = [ops EXCEPT ![e.op] = Settle(ops[e.op], "indeterminate")]
    BY <1>1, <2>1, <2>3, States
  <2> QED BY <1>3, <2>2, <2>3 DEF ExpireSubmission, Patch
<1>4. ASSUME NEW o \in Op, ExpireUnsent(o) PROVE RowsMove /\ RowsPlanned'
  <2>1. /\ ops' = [ops EXCEPT ![o] = Expired(ops[o])] /\ now' = now
        /\ ops[o] \in Operation /\ ops[o].state \in Unsent /\ RowDue(ops[o])
    BY <1>4 DEF ExpireUnsent, Patch, TypeOK, RowsPlanned, connectionVars
  <2>2. Kept(ops[o], Expired(ops[o])) /\ RowDue(Expired(ops[o]))
    BY <2>1, KeptExpired
  <2> QED BY <2>1, <2>2, KeptPatch
<1> QED BY <1>2, <1>3, <1>4

(* A page of the fan-out, for the event as it is or as it becomes.          *)
LEMMA SyncRows ==
  ASSUME TypeOK, TypeOK', RowsPlanned, now' = now, NEW cancel \in BOOLEAN, NEW e \in Event,
         NEW cursor, SyncPage(cancel, e, cursor)
  PROVE  RowsMove /\ RowsPlanned'
<1>1. \A o \in Op : /\ Kept(ops[o], Synced(ops[o], cancel, e))
                    /\ RowDue(Synced(ops[o], cancel, e))
                    /\ Kept(ops[o], ops[o]) /\ RowDue(ops[o])
  BY KeptSynced, KeptSame DEF TypeOK, RowsPlanned
<1>2. \A o \in Op : ops'[o] \in {Synced(ops[o], cancel, e), ops[o]}
  BY DEF SyncPage
<1>3. \A o \in Op : Kept(ops[o], ops'[o]) /\ RowDue(ops'[o])
  BY <1>1, <1>2
<1> QED BY <1>3, KeptRows

(* A page of unsent rows that are rejected with their connection.           *)
LEMMA RejectedRows ==
  ASSUME TypeOK, TypeOK', RowsPlanned, now' = now, NEW page, NEW epoch,
         RejectRows(page, epoch), \A o \in page : ops[o].state \in Unsent
  PROVE  RowsMove /\ RowsPlanned'
<1> DEFINE rejected(o) == Unclaimed(Settle(ops[o], "rejected"))
<1>1. \A o \in Op : ops'[o] = IF o \in page /\ ops[o].epoch <= epoch /\ ~ops[o].submitted
                                THEN rejected(o) ELSE ops[o]
  BY DEF RejectRows, Patch
<1>2. \A o \in Op : ops[o].state \in Unsent => Kept(ops[o], rejected(o)) /\ RowDue(rejected(o))
  BY KeptSettle, States DEF TypeOK, State
<1>3. \A o \in Op : Kept(ops[o], ops[o]) /\ RowDue(ops[o])
  BY KeptSame DEF TypeOK, RowsPlanned
<1> HIDE DEF rejected
<1>4. \A o \in Op : Kept(ops[o], ops'[o]) /\ RowDue(ops'[o])
  BY <1>1, <1>2, <1>3
<1> QED BY <1>4, KeptRows

(* The rejections read the two unsent states only.                          *)
LEMMA RejectRowsMove ==
  ASSUME TypeOK, TypeOK', RowsPlanned, now' = now,
         \/ RejectUnsent(integration.epoch)
         \/ \E c \in rejections : RejectConnectionOperationsPage(c)
  PROVE  RowsMove /\ RowsPlanned'
<1>1. \A state, cursor : \A o \in QueuePage(QueueRows(state, cursor)) : ops[o].state = state
  BY DEF QueuePage, QueueRows
<1>2. CASE RejectUnsent(integration.epoch)
  <2> DEFINE page == UNION {QueuePage(QueueRows(state, NoCursor)) : state \in Unsent}
  <2>1. \A o \in page : ops[o].state \in Unsent
    BY <1>1
  <2>2. RejectRows(page, integration.epoch)
    BY <1>2 DEF RejectUnsent
  <2> HIDE DEF page
  <2> QED BY <2>1, <2>2, RejectedRows
<1>3. CASE \E c \in rejections : RejectConnectionOperationsPage(c)
  <2>1. PICK c \in rejections : RejectConnectionOperationsPage(c)
    BY <1>3
  <2>2. c.state \in Unsent
    BY DEF TypeOK
  <2>3. RejectRows(QueuePage(QueueRows(c.state, c.cursor)), c.epoch)
    BY <2>1 DEF RejectConnectionOperationsPage
  <2>4. \A o \in QueuePage(QueueRows(c.state, c.cursor)) : ops[o].state \in Unsent
    BY <1>1, <2>2
  <2> QED BY <2>3, <2>4, RejectedRows
<1> QED BY <1>2, <1>3

-----------------------------------------------------------------------------
(* What follows from the way rows and workers move.                         *)

(* Settled rows stay as they are.                                           *)
LEMMA SettledStays ==
  ASSUME RowsMove, NEW o \in Op, ops[o].state \in Settled
  PROVE  ops'[o] = ops[o]
  BY States DEF RowsMove, Kept, Planned

(* A worker stays told of what its row says.                                *)
LEMMA ReviewStep ==
  ASSUME Inv, TypeOK', Busy', Reviewed, RowsMove, WorkersMove
  PROVE  Reviewed'
<1>1. ASSUME NEW v \in Worker, worker'[v].pc # "idle"
      PROVE  ReviewedWorker(v, ops[worker[v].op])'
  <2>0. PICK o \in Op : o = worker'[v].op
    BY <1>1 DEF Busy
  <2>1. /\ worker'[v] \in Process /\ worker[v] \in Process
        /\ ops[o] \in Operation /\ ops'[o] \in Operation
    BY DEF TypeOK, Inv, TypeInv
  <2> SUFFICES ReviewedWorker(v, ops[o])'
    BY <2>0 DEF ReviewedWorker, Matches
  <2>2. CASE Told(v)
    BY <2>0, <2>2 DEF Told, ReviewedWorker, Matches
  <2>3. CASE Steady(v)
    <3>1. worker[v].pc # "idle" /\ worker[v].op = o /\ worker'[v].nonce = worker[v].nonce
      BY <1>1, <2>0, <2>3 DEF Steady
    <3>2. ReviewedWorker(v, ops[o])
      BY <3>1 DEF Reviewed
    <3>3. Kept(ops[o], ops'[o]) \/ Planned(o, ops'[o])
      BY <2>1 DEF RowsMove
    <3>4. /\ worker[v].nonce \in Nat /\ ops[o].nonces \in Nat /\ ops'[o].nonces \in Nat
          /\ ops'[o].claim.nonce \in Nat
      BY <2>1 DEF Process, Operation, Claims
    <3>5. worker[v].nonce <= ops[o].nonces
      BY <3>2 DEF ReviewedWorker
    <3>6. worker'[v].nonce <= ops'[o].nonces
      BY <3>1, <3>3, <3>4, <3>5 DEF Kept, Planned
    <3>7. ASSUME worker'[v].pc = "authorized"
          PROVE  Matches(v, ops[o])'
      <4>1. worker'[v] = worker[v]
        BY <2>3, <3>7 DEF Steady
      <4>2. Authorized(v, o)
        BY <3>1, <3>7, <4>1 DEF Authorized
      <4>3. ops[o].state \in {"submitted", "indeterminate"}
        BY <2>1, <4>2 DEF Inv, SendInv, AuthorizedOnce
      <4>4. ops'[o].revision = ops[o].revision /\ ops'[o].dueAt = ops[o].dueAt
        BY <3>3, <4>3, States DEF Kept, Planned
      <4>5. Matches(v, ops[o])
        BY <3>2, <3>7, <4>1 DEF ReviewedWorker
      <4> QED BY <4>1, <4>4, <4>5 DEF Matches
    <3>8. ASSUME worker'[v].pc = "preflight", ops'[o].state = "claimed",
                 ops'[o].claim.nonce = worker'[v].nonce
          PROVE  Matches(v, ops[o])'
      <4>1. worker'[v] = worker[v]
        BY <2>3, <3>8 DEF Steady
      <4>2. ops'[o] = ops[o]
        BY <3>1, <3>3, <3>4, <3>5, <3>8 DEF Kept, Planned
      <4>3. Matches(v, ops[o])
        BY <3>2, <3>8, <4>1, <4>2 DEF ReviewedWorker
      <4> QED BY <4>1, <4>2, <4>3 DEF Matches
    <3> QED BY <3>6, <3>7, <3>8 DEF ReviewedWorker
  <2> QED BY <2>2, <2>3 DEF WorkersMove
<1> QED BY <1>1 DEF Reviewed

(* Every change of a row goes through the hook that files what it settles,  *)
(* or settles nothing that would have to be filed.                          *)
Filed ==
  \/ Patch(ops')
  \/ /\ UNCHANGED <<notices, woken>>
     /\ \A o \in Op : \/ ops'[o] = ops[o]
                      \/ /\ ops'[o].state \notin Failure
                         /\ o \in Connector => ops'[o].state \notin Settled

(* Failures are filed once, as they happen, and settled connectors woken.   *)
LEMMA FiledStep ==
  ASSUME TypeOK, OutcomeReported, RowsMove, Filed
  PROVE  OutcomeReported'
<1>1. ASSUME NEW o \in Connector
      PROVE  (o \in woken <=> ops[o].state \in Settled)'
  <2>1. o \in Op
    BY OperationsAssumption
  <2>2. o \in woken <=> ops[o].state \in Settled
    BY <2>1 DEF OutcomeReported
  <2>3. CASE ops'[o] = ops[o]
    <3>1. o \in woken' <=> o \in woken
      BY <2>3 DEF Filed, Patch
    <3> QED BY <2>2, <2>3, <3>1
  <2>4. CASE ops'[o] # ops[o]
    <3>1. ops[o].state \notin Settled
      BY <2>1, <2>4, SettledStays
    <3>2. CASE Patch(ops')
      <4>1. woken' = woken \cup {p \in {q \in Op : ops'[q] # ops[q]} \cap Connector :
                                   ops'[p].state \in Settled}
        BY <3>2 DEF Patch
      <4> QED BY <2>1, <2>2, <2>4, <3>1, <4>1
    <3>3. CASE UNCHANGED woken /\ ops'[o].state \notin Settled
      BY <2>2, <3>1, <3>3
    <3> QED BY <2>1, <2>4, <3>2, <3>3 DEF Filed
  <2> QED BY <2>3, <2>4
<1>2. ASSUME NEW o \in Op \ Connector
      PROVE  ({n \in notices : n[1] = o} =
                IF ops[o].state \in Failure
                  THEN {<<o, ops[o].revision, ops[o].state>>} ELSE {})'
  <2> DEFINE mine == {n \in notices : n[1] = o}
             notice == <<o, ops'[o].revision, ops'[o].state>>
  <2>1. mine = IF ops[o].state \in Failure
                 THEN {<<o, ops[o].revision, ops[o].state>>} ELSE {}
    BY DEF OutcomeReported
  <2>2. CASE ops'[o] = ops[o]
    <3>1. {n \in notices' : n[1] = o} = mine
      <4>1. CASE UNCHANGED notices
        BY <4>1
      <4>2. CASE Patch(ops')
        <5>1. notices' = notices \cup
                {<<p, ops'[p].revision, ops'[p].state>> :
                   p \in {q \in {r \in Op : ops'[r] # ops[r]} \ Connector :
                            ops'[q].state \in Failure}}
          BY <4>2 DEF Patch
        <5>2. \A n \in notices' \ notices : n[1] # o
          BY <2>2, <5>1
        <5>3. notices \subseteq notices'
          BY <5>1
        <5> QED BY <5>2, <5>3
      <4> QED BY <4>1, <4>2 DEF Filed
    <3> QED BY <2>1, <2>2, <3>1
  <2>3. CASE ops'[o] # ops[o]
    <3>1. mine = {}
      BY <2>1, <2>3, SettledStays, States
    <3>2. CASE Patch(ops')
      <4>1. notices' = notices \cup
              {<<p, ops'[p].revision, ops'[p].state>> :
                 p \in {q \in {r \in Op : ops'[r] # ops[r]} \ Connector :
                          ops'[q].state \in Failure}}
        BY <3>2 DEF Patch
      <4>2. \A n \in notices' \ notices : n[1] = o => n = notice
        BY <4>1
      <4>3. ops'[o].state \in Failure => notice \in notices'
        BY <2>3, <4>1
      <4>4. ops'[o].state \notin Failure => \A n \in notices' \ notices : n[1] # o
        BY <4>1
      <4>5. notice[1] = o
        OBVIOUS
      <4> HIDE DEF notice
      <4>6. {n \in notices' : n[1] = o} = IF ops'[o].state \in Failure THEN {notice} ELSE {}
        BY <3>1, <4>2, <4>3, <4>4, <4>5
      <4> QED BY <4>6 DEF notice
    <3>3. CASE UNCHANGED notices /\ ops'[o].state \notin Failure
      BY <3>1, <3>3
    <3> QED BY <2>3, <3>2, <3>3 DEF Filed
  <2> QED BY <2>2, <2>3
<1> QED BY <1>1, <1>2 DEF OutcomeReported

(* An invitation that was committed to keeps its creation.                  *)
LEMMA InvitedRow ==
  ASSUME Inv, Invited, RowsMove, NEW o \in Op, Creation[o] # NoOp, ops[o].submitted
  PROVE  /\ ops'[Creation[o]].state = "succeeded"
         /\ ops'[Creation[o]].revision = ops'[o].dependencyRevision
<1>1. Creation[o] \in Op
  BY OperationsAssumption
<1>2. ops[Creation[o]].state = "succeeded"
      /\ ops[Creation[o]].revision = ops[o].dependencyRevision
  BY DEF Invited
<1>3. ops'[Creation[o]] = ops[Creation[o]]
  BY <1>1, <1>2, SettledStays, States
<1>4. ops[o].state \in Sent \cup {"rejected"}
  BY DEF Inv, SendInv, StateMatches, RowMatches
<1>5. ops'[o].dependencyRevision = ops[o].dependencyRevision
  BY <1>4 DEF RowsMove, Kept, Planned, Sent
<1> QED BY <1>2, <1>3, <1>5

-----------------------------------------------------------------------------
(* Every step.                                                              *)

(* Every step moves rows and workers so, and files what it settles.         *)
LEMMA MoveStep ==
  ASSUME Inv, TypeOK', RowsPlanned, Reviewed, Next
  PROVE  RowsMove /\ RowsPlanned' /\ WorkersMove /\ Filed
<1>1. TypeInv /\ TypeOK
  BY DEF Inv, TypeInv
<1>2. now \in Nat
  BY <1>1 DEF TypeOK, ConnectionTypeOK
<1>3. ASSUME UNCHANGED <<ops, worker, notices, woken>>, now' \in {now, now + 1}
      PROVE  RowsMove /\ RowsPlanned' /\ WorkersMove /\ Filed
  BY <1>1, <1>3, KeptTable DEF WorkersMove, Steady, Filed
<1>4. UNCHANGED worker => WorkersMove
  BY DEF WorkersMove, Steady
<1>5. \A new : Patch(new) => Filed
  BY DEF Patch, Filed
<1>6. UNCHANGED <<ops, notices, woken>> => Filed
  BY DEF Filed
<1>7. CASE ConnectionStep \/ Clock
  <2>1. now' \in {now, now + 1}
    BY <1>7 DEF ConnectionStep, Clock, Tick, ClaimAssignment, ReleaseLease, MembershipActive,
                SetKillSwitch, RotateCredentials, AccountUnavailable, AccountReady
  <2> QED BY <1>3, <1>7, <2>1 DEF ConnectionStep, Clock, operationVars
<1>8. CASE StaffStep
  <2>1. PICK o \in Op : Enqueue(o) \/ Edit(o) \/ Cancel(o)
    BY <1>8 DEF StaffStep
  <2>2. RowsMove /\ RowsPlanned'
    BY <1>1, <2>1, EnqueueRows, EditRows, CancelRows
  <2>3. UNCHANGED worker
    BY <2>1 DEF Enqueue, Edit, Cancel
  <2>4. CASE Enqueue(o)
    <3>1. PICK s : ops' = [ops EXCEPT ![o] =
                      [Scheduled(ops[o], o, s) EXCEPT
                         !.state = "pending", !.revision = 1, !.epoch = integration.epoch,
                         !.dependencyRevision = CreationOf(o, ops).revision]]
      BY <2>4 DEF Enqueue
    <3>2. \A p \in Op : p # o => ops'[p] = ops[p]
      BY <1>1, <3>1 DEF TypeOK
    <3>3. ops'[o].state = "pending"
      BY <1>1, <3>1 DEF TypeOK, Scheduled, Operation
    <3>4. UNCHANGED <<notices, woken>>
      BY <2>4 DEF Enqueue
    <3> QED BY <1>4, <2>2, <2>3, <3>2, <3>3, <3>4, States DEF Filed
  <2>5. CASE Edit(o) \/ Cancel(o)
    BY <1>4, <1>5, <2>2, <2>3, <2>5 DEF Edit, Cancel
  <2> QED BY <2>1, <2>4, <2>5
<1>9. ASSUME RejectUnsent(integration.epoch), now' = now
      PROVE  RowsMove /\ RowsPlanned' /\ WorkersMove /\ Filed
  BY <1>1, <1>4, <1>5, <1>9, RejectRowsMove DEF RejectUnsent, RejectRows
<1>10. CASE WorkerStep
  <2>1. PICK w \in Worker : \/ Claim(w) \/ AuthorizeSubmission(w) \/ DeferClaim(w)
                            \/ RejectClaim(w) \/ ProviderWrite(w) \/ WriteNotAttempted(w)
                            \/ Crash(w) \/ (worker[w].pc = "idle" /\ Left(w))
    BY <1>10 DEF WorkerStep
  <2>2. CASE Claim(w)
    <3>1. Filed
      BY <1>5, <2>2 DEF Claim
    <3> QED BY <1>1, <2>2, <3>1, ClaimRows
  <2>3. CASE AuthorizeSubmission(w)
    <3>1. Filed
      BY <1>5, <1>6, <2>3 DEF AuthorizeSubmission
    <3> QED BY <1>1, <2>3, <3>1, AuthorizeRows
  <2>4. CASE DeferClaim(w) \/ RejectClaim(w)
    <3>1. Filed
      BY <1>5, <1>6, <2>4 DEF DeferClaim, RejectClaim
    <3> QED BY <1>1, <2>4, <3>1, ClaimEndRows
  <2>5. CASE ProviderWrite(w) \/ WriteNotAttempted(w) \/ Crash(w)
    <3>1. /\ UNCHANGED <<ops, notices, woken>> /\ now' = now
          /\ Abandon(w)
      BY <2>5 DEF ProviderWrite, WriteNotAttempted, Crash, Restart, connectionVars
    <3> QED BY <1>1, <1>6, <3>1, KeptTable, SteadyProceed
  <2>6. CASE Left(w)
    BY <1>9, <2>6 DEF Left, MembershipDisconnected
  <2> QED BY <2>1, <2>2, <2>3, <2>4, <2>5, <2>6
<1>11. ASSUME NEW cancel \in BOOLEAN, NEW e \in Event, NEW cursor, now' = now,
              SyncPage(cancel, e, cursor), UNCHANGED <<notices, woken, worker>>
       PROVE  RowsMove /\ RowsPlanned' /\ WorkersMove /\ Filed
  <2>1. RowsMove /\ RowsPlanned'
    BY <1>1, <1>11, SyncRows
  <2>2. ASSUME NEW o \in Op, ops'[o] # ops[o]
        PROVE  /\ ops'[o].state \notin Failure
               /\ o \in Connector => ops'[o].state \notin Settled
    <3>1. ops'[o] = Synced(ops[o], cancel, e)
      BY <1>11, <2>2 DEF SyncPage
    <3>2. ops[o] \in Operation /\ RowTied(o, ops[o])
      BY <1>1 DEF TypeOK, RowsPlanned
    <3>3. ops[o].tied /\ ops'[o].state \in {"pending", "cancelled"}
      BY <2>2, <3>1, <3>2 DEF Synced, Unclaimed, Settle, Operation
    <3> QED BY <3>2, <3>3, States DEF RowTied
  <2>3. Filed
    BY <1>11, <2>2 DEF Filed
  <2> QED BY <1>4, <1>11, <2>1, <2>3
<1>12. CASE ServerStep
  <2>1. CASE (\E r \in reports : Complete(r)) \/ (\E o \in Op : ExpireUnsent(o))
    <3>1. Filed /\ UNCHANGED worker
      BY <1>5, <2>1 DEF Complete, ExpireUnsent
    <3> QED BY <1>1, <1>4, <2>1, <3>1, ServerRows
  <2>2. CASE \E e \in expiries : ExpireSubmission(e)
    <3>1. Filed /\ UNCHANGED worker
      BY <1>5, <1>6, <2>2 DEF ExpireSubmission
    <3> QED BY <1>1, <1>4, <2>2, <3>1, ServerRows
  <2>3. CASE \E c \in fanout : SyncEventSchedule(c)
    <3>1. PICK c \in fanout : SyncEventSchedule(c)
      BY <2>3
    <3>2. c.cancel \in BOOLEAN /\ event \in Event
      BY <1>1 DEF TypeOK
    <3>3. /\ SyncPage(c.cancel, event, c.cursor) /\ now' = now
          /\ UNCHANGED <<notices, woken, worker>>
      BY <3>1 DEF SyncEventSchedule, connectionVars
    <3> QED BY <1>11, <3>2, <3>3
  <2>4. CASE \E c \in rejections : RejectConnectionOperationsPage(c)
    <3>1. Filed /\ UNCHANGED worker /\ now' = now
      BY <1>5, <2>4 DEF RejectConnectionOperationsPage, RejectRows, connectionVars
    <3> QED BY <1>1, <1>4, <2>4, <3>1, RejectRowsMove
  <2> QED BY <1>12, <2>1, <2>2, <2>3, <2>4 DEF ServerStep
<1>13. CASE EnvironmentStep
  <2>1. ASSUME NEW cancel \in BOOLEAN, NEW e \in Event, ChangeEvent(cancel, e), now' = now
        PROVE  RowsMove /\ RowsPlanned' /\ WorkersMove /\ Filed
    BY <1>11, <2>1 DEF ChangeEvent
  <2>2. ASSUME NEW b \in BOOLEAN, SetEventCancelled(b)
        PROVE  RowsMove /\ RowsPlanned' /\ WorkersMove /\ Filed
    <3>1. [event EXCEPT !.cancelled = b] \in Event
      BY <1>1 DEF TypeOK, Event
    <3> QED BY <2>1, <2>2, <3>1 DEF SetEventCancelled
  <2>3. CASE RescheduleEvent
    <3>1. PICK timed \in BOOLEAN, start \in StartTimes :
            ChangeEvent(FALSE, [event EXCEPT !.timed = timed, !.startAt = start])
      BY <2>3 DEF RescheduleEvent
    <3>2. [event EXCEPT !.timed = timed, !.startAt = start] \in Event
      BY <1>1, OperationsAssumption DEF TypeOK, Event
    <3> QED BY <2>1, <2>3, <3>1, <3>2 DEF RescheduleEvent
  <2>4. CASE RetractEvent
    BY <1>1, <2>1, <2>4 DEF RetractEvent, TypeOK
  <2>5. CASE Disconnect \/ Reconnect
    BY <1>9, <2>5 DEF Disconnect, Reconnect, DisconnectGroup, ConnectGroup
  <2>6. CASE SetConnectorActive
    BY <1>2, <1>3, <2>6 DEF SetConnectorActive
  <2> QED BY <1>13, <2>2, <2>3, <2>4, <2>5, <2>6 DEF EnvironmentStep
<1> QED BY <1>7, <1>8, <1>10, <1>12, <1>13 DEF Next

(* The one way to commit to a write: a worker that holds the claim asks,    *)
(* and the row still stands.                                                *)
Grant(w, o) ==
  /\ worker[w].op = o /\ Held(w)
  /\ Standing(o, ops[o], CreationOf(o, ops)) = "ready"
  /\ ops' = [ops EXCEPT ![o] = [ops[o] EXCEPT !.state = "submitted", !.submitted = TRUE,
                                              !.claim.expiresAt = now + SubmitTime]]

(* There are four kinds of steps: the provider is asked, an answer comes    *)
(* in, a write is committed to, and what is quiet and far from the provider. *)
LEMMA Turns ==
  ASSUME Inv, Next
  PROVE  \/ \E w \in Worker : ProviderWrite(w)
         \/ \E r \in reports : Complete(r)
         \/ UNCHANGED <<writes, effects>> /\ \E w \in Worker, o \in Op : Grant(w, o)
         \/ UNCHANGED <<writes, effects>> /\ QuietRows
<1> DEFINE Away == UNCHANGED <<writes, effects>>
           Goal == \/ \E w \in Worker : ProviderWrite(w)
                   \/ \E r \in reports : Complete(r)
                   \/ Away /\ \E w \in Worker, o \in Op : Grant(w, o)
                   \/ Away /\ QuietRows
<1> SUFFICES Goal
  OBVIOUS
<1>1. TypeInv /\ TypeOK
  BY DEF Inv, TypeInv
<1>2. Away /\ (QuietRows \/ UNCHANGED ops) => Goal
  BY QuietUnchanged
<1>3. \A w \in Worker, o \in Op : Away /\ Grant(w, o) => Goal
  OBVIOUS
<1>4. (\E w \in Worker : ProviderWrite(w)) \/ (\E r \in reports : Complete(r)) => Goal
  OBVIOUS
<1> HIDE DEF Goal
<1>5. CASE ConnectionStep \/ Clock
  BY <1>2, <1>5 DEF ConnectionStep, Clock, operationVars
<1>6. CASE StaffStep
  <2>1. PICK o \in Op : Enqueue(o) \/ Edit(o) \/ Cancel(o)
    BY <1>6 DEF StaffStep
  <2>2. Away
    BY <2>1 DEF Enqueue, Edit, Cancel
  <2> QED BY <1>2, <2>1, <2>2, QuietStaff
<1>7. CASE WorkerStep
  <2>1. PICK w \in Worker : \/ Claim(w) \/ AuthorizeSubmission(w) \/ DeferClaim(w)
                            \/ RejectClaim(w) \/ ProviderWrite(w) \/ WriteNotAttempted(w)
                            \/ Crash(w) \/ (worker[w].pc = "idle" /\ Left(w))
    BY <1>7 DEF WorkerStep
  <2>2. CASE Claim(w) \/ DeferClaim(w) \/ RejectClaim(w)
    <3>1. Away
      BY <2>2 DEF Claim, DeferClaim, RejectClaim
    <3> QED BY <1>2, <2>2, <3>1, QuietClaim, QuietClaimEnd
  <2>3. CASE WriteNotAttempted(w) \/ Crash(w)
    BY <1>2, <2>3 DEF WriteNotAttempted, Crash
  <2>4. CASE Left(w)
    BY <1>2, <2>4, QuietPages DEF Left, RejectUnsent
  <2>5. CASE AuthorizeSubmission(w)
    <3> DEFINE standing(o) == Standing(o, ops[o], CreationOf(o, ops))
    <3>1. PICK o \in Op : worker[w].op = o
      BY <1>1, <2>5 DEF TypeInv, Busy, AuthorizeSubmission
    <3>2. ops[o] \in Operation /\ Away
      BY <1>1, <2>5 DEF TypeOK, AuthorizeSubmission
    <3>3. Held(w) => ops[o].state \in Unsent \cup {"absent"}
      BY <3>1, States DEF Held
    <3> HIDE DEF standing
    <3>4. CASE Held(w) /\ ops' = [ops EXCEPT ![o] = Denied(ops[o], standing(o))]
      BY <1>1, <1>2, <3>2, <3>3, <3>4, DeniedRow, QuietUnsent, QuietPatch
    <3>5. CASE Held(w) /\ ops' = [ops EXCEPT ![o] = Settle(ops[o], "rejected")]
      <4>1. Settle(ops[o], "rejected").submitted = ops[o].submitted
            /\ Settle(ops[o], "rejected").state \in Open
        BY <3>2 DEF Settle, Operation, Open
      <4> QED BY <1>1, <1>2, <3>2, <3>3, <3>5, <4>1, QuietUnsent, QuietPatch
    <3>6. \/ UNCHANGED ops
          \/ Held(w) /\ ops' = [ops EXCEPT ![o] = Denied(ops[o], standing(o))]
          \/ Held(w) /\ ops' = [ops EXCEPT ![o] = Settle(ops[o], "rejected")]
          \/ Grant(w, o)
      BY <2>5, <3>1 DEF AuthorizeSubmission, Patch, Grant, standing
    <3> QED BY <1>2, <1>3, <3>2, <3>4, <3>5, <3>6
  <2> QED BY <1>4, <2>1, <2>2, <2>3, <2>4, <2>5
<1>8. CASE ServerStep
  <2>1. CASE \/ \E e \in expiries : ExpireSubmission(e)
             \/ \E o \in Op : ExpireUnsent(o)
             \/ \E c \in fanout : SyncEventSchedule(c)
             \/ \E c \in rejections : RejectConnectionOperationsPage(c)
    <3>1. Away
      BY <2>1 DEF ExpireSubmission, ExpireUnsent, SyncEventSchedule,
                  RejectConnectionOperationsPage
    <3> QED BY <1>2, <2>1, <3>1, QuietServer
  <2> QED BY <1>4, <1>8, <2>1 DEF ServerStep
<1>9. CASE EnvironmentStep
  <2>1. \A cancel, e : ChangeEvent(cancel, e) => Goal
    BY <1>2, QuietPages DEF ChangeEvent
  <2>2. CASE (\E b \in BOOLEAN : SetEventCancelled(b)) \/ RescheduleEvent \/ RetractEvent
    BY <2>1, <2>2 DEF SetEventCancelled, RescheduleEvent, RetractEvent
  <2>3. CASE Disconnect \/ Reconnect
    BY <1>2, <2>3, QuietPages DEF Disconnect, Reconnect, RejectUnsent
  <2>4. CASE SetConnectorActive
    BY <1>2, <2>4 DEF SetConnectorActive
  <2> QED BY <1>9, <2>2, <2>3, <2>4 DEF EnvironmentStep
<1> QED BY <1>5, <1>6, <1>7, <1>8, <1>9 DEF Next

(* What an answer does to the rows.                                         *)
LEMMA AnswerRows ==
  ASSUME Inv, NEW r \in reports, Complete(r)
  PROVE  /\ r.op \in Op /\ ops[r.op].state = "submitted" /\ UNCHANGED <<writes, effects>>
         /\ ops'[r.op] = Settle(ops[r.op], r.status)
         /\ \A o \in Op : o # r.op => ops'[o] = ops[o]
  BY DEF Inv, TypeInv, TypeOK, Report, Complete, Patch

(* Only the grant commits to a write.                                       *)
LEMMA SubmitStep ==
  ASSUME Inv, Next
  PROVE  \/ \A o \in Op : ops'[o].submitted = ops[o].submitted
         \/ \E w \in Worker, o \in Op : Grant(w, o)
<1>1. CASE \E w \in Worker : ProviderWrite(w)
  BY <1>1 DEF ProviderWrite
<1>2. ASSUME NEW r \in reports, Complete(r)
      PROVE  \A o \in Op : ops'[o].submitted = ops[o].submitted
  <2>1. r.op \in Op /\ ops[r.op] \in Operation
    BY <1>2, AnswerRows DEF Inv, TypeInv, TypeOK
  <2>2. Settle(ops[r.op], r.status).submitted = ops[r.op].submitted
    BY <2>1 DEF Settle, Operation
  <2> QED BY <1>2, <2>2, AnswerRows
<1>3. QuietRows => \A o \in Op : ops'[o].submitted = ops[o].submitted
  BY DEF QuietRows, QuietRow
<1> QED BY <1>1, <1>2, <1>3, Turns

(* What the final authorization has read when it lets a write go.           *)
LEMMA GrantReads ==
  ASSUME Inv, RowsPlanned, NEW w \in Worker, NEW o \in Op, Grant(w, o)
  PROVE  /\ ops[o].dueAt <= now /\ now <= ops[o].dueAt + LateGrace
         /\ integration.state = "active" /\ ops[o].epoch = integration.epoch
         /\ ops[o].tied => ~event.cancelled
         /\ Relative(ops[o]) => event.timed /\ ops[o].dueAt = EventTime(ops[o])
         /\ o \in Connector => connectorActive
         /\ Creation[o] # NoOp =>
              /\ ops[Creation[o]].state = "succeeded"
              /\ ops[Creation[o]].revision = ops[o].dependencyRevision
<1>1. ops[o].state = "claimed" /\ integration.state = "active"
  BY DEF Grant, Held, Bound
<1>2. ops[o].dueAt <= now
  BY <1>1 DEF RowsPlanned, RowDue
<1>3. Standing(o, ops[o], CreationOf(o, ops)) = "ready"
  BY DEF Grant
<1>4. now \in Nat /\ ops[o].dueAt \in Int
  BY DEF Inv, TypeInv, TypeOK, ConnectionTypeOK, Operation
<1>5. /\ ops[o].epoch = integration.epoch
      /\ ~(ops[o].tied /\ event.cancelled)
      /\ ~(Relative(ops[o]) /\ ~event.timed)
      /\ ~(Relative(ops[o]) /\ ops[o].dueAt # EventTime(ops[o]))
      /\ ~(now - ops[o].dueAt > LateGrace)
      /\ ~(o \in Connector /\ ~connectorActive)
      /\ Creation[o] # NoOp => DependencyStanding(ops[o], CreationOf(o, ops)) = "ready"
  BY <1>3 DEF Standing
<1>6. now <= ops[o].dueAt + LateGrace
  BY <1>4, <1>5, OperationsAssumption
<1>7. ASSUME Creation[o] # NoOp
      PROVE  /\ ops[Creation[o]].state = "succeeded"
             /\ ops[Creation[o]].revision = ops[o].dependencyRevision
  BY <1>5, <1>7 DEF DependencyStanding, CreationOf
<1> QED BY <1>1, <1>2, <1>5, <1>6, <1>7

(* Invitations keep following their creations.                              *)
LEMMA InvitedStep ==
  ASSUME Inv, RowsPlanned, Invited, RowsMove, Next
  PROVE  Invited'
<1>1. CASE \A o \in Op : ops'[o].submitted = ops[o].submitted
  BY <1>1, InvitedRow DEF Invited
<1>2. ASSUME NEW w \in Worker, NEW o \in Op, Grant(w, o)
      PROVE  Invited'
  <2> DEFINE q == [ops[o] EXCEPT !.state = "submitted", !.submitted = TRUE,
                                 !.claim.expiresAt = now + SubmitTime]
  <2>1. ops[o] \in Operation /\ TypeOK
    BY DEF Inv, TypeInv, TypeOK
  <2>2. \A p \in Op : ops'[p] = IF p = o THEN q ELSE ops[p]
    BY <1>2, <2>1 DEF Grant, TypeOK
  <2>3. q.dependencyRevision = ops[o].dependencyRevision
    BY <2>1 DEF Operation
  <2> HIDE DEF q
  <2>4. ASSUME NEW p \in Op, Creation[p] # NoOp, ops'[p].submitted
        PROVE  /\ ops'[Creation[p]].state = "succeeded"
               /\ ops'[Creation[p]].revision = ops'[p].dependencyRevision
    <3>1. CASE p = o
      <4>1. Creation[o] \in Op /\ Creation[o] # o
        BY <2>4, <3>1, OperationsAssumption
      <4>2. /\ ops[Creation[o]].state = "succeeded"
            /\ ops[Creation[o]].revision = ops[o].dependencyRevision
        BY <1>2, <2>4, <3>1, GrantReads
      <4> QED BY <2>2, <2>3, <3>1, <4>1, <4>2
    <3>2. CASE p # o
      BY <2>2, <2>4, <3>2, InvitedRow
    <3> QED BY <3>1, <3>2
  <2> QED BY <2>4 DEF Invited
<1> QED BY <1>1, <1>2, SubmitStep

-----------------------------------------------------------------------------
(* The invariant holds initially.                                           *)
LEMMA OutcomeInit == Init => OutcomeInv
<1> SUFFICES ASSUME Init PROVE OutcomeInv
  OBVIOUS
<1>1. Inv
  BY InitInv
<1>2. \A o \in Op : ops[o] = Absent
  BY DEF Init
<1>3. RowsPlanned
  BY <1>2 DEF RowsPlanned, RowTied, RowDue, Absent, Unsent
<1>4. Reviewed
  BY DEF Init, Idle, Reviewed
<1>5. Invited
  BY <1>2 DEF Invited, Absent
<1>6. OutcomeReported
  BY <1>2, States DEF Init, OutcomeReported, Absent
<1> QED BY <1>1, <1>3, <1>4, <1>5, <1>6 DEF OutcomeInv

(* Every step preserves it, and moves the rows as described.                *)
LEMMA OutcomeNext ==
  ASSUME OutcomeInv, [Next]_vars
  PROVE  OutcomeInv' /\ RowsMove
<1>1. CASE Next
  <2>1. Inv'
    BY <1>1, NextInv DEF OutcomeInv
  <2>2. TypeOK' /\ Busy'
    BY <2>1 DEF Inv, TypeInv
  <2>3. RowsMove /\ RowsPlanned' /\ WorkersMove /\ Filed
    BY <1>1, <2>2, MoveStep DEF OutcomeInv
  <2>4. Reviewed'
    BY <2>2, <2>3, ReviewStep DEF OutcomeInv
  <2>5. Invited'
    BY <1>1, <2>3, InvitedStep DEF OutcomeInv
  <2>6. OutcomeReported'
    BY <2>3, FiledStep DEF OutcomeInv, Inv, TypeInv
  <2> QED BY <2>1, <2>3, <2>4, <2>5, <2>6 DEF OutcomeInv
<1>2. CASE UNCHANGED vars
  <2>1. Inv'
    BY <1>2, StutterInv DEF OutcomeInv
  <2>2. UNCHANGED <<ops, worker, notices, woken, now>>
    BY <1>2 DEF vars, operationVars, connectionVars
  <2>3. RowsMove
    BY <2>2, KeptSame DEF RowsMove, OutcomeInv, Inv, TypeInv, TypeOK
  <2>4. RowsPlanned' /\ Reviewed' /\ Invited' /\ OutcomeReported'
    BY <2>2 DEF OutcomeInv, RowsPlanned, RowTied, RowDue, Reviewed, ReviewedWorker, Matches,
                Invited, OutcomeReported
  <2> QED BY <2>1, <2>3, <2>4 DEF OutcomeInv
<1> QED BY <1>1, <1>2

(* OutcomeInv is inductive.                                                 *)
THEOREM Outcomes == Spec => []OutcomeInv
<1>1. OutcomeInv /\ [Next]_vars => OutcomeInv'
  BY OutcomeNext
<1> QED BY OutcomeInit, <1>1, PTL DEF Spec

(* However claims are swept, released and granted again, at most one worker *)
(* can still move an operation towards VRChat.                              *)
THEOREM OneWorker == Spec => []OneExecutor
<1>1. ASSUME Inv, NEW v \in Worker, NEW w \in Worker, v # w, worker[v].pc = "authorized",
             worker[w].op = worker[v].op
      PROVE  worker[w].pc # "authorized" /\ ~Held(w)
  <2>1. PICK o \in Op : o = worker[v].op
    BY <1>1 DEF Inv, TypeInv, Busy
  <2>2. Authorized(v, o)
    BY <1>1, <2>1 DEF Authorized
  <2>3. /\ ops[o].state \in {"submitted", "indeterminate"}
        /\ \A u \in Worker : Authorized(u, o) => u = v
    BY <1>1, <2>2 DEF Inv, SendInv, AuthorizedOnce
  <2> QED BY <1>1, <2>1, <2>3 DEF Authorized, Held
<1>2. Inv => OneExecutor
  BY <1>1 DEF OneExecutor
<1> QED BY Invariance, <1>2, PTL

(* A settled action keeps its outcome and revision, whatever arrives late.  *)
THEOREM OutcomesFinal == Spec => SettledIsFinal
<1>1. OutcomeInv /\ [Next]_vars =>
        [\A o \in Op : ops[o].state \in Settled =>
           /\ ops'[o].state = ops[o].state
           /\ ops'[o].revision = ops[o].revision]_vars
  BY OutcomeNext, SettledStays
<1> QED BY Outcomes, <1>1, PTL DEF Spec, SettledIsFinal

(* Every failure has its one notice, every settled connector was woken.     *)
THEOREM FailuresReported == Spec => []OutcomeReported
<1>1. OutcomeInv => OutcomeReported
  BY DEF OutcomeInv
<1> QED BY Outcomes, <1>1, PTL

(* An invitation goes out only into the instance its reviewer saw planned.  *)
THEOREM InvitationsFollow == Spec => []InviteFollowsCreation
<1>1. ASSUME OutcomeInv, NEW o \in Op, Creation[o] # NoOp, writes[o] > 0
      PROVE  /\ ops[Creation[o]].state = "succeeded"
             /\ ops[Creation[o]].revision = ops[o].dependencyRevision
             /\ effects[Creation[o]] = 1
  <2>1. Inv /\ Creation[o] \in Op
    BY <1>1, OperationsAssumption DEF OutcomeInv
  <2>2. ops[o].submitted
    BY <1>1, <2>1 DEF Inv, SendInv, UnsentUntouched, Untouched
  <2>3. /\ ops[Creation[o]].state = "succeeded"
        /\ ops[Creation[o]].revision = ops[o].dependencyRevision
    BY <1>1, <2>2 DEF OutcomeInv, Invited
  <2>4. effects[Creation[o]] = 1
    BY <2>1, <2>3 DEF Inv, SendInv, RowsTrue
  <2> QED BY <2>3, <2>4
<1>2. OutcomeInv => InviteFollowsCreation
  BY <1>1 DEF InviteFollowsCreation
<1> QED BY Outcomes, <1>2, PTL

(* The request that goes out is the revision and the time the row shows.    *)
THEOREM WritesReviewed == Spec => ReviewedWrite
<1> DEFINE A == \A o \in Op : writes'[o] # writes[o] =>
                  \E w \in Worker : /\ worker[w].op = o
                                    /\ worker[w].revision = ops[o].revision
                                    /\ now <= ops[o].dueAt + LateGrace
<1>1. ASSUME OutcomeInv, Next, NEW o \in Op, writes'[o] # writes[o]
      PROVE  \E w \in Worker : /\ worker[w].op = o
                               /\ worker[w].revision = ops[o].revision
                               /\ now <= ops[o].dueAt + LateGrace
  <2>1. TypeOK
    BY <1>1 DEF OutcomeInv, Inv, TypeInv
  <2>2. PICK w \in Worker : ProviderWrite(w)
    BY <1>1 DEF Next, ConnectionStep, Clock, operationVars, StaffStep, Enqueue, Edit, Cancel,
                WorkerStep, Claim, AuthorizeSubmission, DeferClaim, RejectClaim,
                WriteNotAttempted, Crash, Left, RejectUnsent, ServerStep, Complete,
                ExpireSubmission, ExpireUnsent, SyncEventSchedule,
                RejectConnectionOperationsPage, EnvironmentStep, SetEventCancelled,
                RescheduleEvent, RetractEvent, ChangeEvent, Disconnect, Reconnect,
                SetConnectorActive
  <2>3. worker[w].op = o
    BY <1>1, <2>1, <2>2 DEF ProviderWrite, TypeOK
  <2>4. ReviewedWorker(w, ops[o]) /\ worker[w].pc = "authorized"
    BY <1>1, <2>2, <2>3 DEF OutcomeInv, Reviewed, ProviderWrite
  <2>5. worker[w].revision = ops[o].revision
        /\ worker[w].executeBefore = ops[o].dueAt + LateGrace
    BY <2>4 DEF ReviewedWorker, Matches
  <2>6. now < worker[w].executeBefore /\ now \in Nat /\ ops[o].dueAt \in Int
    BY <2>1, <2>2 DEF ProviderWrite, TypeOK, ConnectionTypeOK, Operation
  <2> QED BY <2>3, <2>5, <2>6, OperationsAssumption
<1>2. OutcomeInv /\ [Next]_vars => [A]_vars
  BY <1>1
<1> QED BY Outcomes, <1>2, PTL DEF Spec, ReviewedWrite

(* No action is committed to early, late, for an old connection or for an   *)
(* event that was cancelled or moved.                                       *)
THEOREM SubmissionsCurrent == Spec => SubmissionIsCurrent
<1> DEFINE A == \A o \in Op : ~ops[o].submitted /\ ops'[o].submitted =>
                  /\ ops[o].dueAt <= now /\ now <= ops[o].dueAt + LateGrace
                  /\ integration.state = "active" /\ ops[o].epoch = integration.epoch
                  /\ ops[o].tied => ~event.cancelled
                  /\ Relative(ops[o]) => event.timed /\ ops[o].dueAt = EventTime(ops[o])
                  /\ o \in Connector => connectorActive
<1>1. ASSUME OutcomeInv, Next, NEW o \in Op, ~ops[o].submitted, ops'[o].submitted
      PROVE  /\ ops[o].dueAt <= now /\ now <= ops[o].dueAt + LateGrace
             /\ integration.state = "active" /\ ops[o].epoch = integration.epoch
             /\ ops[o].tied => ~event.cancelled
             /\ Relative(ops[o]) => event.timed /\ ops[o].dueAt = EventTime(ops[o])
             /\ o \in Connector => connectorActive
  <2>1. Inv /\ RowsPlanned /\ ops \in [Op -> Operation]
    BY <1>1 DEF OutcomeInv, Inv, TypeInv, TypeOK
  <2>2. PICK w \in Worker, p \in Op : Grant(w, p)
    BY <1>1, <2>1, SubmitStep
  <2>3. p = o
    BY <1>1, <2>1, <2>2 DEF Grant
  <2> QED BY <2>1, <2>2, <2>3, GrantReads
<1>2. OutcomeInv /\ [Next]_vars => [A]_vars
  BY <1>1
<1> QED BY Outcomes, <1>2, PTL DEF Spec, SubmissionIsCurrent
=============================================================================
