------------------------ MODULE ClubOperationsProofs ------------------------
(***************************************************************************)
(* What the club operation queue guarantees about the provider, proved for *)
(* every set of workers and operations and every value of the durations    *)
(* and bounds: type correctness, AtMostOneWrite and TruthfulOutcome.       *)
(***************************************************************************)
EXTENDS ClubOperationsTypes

(* The inductive invariant behind AtMostOneWrite and TruthfulOutcome.  What *)
(* the row records and what the provider saw agree only because submission  *)
(* is a point of no return: before it nothing has reached the provider and  *)
(* no worker may send; after it one worker may, once, and the queue never   *)
(* takes the row back.                                                      *)
Sent == {"submitted", "succeeded", "indeterminate"}
Open == Unsent \cup {"cancelled", "missed", "rejected"}

RowMatches(op) == /\ op.state \in Sent => op.submitted
                  /\ op.submitted => op.state \in Sent \cup {"rejected"}
StateMatches == \A o \in Op : RowMatches(ops[o])

Untouched(o) == /\ writes[o] = 0 /\ effects[o] = 0
                /\ \A r \in reports : r.op # o
Authorized(w, o) == worker[w].pc = "authorized" /\ worker[w].op = o

UnsentUntouched ==
  \A o \in Op : ~ops[o].submitted =>
    Untouched(o) /\ \A w \in Worker : ~Authorized(w, o)

AuthorizedOnce ==
  \A w \in Worker, o \in Op : Authorized(w, o) =>
    /\ ops[o].state \in {"submitted", "indeterminate"}
    /\ Untouched(o)
    /\ \A v \in Worker : Authorized(v, o) => v = w

ReportsTrue ==
  \A r \in reports :
    /\ r.status = "succeeded" => effects[r.op] = 1
    /\ r.status = "rejected" => effects[r.op] = 0

RowsTrue ==
  \A o \in Op : /\ writes[o] <= 1
                /\ ops[o].state = "rejected" => effects[o] = 0
                /\ ops[o].state = "succeeded" => effects[o] = 1

SendInv == StateMatches /\ UnsentUntouched /\ AuthorizedOnce /\ ReportsTrue /\ RowsTrue
Inv == TypeInv /\ SendInv

(* What every transaction but the authorization and the report may do to a  *)
(* row: keep it where it is, move it while it is unsent, or give up on the  *)
(* answer to a submission.                                                  *)
QuietRow(p, q) ==
  /\ q.submitted = p.submitted
  /\ \/ q.state = p.state
     \/ ~p.submitted /\ q.state \in Open
     \/ p.state = "submitted" /\ q.state = "indeterminate"

QuietRows == \A o \in Op : QuietRow(ops[o], ops'[o])

(* A worker that stays idle, keeps its task, or ends it without sending.    *)
QuietWorkers ==
  \A w \in Worker : \/ worker'[w] = worker[w]
                    \/ /\ worker'[w].pc # "authorized"
                       /\ worker'[w].pc # "idle" => worker'[w].op \in Op

(* Settling, unclaiming and retiming leave `submitted` alone.               *)
LEMMA QuietOps ==
  ASSUME NEW op \in Operation, RowMatches(op), TypeOK
  PROVE  /\ \A s \in State : /\ Settle(op, s).state = s
                             /\ Settle(op, s).submitted = op.submitted
         /\ Unclaimed(op).state = op.state /\ Unclaimed(op).submitted = op.submitted
         /\ Retimed(op).state = op.state /\ Retimed(op).submitted = op.submitted
  BY DEF Settle, Unclaimed, Retimed, Operation

(* A row that shows as unsent or absent was not submitted.                  *)
LEMMA UnsentRow ==
  ASSUME NEW op \in Operation, RowMatches(op), op.state \in Unsent \cup {"absent"}
  PROVE  ~op.submitted
  BY DEF RowMatches, Unsent, Sent, Operation

(* The fields of a row that is settled and loses its claim.                 *)
LEMMA UnclaimedSettled ==
  ASSUME NEW op \in Operation, NEW s \in State
  PROVE  /\ Unclaimed(Settle(op, s)).state = s
         /\ Unclaimed(Settle(op, s)).submitted = op.submitted
         /\ Unclaimed(Settle(op, s)).dueAt = op.dueAt
  BY DEF Settle, Unclaimed, Operation

(* A requeued row is pending and no more submitted than before.             *)
LEMMA RequeuedRow ==
  ASSUME NEW op \in Operation
  PROVE  Requeued(op).state = "pending" /\ Requeued(op).submitted = op.submitted
  BY DEF Requeued, Unclaimed, Settle, Retimed, Operation

(* The sweep is quiet: an expired claim is requeued, an expired submission  *)
(* is given up as indeterminate, never requeued.                            *)
LEMMA SweptRow ==
  ASSUME NEW op \in Operation, RowMatches(op)
  PROVE  QuietRow(op, Swept(op)) /\ RowMatches(Swept(op))
<1>1. CASE ~(op.state \in {"claimed", "submitted"} /\ op.claim.expiresAt <= now)
  BY <1>1 DEF Swept, QuietRow
<1>2. CASE op.state = "submitted" /\ op.claim.expiresAt <= now
  BY <1>2 DEF Swept, QuietRow, RowMatches, Settle, Sent, Operation
<1>3. CASE op.state = "claimed" /\ op.claim.expiresAt <= now
  <2>1. Swept(op) = Unclaimed(Settle(op, "pending"))
    BY <1>3 DEF Swept
  <2>2. Swept(op).state = "pending" /\ Swept(op).submitted = op.submitted
    BY <2>1, UnclaimedSettled DEF State, Unsent
  <2>3. ~op.submitted
    BY <1>3, UnsentRow DEF Unsent
  <2> QED BY <2>2, <2>3 DEF QuietRow, RowMatches, Open, Unsent, Sent
<1> QED BY <1>1, <1>2, <1>3

(* The claim loop leaves a pending row open and unsubmitted.                *)
LEMMA DisposedRow ==
  ASSUME NEW op \in Operation, op.state = "pending", NEW standing
  PROVE  Disposed(op, standing).state \in Open /\ Disposed(op, standing).submitted = op.submitted
  BY DEF Disposed, Settle, Retimed, Open, Unsent, Operation

(* A claim leaves the row open and does not submit it.                      *)
LEMMA ClaimedRow ==
  ASSUME NEW op \in Operation, NEW w \in Worker
  PROVE  Claimed(op, w).state \in Open /\ Claimed(op, w).submitted = op.submitted
  BY DEF Claimed, Open, Unsent, Operation

(* A refused authorization leaves the row open and unsubmitted.             *)
LEMMA DeniedRow ==
  ASSUME NEW op \in Operation, NEW standing
  PROVE  Denied(op, standing).state \in Open /\ Denied(op, standing).submitted = op.submitted
  BY RequeuedRow DEF Denied, Settle, Open, Unsent, Operation

(* A deferral leaves the row open and unsubmitted.                          *)
LEMMA DeferredRow ==
  ASSUME NEW op \in Operation, NEW delay
  PROVE  Deferred(op, delay).state \in Open /\ Deferred(op, delay).submitted = op.submitted
  BY DEF Deferred, Unclaimed, Settle, Open, Unsent, Operation

(* The cron leaves an unsent row open and unsubmitted.                      *)
LEMMA ExpiredRow ==
  ASSUME NEW op \in Operation, op.state \in Unsent
  PROVE  Expired(op).state \in Open /\ Expired(op).submitted = op.submitted
  BY RequeuedRow DEF Expired, Unclaimed, Settle, Open, Unsent, Operation

(* The fan-out of an event is quiet for every row.                          *)
LEMMA SyncedRow ==
  ASSUME NEW op \in Operation, RowMatches(op), NEW cancel, NEW e
  PROVE  QuietRow(op, Synced(op, cancel, e))
<1>1. CASE op.state \notin Unsent \/ ~op.tied
  BY <1>1 DEF Synced, QuietRow
<1>2. CASE op.state \in Unsent
  <2>1. ~op.submitted
    BY <1>2, UnsentRow
  <2>2. Synced(op, cancel, e).submitted = op.submitted /\ Synced(op, cancel, e).state \in Open
    BY <1>2 DEF Synced, Unclaimed, Settle, Open, Unsent, Operation
  <2> QED BY <2>1, <2>2 DEF QuietRow
<1> QED BY <1>1, <1>2

(* The heart of the argument: a transaction that moves rows and workers     *)
(* quietly and tells the provider nothing preserves the invariant.          *)
LEMMA QuietStep ==
  ASSUME Inv, TypeOK', QuietRows, QuietWorkers, UNCHANGED <<reports, writes, effects>>
  PROVE  Busy' /\ SendInv'
<1>0. TypeOK /\ Busy /\ StateMatches /\ UnsentUntouched /\ AuthorizedOnce /\ ReportsTrue /\ RowsTrue
  BY DEF Inv, SendInv, TypeInv
<1>1. Busy'
  BY <1>0 DEF QuietWorkers, Busy
<1>2. StateMatches'
  <2>1. ASSUME NEW o \in Op PROVE RowMatches(ops'[o])
    <3>1. RowMatches(ops[o]) /\ QuietRow(ops[o], ops'[o])
      BY <1>0 DEF StateMatches, QuietRows
    <3>2. ops[o] \in Operation
      BY <1>0 DEF TypeOK
    <3> QED BY <3>1, <3>2 DEF RowMatches, QuietRow, Open, Unsent, Sent, Operation
  <2> QED BY <2>1 DEF StateMatches
<1>3. \A w \in Worker, o \in Op : Authorized(w, o)' => Authorized(w, o)
  BY DEF QuietWorkers, Authorized
<1>4. \A o \in Op : Untouched(o) => Untouched(o)'
  BY DEF Untouched
<1>5. UnsentUntouched'
  <2>1. \A o \in Op : ops'[o].submitted = ops[o].submitted
    BY DEF QuietRows, QuietRow
  <2> QED BY <1>0, <1>3, <1>4, <2>1 DEF UnsentUntouched
<1>6. AuthorizedOnce'
  <2>1. ASSUME NEW w \in Worker, NEW o \in Op, Authorized(w, o)'
        PROVE  /\ ops'[o].state \in {"submitted", "indeterminate"}
               /\ Untouched(o)'
               /\ \A v \in Worker : Authorized(v, o)' => v = w
    <3>1. Authorized(w, o)
      BY <1>3, <2>1
    <3>2. ops[o].state \in {"submitted", "indeterminate"} /\ Untouched(o)
      BY <1>0, <3>1 DEF AuthorizedOnce
    <3>3. ops[o].submitted
      BY <1>0, <3>2 DEF StateMatches, RowMatches, Sent
    <3>4. ops'[o].state \in {"submitted", "indeterminate"}
      BY <3>2, <3>3 DEF QuietRows, QuietRow
    <3>5. \A v \in Worker : Authorized(v, o)' => v = w
      BY <1>0, <1>3, <3>1 DEF AuthorizedOnce
    <3> QED BY <1>4, <3>2, <3>4, <3>5
  <2> QED BY <2>1 DEF AuthorizedOnce
<1>7. ReportsTrue'
  BY <1>0 DEF ReportsTrue
<1>8. RowsTrue'
  <2>1. ASSUME NEW o \in Op
        PROVE  /\ ops'[o].state = "rejected" => effects[o] = 0
               /\ ops'[o].state = "succeeded" => effects[o] = 1
    <3>1. QuietRow(ops[o], ops'[o])
      BY DEF QuietRows
    <3>2. CASE ops'[o].state = ops[o].state
      <4>1. /\ ops[o].state = "rejected" => effects[o] = 0
            /\ ops[o].state = "succeeded" => effects[o] = 1
        BY <1>0 DEF RowsTrue
      <4> QED BY <3>2, <4>1
    <3>3. CASE ~ops[o].submitted /\ ops'[o].state \in Open
      BY <1>0, <3>3 DEF UnsentUntouched, Untouched, Open, Unsent
    <3>4. CASE ops'[o].state = "indeterminate"
      BY <3>4
    <3> QED BY <3>1, <3>2, <3>3, <3>4 DEF QuietRow
  <2>2. UNCHANGED <<writes, effects>>
    OBVIOUS
  <2> QED BY <1>0, <2>1, <2>2 DEF RowsTrue
<1> QED BY <1>1, <1>2, <1>5, <1>6, <1>7, <1>8 DEF SendInv

(* Patching one row quietly is quiet for the table.                         *)
LEMMA QuietPatch ==
  ASSUME TypeOK, NEW o \in Op, NEW q, ops' = [ops EXCEPT ![o] = q], QuietRow(ops[o], q)
  PROVE  QuietRows
<1>1. \A p \in Op : ops'[p] = IF p = o THEN q ELSE ops[p]
  BY DEF TypeOK
<1>2. \A p \in Op : QuietRow(ops[p], ops[p])
  BY DEF QuietRow
<1> QED BY <1>1, <1>2 DEF QuietRows

(* Nothing is quieter than nothing.                                         *)
LEMMA QuietUnchanged ==
  /\ UNCHANGED ops => QuietRows
  /\ UNCHANGED worker => QuietWorkers
  BY DEF QuietRows, QuietRow, QuietWorkers

(* A row that was still unsent, put anywhere but in flight.                 *)
LEMMA QuietUnsent ==
  ASSUME Inv, NEW o \in Op, ops[o].state \in Unsent \cup {"absent"},
         NEW q, q.state \in Open, q.submitted = ops[o].submitted
  PROVE  QuietRow(ops[o], q)
<1>1. ops[o] \in Operation /\ RowMatches(ops[o])
  BY DEF Inv, SendInv, TypeInv, TypeOK, StateMatches
<1>2. ~ops[o].submitted
  BY <1>1, UnsentRow
<1> QED BY <1>2 DEF QuietRow

(* enqueue, edit and cancel are quiet.                                      *)
LEMMA QuietStaff ==
  ASSUME Inv, NEW o \in Op, Enqueue(o) \/ Edit(o) \/ Cancel(o)
  PROVE  QuietRows
<1>1. ops[o] \in Operation /\ TypeOK
  BY DEF Inv, TypeInv, TypeOK
<1>2. CASE Enqueue(o)
  <2>1. PICK s : ops' = [ops EXCEPT ![o] =
                      [Scheduled(ops[o], o, s) EXCEPT
                         !.state = "pending", !.revision = 1, !.epoch = integration.epoch,
                         !.dependencyRevision = CreationOf(o, ops).revision]]
    BY <1>2 DEF Enqueue
  <2> DEFINE q == [Scheduled(ops[o], o, s) EXCEPT
                         !.state = "pending", !.revision = 1, !.epoch = integration.epoch,
                         !.dependencyRevision = CreationOf(o, ops).revision]
  <2>2. q.state = "pending" /\ q.submitted = ops[o].submitted
    BY <1>1 DEF Scheduled, Operation
  <2>3. ops[o].state = "absent"
    BY <1>2 DEF Enqueue
  <2>4. ops' = [ops EXCEPT ![o] = q]
    BY <2>1
  <2> HIDE DEF q
  <2>5. QuietRow(ops[o], q)
    BY <2>2, <2>3, QuietUnsent DEF Open, Unsent
  <2> QED BY <1>1, <2>4, <2>5, QuietPatch
<1>3. CASE Edit(o)
  <2>1. PICK s : ops' = [ops EXCEPT ![o] = Edited(ops[o], o, s)]
    BY <1>3 DEF Edit, Patch
  <2>2. Edited(ops[o], o, s).state = ops[o].state
        /\ Edited(ops[o], o, s).submitted = ops[o].submitted
    BY <1>1 DEF Edited, Scheduled, Operation
  <2>3. QuietRow(ops[o], Edited(ops[o], o, s))
    BY <2>2 DEF QuietRow
  <2> QED BY <1>1, <2>1, <2>3, QuietPatch
<1>4. CASE Cancel(o)
  <2>1. ops' = [ops EXCEPT ![o] = Settle(ops[o], "cancelled")] /\ ops[o].state \in Unsent
    BY <1>4 DEF Cancel, Patch
  <2>2. Settle(ops[o], "cancelled").state \in Open
        /\ Settle(ops[o], "cancelled").submitted = ops[o].submitted
    BY <1>1 DEF Settle, Open, Operation
  <2>3. QuietRow(ops[o], Settle(ops[o], "cancelled"))
    BY <2>1, <2>2, QuietUnsent
  <2> QED BY <1>1, <2>1, <2>3, QuietPatch
<1> QED BY <1>2, <1>3, <1>4

(* A row the sweep leaves pending was not sent, so the claim loop may do    *)
(* with it what it likes.                                                   *)
LEMMA SweptThen ==
  ASSUME NEW op \in Operation, RowMatches(op), Swept(op).state = "pending",
         NEW q, q.state \in Open, q.submitted = Swept(op).submitted
  PROVE  QuietRow(op, q)
<1>1. QuietRow(op, Swept(op)) /\ RowMatches(Swept(op))
  BY SweptRow
<1>2. Swept(op).submitted = op.submitted
  BY <1>1 DEF QuietRow
<1>3. op.state # "submitted"
  BY <1>1 DEF QuietRow, RowMatches, Open, Unsent, Sent, Swept, Settle, Operation
<1>4. ~op.submitted
  BY <1>1, <1>2, <1>3 DEF QuietRow, RowMatches, Sent
<1> QED BY <1>2, <1>4 DEF QuietRow

(* claim is quiet, sweep, loop and hand-out together.                       *)
LEMMA QuietClaim ==
  ASSUME Inv, NEW w \in Worker, Claim(w)
  PROVE  QuietRows /\ QuietWorkers
<1> DEFINE swept == [o \in Op |-> Swept(ops[o])]
           queue == {o \in Op : swept[o].state = "pending" /\ swept[o].readyAt <= now}
           before(p, o) == \/ swept[p].readyAt < swept[o].readyAt
                           \/ swept[p].readyAt = swept[o].readyAt /\ p < o
           disposed(o) == Disposed(swept[o], Standing(o, swept[o], Absent))
           seen(o) == LET c == Creation[o]
                      IN IF c \in queue /\ before(c, o) THEN disposed(c)
                                                       ELSE CreationOf(o, swept)
           standing(o) == Standing(o, swept[o], seen(o))
           ready == {o \in queue : standing(o) = "ready"}
           looped(visited) == [o \in Op |-> IF o \in visited
                                              THEN Disposed(swept[o], standing(o))
                                              ELSE swept[o]]
<1>1. TypeOK /\ \A o \in Op : ops[o] \in Operation /\ RowMatches(ops[o])
  BY DEF Inv, SendInv, TypeInv, TypeOK, StateMatches
<1>2. \A o \in Op : /\ swept[o] = Swept(ops[o]) /\ swept[o] \in Operation
                    /\ QuietRow(ops[o], swept[o])
  BY <1>1, SweptType, SweptRow
<1>3. ASSUME NEW o \in Op, swept[o].state = "pending",
             NEW q, q.state \in Open, q.submitted = swept[o].submitted
      PROVE  QuietRow(ops[o], q)
  BY <1>1, <1>2, <1>3, SweptThen
<1>4. \A o \in queue : o \in Op /\ swept[o].state = "pending"
  OBVIOUS
<1>5. ASSUME NEW o \in queue, NEW s
      PROVE  /\ Disposed(swept[o], s) \in Operation
             /\ Disposed(swept[o], s).state \in Open
             /\ Disposed(swept[o], s).submitted = swept[o].submitted
  <2> HIDE DEF swept, queue
  <2> QED BY <1>1, <1>2, <1>4, DisposedType, DisposedRow
<1>6. ASSUME NEW visited \in SUBSET queue, NEW o \in Op
      PROVE  /\ looped(visited)[o] \in Operation
             /\ looped(visited)[o].submitted = swept[o].submitted
             /\ QuietRow(ops[o], looped(visited)[o])
  <2>1. looped(visited)[o] = IF o \in visited THEN Disposed(swept[o], standing(o))
                                              ELSE swept[o]
    OBVIOUS
  <2> HIDE DEF looped, swept, standing, queue
  <2>2. CASE o \in visited
    <3>1. o \in queue
      BY <2>2
    <3>2. /\ Disposed(swept[o], standing(o)) \in Operation
          /\ Disposed(swept[o], standing(o)).state \in Open
          /\ Disposed(swept[o], standing(o)).submitted = swept[o].submitted
      BY <1>5, <3>1
    <3>3. QuietRow(ops[o], Disposed(swept[o], standing(o)))
      BY <1>3, <1>4, <3>1, <3>2
    <3> QED BY <2>1, <2>2, <3>2, <3>3
  <2>3. CASE o \notin visited
    BY <1>2, <2>1, <2>3
  <2> QED BY <2>2, <2>3
<1>7. CASE Patch(looped(queue)) /\ UNCHANGED worker
  <2>1. ops' = looped(queue)
    BY <1>7 DEF Patch
  <2> HIDE DEF looped, queue, swept
  <2>2. \A o \in Op : QuietRow(ops[o], looped(queue)[o])
    BY <1>6
  <2> QED BY <1>7, <2>1, <2>2, QuietUnchanged DEF QuietRows
<1>8. ASSUME NEW o \in ready,
             Patch([looped({p \in queue : before(p, o)}) EXCEPT ![o] = Claimed(@, w)]),
             worker' = [worker EXCEPT ![w] =
                [pc |-> "preflight", op |-> o, nonce |-> swept[o].nonces + 1,
                 revision |-> swept[o].revision,
                 executeBefore |-> swept[o].dueAt + LateGrace]]
      PROVE  QuietRows /\ QuietWorkers
  <2> DEFINE visited == {p \in queue : before(p, o)}
             rows == looped(visited)
  <2>1. o \in queue /\ o \in Op /\ swept[o].state = "pending"
    BY <1>4
  <2>2. ops' = [rows EXCEPT ![o] = Claimed(rows[o], w)]
    BY <1>8 DEF Patch
  <2>3. visited \in SUBSET queue
    OBVIOUS
  <2>4. DOMAIN rows = Op
    OBVIOUS
  <2>5. \A p \in Op : /\ rows[p] \in Operation /\ rows[p].submitted = swept[p].submitted
                      /\ QuietRow(ops[p], rows[p])
    <3> HIDE DEF visited, looped, queue, swept
    <3> QED BY <1>6, <2>3
  <2>6. QuietRow(ops[o], Claimed(rows[o], w))
    <3> HIDE DEF rows, queue, swept
    <3>1. Claimed(rows[o], w).state \in Open
          /\ Claimed(rows[o], w).submitted = swept[o].submitted
      BY <2>1, <2>5, ClaimedRow
    <3> QED BY <1>3, <2>1, <3>1
  <2>7. QuietRows
    <3> HIDE DEF rows
    <3>1. \A p \in Op : ops'[p] = IF p = o THEN Claimed(rows[o], w) ELSE rows[p]
      BY <2>2, <2>4
    <3> QED BY <2>5, <2>6, <3>1 DEF QuietRows
  <2>8. QuietWorkers
    <3> HIDE DEF swept, queue
    <3>1. \A v \in Worker : worker'[v] = IF v = w
            THEN [pc |-> "preflight", op |-> o, nonce |-> swept[o].nonces + 1,
                  revision |-> swept[o].revision,
                  executeBefore |-> swept[o].dueAt + LateGrace]
            ELSE worker[v]
      BY <1>1, <1>8 DEF TypeOK
    <3> QED BY <2>1, <3>1 DEF QuietWorkers
  <2> QED BY <2>7, <2>8
<1> QED BY <1>7, <1>8 DEF Claim

(* A worker that is refused or gives up is quiet.                           *)
LEMMA QuietProceed ==
  ASSUME TypeInv, NEW w \in Worker,
         \/ worker[w].pc # "idle" /\ Proceed(w, "refused")
         \/ Abandon(w)
  PROVE  QuietWorkers
<1>1. \A v \in Worker : v # w => worker'[v] = worker[v]
  BY DEF Proceed, Abandon, TypeInv, TypeOK
<1>2. CASE Abandon(w)
  <2>1. worker'[w] = Idle
    BY <1>2 DEF Abandon, TypeInv, TypeOK
  <2> QED BY <1>1, <2>1 DEF QuietWorkers, Idle
<1>3. CASE worker[w].pc # "idle" /\ Proceed(w, "refused")
  <2>1. worker'[w].pc = "refused" /\ worker'[w].op = worker[w].op
    BY <1>3 DEF Proceed, TypeInv, TypeOK, Process
  <2>2. worker[w].op \in Op
    BY <1>3 DEF TypeInv, Busy
  <2> QED BY <1>1, <2>1, <2>2 DEF QuietWorkers
<1> QED BY <1>2, <1>3

(* Giving up on a held claim, before the authorization.                     *)
LEMMA QuietClaimEnd ==
  ASSUME Inv, NEW w \in Worker, DeferClaim(w) \/ RejectClaim(w)
  PROVE  QuietRows /\ QuietWorkers
<1> DEFINE o == worker[w].op
<1>1. TypeInv /\ TypeOK
  BY DEF Inv, TypeInv
<1>2. QuietWorkers
  BY <1>1, QuietProceed DEF DeferClaim, RejectClaim
<1>3. o \in Op
  BY <1>1 DEF TypeInv, Busy, DeferClaim, RejectClaim
<1>4. ops[o] \in Operation
  BY <1>1, <1>3 DEF TypeOK
<1>5. CASE UNCHANGED ops
  BY <1>2, <1>5, QuietUnchanged
<1>6. CASE ops[o].state \in Unsent
           /\ \E q : /\ ops' = [ops EXCEPT ![o] = q]
                     /\ q.state \in Open /\ q.submitted = ops[o].submitted
  <2>1. PICK q : /\ ops' = [ops EXCEPT ![o] = q]
                 /\ q.state \in Open /\ q.submitted = ops[o].submitted
    BY <1>6
  <2>2. QuietRow(ops[o], q)
    BY <1>3, <1>6, <2>1, QuietUnsent
  <2> QED BY <1>1, <1>2, <1>3, <2>1, <2>2, QuietPatch
<1>7. CASE DeferClaim(w) /\ Held(w)
  <2>1. PICK delay : ops' = [ops EXCEPT ![o] = Deferred(ops[o], delay)]
    BY <1>7 DEF DeferClaim, Patch
  <2>2. Deferred(ops[o], delay).state \in Open
        /\ Deferred(ops[o], delay).submitted = ops[o].submitted
    BY <1>4, DeferredRow
  <2>3. ops[o].state \in Unsent
    BY <1>7 DEF Held, Unsent
  <2> QED BY <1>6, <2>1, <2>2, <2>3
<1>8. CASE RejectClaim(w) /\ Held(w)
  <2>1. ops' = [ops EXCEPT ![o] = Settle(ops[o], "rejected")]
    BY <1>8 DEF RejectClaim, Patch
  <2>2. Settle(ops[o], "rejected").state \in Open
        /\ Settle(ops[o], "rejected").submitted = ops[o].submitted
    BY <1>4 DEF Settle, Open, Operation
  <2>3. ops[o].state \in Unsent
    BY <1>8 DEF Held, Unsent
  <2> QED BY <1>6, <2>1, <2>2, <2>3
<1> QED BY <1>5, <1>7, <1>8 DEF DeferClaim, RejectClaim

(* The final authorization granted: from here the row's worker, and no      *)
(* other, may send, once.                                                   *)
LEMMA GrantInv ==
  ASSUME Inv, TypeOK', NEW w \in Worker, NEW o \in Op, worker[w].op = o,
         worker[w].pc = "preflight", Held(w), NEW t,
         ops' = [ops EXCEPT ![o] = [ops[o] EXCEPT !.state = "submitted", !.submitted = TRUE,
                                                  !.claim.expiresAt = t]],
         Proceed(w, "authorized") \/ Abandon(w),
         UNCHANGED <<reports, writes, effects>>
  PROVE  Busy' /\ SendInv'
<1> DEFINE submitted == [ops[o] EXCEPT !.state = "submitted", !.submitted = TRUE,
                                       !.claim.expiresAt = t]
<1>0. TypeInv /\ TypeOK /\ SendInv /\ ops[o] \in Operation
  BY DEF Inv, TypeInv, TypeOK
<1>1. ~ops[o].submitted
  <2>1. ops[o].state \in Unsent /\ RowMatches(ops[o])
    BY <1>0 DEF Held, Unsent, SendInv, StateMatches
  <2> QED BY <1>0, <2>1, UnsentRow
<1>2. Untouched(o) /\ \A v \in Worker : ~Authorized(v, o)
  BY <1>0, <1>1 DEF SendInv, UnsentUntouched
<1>3. ops'[o].state = "submitted" /\ ops'[o].submitted
  <2>1. ops'[o] = submitted
    BY <1>0 DEF TypeOK
  <2>2. submitted.state = "submitted" /\ submitted.submitted
    BY <1>0 DEF Operation
  <2> HIDE DEF submitted
  <2> QED BY <2>1, <2>2
<1>4. \A p \in Op : p # o => ops'[p] = ops[p]
  BY <1>0 DEF TypeOK
<1>5. \A v \in Worker : v # w => worker'[v] = worker[v]
  BY <1>0 DEF Proceed, Abandon, TypeOK
<1>6. worker'[w].pc # "idle" => worker'[w].op = o
  BY <1>0 DEF Proceed, Abandon, Idle, TypeOK, Process
<1>7. \A p \in Op : Untouched(p) => Untouched(p)'
  BY DEF Untouched
<1>8. \A v \in Worker, p \in Op : p # o /\ Authorized(v, p)' => Authorized(v, p)
  BY <1>5, <1>6 DEF Authorized
<1>9. \A v \in Worker : Authorized(v, o)' => v = w
  BY <1>2, <1>5 DEF Authorized
<1>10. Busy'
  BY <1>0, <1>5, <1>6 DEF TypeInv, Busy
<1>11. StateMatches'
  <2>1. RowMatches(ops'[o])
    BY <1>3 DEF RowMatches, Sent
  <2>2. \A p \in Op : p # o => RowMatches(ops'[p])
    BY <1>0, <1>4 DEF SendInv, StateMatches
  <2> QED BY <2>1, <2>2 DEF StateMatches
<1>12. UnsentUntouched'
  BY <1>0, <1>3, <1>4, <1>7, <1>8 DEF SendInv, UnsentUntouched
<1>13. AuthorizedOnce'
  <2>1. ASSUME NEW v \in Worker, NEW p \in Op, Authorized(v, p)'
        PROVE  /\ ops'[p].state \in {"submitted", "indeterminate"}
               /\ Untouched(p)'
               /\ \A u \in Worker : Authorized(u, p)' => u = v
    <3>1. CASE p = o
      BY <1>2, <1>3, <1>7, <1>9, <2>1, <3>1
    <3>2. CASE p # o
      <4>1. Authorized(v, p) /\ ops'[p] = ops[p]
        BY <1>4, <1>8, <2>1, <3>2
      <4>2. /\ ops[p].state \in {"submitted", "indeterminate"} /\ Untouched(p)
            /\ \A u \in Worker : Authorized(u, p) => u = v
        BY <1>0, <4>1 DEF SendInv, AuthorizedOnce
      <4> QED BY <1>7, <1>8, <3>2, <4>1, <4>2
    <3> QED BY <3>1, <3>2
  <2> QED BY <2>1 DEF AuthorizedOnce
<1>14. ReportsTrue'
  BY <1>0 DEF SendInv, ReportsTrue
<1>15. RowsTrue'
  <2>1. ASSUME NEW p \in Op
        PROVE  /\ writes[p] <= 1
               /\ ops'[p].state = "rejected" => effects[p] = 0
               /\ ops'[p].state = "succeeded" => effects[p] = 1
    <3>1. /\ writes[p] <= 1
          /\ ops[p].state = "rejected" => effects[p] = 0
          /\ ops[p].state = "succeeded" => effects[p] = 1
      BY <1>0 DEF SendInv, RowsTrue
    <3> QED BY <1>3, <1>4, <3>1
  <2> QED BY <2>1 DEF RowsTrue
<1> QED BY <1>10, <1>11, <1>12, <1>13, <1>14, <1>15 DEF SendInv

(* The final authorization: refused it is quiet, granted as above.           *)
LEMMA AuthorizeInv ==
  ASSUME Inv, TypeOK', NEW w \in Worker, AuthorizeSubmission(w)
  PROVE  Busy' /\ SendInv'
<1> DEFINE o == worker[w].op
           standing == Standing(o, ops[o], CreationOf(o, ops))
           submitted == [ops[o] EXCEPT !.state = "submitted", !.submitted = TRUE,
                                       !.claim.expiresAt = now + SubmitTime]
<1>1. TypeInv /\ TypeOK /\ SendInv /\ worker[w].pc = "preflight"
  BY DEF Inv, TypeInv, AuthorizeSubmission
<1>2. o \in Op
  BY <1>1 DEF TypeInv, Busy
<1>3. ops[o] \in Operation
  BY <1>1, <1>2 DEF TypeOK
<1>4. UNCHANGED <<reports, writes, effects>>
  BY DEF AuthorizeSubmission
<1>5. CASE Proceed(w, "refused") /\ UNCHANGED ops
  BY <1>1, <1>4, <1>5, QuietProceed, QuietUnchanged, QuietStep
<1>6. ASSUME Held(w), Proceed(w, "refused"), NEW q, ops' = [ops EXCEPT ![o] = q],
             q.state \in Open, q.submitted = ops[o].submitted
      PROVE  Busy' /\ SendInv'
  <2>1. ops[o].state \in Unsent
    BY <1>6 DEF Held, Unsent
  <2>2. QuietRow(ops[o], q)
    BY <1>2, <1>6, <2>1, QuietUnsent
  <2>3. QuietRows
    BY <1>1, <1>2, <1>6, <2>2, QuietPatch
  <2> QED BY <1>1, <1>4, <1>6, <2>3, QuietProceed, QuietStep
<1>7. CASE Held(w) /\ Proceed(w, "refused")
           /\ ops' = [ops EXCEPT ![o] = Denied(ops[o], standing)]
  <2> HIDE DEF standing
  <2>1. Denied(ops[o], standing).state \in Open
        /\ Denied(ops[o], standing).submitted = ops[o].submitted
    BY <1>3, DeniedRow
  <2> QED BY <1>6, <1>7, <2>1
<1>8. CASE Held(w) /\ Proceed(w, "refused")
           /\ ops' = [ops EXCEPT ![o] = Settle(ops[o], "rejected")]
  <2>1. Settle(ops[o], "rejected").state \in Open
        /\ Settle(ops[o], "rejected").submitted = ops[o].submitted
    BY <1>3 DEF Settle, Open, Operation
  <2> QED BY <1>6, <1>8, <2>1
<1>9. CASE /\ Held(w) /\ ops' = [ops EXCEPT ![o] = submitted]
           /\ Proceed(w, "authorized") \/ Abandon(w)
  <2>1. \A p \in Op : worker[w].op = p /\ ops' = [ops EXCEPT ![p] =
          [ops[p] EXCEPT !.state = "submitted", !.submitted = TRUE,
                         !.claim.expiresAt = now + SubmitTime]] => Busy' /\ SendInv'
    BY <1>1, <1>4, <1>9, GrantInv
  <2> QED BY <1>2, <1>9, <2>1
<1> QED BY <1>5, <1>7, <1>8, <1>9 DEF AuthorizeSubmission, Patch

(* The pages of the event fan-out and of the rejection are quiet.           *)
LEMMA QuietPages ==
  ASSUME Inv
  PROVE  /\ \A cancel, e, cursor : SyncPage(cancel, e, cursor) => QuietRows
         /\ \A page, epoch : RejectRows(page, epoch) => QuietRows
<1>1. \A o \in Op : ops[o] \in Operation /\ RowMatches(ops[o])
  BY DEF Inv, SendInv, TypeInv, TypeOK, StateMatches
<1>2. ASSUME NEW cancel, NEW e, NEW cursor, SyncPage(cancel, e, cursor)
      PROVE  QuietRows
  <2>1. \A o \in Op : QuietRow(ops[o], Synced(ops[o], cancel, e)) /\ QuietRow(ops[o], ops[o])
    BY <1>1, SyncedRow DEF QuietRow
  <2>2. \A o \in Op : ops'[o] \in {Synced(ops[o], cancel, e), ops[o]}
    BY <1>2 DEF SyncPage
  <2> QED BY <2>1, <2>2 DEF QuietRows
<1>3. ASSUME NEW page, NEW epoch, RejectRows(page, epoch)
      PROVE  QuietRows
  <2> DEFINE rejected(o) == Unclaimed(Settle(ops[o], "rejected"))
  <2>1. \A o \in Op : /\ rejected(o).state = "rejected"
                      /\ rejected(o).submitted = ops[o].submitted
    BY <1>1, UnclaimedSettled DEF State, Settled, Failure
  <2>2. \A o \in Op : ops'[o] = IF o \in page /\ ops[o].epoch <= epoch /\ ~ops[o].submitted
                                  THEN rejected(o) ELSE ops[o]
    BY <1>3 DEF RejectRows, Patch
  <2>3. \A o \in Op : QuietRow(ops[o], ops[o])
    BY DEF QuietRow
  <2> HIDE DEF rejected
  <2>4. \A o \in Op : ~ops[o].submitted => QuietRow(ops[o], rejected(o))
    BY <2>1 DEF QuietRow, Open
  <2> QED BY <2>2, <2>3, <2>4 DEF QuietRows
<1> QED BY <1>2, <1>3

(* The crons and the scheduled calls are quiet.                             *)
LEMMA QuietServer ==
  ASSUME Inv,
         \/ \E e \in expiries : ExpireSubmission(e)
         \/ \E o \in Op : ExpireUnsent(o)
         \/ \E c \in fanout : SyncEventSchedule(c)
         \/ \E c \in rejections : RejectConnectionOperationsPage(c)
  PROVE  QuietRows
<1>1. TypeOK /\ \A o \in Op : ops[o] \in Operation
  BY DEF Inv, TypeInv, TypeOK
<1>2. ASSUME NEW e \in expiries, ExpireSubmission(e) PROVE QuietRows
  <2>1. e.op \in Op
    BY <1>1 DEF TypeOK
  <2>2. CASE UNCHANGED ops
    BY <2>2, QuietUnchanged
  <2>3. CASE ops[e.op].state = "submitted"
             /\ ops' = [ops EXCEPT ![e.op] = Settle(ops[e.op], "indeterminate")]
    <3>1. QuietRow(ops[e.op], Settle(ops[e.op], "indeterminate"))
      BY <1>1, <2>1, <2>3 DEF Settle, QuietRow, Operation
    <3> QED BY <1>1, <2>1, <2>3, <3>1, QuietPatch
  <2> QED BY <1>2, <2>2, <2>3 DEF ExpireSubmission, Patch
<1>3. ASSUME NEW o \in Op, ExpireUnsent(o) PROVE QuietRows
  <2>1. ops' = [ops EXCEPT ![o] = Expired(ops[o])] /\ ops[o].state \in Unsent
    BY <1>3 DEF ExpireUnsent, Patch
  <2>2. Expired(ops[o]).state \in Open /\ Expired(ops[o]).submitted = ops[o].submitted
    BY <1>1, <2>1, ExpiredRow
  <2>3. QuietRow(ops[o], Expired(ops[o]))
    BY <2>1, <2>2, QuietUnsent
  <2> QED BY <1>1, <2>1, <2>3, QuietPatch
<1> QED BY <1>2, <1>3, QuietPages DEF SyncEventSchedule, RejectConnectionOperationsPage

-----------------------------------------------------------------------------
(* The request goes out, or is called off: the one authorized worker turns  *)
(* idle and files the only report of its operation.                         *)
LEMMA SendStep ==
  ASSUME Inv, NEW w \in Worker, NEW o \in Op, Authorized(w, o),
         Abandon(w), UNCHANGED ops,
         NEW n \in {0, 1}, NEW k \in {0, 1},
         writes' = [writes EXCEPT ![o] = n], effects' = [effects EXCEPT ![o] = k],
         NEW r, reports' = reports \cup {r}, r.op = o,
         r.status = "succeeded" => k = 1,
         r.status = "rejected" => k = 0
  PROVE  Busy' /\ SendInv'
<1>1. TypeOK /\ Busy /\ StateMatches /\ UnsentUntouched /\ AuthorizedOnce /\ ReportsTrue
      /\ RowsTrue
  BY DEF Inv, SendInv, TypeInv
<1>2. /\ ops[o].state \in {"submitted", "indeterminate"} /\ Untouched(o)
      /\ \A v \in Worker : Authorized(v, o) => v = w
  BY <1>1 DEF AuthorizedOnce
<1>3. /\ writes'[o] = n /\ effects'[o] = k
      /\ \A p \in Op : p # o => writes'[p] = writes[p] /\ effects'[p] = effects[p]
  BY <1>1 DEF TypeOK
<1>4. /\ worker'[w].pc = "idle"
      /\ \A v \in Worker : v # w => worker'[v] = worker[v]
  BY <1>1 DEF Abandon, Idle, TypeOK
<1>5. \A p \in Op : p # o /\ Untouched(p) => Untouched(p)'
  BY <1>3 DEF Untouched
<1>6. \A v \in Worker, p \in Op : Authorized(v, p)' => p # o /\ Authorized(v, p)
  BY <1>2, <1>4 DEF Authorized
<1>7. Busy'
  BY <1>1, <1>4 DEF Busy
<1>8. StateMatches'
  BY <1>1 DEF StateMatches
<1>9. UnsentUntouched'
  <2>1. ops[o].submitted
    BY <1>1, <1>2 DEF StateMatches, RowMatches, Sent
  <2> QED BY <1>1, <1>5, <1>6, <2>1 DEF UnsentUntouched
<1>10. AuthorizedOnce'
  <2>1. ASSUME NEW v \in Worker, NEW p \in Op, Authorized(v, p)'
        PROVE  /\ ops'[p].state \in {"submitted", "indeterminate"}
               /\ Untouched(p)'
               /\ \A u \in Worker : Authorized(u, p)' => u = v
    <3>1. p # o /\ Authorized(v, p)
      BY <1>6, <2>1
    <3>2. /\ ops[p].state \in {"submitted", "indeterminate"} /\ Untouched(p)
          /\ \A u \in Worker : Authorized(u, p) => u = v
      BY <1>1, <3>1 DEF AuthorizedOnce
    <3> QED BY <1>5, <1>6, <3>1, <3>2
  <2> QED BY <2>1 DEF AuthorizedOnce
<1>11. ReportsTrue'
  <2>1. ASSUME NEW q \in reports'
        PROVE  /\ q.status = "succeeded" => effects'[q.op] = 1
               /\ q.status = "rejected" => effects'[q.op] = 0
    <3>1. CASE q = r
      BY <1>3, <3>1
    <3>2. CASE q \in reports
      <4>1. q.op \in Op /\ q.op # o
        BY <1>1, <1>2, <3>2 DEF Untouched, TypeOK, Report
      <4>2. effects'[q.op] = effects[q.op]
        BY <1>3, <4>1
      <4> QED BY <1>1, <3>2, <4>2 DEF ReportsTrue
    <3> QED BY <3>1, <3>2
  <2> QED BY <2>1 DEF ReportsTrue
<1>12. RowsTrue'
  <2>1. ASSUME NEW p \in Op
        PROVE  /\ writes'[p] <= 1
               /\ ops'[p].state = "rejected" => effects'[p] = 0
               /\ ops'[p].state = "succeeded" => effects'[p] = 1
    <3>1. CASE p = o
      BY <1>2, <1>3, <3>1
    <3>2. CASE p # o
      BY <1>1, <1>3, <3>2 DEF RowsTrue
    <3> QED BY <3>1, <3>2
  <2> QED BY <2>1 DEF RowsTrue
<1> QED BY <1>7, <1>8, <1>9, <1>10, <1>11, <1>12 DEF SendInv

(* Both outcomes of an authorization preserve the invariant: the request    *)
(* goes out, or the worker calls it off.                                    *)
LEMMA WriteInv ==
  ASSUME Inv, NEW w \in Worker, ProviderWrite(w) \/ WriteNotAttempted(w)
  PROVE  Busy' /\ SendInv'
<1>1. TypeOK /\ Busy /\ worker[w].pc = "authorized" /\ worker[w].op \in Op
  BY DEF Inv, TypeInv, Busy, ProviderWrite, WriteNotAttempted
<1>2. PICK o \in Op : o = worker[w].op
  BY <1>1
<1>3. Authorized(w, o)
  BY <1>1, <1>2 DEF Authorized
<1>4. writes[o] = 0 /\ effects[o] = 0
  <2>1. AuthorizedOnce
    BY DEF Inv, SendInv
  <2> QED BY <1>3, <2>1 DEF AuthorizedOnce, Untouched
<1>5. Abandon(w) /\ UNCHANGED ops
  BY DEF ProviderWrite, WriteNotAttempted
<1>6. \A status : SendReport(w, status) =>
        \E r : reports' = reports \cup {r} /\ r.op = o /\ r.status = status
  <2>1. ASSUME NEW status, SendReport(w, status)
        PROVE  \E r : reports' = reports \cup {r} /\ r.op = o /\ r.status = status
    <3> DEFINE r == [op |-> worker[w].op, nonce |-> worker[w].nonce, holder |-> w,
                     token |-> session[w].token, epoch |-> session[w].epoch,
                     key |-> session[w].key, status |-> status]
    <3>1. reports' = reports \cup {r}
      BY <2>1 DEF SendReport
    <3>2. r.op = o /\ r.status = status
      BY <1>2
    <3> HIDE DEF r
    <3> QED BY <3>1, <3>2
  <2> QED BY <2>1
<1>7. CASE ProviderWrite(w)
  <2>1. PICK answer \in Answers :
          /\ writes' = [writes EXCEPT ![o] = writes[o] + 1]
          /\ effects' = [effects EXCEPT ![o] = effects[o] + (IF answer.applied THEN 1 ELSE 0)]
          /\ SendReport(w, answer.status)
    BY <1>2, <1>7 DEF ProviderWrite
  <2>2. PICK r : reports' = reports \cup {r} /\ r.op = o /\ r.status = answer.status
    BY <1>6, <2>1
  <2>3. PICK k \in {0, 1} : k = IF answer.applied THEN 1 ELSE 0
    OBVIOUS
  <2>4. writes' = [writes EXCEPT ![o] = 1] /\ effects' = [effects EXCEPT ![o] = k]
    BY <1>4, <2>1, <2>3
  <2>5. /\ r.status = "succeeded" => k = 1
        /\ r.status = "rejected" => k = 0
    BY <2>2, <2>3 DEF Answers
  <2> QED BY <1>3, <1>5, <2>2, <2>4, <2>5, SendStep
<1>8. CASE WriteNotAttempted(w)
  <2>1. PICK r : reports' = reports \cup {r} /\ r.op = o /\ r.status = "rejected"
    BY <1>6, <1>8 DEF WriteNotAttempted
  <2>2. writes' = [writes EXCEPT ![o] = 0] /\ effects' = [effects EXCEPT ![o] = 0]
    BY <1>1, <1>4, <1>8 DEF WriteNotAttempted, TypeOK
  <2> QED BY <1>3, <1>5, <2>1, <2>2, SendStep
<1> QED BY <1>7, <1>8

(* An answer is taken only for the submission it belongs to, and it is true. *)
LEMMA CompleteInv ==
  ASSUME Inv, NEW r \in reports, Complete(r)
  PROVE  Busy' /\ SendInv'
<1>1. TypeOK /\ Busy /\ StateMatches /\ UnsentUntouched /\ AuthorizedOnce /\ ReportsTrue
      /\ RowsTrue
  BY DEF Inv, SendInv, TypeInv
<1>2. PICK o \in Op : o = r.op
  BY <1>1 DEF TypeOK, Report
<1>3. r.status \in Status
  BY <1>1 DEF TypeOK, Report
<1>4. /\ ops[o].state = "submitted"
      /\ ops' = [ops EXCEPT ![o] = Settle(ops[o], r.status)]
      /\ UNCHANGED <<worker, reports, writes, effects>>
  BY <1>2 DEF Complete, Patch
<1>5. /\ ops'[o].state = r.status /\ ops'[o].submitted = ops[o].submitted
      /\ \A p \in Op : p # o => ops'[p] = ops[p]
  <2>1. ops[o] \in Operation
    BY <1>1 DEF TypeOK
  <2>2. Settle(ops[o], r.status).state = r.status
        /\ Settle(ops[o], r.status).submitted = ops[o].submitted
    BY <2>1 DEF Settle, Operation
  <2> QED BY <1>1, <1>4, <2>2 DEF TypeOK
<1>6. \A w \in Worker : ~Authorized(w, o)
  BY <1>1, <1>2 DEF AuthorizedOnce, Untouched
<1>7. ops[o].submitted
  BY <1>1, <1>4 DEF StateMatches, RowMatches, Sent
<1>8. Busy' /\ ReportsTrue'
  BY <1>1, <1>4 DEF Busy, ReportsTrue
<1>9. StateMatches'
  <2>1. RowMatches(ops'[o])
    BY <1>3, <1>5, <1>7 DEF RowMatches, Status, Sent
  <2> QED BY <1>1, <1>5, <2>1 DEF StateMatches
<1>10. UnsentUntouched'
  BY <1>1, <1>4, <1>5, <1>7 DEF UnsentUntouched, Untouched, Authorized
<1>11. AuthorizedOnce'
  <2>1. \A w \in Worker, p \in Op : Authorized(w, p)' => p # o /\ Authorized(w, p)
    BY <1>4, <1>6 DEF Authorized
  <2>2. \A p \in Op : Untouched(p) => Untouched(p)'
    BY <1>4 DEF Untouched
  <2>3. ASSUME NEW v \in Worker, NEW p \in Op, Authorized(v, p)'
        PROVE  /\ ops'[p].state \in {"submitted", "indeterminate"}
               /\ Untouched(p)'
               /\ \A u \in Worker : Authorized(u, p)' => u = v
    <3>1. p # o /\ Authorized(v, p)
      BY <2>1, <2>3
    <3>2. /\ ops[p].state \in {"submitted", "indeterminate"} /\ Untouched(p)
          /\ \A u \in Worker : Authorized(u, p) => u = v
      BY <1>1, <3>1 DEF AuthorizedOnce
    <3> QED BY <1>5, <2>1, <2>2, <3>1, <3>2
  <2> QED BY <2>3 DEF AuthorizedOnce
<1>12. RowsTrue'
  <2>1. /\ r.status = "succeeded" => effects[o] = 1
        /\ r.status = "rejected" => effects[o] = 0
    BY <1>1, <1>2 DEF ReportsTrue
  <2> QED BY <1>1, <1>4, <1>5, <2>1 DEF RowsTrue
<1> QED BY <1>8, <1>9, <1>10, <1>11, <1>12 DEF SendInv

-----------------------------------------------------------------------------
(* The invariant holds initially.                                           *)
LEMMA InitInv == Init => Inv
<1> SUFFICES ASSUME Init PROVE Inv
  OBVIOUS
<1>1. TypeOK
  BY InitTypeOK
<1>2. \A w \in Worker : worker[w].pc = "idle"
  BY DEF Init, Idle
<1>3. \A o \in Op : ops[o].state = "absent" /\ ops[o].submitted = FALSE
  BY DEF Init, Absent
<1>4. reports = {} /\ \A o \in Op : writes[o] = 0 /\ effects[o] = 0
  BY DEF Init
<1>5. Busy
  BY <1>2 DEF Busy
<1>6. StateMatches
  BY <1>3 DEF StateMatches, RowMatches, Sent
<1>7. UnsentUntouched /\ AuthorizedOnce
  BY <1>2, <1>4 DEF UnsentUntouched, AuthorizedOnce, Authorized, Untouched
<1>8. ReportsTrue /\ RowsTrue
  BY <1>3, <1>4 DEF ReportsTrue, RowsTrue
<1> QED BY <1>1, <1>5, <1>6, <1>7, <1>8 DEF Inv, TypeInv, SendInv

(* Every step preserves the invariant.                                      *)
LEMMA NextInv ==
  ASSUME Inv, Next
  PROVE  Inv'
<1>1. TypeOK'
  BY TypeStep DEF Inv
<1> SUFFICES Busy' /\ SendInv'
  BY <1>1 DEF Inv, TypeInv
<1>2. ASSUME QuietRows, QuietWorkers, UNCHANGED <<reports, writes, effects>>
      PROVE  Busy' /\ SendInv'
  BY <1>1, <1>2, QuietStep
<1>3. CASE ConnectionStep \/ Clock
  BY <1>2, <1>3, QuietUnchanged DEF ConnectionStep, Clock, operationVars
<1>4. CASE StaffStep
  <2>1. PICK o \in Op : Enqueue(o) \/ Edit(o) \/ Cancel(o)
    BY <1>4 DEF StaffStep
  <2>2. UNCHANGED <<worker, reports, writes, effects>>
    BY <2>1 DEF Enqueue, Edit, Cancel
  <2> QED BY <1>2, <2>1, <2>2, QuietStaff, QuietUnchanged
<1>5. CASE WorkerStep
  <2>1. PICK w \in Worker : \/ Claim(w) \/ AuthorizeSubmission(w) \/ DeferClaim(w)
                            \/ RejectClaim(w) \/ ProviderWrite(w) \/ WriteNotAttempted(w)
                            \/ Crash(w) \/ (worker[w].pc = "idle" /\ Left(w))
    BY <1>5 DEF WorkerStep
  <2>2. CASE Claim(w)
    <3>1. UNCHANGED <<reports, writes, effects>>
      BY <2>2 DEF Claim
    <3> QED BY <1>2, <2>2, <3>1, QuietClaim
  <2>3. CASE AuthorizeSubmission(w)
    BY <1>1, <2>3, AuthorizeInv
  <2>4. CASE DeferClaim(w) \/ RejectClaim(w)
    <3>1. UNCHANGED <<reports, writes, effects>>
      BY <2>4 DEF DeferClaim, RejectClaim
    <3> QED BY <1>2, <2>4, <3>1, QuietClaimEnd
  <2>5. CASE ProviderWrite(w) \/ WriteNotAttempted(w)
    BY <2>5, WriteInv
  <2>6. CASE Crash(w)
    <3>1. Abandon(w) /\ UNCHANGED <<ops, reports, writes, effects>>
      BY <2>6 DEF Crash
    <3>2. QuietWorkers
      BY <3>1, QuietProceed DEF Inv
    <3> QED BY <1>2, <3>1, <3>2, QuietUnchanged
  <2>7. CASE Left(w)
    BY <1>2, <2>7, QuietPages, QuietUnchanged DEF Left, RejectUnsent
  <2> QED BY <2>1, <2>2, <2>3, <2>4, <2>5, <2>6, <2>7
<1>6. CASE ServerStep
  <2>1. CASE \E r \in reports : Complete(r)
    BY <2>1, CompleteInv
  <2>2. CASE \/ \E e \in expiries : ExpireSubmission(e)
             \/ \E o \in Op : ExpireUnsent(o)
             \/ \E c \in fanout : SyncEventSchedule(c)
             \/ \E c \in rejections : RejectConnectionOperationsPage(c)
    <3>1. QuietRows
      BY <2>2, QuietServer
    <3>2. UNCHANGED <<worker, reports, writes, effects>>
      BY <2>2 DEF ExpireSubmission, ExpireUnsent, SyncEventSchedule,
                  RejectConnectionOperationsPage
    <3> QED BY <1>2, <3>1, <3>2, QuietUnchanged
  <2> QED BY <1>6, <2>1, <2>2 DEF ServerStep
<1>7. CASE EnvironmentStep
  <2>1. ASSUME NEW cancel, NEW e, ChangeEvent(cancel, e)
        PROVE  Busy' /\ SendInv'
    <3>1. UNCHANGED <<worker, reports, writes, effects>> /\ QuietRows
      BY <2>1, QuietPages DEF ChangeEvent
    <3> QED BY <1>2, <3>1, QuietUnchanged
  <2>2. CASE (\E b \in BOOLEAN : SetEventCancelled(b)) \/ RescheduleEvent \/ RetractEvent
    BY <2>1, <2>2 DEF SetEventCancelled, RescheduleEvent, RetractEvent
  <2>3. CASE Disconnect \/ Reconnect
    <3>1. RejectUnsent(integration.epoch)
      BY <2>3 DEF Disconnect, Reconnect
    <3>2. UNCHANGED <<worker, reports, writes, effects>> /\ QuietRows
      BY <3>1, QuietPages DEF RejectUnsent
    <3> QED BY <1>2, <3>2, QuietUnchanged
  <2>4. CASE SetConnectorActive
    BY <1>2, <2>4, QuietUnchanged DEF SetConnectorActive
  <2> QED BY <1>7, <2>2, <2>3, <2>4 DEF EnvironmentStep
<1> QED BY <1>3, <1>4, <1>5, <1>6, <1>7 DEF Next

(* So does a stuttering step.                                               *)
LEMMA StutterInv ==
  ASSUME Inv, UNCHANGED vars
  PROVE  Inv'
<1>1. TypeOK'
  BY ConnectionUnchanged DEF Inv, TypeInv, TypeOK, vars, operationVars
<1>2. QuietRows /\ QuietWorkers /\ UNCHANGED <<reports, writes, effects>>
  BY QuietUnchanged DEF vars, operationVars
<1> QED BY <1>1, <1>2, QuietStep DEF Inv, TypeInv

(* Inv is inductive.                                                        *)
THEOREM Invariance == Spec => []Inv
<1>1. Inv /\ [Next]_vars => Inv'
  BY NextInv, StutterInv
<1> QED BY InitInv, <1>1, PTL DEF Spec

(* Every reachable state of the queue is well typed, whatever the workers,  *)
(* staff, provider and event owners do and in whatever order.               *)
THEOREM TypeCorrect == Spec => []TypeOK
<1>1. Inv => TypeOK
  BY DEF Inv, TypeInv
<1> QED BY Invariance, <1>1, PTL

(* The write of one operation is sent to VRChat at most once: no claim,     *)
(* sweep, retry, crash, duplicate report or lease change sends it again.    *)
THEOREM WritesOnce == Spec => []AtMostOneWrite
<1>1. Inv => AtMostOneWrite
  BY DEF Inv, SendInv, RowsTrue, AtMostOneWrite
<1> QED BY Invariance, <1>1, PTL

(* The row never says more than is known of the provider: unsent work was   *)
(* not sent, a rejection had no effect, a success had its effect once.      *)
THEOREM OutcomesTrue == Spec => []TruthfulOutcome
<1>1. ASSUME Inv, NEW o \in Op
      PROVE  /\ ops[o].state \in {"absent", "cancelled", "missed"} \cup Unsent => writes[o] = 0
             /\ ops[o].state = "rejected" => effects[o] = 0
             /\ ops[o].state = "succeeded" => effects[o] = 1
  <2>1. StateMatches /\ UnsentUntouched /\ RowsTrue
    BY <1>1 DEF Inv, SendInv
  <2>2. ops[o].state \in {"absent", "cancelled", "missed"} \cup Unsent => ~ops[o].submitted
    BY <2>1 DEF StateMatches, RowMatches, Sent, Unsent
  <2>3. ~ops[o].submitted => writes[o] = 0
    BY <2>1 DEF UnsentUntouched, Untouched
  <2> QED BY <2>1, <2>2, <2>3 DEF RowsTrue
<1>2. Inv => TruthfulOutcome
  BY <1>1 DEF TruthfulOutcome
<1> QED BY Invariance, <1>2, PTL
=============================================================================
