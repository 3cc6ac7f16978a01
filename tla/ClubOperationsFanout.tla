------------------------ MODULE ClubOperationsFanout ------------------------
(***************************************************************************)
(* That the paged fan-out of a change of the event misses nobody, proved   *)
(* for every number of operations, every page size and every order of the  *)
(* pages against claims, edits, sweeps and further changes: FanoutComplete. *)
(***************************************************************************)
EXTENDS ClubOperationsOutcomes, FiniteSetTheorems

(* What the present event allows an action that is tied to its time.        *)
Timely(op) == /\ ~event.cancelled
              /\ Relative(op) => event.timed /\ op.dueAt = EventTime(op)

(* Why an unsent action of the event is in order, or about to be: it agrees *)
(* with the event, or a page that has yet to run will come to it.           *)
Reached(o) == \E c \in fanout : c.cursor < o
InOrder(o) == ops[o].state \in Unsent /\ ops[o].schedule # "fixed" =>
                Timely(ops[o]) \/ Reached(o)

FanoutInv == \A o \in Op : InOrder(o)

-----------------------------------------------------------------------------
(* Pages of rows in creation order.                                         *)

(* The order of the naturals is well founded.                               *)
LEMMA Below == IsWellFoundedOn({p \in Nat \X Nat : p[1] < p[2]}, Nat)
  BY NatLessThanWellFounded DEF OpToRel

(* A set of operations has a first one.                                     *)
LEMMA FirstOf ==
  ASSUME NEW S \in SUBSET Op, S # {}
  PROVE  \E m \in S : \A x \in S : m <= x
<1>1. S \subseteq Nat
  BY OperationsAssumption
<1>2. PICK m \in S : \A x \in S : <<x, m>> \notin {p \in Nat \X Nat : p[1] < p[2]}
  BY <1>1, Below, WFMin
<1>3. \A x \in S : ~(x < m)
  BY <1>1, <1>2
<1> QED BY <1>1, <1>3

(* A set of operations has a last one: the one after which the fewest come. *)
LEMMA LastOf ==
  ASSUME NEW S \in SUBSET Op, S # {}
  PROVE  \E m \in S : \A x \in S : x <= m
<1> DEFINE after(x) == {y \in S : y > x}
           T == {after(x) : x \in S}
<1>1. S \subseteq Nat /\ IsFiniteSet(S)
  BY OperationsAssumption, FS_Subset
<1>2. T # {} /\ T \subseteq FiniteSubsetsOf(S)
  <2>1. \A x \in S : after(x) \in FiniteSubsetsOf(S)
    BY <1>1, FS_Subset DEF FiniteSubsetsOf
  <2> QED BY <2>1
<1>3. PICK t \in T : \A u \in T : <<u, t>> \notin StrictSubsetOrdering(S)
  <2> HIDE DEF T
  <2> QED BY <1>2, FS_StrictSubsetOrderingWellFounded, WFMin
<1>4. PICK m \in S : t = after(m)
  OBVIOUS
<1>5. ASSUME NEW x \in S, x > m
      PROVE  FALSE
  <2>1. after(x) \subseteq after(m)
    <3>1. \A y \in S : y \in Nat /\ x \in Nat /\ m \in Nat
      BY <1>1, <1>5
    <3>2. \A y \in S : y > x => y > m
      BY <1>5, <3>1
    <3> QED BY <3>2
  <2>2. x \in after(m) /\ x \notin after(x)
    BY <1>1, <1>5
  <2>3. <<after(x), after(m)>> \in StrictSubsetOrdering(S)
    BY <2>1, <2>2 DEF StrictSubsetOrdering
  <2> QED BY <1>3, <1>4, <2>3
<1> QED BY <1>1, <1>5

(* The page is a first stretch of the rows: a row it leaves out comes after *)
(* its last one, where the next page begins.                                *)
LEMMA PageEnds ==
  ASSUME NEW rows \in SUBSET Op, NEW o \in rows, o \notin PageOf(rows)
  PROVE  \E m \in PageOf(rows) : (\A x \in PageOf(rows) : x <= m) /\ m < o
<1> DEFINE before(x) == {y \in rows : y < x}
           page == PageOf(rows)
<1>1. rows \subseteq Nat /\ IsFiniteSet(rows)
  BY OperationsAssumption, FS_Subset
<1>2. \A x \in rows : /\ before(x) \in SUBSET rows /\ IsFiniteSet(before(x))
                      /\ Cardinality(before(x)) \in Nat
  BY <1>1, FS_Subset, FS_CardinalityType
<1>3. page \in SUBSET rows /\ \A x \in rows : x \in page <=> Cardinality(before(x)) < PageSize
  BY DEF PageOf
<1> HIDE DEF page
<1>4. page # {}
  <2>1. PICK x \in rows : \A y \in rows : x <= y
    BY FirstOf
  <2>2. before(x) = {}
    <3>1. \A y \in rows : x <= y /\ x \in Nat /\ y \in Nat
      BY <1>1, <2>1
    <3>2. \A y \in rows : ~(y < x)
      BY <3>1
    <3> QED BY <3>2
  <2>3. Cardinality(before(x)) < PageSize
    BY <2>2, FS_EmptySet, OperationsAssumption
  <2> QED BY <1>3, <2>3
<1>5. PICK m \in page : \A x \in page : x <= m
  <2>1. page \in SUBSET Op
    BY <1>3
  <2> QED BY <1>4, <2>1, LastOf
<1>6. m < o
  <2>0. m \in Nat /\ o \in Nat /\ m # o
    BY <1>1, <1>3, <1>5 DEF page
  <2> SUFFICES ASSUME o < m PROVE FALSE
    BY <2>0
  <2>1. before(o) \subseteq before(m)
    <3>1. \A y \in rows : y \in Nat
      BY <1>1
    <3>2. \A y \in rows : y < o => y < m
      BY <2>0, <3>1
    <3> QED BY <3>2
  <2>2. Cardinality(before(o)) <= Cardinality(before(m))
    BY <1>2, <1>3, <2>1, FS_Subset
  <2>3. Cardinality(before(o)) < PageSize
    <3>1. Cardinality(before(m)) < PageSize
      BY <1>3
    <3>2. Cardinality(before(o)) \in Nat /\ Cardinality(before(m)) \in Nat
      BY <1>2, <1>3
    <3> HIDE DEF before
    <3> QED BY <2>2, <3>1, <3>2, OperationsAssumption
  <2> QED BY <1>3, <2>3 DEF page
<1> QED BY <1>5, <1>6 DEF page

-----------------------------------------------------------------------------
(* Transactions that leave the event and its pages alone.                   *)

(* What they do to a row: what ties it to the event stays, its time is the  *)
(* old one or the event's, and a row that was sent is not taken back.       *)
Drifts(p, q) == /\ q.schedule = p.schedule /\ q.offset = p.offset
                /\ q.dueAt \in {p.dueAt, EventTime(p)}
                /\ q.state \in Unsent => p.state \in Unsent

(* A row staff have just planned agrees with the event they planned it by.  *)
RowsDrift == \A o \in Op : \/ Drifts(ops[o], ops'[o])
                           \/ ops'[o].schedule # "fixed" => Timely(ops'[o])

(* Settling a row, with or without its claim, or queueing an unsent one.    *)
LEMMA DriftSettle ==
  ASSUME NEW op \in Operation, NEW s, s \in Unsent => op.state \in Unsent
  PROVE  Drifts(op, Settle(op, s)) /\ Drifts(op, Unclaimed(Settle(op, s)))
  BY DEF Drifts, Settle, Unclaimed, Operation

(* Taking a row to the event's time, in the queue or back into it.          *)
LEMMA DriftRetimed ==
  ASSUME NEW op \in Operation, op.state \in Unsent
  PROVE  Drifts(op, Retimed(op)) /\ Drifts(op, Requeued(op))
<1>1. Drifts(op, Retimed(op))
  BY DEF Drifts, Retimed, Operation
<1>2. Drifts(op, Requeued(op))
  BY DEF Drifts, Requeued, Unclaimed, Settle, Retimed, Operation
<1> QED BY <1>1, <1>2

(* The cron's verdict.                                                      *)
LEMMA DriftExpired ==
  ASSUME NEW op \in Operation, op.state \in Unsent
  PROVE  Drifts(op, Expired(op))
<1>1. Drifts(op, op) /\ Drifts(op, Requeued(op)) /\ Drifts(op, Unclaimed(Settle(op, "cancelled")))
  BY DriftRetimed, DriftSettle DEF Drifts
<1>2. ASSUME NEW due \in {op.dueAt, EventTime(op)}
      PROVE  Drifts(op, [Unclaimed(Settle(op, "missed")) EXCEPT !.dueAt = due])
  BY <1>2, States DEF Drifts, Unclaimed, Settle, Operation
<1> QED BY <1>1, <1>2 DEF Expired

(* A deferral.                                                              *)
LEMMA DriftDeferred ==
  ASSUME NEW op \in Operation, op.state \in Unsent, NEW delay
  PROVE  Drifts(op, Deferred(op, delay))
  BY DEF Drifts, Deferred, Unclaimed, Settle, Operation

(* claim, for a row it sweeps and a row it disposes of.                     *)
LEMMA DriftSwept ==
  ASSUME TypeOK, NEW op \in Operation
  PROVE  /\ Swept(op) \in Operation /\ Drifts(op, Swept(op))
         /\ Swept(op).state = "pending" =>
              \A standing : Drifts(op, Disposed(Swept(op), standing))
<1> DEFINE swept == Swept(op)
<1>1. /\ swept.schedule = op.schedule /\ swept.offset = op.offset /\ swept.dueAt = op.dueAt
      /\ swept.state \in Unsent => op.state \in Unsent
      /\ EventTime(swept) = EventTime(op)
  BY States DEF Swept, Unclaimed, Settle, EventTime, Operation
<1>2. swept \in Operation
  BY SweptType
<1> HIDE DEF swept
<1>3. ASSUME NEW standing, swept.state = "pending"
      PROVE  Drifts(op, Disposed(swept, standing))
  <2>1. Drifts(swept, Disposed(swept, standing))
    BY <1>2, <1>3, DriftSettle, DriftRetimed, States DEF Disposed, Drifts, Operation
  <2> QED BY <1>1, <1>3, <2>1, States DEF Drifts
<1>4. Drifts(op, swept)
  BY <1>1 DEF Drifts
<1> QED BY <1>2, <1>3, <1>4 DEF swept

(* Handing a row out leaves its time alone.                                 *)
LEMMA DriftClaimed ==
  ASSUME NEW op \in Operation, op.state \in Unsent, NEW q \in Operation, Drifts(op, q), NEW w
  PROVE  Drifts(op, Claimed(q, w))
  BY DEF Claimed, Drifts, Operation

(* One row that drifts among rows that stay.                                *)
LEMMA DriftPatch ==
  ASSUME TypeOK, NEW o \in Op, NEW q, ops' = [ops EXCEPT ![o] = q],
         \/ Drifts(ops[o], q)
         \/ q.schedule # "fixed" => Timely(q)
  PROVE  RowsDrift
<1>1. \A p \in Op : ops'[p] = IF p = o THEN q ELSE ops[p]
  BY DEF TypeOK
<1>2. \A p \in Op : Drifts(ops[p], ops[p])
  BY DEF Drifts
<1> QED BY <1>1, <1>2 DEF RowsDrift

(* claim: sweep, loop and hand-out together.                                *)
LEMMA DriftClaim ==
  ASSUME TypeOK, TypeOK', NEW w \in Worker, Claim(w)
  PROVE  RowsDrift
<1> DEFINE swept == [o \in Op |-> Swept(ops[o])]
           queue == {o \in Op : swept[o].state = "pending" /\ swept[o].readyAt <= now}
           before(p, o) == \/ swept[p].readyAt < swept[o].readyAt
                           \/ swept[p].readyAt = swept[o].readyAt /\ p < o
           disposed(o) == Disposed(swept[o], Standing(o, swept[o], Absent))
           seen(o) == LET c == Creation[o]
                      IN IF c \in queue /\ before(c, o) THEN disposed(c)
                                                       ELSE CreationOf(o, swept)
           standing(o) == Standing(o, swept[o], seen(o))
           ready == {o \in queue : standing(o) = "ready"}
           looped(visited) == [o \in Op |-> IF o \in visited
                                              THEN Disposed(swept[o], standing(o))
                                              ELSE swept[o]]
<1>1. \A o \in Op : ops[o] \in Operation /\ swept[o] = Swept(ops[o])
  BY DEF TypeOK
<1>2. \A o \in queue : o \in Op /\ swept[o].state = "pending"
  OBVIOUS
<1>3. ASSUME NEW visited \in SUBSET queue, NEW o \in Op
      PROVE  Drifts(ops[o], looped(visited)[o]) /\ looped(visited)[o] \in Operation
  <2>1. looped(visited)[o] = IF o \in visited THEN Disposed(swept[o], standing(o))
                                              ELSE swept[o]
    OBVIOUS
  <2> HIDE DEF looped, standing, queue, swept
  <2>2. swept[o] \in Operation /\ Drifts(ops[o], swept[o])
    BY <1>1, DriftSwept
  <2>3. ASSUME o \in visited
        PROVE  /\ Drifts(ops[o], Disposed(swept[o], standing(o)))
               /\ Disposed(swept[o], standing(o)) \in Operation
    <3>1. swept[o].state = "pending"
      BY <1>2, <2>3
    <3> QED BY <1>1, <2>2, <3>1, DriftSwept, DisposedType
  <2> QED BY <2>1, <2>2, <2>3
<1>4. CASE Patch(looped(queue))
  <2>1. ops' = looped(queue)
    BY <1>4 DEF Patch
  <2> HIDE DEF looped, queue, swept
  <2> QED BY <1>3, <2>1 DEF RowsDrift
<1>5. ASSUME NEW o \in ready,
             Patch([looped({p \in queue : before(p, o)}) EXCEPT ![o] = Claimed(@, w)])
      PROVE  RowsDrift
  <2> DEFINE rows == looped({p \in queue : before(p, o)})
  <2>1. o \in queue /\ o \in Op /\ swept[o].state = "pending"
    BY <1>2
  <2>2. ops' = [rows EXCEPT ![o] = Claimed(rows[o], w)] /\ DOMAIN rows = Op
    BY <1>5 DEF Patch
  <2>3. \A p \in Op : Drifts(ops[p], rows[p]) /\ rows[p] \in Operation
    <3> HIDE DEF looped, queue, swept
    <3> QED BY <1>3
  <2>4. ops[o].state \in Unsent
    <3> HIDE DEF swept, queue
    <3>1. Drifts(ops[o], swept[o])
      BY <1>1, <2>1, DriftSwept
    <3> QED BY <2>1, <3>1, States DEF Drifts
  <2> HIDE DEF rows, queue, swept, ready
  <2>5. Drifts(ops[o], Claimed(rows[o], w))
    BY <1>1, <2>1, <2>3, <2>4, DriftClaimed
  <2>6. \A p \in Op : Drifts(ops[p], ops'[p])
    BY <2>1, <2>2, <2>3, <2>5
  <2> QED BY <2>6 DEF RowsDrift
<1> QED BY <1>4, <1>5 DEF Claim

(* What staff plan with the event agrees with the event as it is.           *)
LEMMA TimelyPlanned ==
  ASSUME NEW o \in Op, ops[o] \in Operation, NEW s \in Schedules(Times)
  PROVE  LET q == Scheduled(ops[o], o, s) IN q.schedule # "fixed" => Timely(q)
<1>1. s.schedule \in {"fixed", "event", "relative"} /\ s.due \in Int /\ s.offset \in Int
  BY ScheduleFields
<1>2. s.schedule # "fixed" => ~event.cancelled
  BY DEF Schedules
<1>3. s.schedule = "relative" => event.timed /\ s.due = event.startAt + s.offset
  BY DEF Schedules
<1> QED BY <1>1, <1>2, <1>3, ScheduledRow DEF Timely, Relative, EventTime

(* enqueue, edit and cancel.                                                *)
LEMMA DriftStaff ==
  ASSUME TypeOK, StaffStep
  PROVE  RowsDrift
<1>1. PICK o \in Op : Enqueue(o) \/ Edit(o) \/ Cancel(o)
  BY DEF StaffStep
<1>2. ops[o] \in Operation
  BY DEF TypeOK
<1>3. CASE Enqueue(o)
  <2>1. PICK s : /\ s \in IF o \in Connector
                            THEN {[schedule |-> "fixed", offset |-> 0, due |-> now]}
                            ELSE Schedules(Times)
                 /\ ops' = [ops EXCEPT ![o] =
                      [Scheduled(ops[o], o, s) EXCEPT
                         !.state = "pending", !.revision = 1, !.epoch = integration.epoch,
                         !.dependencyRevision = CreationOf(o, ops).revision]]
    BY <1>3 DEF Enqueue
  <2> DEFINE r == Scheduled(ops[o], o, s)
             q == [r EXCEPT !.state = "pending", !.revision = 1, !.epoch = integration.epoch,
                            !.dependencyRevision = CreationOf(o, ops).revision]
  <2>2. /\ s.schedule \in {"fixed", "event", "relative"} /\ s.due \in Int /\ s.offset \in Int
        /\ o \in Connector => s.schedule = "fixed"
    <3>1. CASE o \in Connector
      <4>1. s = [schedule |-> "fixed", offset |-> 0, due |-> now]
        BY <2>1, <3>1
      <4>2. now \in Nat
        BY DEF TypeOK, ConnectionTypeOK
      <4> QED BY <4>1, <4>2
    <3>2. CASE o \notin Connector
      BY <2>1, <3>2, ScheduleFields
    <3> QED BY <3>1, <3>2
  <2>3. r \in Operation /\ r.schedule = s.schedule
    <3>1. \A op \in Operation : Scheduled(op, o, s) \in Operation
      BY <2>2, ScheduledType
    <3> QED BY <1>2, <2>2, <3>1, ScheduledRow
  <2>4. r.schedule # "fixed" => Timely(r)
    <3>1. s.schedule # "fixed" => s \in Schedules(Times)
      BY <2>1, <2>2
    <3> QED BY <1>2, <2>3, <3>1, TimelyPlanned
  <2>5. ops' = [ops EXCEPT ![o] = q]
    BY <2>1
  <2> HIDE DEF r
  <2>6. q.schedule = r.schedule /\ q.offset = r.offset /\ q.dueAt = r.dueAt
    BY <2>3 DEF Operation
  <2> HIDE DEF q
  <2>7. q.schedule # "fixed" => Timely(q)
    BY <2>4, <2>6 DEF Timely, Relative, EventTime
  <2> QED BY <2>5, <2>7, DriftPatch
<1>4. CASE Edit(o)
  <2>1. PICK s \in Schedules(Times) : ops' = [ops EXCEPT ![o] = Edited(ops[o], o, s)]
    BY <1>4 DEF Edit, Patch
  <2> DEFINE r == Scheduled(ops[o], o, s)
             q == Edited(ops[o], o, s)
  <2>2. r \in Operation
    <3>1. s.schedule \in {"fixed", "event", "relative"} /\ s.due \in Int /\ s.offset \in Int
      BY ScheduleFields
    <3> QED BY <1>2, <3>1, ScheduledType
  <2>3. r.schedule # "fixed" => Timely(r)
    BY <1>2, TimelyPlanned
  <2>4. q = [r EXCEPT !.retryAt = 0, !.attempts = 0, !.revision = ops[o].revision + 1]
    BY DEF Edited
  <2> HIDE DEF r, q
  <2>5. q.schedule = r.schedule /\ q.offset = r.offset /\ q.dueAt = r.dueAt
    BY <2>2, <2>4 DEF Operation
  <2>6. q.schedule # "fixed" => Timely(q)
    BY <2>3, <2>5 DEF Timely, Relative, EventTime
  <2> QED BY <2>1, <2>6, DriftPatch DEF q
<1>5. CASE Cancel(o)
  <2>1. ops' = [ops EXCEPT ![o] = Settle(ops[o], "cancelled")]
    BY <1>5 DEF Cancel, Patch
  <2> QED BY <1>2, <2>1, DriftSettle, DriftPatch, States
<1> QED BY <1>1, <1>3, <1>4, <1>5

(* The worker's own transactions.                                           *)
LEMMA DriftWorker ==
  ASSUME TypeInv, NEW w \in Worker,
         AuthorizeSubmission(w) \/ DeferClaim(w) \/ RejectClaim(w)
  PROVE  RowsDrift
<1> DEFINE standing(o) == Standing(o, ops[o], CreationOf(o, ops))
           submitted(o) == [ops[o] EXCEPT !.state = "submitted", !.submitted = TRUE,
                                          !.claim.expiresAt = now + SubmitTime]
<1>1. PICK o \in Op : o = worker[w].op
  BY DEF TypeInv, Busy, AuthorizeSubmission, DeferClaim, RejectClaim
<1>2. TypeOK /\ ops[o] \in Operation
  BY DEF TypeInv, TypeOK
<1>3. Held(w) => ops[o].state \in Unsent
  BY <1>1, States DEF Held
<1>4. CASE UNCHANGED ops
  BY <1>4 DEF RowsDrift, Drifts
<1>5. CASE Held(w) /\ ops' = [ops EXCEPT ![o] = Denied(ops[o], standing(o))]
  <2> HIDE DEF standing
  <2>1. Drifts(ops[o], Denied(ops[o], standing(o)))
    BY <1>2, <1>3, <1>5, DriftRetimed, DriftSettle, States DEF Denied
  <2> QED BY <1>2, <1>5, <2>1, DriftPatch
<1>6. CASE ops' = [ops EXCEPT ![o] = Settle(ops[o], "rejected")]
  <2>1. Drifts(ops[o], Settle(ops[o], "rejected"))
    BY <1>2, DriftSettle, States
  <2> QED BY <1>2, <1>6, <2>1, DriftPatch
<1>7. CASE ops' = [ops EXCEPT ![o] = submitted(o)]
  <2>1. Drifts(ops[o], submitted(o))
    BY <1>2, States DEF Drifts, Operation
  <2> HIDE DEF submitted
  <2> QED BY <1>2, <1>7, <2>1, DriftPatch
<1>8. ASSUME Held(w), NEW delay, ops' = [ops EXCEPT ![o] = Deferred(ops[o], delay)]
      PROVE  RowsDrift
  <2>1. Drifts(ops[o], Deferred(ops[o], delay))
    BY <1>2, <1>3, <1>8, DriftDeferred
  <2> QED BY <1>2, <1>8, <2>1, DriftPatch
<1> HIDE DEF standing, submitted
<1>9. CASE AuthorizeSubmission(w)
  BY <1>1, <1>4, <1>5, <1>6, <1>7, <1>9 DEF AuthorizeSubmission, Patch, standing, submitted
<1>10. CASE DeferClaim(w) \/ RejectClaim(w)
  BY <1>1, <1>4, <1>6, <1>8, <1>10 DEF DeferClaim, RejectClaim, Patch
<1> QED BY <1>9, <1>10

(* complete, expireSubmission and the cron.                                 *)
LEMMA DriftServer ==
  ASSUME TypeOK,
         \/ \E r \in reports : Complete(r)
         \/ \E e \in expiries : ExpireSubmission(e)
         \/ \E o \in Op : ExpireUnsent(o)
  PROVE  RowsDrift
<1>1. ASSUME NEW o \in Op, NEW s \in Settled, ops' = [ops EXCEPT ![o] = Settle(ops[o], s)]
      PROVE  RowsDrift
  <2>1. Drifts(ops[o], Settle(ops[o], s))
    BY DriftSettle, States DEF TypeOK
  <2> QED BY <1>1, <2>1, DriftPatch
<1>2. ASSUME NEW r \in reports, Complete(r) PROVE RowsDrift
  <2>1. r.op \in Op /\ r.status \in Settled
    BY States DEF TypeOK, Report
  <2> QED BY <1>1, <1>2, <2>1 DEF Complete, Patch
<1>3. ASSUME NEW e \in expiries, ExpireSubmission(e) PROVE RowsDrift
  <2>1. e.op \in Op
    BY DEF TypeOK
  <2>2. CASE UNCHANGED ops
    BY <2>2 DEF RowsDrift, Drifts
  <2>3. CASE ops' = [ops EXCEPT ![e.op] = Settle(ops[e.op], "indeterminate")]
    BY <1>1, <2>1, <2>3, States
  <2> QED BY <1>3, <2>2, <2>3 DEF ExpireSubmission, Patch
<1>4. ASSUME NEW o \in Op, ExpireUnsent(o) PROVE RowsDrift
  <2>1. /\ ops' = [ops EXCEPT ![o] = Expired(ops[o])]
        /\ ops[o] \in Operation /\ ops[o].state \in Unsent
    BY <1>4 DEF ExpireUnsent, Patch, TypeOK
  <2>2. Drifts(ops[o], Expired(ops[o]))
    BY <2>1, DriftExpired
  <2> QED BY <2>1, <2>2, DriftPatch
<1> QED BY <1>2, <1>3, <1>4

(* Rows rejected with their connection.                                     *)
LEMMA DriftRejected ==
  ASSUME TypeOK, NEW page, NEW epoch, RejectRows(page, epoch)
  PROVE  RowsDrift
<1>1. \A o \in Op : ops'[o] \in {Unclaimed(Settle(ops[o], "rejected")), ops[o]}
  BY DEF RejectRows, Patch
<1>2. \A o \in Op : /\ Drifts(ops[o], Unclaimed(Settle(ops[o], "rejected")))
                    /\ Drifts(ops[o], ops[o])
  BY DriftSettle, States DEF TypeOK, Drifts
<1> QED BY <1>1, <1>2 DEF RowsDrift

(* Such a transaction leaves every action in order that was.                *)
LEMMA DriftInOrder ==
  ASSUME TypeOK, FanoutInv, RowsDrift, UNCHANGED <<event, fanout>>
  PROVE  FanoutInv'
<1> SUFFICES ASSUME NEW o \in Op, ops'[o].state \in Unsent, ops'[o].schedule # "fixed",
                    ~Reached(o)
             PROVE  Timely(ops'[o])
  BY DEF FanoutInv, InOrder, Reached, Timely, Relative, EventTime
<1>1. CASE Drifts(ops[o], ops'[o])
  <2>1. Timely(ops[o])
    BY <1>1 DEF FanoutInv, InOrder, Drifts
  <2> QED BY <1>1, <2>1 DEF Drifts, Timely, Relative, EventTime
<1> QED BY <1>1 DEF RowsDrift

-----------------------------------------------------------------------------
(* The pages of the fan-out.                                                *)

(* A row that a page has come to agrees with the event the page has read.   *)
LEMMA SyncedTimely ==
  ASSUME NEW op \in Operation, op.schedule # "fixed" => op.tied,
         NEW cancel, NEW e \in Event
  PROVE  LET q == Synced(op, cancel, e)
         IN q.state \in Unsent /\ q.schedule # "fixed" =>
              /\ ~e.cancelled
              /\ Relative(q) => e.timed /\ q.dueAt = e.startAt + q.offset
<1> DEFINE time == e.startAt + op.offset
           cancelled == Unclaimed(Settle(op, "cancelled"))
           moved == [Unclaimed(Settle(op, "pending")) EXCEPT
                       !.dueAt = time, !.readyAt = Later(time, op.retryAt)]
           Goal(q) == q.state \in Unsent /\ q.schedule # "fixed" =>
                        /\ ~e.cancelled
                        /\ Relative(q) => e.timed /\ q.dueAt = e.startAt + q.offset
<1>1. cancelled.state = "cancelled"
  BY DEF Unclaimed, Settle, Operation
<1>2. moved.schedule = op.schedule /\ moved.offset = op.offset /\ moved.dueAt = time
  BY DEF Unclaimed, Settle, Operation
<1> HIDE DEF cancelled
<1>3. Goal(cancelled)
  BY <1>1, States
<1>4. ~e.cancelled /\ e.timed => Goal(moved)
  <2> HIDE DEF moved
  <2> QED BY <1>2
<1>5. op.state \notin Unsent \/ ~op.tied => Goal(op)
  OBVIOUS
<1>6. ~e.cancelled /\ ~Relative(op) => Goal(op)
  OBVIOUS
<1>7. ~e.cancelled /\ e.timed /\ time = op.dueAt => Goal(op)
  OBVIOUS
<1>8. Synced(op, cancel, e) =
        IF op.state \notin Unsent \/ ~op.tied THEN op
        ELSE IF cancel \/ e.cancelled THEN cancelled
        ELSE IF ~Relative(op) THEN op
        ELSE IF ~e.timed THEN cancelled
        ELSE IF time = op.dueAt THEN op
        ELSE moved
  BY DEF Synced, cancelled
<1> HIDE DEF Goal, moved, time
<1>9. Goal(Synced(op, cancel, e))
  BY <1>3, <1>4, <1>5, <1>6, <1>7, <1>8
<1> QED BY <1>9 DEF Goal

(* So the rows of a page are in order, and the others are as they were.     *)
LEMMA PageRows ==
  ASSUME TypeOK, TypeOK', RowsPlanned, NEW cancel, NEW cursor, SyncPage(cancel, event', cursor),
         NEW o \in Op, ops'[o].state \in Unsent, ops'[o].schedule # "fixed"
  PROVE  \/ Timely(ops[o])'
         \/ o \notin PageOf(TiedRows(cursor)) /\ ops'[o] = ops[o]
<1>1. ops[o] \in Operation /\ event' \in Event
  BY DEF TypeOK
<1>2. ops[o].schedule # "fixed" => ops[o].tied
  BY DEF RowsPlanned, RowTied
<1>3. CASE o \in PageOf(TiedRows(cursor))
  <2>1. ops'[o] = Synced(ops[o], cancel, event')
    BY <1>3 DEF SyncPage
  <2> QED BY <1>1, <1>2, <2>1, SyncedTimely DEF Timely, EventTime, Relative
<1>4. CASE o \notin PageOf(TiedRows(cursor))
  BY <1>4 DEF SyncPage
<1> QED BY <1>3, <1>4

(* A scheduled page: the rows it leaves out come after the cursor it hands  *)
(* to the next one.                                                         *)
LEMMA SyncInOrder ==
  ASSUME TypeOK, TypeOK', RowsPlanned, FanoutInv, NEW c \in fanout, SyncEventSchedule(c)
  PROVE  FanoutInv'
<1> DEFINE rows == TiedRows(c.cursor)
           page == PageOf(rows)
<1>1. /\ SyncPage(c.cancel, event', c.cursor) /\ event' = event
      /\ fanout' = (fanout \ {c}) \cup
           {[cancel |-> c.cancel, cursor |-> o] :
              o \in {p \in page : rows # page /\ \A q \in page : q <= p}}
  BY DEF SyncEventSchedule
<1>2. c.cursor \in {-1} \cup Op
  BY DEF TypeOK
<1> SUFFICES ASSUME NEW o \in Op, ops'[o].state \in Unsent, ops'[o].schedule # "fixed",
                    o \notin page, ops'[o] = ops[o], ~Timely(ops[o])
             PROVE  Reached(o)'
  <2>1. \A o \in Op : ops'[o] = ops[o] => (Timely(ops[o])' <=> Timely(ops[o]))
    BY <1>1 DEF Timely, EventTime
  <2> QED BY <1>1, <2>1, PageRows DEF FanoutInv, InOrder
<1>3. PICK d \in fanout : d.cursor < o
  BY DEF FanoutInv, InOrder, Reached
<1>4. CASE d # c
  BY <1>1, <1>3, <1>4 DEF Reached
<1>5. CASE d = c
  <2>1. o \in rows
    BY <1>3, <1>5, States DEF TiedRows, RowsPlanned, RowTied
  <2>2. rows \in SUBSET Op /\ rows # page
    BY <2>1 DEF TiedRows
  <2>3. PICK m \in page : (\A x \in page : x <= m) /\ m < o
    BY <2>1, <2>2, PageEnds
  <2> DEFINE next == [cancel |-> c.cancel, cursor |-> m]
  <2>4. next \in fanout'
    BY <1>1, <2>2, <2>3
  <2>5. next.cursor < o
    BY <2>3
  <2> QED BY <2>4, <2>5 DEF Reached
<1> QED BY <1>4, <1>5

(* A change of the event: its first page, or the one it schedules, comes to *)
(* every row.                                                               *)
LEMMA ChangeInOrder ==
  ASSUME TypeOK, TypeOK', RowsPlanned, NEW cancel, NEW e, ChangeEvent(cancel, e)
  PROVE  FanoutInv'
<1> DEFINE rows == TiedRows(-1)
           first == [cancel |-> cancel, cursor |-> -1]
<1>1. /\ SyncPage(cancel, event', -1)
      /\ fanout' = IF rows = PageOf(rows) THEN fanout ELSE fanout \cup {first}
  BY DEF ChangeEvent
<1> SUFFICES ASSUME NEW o \in Op, ops'[o].state \in Unsent, ops'[o].schedule # "fixed",
                    o \notin PageOf(rows), ops'[o] = ops[o]
             PROVE  Reached(o)'
  BY <1>1, PageRows DEF FanoutInv, InOrder
<1>2. -1 < o
  BY OperationsAssumption
<1>3. o \in rows
  BY <1>2, States DEF TiedRows, RowsPlanned, RowTied
<1>4. first \in fanout' /\ first.cursor < o
  BY <1>1, <1>2, <1>3
<1> QED BY <1>4 DEF Reached

(* Every step keeps every action in order.                                  *)
LEMMA FanoutNext ==
  ASSUME OutcomeInv, TypeOK', FanoutInv, [Next]_vars
  PROVE  FanoutInv'
<1>1. TypeInv /\ TypeOK /\ RowsPlanned
  BY DEF OutcomeInv, Inv, TypeInv
<1>2. UNCHANGED ops => RowsDrift
  BY DEF RowsDrift, Drifts
<1>3. UNCHANGED <<event, fanout>> /\ RowsDrift => FanoutInv'
  BY <1>1, DriftInOrder
<1>4. CASE ConnectionStep \/ Clock \/ UNCHANGED vars
  BY <1>2, <1>3, <1>4 DEF ConnectionStep, Clock, vars, operationVars
<1>5. CASE StaffStep
  <2>1. UNCHANGED <<event, fanout>>
    BY <1>5 DEF StaffStep, Enqueue, Edit, Cancel
  <2> QED BY <1>1, <1>3, <1>5, <2>1, DriftStaff
<1>6. RejectUnsent(integration.epoch) => FanoutInv'
  BY <1>1, <1>3, DriftRejected DEF RejectUnsent
<1>7. CASE WorkerStep
  <2>1. PICK w \in Worker : \/ Claim(w) \/ AuthorizeSubmission(w) \/ DeferClaim(w)
                            \/ RejectClaim(w) \/ ProviderWrite(w) \/ WriteNotAttempted(w)
                            \/ Crash(w) \/ (worker[w].pc = "idle" /\ Left(w))
    BY <1>7 DEF WorkerStep
  <2>2. CASE Claim(w)
    BY <1>1, <1>3, <2>2, DriftClaim DEF Claim
  <2>3. CASE AuthorizeSubmission(w) \/ DeferClaim(w) \/ RejectClaim(w)
    <3>1. UNCHANGED <<event, fanout>>
      BY <2>3 DEF AuthorizeSubmission, DeferClaim, RejectClaim
    <3> QED BY <1>1, <1>3, <2>3, <3>1, DriftWorker
  <2>4. CASE ProviderWrite(w) \/ WriteNotAttempted(w) \/ Crash(w)
    BY <1>2, <1>3, <2>4 DEF ProviderWrite, WriteNotAttempted, Crash
  <2>5. CASE Left(w)
    BY <1>6, <2>5 DEF Left
  <2> QED BY <2>1, <2>2, <2>3, <2>4, <2>5
<1>8. CASE ServerStep
  <2>1. CASE \/ \E r \in reports : Complete(r)
             \/ \E e \in expiries : ExpireSubmission(e)
             \/ \E o \in Op : ExpireUnsent(o)
    <3>1. UNCHANGED <<event, fanout>>
      BY <2>1 DEF Complete, ExpireSubmission, ExpireUnsent
    <3> QED BY <1>1, <1>3, <2>1, <3>1, DriftServer
  <2>2. CASE \E c \in fanout : SyncEventSchedule(c)
    BY <1>1, <2>2, SyncInOrder
  <2>3. CASE \E c \in rejections : RejectConnectionOperationsPage(c)
    BY <1>1, <1>3, <2>3, DriftRejected DEF RejectConnectionOperationsPage
  <2> QED BY <1>8, <2>1, <2>2, <2>3 DEF ServerStep
<1>9. CASE EnvironmentStep
  <2>1. \A cancel, e : ChangeEvent(cancel, e) => FanoutInv'
    BY <1>1, ChangeInOrder
  <2>2. CASE (\E b \in BOOLEAN : SetEventCancelled(b)) \/ RescheduleEvent \/ RetractEvent
    BY <2>1, <2>2 DEF SetEventCancelled, RescheduleEvent, RetractEvent
  <2>3. CASE Disconnect \/ Reconnect
    BY <1>6, <2>3 DEF Disconnect, Reconnect
  <2>4. CASE SetConnectorActive
    BY <1>2, <1>3, <2>4 DEF SetConnectorActive
  <2> QED BY <1>9, <2>2, <2>3, <2>4 DEF EnvironmentStep
<1> QED BY <1>4, <1>5, <1>7, <1>8, <1>9 DEF Next

-----------------------------------------------------------------------------
(* Once no page is outstanding, no unsent action scheduled with the event   *)
(* outlives its cancellation, and every event-relative one is due at the    *)
(* event's present time: syncClubEventOperationPage misses no row, however  *)
(* many there are and whatever is claimed, edited or changed in between.    *)
THEOREM FanoutReaches == Spec => []FanoutComplete
<1>1. Init => FanoutInv
  <2>1. Init => \A o \in Op : ops[o].state \notin Unsent
    BY DEF Init, Absent, Unsent
  <2> QED BY <2>1 DEF FanoutInv, InOrder
<1>2. OutcomeInv /\ OutcomeInv' /\ FanoutInv /\ [Next]_vars => FanoutInv'
  BY FanoutNext DEF OutcomeInv, Inv, TypeInv
<1>3. FanoutInv => FanoutComplete
  BY DEF FanoutInv, InOrder, Reached, Timely, FanoutComplete
<1> QED BY Outcomes, <1>1, <1>2, <1>3, PTL DEF Spec
=============================================================================
