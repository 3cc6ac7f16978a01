--------------------------- MODULE ClubOperations ---------------------------
(***************************************************************************)
(* The club operation queue (src/convex/clubOperations.ts): staff schedule *)
(* writes to a VRChat group, a leased worker claims them one at a time,    *)
(* asks for the final authorization, sends the write and reports what it   *)
(* saw.  VRChat offers no idempotency key, so the queue itself has to see  *)
(* to it that a write is sent at most once and that its recorded outcome   *)
(* never claims more than is known.                                        *)
(*                                                                         *)
(* Every action is one Convex transaction or one step of a worker process  *)
(* (workers/group-telemetry/club-operation-jobs.mjs).  One integration and *)
(* one event; operation ids are in creation order.                         *)
(***************************************************************************)
EXTENDS ClubConnection, FiniteSets

CONSTANTS Op,            \* operation ids, ordered by creation
          Connector,     \* the ids written by a VRChat calendar connector
          Creation,      \* Op -> Op or NoOp: the create_instance an invite reads
          NoOp,
          LateGrace, ClaimTime, SubmitTime, Recheck,  \* the code's durations
          MaxPreflight,  \* deferrals end in a rejection at this attempt (3)
          MaxDelay,      \* bound on the provider's retryAfterMs
          PageSize,      \* rows a fan-out page handles (100, 50)
          Kinds, DueTimes, StartTimes, Offsets,  \* bounds on what staff may schedule
          MaxRevision, MaxClaims          \* bounds per operation

ASSUME OperationsAssumption ==
  /\ IsFiniteSet(Op) /\ Op \subseteq Nat
  /\ Connector \subseteq Op
  /\ NoOp \notin Op
  /\ Creation \in [Op -> Op \cup {NoOp}]
  /\ \A o \in Op : Creation[o] # NoOp =>
       Creation[o] < o /\ Creation[Creation[o]] = NoOp
                       /\ {o, Creation[o]} \cap Connector = {}
  /\ {LateGrace, ClaimTime, SubmitTime, Recheck, PageSize} \subseteq Nat \ {0}
  /\ MaxPreflight \in Nat /\ MaxDelay \in Nat /\ MaxRevision \in Nat /\ MaxClaims \in Nat
  /\ Kinds \subseteq {"fixed", "event", "relative"}
  /\ DueTimes \subseteq Nat /\ StartTimes \subseteq Nat /\ Offsets \subseteq Int

VARIABLES ops,             \* the clubOperations rows
          event,           \* the event operations may be tied to
          connectorActive, \* the calendar connector may write
          notices,         \* clubOperationNotifications: <<id, revision, outcome>>
          woken,           \* connector operations whose sync job was resumed
          expiries,        \* scheduled expireSubmission calls
          fanout,          \* scheduled syncEventSchedule pages
          rejections,      \* scheduled rejectConnectionOperationsPage calls
          worker,          \* the processes running executeClubOperation
          reports,         \* club_operation_complete messages, delivered 0..n times
          writes, effects  \* observed at the provider: requests sent, and applied

operationVars == <<ops, event, connectorActive, notices, woken, expiries, fanout,
                   rejections, worker, reports, writes, effects>>
vars == <<connectionVars, operationVars>>

Unsent == {"pending", "claimed"}
Failure == {"rejected", "indeterminate", "missed"}
Settled == Failure \cup {"succeeded", "cancelled"}
State == {"absent", "submitted"} \cup Unsent \cup Settled

NoClaim == [holder |-> NoWorker, nonce |-> 0, token |-> 0, generation |-> 0, expiresAt |-> 0]
Claims == [holder : Worker \cup {NoWorker}, nonce : Nat, token : Nat, generation : Nat,
           expiresAt : Nat]

(* schedule: "fixed" also stands for immediate, "event" for a fixed time   *)
(* chosen with an event.  tied is eventId # undefined; submitted is        *)
(* submittedAt # undefined; retryAt = 0 is undefined; nonces counts the    *)
(* row's claims, so that every nonce is new.                               *)
Operation == [state : State, schedule : {"fixed", "event", "relative"}, offset : Int,
              tied : BOOLEAN, dueAt : Int, readyAt : Int, retryAt : Nat,
              revision : Nat, dependencyRevision : Nat, attempts : Nat,
              epoch : Nat, submitted : BOOLEAN, nonces : Nat, claim : Claims]
Absent == [state |-> "absent", schedule |-> "fixed", offset |-> 0, tied |-> FALSE,
           dueAt |-> 0, readyAt |-> 0, retryAt |-> 0, revision |-> 0,
           dependencyRevision |-> 0, attempts |-> 0, epoch |-> 0, submitted |-> FALSE,
           nonces |-> 0, claim |-> NoClaim]

(* scheduleKind date_only and an unset startAt are both timed = FALSE.     *)
Event == [cancelled : BOOLEAN, timed : BOOLEAN, startAt : Nat]

Process == [pc : {"idle", "preflight", "refused", "authorized"}, op : Op \cup {NoOp},
            nonce : Nat, revision : Nat, executeBefore : Int]
Idle == [pc |-> "idle", op |-> NoOp, nonce |-> 0, revision |-> 0, executeBefore |-> 0]

Status == {"succeeded", "rejected", "indeterminate"}
Report == [op : Op, nonce : Nat, holder : Worker, token : Nat, epoch : Nat, key : Nat,
           status : Status]

NoCursor == <<>>

TypeOK ==
  /\ ConnectionTypeOK
  /\ ops \in [Op -> Operation]
  /\ event \in Event
  /\ connectorActive \in BOOLEAN
  /\ notices \subseteq Op \X Nat \X Failure
  /\ woken \subseteq Connector
  /\ expiries \subseteq [op : Op, nonce : Nat, expiresAt : Nat]
  /\ fanout \subseteq [cancel : BOOLEAN, cursor : {-1} \cup Op]
  /\ rejections \subseteq [epoch : Nat, state : Unsent, cursor : {NoCursor} \cup (Int \X Op)]
  /\ worker \in [Worker -> Process]
  /\ reports \subseteq Report
  /\ writes \in [Op -> Nat] /\ effects \in [Op -> Nat]

Init ==
  /\ ConnectionInit
  /\ ops = [o \in Op |-> Absent]
  /\ event \in [cancelled : {FALSE}, timed : {TRUE}, startAt : StartTimes]
  /\ connectorActive = TRUE
  /\ notices = {} /\ woken = {} /\ expiries = {} /\ fanout = {} /\ rejections = {}
  /\ worker = [w \in Worker |-> Idle]
  /\ reports = {}
  /\ writes = [o \in Op |-> 0] /\ effects = [o \in Op |-> 0]

-----------------------------------------------------------------------------
Later(a, b) == IF a > b THEN a ELSE b
Sooner(a, b) == IF a < b THEN a ELSE b

(* Mutant: a notice for every outcome, failure or not.                      *)
MutPatch(new) ==
  /\ ops' = new
  /\ notices' = notices \cup
       {<<o, new[o].revision, new[o].state>> :
          o \in {p \in Op \ Connector : new[p] # ops[p] /\ new[p].state \in Settled}}
  /\ UNCHANGED woken

(* patchOperation and recordClubOperationFailure: every patched staff row  *)
(* that is now in a failure state files one notice per revision and        *)
(* outcome, every settled connector row resumes its sync job.              *)
Patch(new) ==
  LET patched == {o \in Op : new[o] # ops[o]}
  IN /\ ops' = new
     /\ notices' = notices \cup
          {<<o, new[o].revision, new[o].state>> :
             o \in {p \in patched \ Connector : new[p].state \in Failure}}
     /\ woken' = woken \cup {o \in patched \cap Connector : new[o].state \in Settled}

Unclaimed(op) == [op EXCEPT !.claim = NoClaim]
Settle(op, state) == [op EXCEPT !.state = state]

Relative(op) == op.schedule = "relative"
EventTime(op) == event.startAt + op.offset
Retimed(op) == [op EXCEPT !.dueAt = EventTime(op),
                          !.readyAt = Later(EventTime(op), op.retryAt)]
Requeued(op) == Unclaimed(Settle(Retimed(op), "pending"))

EffectiveDueAt(op) == IF Relative(op) /\ op.state \in Unsent /\ event.timed
                        THEN EventTime(op) ELSE op.dueAt

(* Mutant: the revision the review froze is not compared.                   *)
MutDependencyStanding(op, creation) ==
  IF creation.epoch # op.epoch THEN "rejected"
  ELSE IF creation.state \in Unsent \cup {"submitted"} THEN "awaiting"
  ELSE IF creation.state = "succeeded" THEN "ready" ELSE "rejected"

(* resolvedOperation for an invitation: what the creation it was reviewed  *)
(* against has become.                                                     *)
DependencyStanding(op, creation) ==
  IF \/ creation.epoch # op.epoch
     \/ creation.revision # op.dependencyRevision
     \/ creation.tied /\ ~op.tied
     \/ op.tied /\ op.schedule = "fixed" /\ ~creation.tied
    THEN "rejected"
  ELSE IF creation.state \in Unsent \cup {"submitted"} THEN "awaiting"
  ELSE IF creation.state = "succeeded" THEN "ready" ELSE "rejected"

(* Mutants: the event's cancellation, or the connector's pause, is left to  *)
(* the fan-out.                                                             *)
MutStandingEvent(o, op, creation) ==
  IF op.epoch # integration.epoch THEN "connection_changed"
  ELSE IF Relative(op) /\ op.dueAt # EventTime(op) THEN "event_rescheduled"
  ELSE IF now - op.dueAt > LateGrace THEN "late_window_elapsed" ELSE "ready"
MutStandingConnector(o, op, creation) ==
  IF op.epoch # integration.epoch THEN "connection_changed"
  ELSE IF op.tied /\ event.cancelled THEN "event_cancelled"
  ELSE IF now - op.dueAt > LateGrace THEN "late_window_elapsed" ELSE "ready"

(* The checks claim and authorizeSubmission make of a queued row, in their *)
(* order; creation is the row of the operation it depends on.              *)
Standing(o, op, creation) ==
  IF op.epoch # integration.epoch THEN "connection_changed"
  ELSE IF op.tied /\ event.cancelled THEN "event_cancelled"
  ELSE IF Relative(op) /\ ~event.timed THEN "event_time_tba"
  ELSE IF Relative(op) /\ op.dueAt # EventTime(op) THEN "event_rescheduled"
  ELSE IF Creation[o] # NoOp /\ EffectiveDueAt(creation) > EffectiveDueAt(op)
    THEN "instance_creation_rescheduled"
  ELSE IF now - op.dueAt > LateGrace THEN "late_window_elapsed"
  ELSE IF o \in Connector /\ ~connectorActive THEN "connector_inactive"
  ELSE IF Creation[o] # NoOp THEN DependencyStanding(op, creation)
  ELSE "ready"

CreationOf(o, rows) == IF Creation[o] = NoOp THEN Absent ELSE rows[Creation[o]]
-----------------------------------------------------------------------------
(* scheduleTime: the due times staff may ask for now.                      *)
Schedules(dueOf) ==
  {s \in [schedule : Kinds, offset : Offsets \cup {0}, due : dueOf] :
     /\ s.schedule # "fixed" => ~event.cancelled
     /\ IF s.schedule = "relative"
          THEN event.timed /\ s.due = event.startAt + s.offset /\ s.due > now
          ELSE s.offset = 0 /\ s.due >= now - LateGrace}
Times == DueTimes \cup {s + d : s \in StartTimes, d \in Offsets \cup {0}}

(* checkedDependency and the due time check of enqueue and edit.           *)
DependencyAccepted(o, due) ==
  Creation[o] # NoOp =>
    LET creation == ops[Creation[o]]
    IN /\ creation.state \in Unsent \cup {"submitted", "succeeded"}
       /\ creation.epoch = integration.epoch
       /\ due >= EffectiveDueAt(creation)

Scheduled(op, o, s) ==
  [op EXCEPT !.schedule = s.schedule, !.offset = s.offset,
             !.tied = s.schedule # "fixed" \/ CreationOf(o, ops).tied,
             !.dueAt = s.due, !.readyAt = s.due]

(* enqueue by staff, or enqueueConnectorOperation, which is due at once and *)
(* never tied to an event.                                                  *)
Enqueue(o) ==
  /\ ops[o].state = "absent"
  /\ \A p \in Op : p < o => ops[p].state # "absent"
  /\ integration.state = "active"
  /\ \E s \in IF o \in Connector
                THEN {[schedule |-> "fixed", offset |-> 0, due |-> now]}
                ELSE Schedules(Times) :
       /\ o \in Connector => connectorActive /\ now \in DueTimes
       /\ DependencyAccepted(o, s.due)
       /\ ops' = [ops EXCEPT ![o] =
            [Scheduled(@, o, s) EXCEPT
               !.state = "pending", !.revision = 1, !.epoch = integration.epoch,
               !.dependencyRevision = CreationOf(o, ops).revision]]
  /\ UNCHANGED <<connectionVars, event, connectorActive, notices, woken, expiries,
                 fanout, rejections, worker, reports, writes, effects>>

(* Mutant: an operation a worker already holds can be edited.               *)
MutEdit(o) ==
  /\ ops[o].state \in Unsent /\ ops[o].revision < MaxRevision
  /\ \E s \in Schedules(Times) :
       Patch([ops EXCEPT ![o] = [Scheduled(@, o, s) EXCEPT !.revision = @ + 1]])
  /\ UNCHANGED <<connectionVars, event, connectorActive, expiries, fanout, rejections,
                 worker, reports, writes, effects>>

Edited(op, o, s) == [Scheduled(op, o, s) EXCEPT !.retryAt = 0, !.attempts = 0,
                                                !.revision = op.revision + 1]

(* edit keeps the dependency the invitation was reviewed against; it passes *)
(* only while the creation still has that revision.                         *)
Edit(o) ==
  /\ o \notin Connector
  /\ ops[o].state = "pending"
  /\ ops[o].revision < MaxRevision
  /\ integration.state = "active"
  /\ ops[o].epoch = integration.epoch
  /\ CreationOf(o, ops).revision = ops[o].dependencyRevision
  /\ \E s \in Schedules(Times) :
       /\ DependencyAccepted(o, s.due)
       /\ Patch([ops EXCEPT ![o] = Edited(@, o, s)])
  /\ UNCHANGED <<connectionVars, event, connectorActive, expiries, fanout, rejections,
                 worker, reports, writes, effects>>

Cancel(o) ==
  /\ ops[o].state \in Unsent
  /\ Patch([ops EXCEPT ![o] = Settle(@, "cancelled")])
  /\ UNCHANGED <<connectionVars, event, connectorActive, expiries, fanout, rejections,
                 worker, reports, writes, effects>>
-----------------------------------------------------------------------------
(* Mutants: a submission that ran out is queued again, or called rejected.  *)
MutSweptRequeues(op) ==
  IF op.state \in {"claimed", "submitted"} /\ op.claim.expiresAt <= now
    THEN Unclaimed(Settle(op, "pending")) ELSE op
MutSweptRejects(op) ==
  IF op.state \in {"claimed", "submitted"} /\ op.claim.expiresAt <= now
    THEN IF op.state = "submitted" THEN Settle(op, "rejected")
                                   ELSE Unclaimed(Settle(op, "pending"))
    ELSE op

(* claim, first part: claims that ran out go back to the queue, submissions *)
(* that ran out stay sent with an unknown outcome.                          *)
Swept(op) ==
  IF op.state \in {"claimed", "submitted"} /\ op.claim.expiresAt <= now
    THEN IF op.state = "submitted" THEN Settle(op, "indeterminate")
                                   ELSE Unclaimed(Settle(op, "pending"))
    ELSE op

(* claim, loop body for a row that is not handed out.                       *)
Disposed(op, standing) ==
  CASE standing \in {"event_cancelled", "event_time_tba"} -> Settle(op, "cancelled")
    [] standing = "event_rescheduled" -> Retimed(op)
    [] standing = "late_window_elapsed" -> Settle(op, "missed")
    [] standing = "awaiting" ->
         [op EXCEPT !.readyAt = Sooner(now + Recheck, op.dueAt + LateGrace + 1)]
    [] OTHER -> Settle(op, "rejected")

Claimed(op, w) ==
  [op EXCEPT !.state = "claimed", !.nonces = @ + 1,
     !.claim = [holder |-> w, nonce |-> op.nonces + 1, token |-> session[w].token,
                generation |-> account.generation,
                expiresAt |-> Sooner(now + ClaimTime, lease.expiresAt)]]

(* claim: the ready queue in readyAt order up to the first row that stands; *)
(* a creation visited earlier in the loop is seen as the loop left it.      *)
Claim(w) ==
  LET swept == [o \in Op |-> Swept(ops[o])]
      queue == {o \in Op : swept[o].state = "pending" /\ swept[o].readyAt <= now}
      before(p, o) == \/ swept[p].readyAt < swept[o].readyAt
                      \/ swept[p].readyAt = swept[o].readyAt /\ p < o
      disposed(o) == Disposed(swept[o], Standing(o, swept[o], Absent))
      seen(o) == LET c == Creation[o]
                 IN IF c \in queue /\ before(c, o) THEN disposed(c) ELSE CreationOf(o, swept)
      standing(o) == Standing(o, swept[o], seen(o))
      ready == {o \in queue : standing(o) = "ready"}
      looped(visited) == [o \in Op |-> IF o \in visited THEN Disposed(swept[o], standing(o))
                                                        ELSE swept[o]]
  IN /\ worker[w].pc = "idle"
     /\ Bound(w)
     /\ \/ /\ ready = {}
           /\ Patch(looped(queue))
           /\ UNCHANGED worker
        \/ \E o \in ready :
             /\ \A p \in ready \ {o} : before(o, p)
             /\ ops[o].nonces < MaxClaims
             /\ Patch([looped({p \in queue : before(p, o)}) EXCEPT ![o] = Claimed(@, w)])
             /\ worker' = [worker EXCEPT ![w] =
                  [pc |-> "preflight", op |-> o, nonce |-> swept[o].nonces + 1,
                   revision |-> swept[o].revision,
                   executeBefore |-> swept[o].dueAt + LateGrace]]
     /\ UNCHANGED <<connectionVars, event, connectorActive, expiries, fanout, rejections,
                    reports, writes, effects>>

(* The claim a worker acts under is still the row's claim, under the same   *)
(* lease and credentials.                                                   *)
Held(w) ==
  LET op == ops[worker[w].op]
  IN /\ Bound(w)
     /\ op.state = "claimed"
     /\ op.claim.nonce = worker[w].nonce
     /\ op.claim.holder = w
     /\ op.claim.token = session[w].token
     /\ op.claim.generation = account.generation
     /\ op.claim.expiresAt > now

Proceed(w, pc) == worker' = [worker EXCEPT ![w].pc = pc]
Abandon(w) == worker' = [worker EXCEPT ![w] = Idle]

(* authorizeSubmission, for a row that no longer stands.                    *)
Denied(op, standing) ==
  CASE standing = "event_rescheduled" -> Requeued(op)
    [] standing = "late_window_elapsed" -> Settle(op, "missed")
    [] OTHER -> Settle(op, "rejected")

(* authorizeSubmission: the last check before the write.  Staff roles,      *)
(* provider authority and friendship may refuse whatever the row says; the  *)
(* answer may be lost on its way back to the worker.                        *)
AuthorizeSubmission(w) ==
  LET o == worker[w].op
      standing == Standing(o, ops[o], CreationOf(o, ops))
      submitted == [ops[o] EXCEPT !.state = "submitted", !.submitted = TRUE,
                                  !.claim.expiresAt = now + SubmitTime]
  IN /\ worker[w].pc = "preflight"
     /\ \/ /\ ~Held(w)
           /\ Proceed(w, "refused")
           /\ UNCHANGED <<ops, notices, woken, expiries>>
        \/ /\ Held(w)
           /\ standing # "ready"
           /\ Patch([ops EXCEPT ![o] = Denied(@, standing)])
           /\ Proceed(w, "refused")
           /\ UNCHANGED expiries
        \/ /\ Held(w)     \* assessClubOperation refuses
           /\ standing = "ready"
           /\ Patch([ops EXCEPT ![o] = Settle(@, "rejected")])
           /\ Proceed(w, "refused")
           /\ UNCHANGED expiries
        \/ /\ Held(w)
           /\ standing = "ready"
           /\ Patch([ops EXCEPT ![o] = submitted])
           /\ expiries' = expiries \cup
                {[op |-> o, nonce |-> worker[w].nonce, expiresAt |-> now + SubmitTime]}
           /\ Proceed(w, "authorized") \/ Abandon(w)
     /\ UNCHANGED <<connectionVars, event, connectorActive, fanout, rejections, reports,
                    writes, effects>>

(* deferClaim: a preflight read failed in a way that may pass.              *)
Deferred(op, delay) ==
  LET late == delay > op.dueAt + LateGrace - now
  IN IF late \/ op.attempts + 1 >= MaxPreflight
       THEN [Unclaimed(Settle(op, IF late THEN "missed" ELSE "rejected"))
               EXCEPT !.attempts = @ + 1]
       ELSE [Unclaimed(Settle(op, "pending")) EXCEPT
               !.attempts = @ + 1, !.retryAt = now + delay,
               !.readyAt = Later(op.dueAt, now + delay)]

DeferClaim(w) ==
  /\ worker[w].pc = "preflight"
  /\ IF Held(w)
       THEN \E delay \in 1..MaxDelay :
              Patch([ops EXCEPT ![worker[w].op] = Deferred(@, delay)])
       ELSE UNCHANGED <<ops, notices, woken>>
  /\ Abandon(w)
  /\ UNCHANGED <<connectionVars, event, connectorActive, expiries, fanout, rejections,
                 reports, writes, effects>>

(* rejectClaim: the preflight or the authorization refused the operation.   *)
RejectClaim(w) ==
  /\ worker[w].pc \in {"preflight", "refused"}
  /\ IF Held(w)
       THEN Patch([ops EXCEPT ![worker[w].op] = Settle(@, "rejected")])
       ELSE UNCHANGED <<ops, notices, woken>>
  /\ Abandon(w)
  /\ UNCHANGED <<connectionVars, event, connectorActive, expiries, fanout, rejections,
                 reports, writes, effects>>
-----------------------------------------------------------------------------
(* What a worker can see of the request it sends, and whether VRChat        *)
(* applied it: a 2xx that validates, any 4xx but 408, anything else.        *)
Answers == {[status |-> "succeeded", applied |-> TRUE],
            [status |-> "rejected", applied |-> FALSE],
            [status |-> "indeterminate", applied |-> TRUE],
            [status |-> "indeterminate", applied |-> FALSE]}

SendReport(w, status) ==
  reports' = reports \cup
    {[op |-> worker[w].op, nonce |-> worker[w].nonce, holder |-> w,
      token |-> session[w].token, epoch |-> session[w].epoch, key |-> session[w].key,
      status |-> status]}

(* executeClubOperation after the authorization: the request goes out.      *)
ProviderWrite(w) ==
  LET o == worker[w].op
  IN /\ worker[w].pc = "authorized"
     /\ now < worker[w].executeBefore
     /\ \E answer \in Answers :
          /\ writes' = [writes EXCEPT ![o] = @ + 1]
          /\ effects' = [effects EXCEPT ![o] = @ + (IF answer.applied THEN 1 ELSE 0)]
          /\ SendReport(w, answer.status)
     /\ Abandon(w)
     /\ UNCHANGED <<connectionVars, ops, event, connectorActive, notices, woken, expiries,
                    fanout, rejections>>

(* The deadline, the minute window, the local budget or a shutdown stops    *)
(* the request before the transport: submission_not_attempted.              *)
WriteNotAttempted(w) ==
  /\ worker[w].pc = "authorized"
  /\ SendReport(w, "rejected")
  /\ Abandon(w)
  /\ UNCHANGED <<connectionVars, ops, event, connectorActive, notices, woken, expiries,
                 fanout, rejections, writes, effects>>

(* Mutant: a report is taken whatever the operation has become.             *)
MutComplete(r) ==
  /\ r.key = account.key
  /\ ops[r.op].claim.nonce = r.nonce
  /\ Patch([ops EXCEPT ![r.op] = Settle(@, r.status)])
  /\ UNCHANGED <<connectionVars, event, connectorActive, expiries, fanout, rejections,
                 worker, reports, writes, effects>>

(* complete: the lease, the epoch of the connection and the credentials'    *)
(* generation may have moved on, the worker key may not.                    *)
Complete(r) ==
  LET op == ops[r.op]
  IN /\ r.key = account.key
     /\ op.epoch = r.epoch
     /\ op.state = "submitted"
     /\ op.claim.nonce = r.nonce /\ op.claim.holder = r.holder /\ op.claim.token = r.token
     /\ Patch([ops EXCEPT ![r.op] = Settle(@, r.status)])
     /\ UNCHANGED <<connectionVars, event, connectorActive, expiries, fanout, rejections,
                    worker, reports, writes, effects>>

(* Mutant: an unanswered submission is queued for another try.              *)
MutExpireSubmission(e) ==
  /\ e.expiresAt <= now
  /\ expiries' = expiries \ {e}
  /\ IF ops[e.op].state = "submitted"
       THEN Patch([ops EXCEPT ![e.op] = Unclaimed(Settle(@, "pending"))])
       ELSE UNCHANGED <<ops, notices, woken>>
  /\ UNCHANGED <<connectionVars, event, connectorActive, fanout, rejections, worker,
                 reports, writes, effects>>

ExpireSubmission(e) ==
  /\ e.expiresAt <= now
  /\ expiries' = expiries \ {e}
  /\ IF /\ ops[e.op].state = "submitted"
        /\ ops[e.op].claim.nonce = e.nonce
        /\ ops[e.op].claim.expiresAt = e.expiresAt
       THEN Patch([ops EXCEPT ![e.op] = Settle(@, "indeterminate")])
       ELSE UNCHANGED <<ops, notices, woken>>
  /\ UNCHANGED <<connectionVars, event, connectorActive, fanout, rejections, worker,
                 reports, writes, effects>>

(* expireUnsent, the cron's verdict on one row.  It reads the row and its   *)
(* event only, so a page is as many steps of this action.                   *)
Expired(op) ==
  LET due == IF Relative(op) THEN EventTime(op) ELSE op.dueAt
  IN IF (op.tied /\ event.cancelled) \/ (Relative(op) /\ ~event.timed)
       THEN Unclaimed(Settle(op, "cancelled"))
     ELSE IF now - due > LateGrace
       THEN [Unclaimed(Settle(op, "missed")) EXCEPT !.dueAt = due]
     ELSE IF due # op.dueAt THEN Requeued(op) ELSE op

(* Mutant: the cron looks at pending rows and forgets the claimed ones.     *)
MutExpireUnsent(o) ==
  /\ ops[o].state = "pending"
  /\ Expired(ops[o]) # ops[o]
  /\ Patch([ops EXCEPT ![o] = Expired(@)])
  /\ UNCHANGED <<connectionVars, event, connectorActive, expiries, fanout, rejections,
                 worker, reports, writes, effects>>

ExpireUnsent(o) ==
  /\ ops[o].state \in Unsent
  /\ ~ops[o].submitted
  /\ Expired(ops[o]) # ops[o]
  /\ Patch([ops EXCEPT ![o] = Expired(@)])
  /\ UNCHANGED <<connectionVars, event, connectorActive, expiries, fanout, rejections,
                 worker, reports, writes, effects>>
-----------------------------------------------------------------------------
(* syncClubEventOperationPage, one row, with the event as the page reads it. *)
Synced(op, cancel, e) ==
  IF op.state \notin Unsent \/ ~op.tied THEN op
  ELSE IF cancel \/ e.cancelled THEN Unclaimed(Settle(op, "cancelled"))
  ELSE IF ~Relative(op) THEN op
  ELSE IF ~e.timed THEN Unclaimed(Settle(op, "cancelled"))
  ELSE IF e.startAt + op.offset = op.dueAt THEN op
  ELSE [Unclaimed(Settle(op, "pending")) EXCEPT
          !.dueAt = e.startAt + op.offset,
          !.readyAt = Later(e.startAt + op.offset, op.retryAt)]

(* One page of the event's rows in creation order.  The first pass reads    *)
(* one row more than the page to learn whether it is done; its continuation *)
(* starts at the beginning again.                                           *)
TiedRows(cursor) == {o \in Op : ops[o].state # "absent" /\ ops[o].tied /\ o > cursor}
PageOf(rows) == {o \in rows : Cardinality({p \in rows : p < o}) < PageSize}

SyncPage(cancel, e, cursor) ==
  ops' = [o \in Op |-> IF o \in PageOf(TiedRows(cursor)) THEN Synced(ops[o], cancel, e)
                                                       ELSE ops[o]]

ChangeEvent(cancel, e) ==
  /\ event' = e
  /\ SyncPage(cancel, e, -1)
  /\ fanout' = IF TiedRows(-1) = PageOf(TiedRows(-1)) THEN fanout
               ELSE fanout \cup {[cancel |-> cancel, cursor |-> -1]}
  /\ UNCHANGED <<connectorActive, notices, woken, expiries, rejections, worker, reports,
                 writes, effects>>

(* setCommunityEventCancelled: the fan-out of a cancellation is forced.     *)
SetEventCancelled(cancelled) ==
  /\ event.cancelled # cancelled
  /\ IF cancelled THEN Disturb("cancel") ELSE UNCHANGED disturbances
  /\ ChangeEvent(cancelled, [event EXCEPT !.cancelled = cancelled])
  /\ UNCHANGED <<now, integration, account, lease, session>>

(* updateCommunityEventRecord: a new time, or none yet.                     *)
RescheduleEvent ==
  /\ Disturb("reschedule")
  /\ \E timed \in BOOLEAN, start \in StartTimes :
       LET e == [event EXCEPT !.timed = timed, !.startAt = start]
       IN e # event /\ ChangeEvent(FALSE, e)
  /\ UNCHANGED <<now, integration, account, lease, session>>

(* retractActorContribution: the event stays scheduled, its actions stop.   *)
RetractEvent ==
  /\ Disturb("retract")
  /\ ChangeEvent(TRUE, event)
  /\ UNCHANGED <<now, integration, account, lease, session>>

(* Mutant: the continuation handles one page and stops.                     *)
MutSyncEventSchedule(c) ==
  /\ SyncPage(c.cancel, event, c.cursor)
  /\ fanout' = fanout \ {c}
  /\ UNCHANGED <<connectionVars, event, connectorActive, notices, woken, expiries,
                 rejections, worker, reports, writes, effects>>

SyncEventSchedule(c) ==
  LET rows == TiedRows(c.cursor)
      page == PageOf(rows)
  IN /\ SyncPage(c.cancel, event, c.cursor)
     /\ fanout' = (fanout \ {c}) \cup
          {[cancel |-> c.cancel, cursor |-> o] :
             o \in {p \in page : rows # page /\ \A q \in page : q <= p}}
     /\ UNCHANGED <<connectionVars, event, connectorActive, notices, woken, expiries,
                    rejections, worker, reports, writes, effects>>
-----------------------------------------------------------------------------
(* rejectConnectionOperations: rows of one state in (dueAt, creation) order. *)
QueueRows(state, cursor) ==
  {o \in Op : /\ ops[o].state = state
              /\ \/ cursor = NoCursor
                 \/ ops[o].dueAt > cursor[1]
                 \/ ops[o].dueAt = cursor[1] /\ o > cursor[2]}
QueuePage(rows) ==
  {o \in rows : Cardinality({p \in rows : \/ ops[p].dueAt < ops[o].dueAt
                                          \/ ops[p].dueAt = ops[o].dueAt /\ p < o}) < PageSize}

(* Mutant: the rows are patched past the hook that reports failures.        *)
MutRejectRows(page, epoch) ==
  /\ ops' = [o \in Op |-> IF o \in page /\ ops[o].epoch <= epoch
                            THEN Unclaimed(Settle(ops[o], "rejected")) ELSE ops[o]]
  /\ UNCHANGED <<notices, woken>>

RejectRows(page, epoch) ==
  Patch([o \in Op |-> IF o \in page /\ ops[o].epoch <= epoch /\ ~ops[o].submitted
                        THEN Unclaimed(Settle(ops[o], "rejected")) ELSE ops[o]])

(* The first pages for pending and claimed, inside the transaction that     *)
(* changes the connection; what is left goes to scheduled pages.            *)
RejectUnsent(epoch) ==
  /\ RejectRows(UNION {QueuePage(QueueRows(state, NoCursor)) : state \in Unsent}, epoch)
  /\ rejections' = rejections \cup
       {[epoch |-> epoch, state |-> state, cursor |-> NoCursor] :
          state \in {s \in Unsent : QueueRows(s, NoCursor) # QueuePage(QueueRows(s, NoCursor))}}
  /\ UNCHANGED <<event, connectorActive, expiries, fanout, worker, reports, writes, effects>>

RejectConnectionOperationsPage(c) ==
  LET rows == QueueRows(c.state, c.cursor)
      page == QueuePage(rows)
  IN /\ RejectRows(page, c.epoch)
     /\ rejections' = (rejections \ {c}) \cup
          {[c EXCEPT !.cursor = <<ops[o].dueAt, o>>] :
             o \in {p \in page : rows # page /\ \A q \in page :
                      \/ ops[q].dueAt < ops[p].dueAt
                      \/ ops[q].dueAt = ops[p].dueAt /\ q <= p}}
     /\ UNCHANGED <<connectionVars, event, connectorActive, expiries, fanout, worker,
                    reports, writes, effects>>

Disconnect == DisconnectGroup /\ RejectUnsent(integration.epoch)
Left(w) == MembershipDisconnected(w) /\ RejectUnsent(integration.epoch)
Reconnect == ConnectGroup /\ RejectUnsent(integration.epoch)

SetConnectorActive ==
  /\ connectorActive' = ~connectorActive
  /\ IF connectorActive THEN Disturb("connector") ELSE UNCHANGED disturbances
  /\ UNCHANGED <<now, integration, account, lease, session, ops, event, notices, woken,
                 expiries, fanout, rejections, worker, reports, writes, effects>>

Crash(w) ==
  /\ Restart(w)
  /\ Abandon(w)
  /\ UNCHANGED <<ops, event, connectorActive, notices, woken, expiries, fanout, rejections,
                 reports, writes, effects>>
-----------------------------------------------------------------------------
(* Steps of the connection that leave the queue alone.  A worker takes and  *)
(* gives back its lease only between operations.                            *)
ConnectionStep ==
  /\ \/ \E w \in Worker : worker[w].pc = "idle" /\ (ClaimAssignment(w) \/ ReleaseLease(w))
     \/ \E w \in Worker : worker[w].pc = "idle" /\ MembershipActive(w)
     \/ \E b \in BOOLEAN : SetKillSwitch(b) \/ RotateCredentials(b) \/ AccountUnavailable(b)
     \/ AccountReady
  /\ UNCHANGED operationVars

Clock == Tick /\ UNCHANGED operationVars

StaffStep == \E o \in Op : Enqueue(o) \/ Edit(o) \/ Cancel(o)

WorkerStep ==
  \E w \in Worker : \/ Claim(w) \/ AuthorizeSubmission(w) \/ DeferClaim(w) \/ RejectClaim(w)
                    \/ ProviderWrite(w) \/ WriteNotAttempted(w) \/ Crash(w)
                    \/ (worker[w].pc = "idle" /\ Left(w))

ServerStep ==
  \/ \E r \in reports : Complete(r)
  \/ \E e \in expiries : ExpireSubmission(e)
  \/ \E o \in Op : ExpireUnsent(o)
  \/ \E c \in fanout : SyncEventSchedule(c)
  \/ \E c \in rejections : RejectConnectionOperationsPage(c)

EnvironmentStep ==
  \/ \E b \in BOOLEAN : SetEventCancelled(b)
  \/ RescheduleEvent \/ RetractEvent
  \/ Disconnect \/ Reconnect \/ SetConnectorActive

Next == ConnectionStep \/ Clock \/ StaffStep \/ WorkerStep \/ ServerStep \/ EnvironmentStep

Spec == Init /\ [][Next]_vars

(* The clock advances, the crons run, scheduled calls run.  No worker, no   *)
(* staff member and no provider is assumed to do anything.                  *)
Fairness == /\ WF_vars(Clock)
            /\ \A o \in Op : WF_vars(ExpireUnsent(o))
            /\ WF_vars(\E e \in expiries : ExpireSubmission(e))
            /\ WF_vars(\E c \in fanout : SyncEventSchedule(c))
            /\ WF_vars(\E c \in rejections : RejectConnectionOperationsPage(c))
LiveSpec == Spec /\ Fairness
-----------------------------------------------------------------------------
(* Properties.                                                              *)

(* No sequence of claims, retries, crashes, lease changes or lost answers   *)
(* sends the write of one operation twice.                                  *)
AtMostOneWrite == \A o \in Op : writes[o] <= 1

(* What the row says about the provider is true: work shown as unsent was   *)
(* not sent, a rejection had no effect, a success had its effect once.      *)
(* Only "indeterminate" leaves it open.                                     *)
TruthfulOutcome ==
  \A o \in Op :
    /\ ops[o].state \in {"absent", "cancelled", "missed"} \cup Unsent => writes[o] = 0
    /\ ops[o].state = "rejected" => effects[o] = 0
    /\ ops[o].state = "succeeded" => effects[o] = 1

(* However claims are swept, released and granted again under new fencing   *)
(* tokens, at most one worker can still move an operation towards VRChat.   *)
OneExecutor ==
  \A v, w \in Worker :
    v # w /\ worker[v].pc = "authorized" =>
      \/ worker[w].op # worker[v].op
      \/ worker[w].pc # "authorized" /\ ~Held(w)

(* An invitation goes out only into the instance its reviewer saw planned:  *)
(* the creation took effect, at the revision the review froze.              *)
InviteFollowsCreation ==
  \A o \in Op :
    Creation[o] # NoOp /\ writes[o] > 0 =>
      /\ ops[Creation[o]].state = "succeeded"
      /\ ops[Creation[o]].revision = ops[o].dependencyRevision
      /\ effects[Creation[o]] = 1

(* Once no fan-out page is outstanding, no unsent action scheduled with the *)
(* event outlives its cancellation, and every event-relative one is due at  *)
(* the event's present time, whatever claims and edits ran in between.      *)
FanoutComplete ==
  fanout = {} =>
    \A o \in Op :
      ops[o].state \in Unsent /\ ops[o].schedule # "fixed" =>
        /\ ~event.cancelled
        /\ Relative(ops[o]) => event.timed /\ ops[o].dueAt = EventTime(ops[o])

(* Every failed staff action has exactly one notice, naming the revision    *)
(* and the outcome the row ended with; nothing else has one.  Every settled *)
(* connector action has resumed its sync job.                               *)
OutcomeReported ==
  \A o \in Op :
    IF o \in Connector
      THEN o \in woken <=> ops[o].state \in Settled
      ELSE {n \in notices : n[1] = o} =
             IF ops[o].state \in Failure
               THEN {<<o, ops[o].revision, ops[o].state>>} ELSE {}

(* A settled action keeps its outcome: late, duplicate and stale reports,   *)
(* sweeps, fan-outs and edits do not change it or queue it again.           *)
SettledIsFinal ==
  [][\A o \in Op : ops[o].state \in Settled =>
       /\ ops'[o].state = ops[o].state
       /\ ops'[o].revision = ops[o].revision]_vars

(* The request that goes out is the revision the row still shows, inside    *)
(* the late window of the time the row still shows: no edit or reschedule   *)
(* slips between the worker's claim and its request.                        *)
ReviewedWrite ==
  [][\A o \in Op : writes'[o] # writes[o] =>
       \E w \in Worker : /\ worker[w].op = o
                         /\ worker[w].revision = ops[o].revision
                         /\ now <= ops[o].dueAt + LateGrace]_vars

(* No action is committed to execution early, late, for an old connection   *)
(* or for an event that was cancelled or moved, even where the fan-out or   *)
(* the rejection pages have not reached it yet.                             *)
SubmissionIsCurrent ==
  [][\A o \in Op : ~ops[o].submitted /\ ops'[o].submitted =>
       /\ ops[o].dueAt <= now /\ now <= ops[o].dueAt + LateGrace
       /\ integration.state = "active" /\ ops[o].epoch = integration.epoch
       /\ ops[o].tied => ~event.cancelled
       /\ Relative(ops[o]) => event.timed /\ ops[o].dueAt = EventTime(ops[o])
       /\ o \in Connector => connectorActive]_vars

(* Without any help from a worker every action reaches an outcome.          *)
EverythingSettles ==
  \A o \in Op : ops[o].state # "absent" ~> ops[o].state \in Settled

(* Where an action stands with ClubPromise: pending and claimed, on time or *)
(* not, it is no more than planned; submitted, it is committed to.          *)
PromiseOf(o) ==
  LET op == ops[o]
  IN [stage |-> IF op.state = "absent" THEN "none"
                ELSE IF op.state \in Unsent THEN "planned"
                ELSE IF op.state = "submitted" THEN "committed" ELSE op.state,
      revision |-> op.revision, reviewed |-> op.dependencyRevision,
      writes |-> writes[o], effects |-> effects[o]]
Promise == INSTANCE ClubPromise WITH row <- [o \in Op |-> PromiseOf(o)]

(* The queue, its crons, its pages, its workers and their late reports move *)
(* every action only the way of ClubPromise: planned until committed to     *)
(* once, written once at most, an invitation only after the creation it was *)
(* reviewed against, an outcome that is final and true.                     *)
KeepsPromise == Promise!Spec

(* docs/planning/group-instance-analytics/operation-backend-contract.md: "A *)
(* cancellation signal remains effective across continuation pages even if  *)
(* the event is reinstated immediately."                                    *)
CancellationHolds ==
  \A o \in Op :
    [](event.cancelled /\ ops[o].state \in Unsent /\ ops[o].schedule # "fixed"
         => []~ops[o].submitted)
=============================================================================
