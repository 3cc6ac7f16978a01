-------------------------- MODULE BroadcastLaunch --------------------------
(***************************************************************************)
(* Sessions of one event's broadcast, from scheduling to the confirmed end *)
(* of their worker (src/convex/eventMediaWorker.ts, src/convex/events.ts). *)
(*                                                                         *)
(* Bridges (src/scripts/event-media-ecs-bridge.mjs) poll for start and     *)
(* stop commands, reserve capacity, launch one ECS task for a session and  *)
(* reconcile tasks with rows; the worker in the task                       *)
(* (src/workers/restream/event-worker.mjs) publishes while it holds a lease*)
(* of its session.  Every action is one Convex transaction, one call to    *)
(* ECS, a local step of a worker, or the loss of an answer or a process.   *)
(***************************************************************************)
EXTENDS Integers, FiniteSets

CONSTANTS Session,    \* session ids in creation order: a bound on the rows
          NoSession,
          Bridge,     \* bridge processes, each with a worker id of its own
          NoBridge,
          Caps,       \* values of VRDEX_EVENT_BROADCAST_MAX_CONCURRENT to explore
          LeaseTime,  \* EVENT_BROADCAST_LEASE_MS
          StopGrace,  \* EVENT_BROADCAST_STOP_GRACE_MS
          Never,      \* no stop was requested
          MaxTime,    \* bound on the clock
          MaxStaff,   \* bound on what staff does besides scheduling
          MaxLosses   \* bound on lost answers and processes

ASSUME LaunchAssumption ==
  /\ IsFiniteSet(Session) /\ Session \subseteq Nat /\ NoSession \notin Session
  /\ NoBridge \notin Bridge
  /\ Caps \subseteq Nat \ {0}
  /\ LeaseTime \in Nat /\ StopGrace \in Nat /\ LeaseTime <= StopGrace
  /\ Never \notin Nat
  /\ MaxTime \in Nat /\ MaxStaff \in Nat /\ MaxLosses \in Nat

VARIABLES now,
          cap,        \* the concurrency limit
          scheduled,  \* event.eventStatus is scheduled
          active,     \* program.activeSessionId
          session,    \* eventMediaSessions rows with their start and stop commands
          bridge,     \* where each bridge is in claimAndProcess
          worker,     \* each session's task and the worker process in it
          launches,   \* how often RunTask was called for a session
          closed,     \* sessions staff declared over
          staff, losses

rows == <<active, session>>
vars == <<now, cap, scheduled, active, session, bridge, worker, launches, closed, staff,
          losses>>

Open == {"scheduled", "starting", "stopping"}

(* starting stands for live, hold and fallback, ended for error as well; a  *)
(* command that is settled is none.  epoch: a worker acquired the session.  *)
(* reserved: dispatchId; launched: launchAttemptedAt; task: workerTaskId;   *)
(* confirmed: dispatchStopConfirmedAt; by: claimedByWorkerId of the start,  *)
(* while it matters.                                                        *)
Command == {"none", "queued", "claimed"}
Row == [status : {"absent", "ended"} \cup Open, epoch : BOOLEAN, lease : Nat,
        stopAt : Nat \cup {Never}, reserved : BOOLEAN, launched : BOOLEAN,
        task : BOOLEAN, confirmed : BOOLEAN, start : Command, by : Bridge \cup {NoBridge},
        stop : Command]
Absent == [status |-> "absent", epoch |-> FALSE, lease |-> 0, stopAt |-> Never,
           reserved |-> FALSE, launched |-> FALSE, task |-> FALSE, confirmed |-> FALSE,
           start |-> "none", by |-> NoBridge, stop |-> "none"]

(* seen: the task and the reservation or epoch of the claimed payload.      *)
Busy == [pc : {"starting", "denied", "admitted", "unlaunched", "marked", "running",
               "stopping"},
         session : Session, task : BOOLEAN, held : BOOLEAN]
Idle == [pc |-> "idle", session |-> NoSession, task |-> FALSE, held |-> FALSE]

(* span: what is left of a lease when the server answers.  report: a        *)
(* terminal report is on its way.                                           *)
OnAir == {"on", "renewing", "renewed", "ending"}
Worker == [ecs : {"none", "running", "stopping", "stopped"},
           pc : {"boot", "asking", "granted", "fenced"} \cup OnAir,
           sent : Nat, span : Nat, authority : Nat, report : BOOLEAN]
NoWorker == [ecs |-> "none", pc |-> "boot", sent |-> 0, span |-> 0, authority |-> 0,
             report |-> FALSE]

TypeOK ==
  /\ now \in 0..MaxTime /\ cap \in Caps /\ scheduled \in BOOLEAN
  /\ active \in Session \cup {NoSession}
  /\ session \in [Session -> Row]
  /\ bridge \in [Bridge -> Busy \cup {Idle}]
  /\ worker \in [Session -> Worker]
  /\ launches \in [Session -> Nat] /\ closed \subseteq Session
  /\ staff \in 0..MaxStaff /\ losses \in 0..MaxLosses

Init ==
  /\ now = 0 /\ cap \in Caps /\ scheduled = TRUE /\ active = NoSession
  /\ session = [s \in Session |-> Absent]
  /\ bridge = [b \in Bridge |-> Idle]
  /\ worker = [s \in Session |-> NoWorker]
  /\ launches = [s \in Session |-> 0] /\ closed = {}
  /\ staff = 0 /\ losses = 0

Lose == losses < MaxLosses /\ losses' = losses + 1
StaffActs == staff < MaxStaff /\ staff' = staff + 1
-----------------------------------------------------------------------------
(* The session an event's handlers work on.                                 *)
OpenSessions == {s \in Session : session[s].status \in Open}
OpenSession ==
  IF active \in OpenSessions THEN active
  ELSE IF OpenSessions # {} THEN CHOOSE s \in OpenSessions : \A t \in OpenSessions : t <= s
  ELSE NoSession

(* A session is over: its commands are settled with it.  Without a          *)
(* reservation nothing else of it is read again.                            *)
Over == [Absent EXCEPT !.status = "ended"]
Close(row) == IF row.reserved
                THEN [row EXCEPT !.status = "ended", !.start = "none", !.stop = "none"]
                ELSE Over
Deselect(s) == IF active = s THEN NoSession ELSE active

(* Staff schedules: the open session is taken again while its start is      *)
(* not claimed, and moves to another time; else there is a new one.         *)
Schedule ==
  /\ scheduled
  /\ \/ /\ OpenSession = NoSession
        /\ \E s \in Session :
             /\ session[s].status = "absent"
             /\ \A t \in Session : t < s => session[t].status # "absent"
             /\ session' = [session EXCEPT ![s] = [Absent EXCEPT !.status = "scheduled",
                                                                 !.start = "queued"]]
             /\ active' = s
     \/ /\ OpenSession # NoSession
        /\ session[OpenSession].status = "scheduled"
        /\ session[OpenSession].start # "claimed"
        /\ active' = OpenSession /\ active # OpenSession
        /\ UNCHANGED session
  /\ UNCHANGED <<now, cap, scheduled, bridge, worker, launches, closed, staff, losses>>

(* stopEventMediaWorker.                                                    *)
Stopping(row) == [row EXCEPT !.status = "stopping", !.stopAt = now, !.stop = "queued"]
StopSession ==
  /\ StaffActs
  /\ \E s \in OpenSessions : /\ session' = [session EXCEPT ![s] = Stopping(@)]
                             /\ active' = s
  /\ UNCHANGED <<now, cap, scheduled, bridge, worker, launches, closed, losses>>

(* markEventMediaWorkerEnded: staff declares a session over, whatever its   *)
(* worker does.                                                             *)
MarkEnded ==
  /\ StaffActs
  /\ \E s \in Session :
       /\ session[s].status # "absent"
       /\ session' = [session EXCEPT ![s] = Close(@)]
       /\ closed' = closed \cup {s}
  /\ active' = NoSession
  /\ UNCHANGED <<now, cap, scheduled, bridge, worker, launches, losses>>

(* settleEventMediaForCancellation: a session that no bridge has taken ends *)
(* at once; another is stopped, with a command for the bridge unless one is *)
(* between the claim of the start and a task.                               *)
Cancelled(row) ==
  LET unstarted == [row EXCEPT !.start = "none"]
      dispatching == row.start = "claimed" /\ ~row.task /\ ~row.epoch
  IN  IF row.status = "scheduled" /\ row.start # "claimed"
        THEN Close(row)
      ELSE IF row.status = "stopping" THEN unstarted
      ELSE [unstarted EXCEPT !.status = "stopping", !.stopAt = now,
                             !.stop = IF dispatching THEN @ ELSE "queued"]

(* The event is cancelled, or its start is taken away or moved; a queued    *)
(* start moves with it.                                                     *)
CancelMedia ==
  /\ StaffActs
  /\ scheduled' \in {scheduled, FALSE}
  /\ IF OpenSession = NoSession THEN UNCHANGED rows
     ELSE /\ session' = [session EXCEPT ![OpenSession] = Cancelled(@)]
          /\ active' = IF session'[OpenSession].status = "ended" THEN NoSession
                       ELSE IF session[OpenSession].status = "stopping" THEN active
                       ELSE OpenSession
  /\ UNCHANGED <<now, cap, bridge, worker, launches, closed, losses>>

Reinstate ==
  /\ ~scheduled /\ scheduled' = TRUE
  /\ UNCHANGED <<now, cap, rows, bridge, worker, launches, closed, staff, losses>>

(* An operator gives a start whose bridge does not finish to another one.   *)
Requeue ==
  /\ StaffActs
  /\ \E s \in Session : /\ session[s].start = "claimed"
                        /\ session' = [session EXCEPT ![s].start = "queued", ![s].by = NoBridge]
  /\ UNCHANGED <<now, cap, scheduled, active, bridge, worker, launches, closed, losses>>
-----------------------------------------------------------------------------
(* claimEventMediaWorkerCommand.  The payload shows the row as it is now.   *)
Claimed(s, pc) == [pc |-> pc, session |-> s, task |-> session[s].task,
                   held |-> session[s].reserved \/ session[s].epoch]
(* What the row of a start without a usable payload becomes: a reservation  *)
(* that may have been used is to be stopped.                                *)
StopTime(row) == IF row.reserved /\ ~row.confirmed /\ row.stopAt = Never THEN now
                                                                       ELSE row.stopAt
Unusable(row) == [Close(row) EXCEPT !.lease = now, !.stopAt = StopTime(Close(row))]

ClaimStart(b) ==
  /\ bridge[b] = Idle
  /\ \E s \in Session :
       /\ session[s].start = "queued" /\ ~session[s].epoch
       /\ \/ /\ session' = [session EXCEPT ![s].start = "claimed", ![s].by = b]
             /\ bridge' = [bridge EXCEPT ![b] = Claimed(s, "starting")]
             /\ UNCHANGED active
          \/ /\ session' = [session EXCEPT ![s] = Unusable(@)]
             /\ active' = Deselect(s)
             /\ UNCHANGED bridge
  /\ UNCHANGED <<now, cap, scheduled, worker, launches, closed, staff, losses>>

ClaimStop(b) ==
  /\ bridge[b] = Idle
  /\ \E s \in Session :
       /\ session[s].stop = "queued"
       /\ session' = [session EXCEPT ![s].stop = "claimed"]
       /\ bridge' = [bridge EXCEPT ![b] = Claimed(s, "stopping")]
  /\ UNCHANGED <<now, cap, scheduled, active, worker, launches, closed, staff, losses>>

(* Mutant: sessions that are over are not counted.                          *)
MutHeld == {s \in OpenSessions : session[s].reserved /\ ~session[s].confirmed}
(* What the limit counts: reservations whose task is not known to be over.  *)
Held == {s \in Session : session[s].reserved /\ ~session[s].confirmed}

(* Mutant: the bridge forgets which session it works on.                    *)
MutGoto(b, pc) == bridge' = [bridge EXCEPT ![b] = [Idle EXCEPT !.pc = pc]]
Goto(b, pc) == bridge' = [bridge EXCEPT ![b] = [Idle EXCEPT !.pc = pc,
                                                           !.session = bridge[b].session]]
GiveUp(b) == bridge' = [bridge EXCEPT ![b] = Idle]

(* A bridge that saw the session reserved asks with that dispatch id again. *)
AdmitDispatch(b) ==
  LET s == bridge[b].session
      admissible == /\ active = s /\ session[s].stopAt = Never
                    /\ session[s].status \in Open /\ ~session[s].confirmed
      granted == IF session[s].reserved THEN bridge[b].held ELSE Cardinality(Held) < cap
  IN  /\ bridge[b].pc = "starting"
      /\ IF admissible /\ granted
           THEN session' = [session EXCEPT ![s].reserved = TRUE] /\ Goto(b, "admitted")
           ELSE UNCHANGED session /\ bridge' = [bridge EXCEPT ![b].pc = "denied"]
      /\ UNCHANGED <<now, cap, scheduled, active, worker, launches, closed, staff, losses>>

(* recordEventMediaWorkerBridgeTaskStatus with status error, for sessions   *)
(* no worker has acquired: the start was denied, or the stop came before    *)
(* anything was reserved.                                                   *)
Fail(s) == IF session[s].epoch THEN UNCHANGED rows
           ELSE /\ session' = [session EXCEPT ![s] = Close(@)]
                /\ active' = Deselect(s)
ReportDenied(b) ==
  /\ bridge[b].pc = "denied"
  /\ IF bridge[b].held THEN UNCHANGED rows ELSE Fail(bridge[b].session)
  /\ GiveUp(b)
  /\ UNCHANGED <<now, cap, scheduled, worker, launches, closed, staff, losses>>

(* Whether the reservation is still provably without a task.                *)
Unlaunched(b, s) ==
  /\ session[s].reserved /\ ~session[s].launched /\ ~session[s].epoch /\ ~session[s].task
  /\ ~session[s].confirmed /\ session[s].status \in Open
  /\ active = s /\ session[s].start = "claimed" /\ session[s].by = b

(* Registration fails, or the bridge drains.                                *)
Withdraw(b) ==
  /\ bridge[b].pc = "admitted"
  /\ Goto(b, "unlaunched")
  /\ UNCHANGED <<now, cap, scheduled, rows, worker, launches, closed, staff, losses>>

ReleaseUnlaunched(b) ==
  LET s == bridge[b].session
  IN  /\ bridge[b].pc = "unlaunched"
      /\ IF Unlaunched(b, s)
           THEN session' = [session EXCEPT ![s] = Over] /\ active' = NoSession
           ELSE UNCHANGED rows
      /\ GiveUp(b)
      /\ UNCHANGED <<now, cap, scheduled, worker, launches, closed, staff, losses>>

MarkLaunchAttempt(b) ==
  LET s == bridge[b].session
  IN  /\ bridge[b].pc = "admitted"
      /\ IF Unlaunched(b, s) /\ session[s].stopAt = Never
           THEN /\ session' = [session EXCEPT ![s].launched = TRUE, ![s].by = NoBridge]
                /\ Goto(b, "marked")
           ELSE UNCHANGED session /\ Goto(b, "unlaunched")
      /\ UNCHANGED <<now, cap, scheduled, active, worker, launches, closed, staff, losses>>

(* ECS: the task runs or it does not, and the bridge may not learn which.   *)
RunTask(b) ==
  LET s == bridge[b].session
  IN  /\ bridge[b].pc = "marked"
      /\ launches' = [launches EXCEPT ![s] = @ + 1]
      /\ \/ /\ worker' = [worker EXCEPT ![s].ecs = "running"]
            /\ \/ Goto(b, "running") /\ UNCHANGED losses
               \/ GiveUp(b) /\ Lose
         \/ UNCHANGED worker /\ GiveUp(b) /\ Lose
      /\ UNCHANGED <<now, cap, scheduled, rows, closed, staff>>

RecordDispatchedTask(b) ==
  LET s == bridge[b].session
  IN  /\ bridge[b].pc = "running"
      /\ session' = IF session[s].reserved /\ session[s].launched /\ ~session[s].confirmed
                      THEN [session EXCEPT ![s].task = TRUE] ELSE session
      /\ GiveUp(b)
      /\ UNCHANGED <<now, cap, scheduled, active, worker, launches, closed, staff, losses>>

StopTask(s) == worker' = [worker EXCEPT ![s].ecs = IF @ = "running" THEN "stopping" ELSE @]

(* stopCommand, which knows what the claim showed it.                       *)
StopCommand(b) ==
  LET s == bridge[b].session
  IN  /\ bridge[b].pc = "stopping"
      /\ IF bridge[b].task THEN StopTask(s) /\ UNCHANGED rows
         ELSE IF bridge[b].held THEN UNCHANGED <<rows, worker>>
         ELSE Fail(s) /\ UNCHANGED worker
      /\ GiveUp(b)
      /\ UNCHANGED <<now, cap, scheduled, launches, closed, staff, losses>>

(* A bridge dies, or an answer it needs does not come.                      *)
BridgeLost(b) ==
  /\ bridge[b] # Idle
  /\ GiveUp(b) /\ Lose
  /\ UNCHANGED <<now, cap, scheduled, rows, worker, launches, closed, staff>>

(* refreshSessions, for a task that is on record: it is stopped when its    *)
(* session is to stop, or the bridge drains ...                             *)
ReconcileStop(s) ==
  /\ session[s].task /\ ~session[s].confirmed /\ session[s].stopAt # Never
  /\ worker[s].ecs = "running"
  /\ StopTask(s)
  /\ UNCHANGED <<now, cap, scheduled, rows, bridge, launches, closed, staff, losses>>
DrainTask(s) ==
  /\ session[s].task /\ ~session[s].confirmed /\ worker[s].ecs = "running"
  /\ Lose /\ StopTask(s)
  /\ UNCHANGED <<now, cap, scheduled, rows, bridge, launches, closed, staff>>

(* The row of a task that stopped; nothing else of it is read again.        *)
Stopped == [Over EXCEPT !.reserved = TRUE, !.launched = TRUE, !.task = TRUE,
                        !.confirmed = TRUE]

(* Mutant: a session that is over already is left alone.                    *)
MutConfirmStopped(s) ==
  /\ session[s].task /\ ~session[s].confirmed /\ worker[s].ecs = "stopped"
  /\ session[s].status \in Open
  /\ session' = [session EXCEPT ![s] = Stopped]
  /\ active' = Deselect(s)
  /\ UNCHANGED <<now, cap, scheduled, bridge, worker, launches, closed, staff, losses>>
(* Mutant: a task that was told to stop counts as stopped.                  *)
MutConfirmEarly(s) ==
  /\ session[s].task /\ ~session[s].confirmed /\ worker[s].ecs \in {"stopping", "stopped"}
  /\ session' = [session EXCEPT ![s] = Stopped]
  /\ active' = Deselect(s)
  /\ UNCHANGED <<now, cap, scheduled, bridge, worker, launches, closed, staff, losses>>
(* ... and once ECS reports it STOPPED its capacity is free again.  The     *)
(* session is over at the latest now.                                       *)
ConfirmStopped(s) ==
  /\ session[s].task /\ ~session[s].confirmed /\ worker[s].ecs = "stopped"
  /\ session' = [session EXCEPT ![s] = Stopped]
  /\ active' = Deselect(s)
  /\ UNCHANGED <<now, cap, scheduled, bridge, worker, launches, closed, staff, losses>>

(* The task ends: asked to, because its worker is over, or by a crash.      *)
TaskStops(s) ==
  /\ worker[s].ecs \in {"running", "stopping"}
  /\ IF worker[s].ecs = "stopping" \/ worker[s].pc = "fenced" THEN UNCHANGED losses ELSE Lose
  /\ worker' = [worker EXCEPT ![s] = [NoWorker EXCEPT !.ecs = "stopped", !.pc = "fenced",
                                                         !.report = worker[s].report]]
  /\ UNCHANGED <<now, cap, scheduled, rows, bridge, launches, closed, staff>>
-----------------------------------------------------------------------------
(* The worker asks for the session, and for more time; the server decides   *)
(* when the request arrives, the worker learns of it later still.           *)
Process(s) == worker[s].ecs \in {"running", "stopping"}
At(s, pc) == Process(s) /\ worker[s].pc = pc
Step(s, w) == /\ worker' = [worker EXCEPT ![s] = w]
              /\ UNCHANGED <<now, cap, scheduled, bridge, launches, closed, staff, losses>>

Ask(s) == /\ At(s, "boot")
          /\ Step(s, [worker[s] EXCEPT !.pc = "asking", !.sent = now])
          /\ UNCHANGED rows
AskMore(s) == /\ At(s, "on")
              /\ Step(s, [worker[s] EXCEPT !.pc = "renewing", !.sent = now])
              /\ UNCHANGED rows

(* records: the session is the active one and not over; owns: its lease runs.*)
Current(s) == active = s /\ session[s].status \in Open
Owns(s) == Current(s) /\ session[s].epoch /\ session[s].lease > now

AcquireSession(s) ==
  /\ At(s, "asking") /\ Current(s)
  /\ scheduled /\ session[s].stopAt = Never /\ session[s].status # "stopping"
  /\ session[s].lease <= now /\ ~session[s].epoch
  /\ \A t \in OpenSessions \ {s} : session[t].lease <= now
  /\ session' = [session EXCEPT ![s].epoch = TRUE, ![s].lease = now + LeaseTime,
                                ![s].status = "starting"]
  /\ Step(s, [worker[s] EXCEPT !.pc = "granted", !.span = LeaseTime])
  /\ UNCHANGED active

(* Mutant: the grace of a stop does not bound the lease.                    *)
MutRenewed(s) == now + LeaseTime
Renewed(s) == LET limit == session[s].stopAt + StopGrace
              IN  IF session[s].stopAt # Never /\ limit < now + LeaseTime
                    THEN limit ELSE now + LeaseTime

RenewSession(s) ==
  /\ At(s, "renewing") /\ Owns(s)
  /\ session[s].stopAt # Never => now < session[s].stopAt + StopGrace
  /\ session' = [session EXCEPT ![s].lease = Renewed(s)]
  /\ Step(s, [worker[s] EXCEPT !.pc = "renewed", !.span = Renewed(s) - now])
  /\ UNCHANGED active

(* Mutant: the lease counts from the moment its answer arrives.             *)
MutAuthority(w) == now + w.span
(* The worker counts its authority from the moment it sent the request.     *)
Authority(w) == w.sent + w.span

AcceptLease(s) ==
  /\ At(s, "granted") \/ At(s, "renewed")
  /\ Step(s, [worker[s] EXCEPT !.pc = "on", !.authority = Authority(worker[s]),
                               !.sent = 0, !.span = 0])
  /\ UNCHANGED rows

(* Mutant: the worker reports first and stops its outputs after the answer. *)
MutFenced(w, report) == [w EXCEPT !.report = report]
(* Outputs stop before anything is reported.                                *)
Fenced(w, report) == [w EXCEPT !.pc = "fenced", !.report = report,
                               !.sent = 0, !.span = 0, !.authority = 0]

(* A request fails or is refused, the configuration says stopped, the task  *)
(* is told to stop, the watchdog strikes.  A worker that had started says   *)
(* so while it still may.                                                   *)
Fence(s) ==
  /\ Process(s) /\ worker[s].pc # "fenced" /\ ~worker[s].report
  /\ Step(s, Fenced(worker[s], worker[s].pc \in OnAir /\ now < worker[s].authority))
  /\ UNCHANGED rows

(* The worker claims the stop command, a bridge or not having claimed it,   *)
(* goes off the air and acknowledges.                                       *)
ClaimStopCommand(s) ==
  /\ At(s, "on") /\ Owns(s) /\ session[s].stop \in {"queued", "claimed"}
  /\ session' = [session EXCEPT ![s].stop = "claimed"]
  /\ Step(s, [worker[s] EXCEPT !.pc = "ending"])
  /\ UNCHANGED active
EndProgram(s) == /\ At(s, "ending") /\ ~worker[s].report
                 /\ Step(s, Fenced(worker[s], TRUE))
                 /\ UNCHANGED rows

(* observeProgram with state error, acknowledgeCommand with state ended.    *)
ReceiveReport(s) ==
  /\ worker[s].report
  /\ IF Owns(s) THEN /\ session' = [session EXCEPT ![s] = Close(@)]
                     /\ active' = NoSession
     ELSE UNCHANGED rows
  /\ Step(s, [worker[s] EXCEPT !.report = FALSE])
LoseReport(s) ==
  /\ worker[s].report /\ Lose
  /\ worker' = [worker EXCEPT ![s].report = FALSE]
  /\ UNCHANGED <<now, cap, scheduled, rows, bridge, launches, closed, staff>>

Tick == /\ now < MaxTime /\ now' = now + 1
        /\ UNCHANGED <<cap, scheduled, rows, bridge, worker, launches, closed, staff, losses>>
-----------------------------------------------------------------------------
BridgeStep(b) ==
  \/ ClaimStart(b) \/ ClaimStop(b) \/ AdmitDispatch(b) \/ ReportDenied(b) \/ Withdraw(b)
  \/ ReleaseUnlaunched(b) \/ MarkLaunchAttempt(b) \/ RunTask(b)
  \/ RecordDispatchedTask(b) \/ StopCommand(b) \/ BridgeLost(b)
TaskStep(s) ==
  \/ ReconcileStop(s) \/ DrainTask(s) \/ ConfirmStopped(s) \/ TaskStops(s)
WorkerStep(s) ==
  \/ Ask(s) \/ AskMore(s) \/ AcquireSession(s) \/ RenewSession(s) \/ AcceptLease(s)
  \/ Fence(s) \/ ClaimStopCommand(s) \/ EndProgram(s) \/ ReceiveReport(s) \/ LoseReport(s)

Next ==
  \/ Schedule \/ StopSession \/ MarkEnded \/ CancelMedia \/ Reinstate \/ Requeue \/ Tick
  \/ \E b \in Bridge : BridgeStep(b)
  \/ \E s \in Session : TaskStep(s) \/ WorkerStep(s)

Spec == Init /\ [][Next]_vars

(* Bridges keep polling, and a task that was told to stop, or whose worker  *)
(* is over, exits.                                                          *)
Exits(s) == TaskStops(s) /\ (worker[s].ecs = "stopping" \/ worker[s].pc = "fenced")
Fairness ==
  WF_vars(\E s \in Session : ReconcileStop(s) \/ Exits(s) \/ ConfirmStopped(s))
LiveSpec == Spec /\ Fairness
-----------------------------------------------------------------------------
(* No session is ever launched twice, and the tasks that run never exceed   *)
(* the limit, whatever was lost and whoever declared a session over         *)
(* ("never expire into duplicates", src/convex/eventMediaWorker.ts:469).    *)
Running == {s \in Session : worker[s].ecs \in {"running", "stopping"}}
CapacityHeld == /\ Cardinality(Running) <= cap
                /\ \A s \in Session : launches[s] <= 1

(* Where a session's reservation stands, and the promise it keeps.          *)
SlotOf(s) == IF ~session[s].reserved THEN "free"
             ELSE IF session[s].confirmed THEN "returned"
             ELSE IF worker[s].ecs = "stopped" THEN "stopped"
             ELSE IF worker[s].ecs # "none" THEN "running"
             ELSE IF session[s].launched THEN "launched" ELSE "reserved"
Slots == INSTANCE BroadcastSlots WITH slot <- [s \in Session |-> SlotOf(s)]

(* Whatever bridges, workers, staff and losses do, a reservation goes the   *)
(* way of BroadcastSlots: made within the limit, committed before the       *)
(* launch, given back only unlaunched or after the task stopped.            *)
KeepsSlots == Slots!Spec

(* A worker publishes while it is not fenced and its own clock lies before  *)
(* its authority.                                                           *)
Publishing(s) == Process(s) /\ worker[s].pc \in OnAir /\ now < worker[s].authority

(* Two sessions of the event are never on the air together, unless staff    *)
(* declared one of them over while its worker ran.                          *)
OnePublisher ==
  \A s, t \in Session \ closed : Publishing(s) /\ Publishing(t) => s = t

(* However late answers come, a worker never believes in its lease longer   *)
(* than the server does.                                                    *)
LeaseCoversAuthority == \A s \in Session : Publishing(s) => now < session[s].lease

(* A worker that nobody reaches any more is off the air one grace after     *)
(* the last request to stop it.                                             *)
StopIsBounded ==
  \A s \in Session : session[s].stopAt # Never /\ Publishing(s)
                       => now < session[s].stopAt + StopGrace

(* A recorded task that was told to stop, or whose worker is over, gives    *)
(* its capacity back, without help of the worker.                           *)
CapacityReturns ==
  \A s \in Session :
    session[s].task /\ (session[s].stopAt # Never \/ worker[s].pc = "fenced")
      ~> session[s].confirmed

(* Only an ambiguous dispatch keeps capacity: a reservation that was never  *)
(* launched, of a session staff did not declare over, has a bridge that     *)
(* still works on it, or will have, unless an answer or a bridge was lost   *)
(* (src/convex/eventMediaWorker.ts:468).                                    *)
OnlyAmbiguousHeld ==
  \A s \in Session \ closed :
    session[s].reserved /\ ~session[s].launched /\ losses = 0
      => session[s].start = "queued" \/ \E b \in Bridge : bridge[b].session = s
=============================================================================
