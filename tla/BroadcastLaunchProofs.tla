----------------------- MODULE BroadcastLaunchProofs -----------------------
(***************************************************************************)
(* What holds of every broadcast session, proved for every set of sessions *)
(* and bridges, every limit and every value of the durations and bounds:   *)
(* CapacityHeld, OnePublisher, LeaseCoversAuthority and StopIsBounded, and *)
(* that every behaviour is one of BroadcastSlots.                          *)
(***************************************************************************)
EXTENDS BroadcastLaunch, FiniteSetTheorems, TLAPS

USE LaunchAssumption

(* A row, its task and the number of its launches.  A task exists only for  *)
(* a launched, reserved row, and a reservation is confirmed to be over only *)
(* when its task is.                                                        *)
LaunchInv(s) ==
  /\ session[s].launched => session[s].reserved
  /\ session[s].reserved => session[s].status # "absent"
  /\ session[s].epoch => worker[s].ecs # "none" /\ session[s].status # "scheduled"
  /\ worker[s].ecs # "none" => launches[s] = 1
  /\ launches[s] \in {0, 1}
  /\ launches[s] = 1 => session[s].launched
  /\ session[s].confirmed => worker[s].ecs = "stopped"
  /\ worker[s].ecs = "stopped" \/ worker[s].report => worker[s].pc = "fenced"

(* A worker that may be on the air, or is about to be told so, has a        *)
(* session that is not over, unless staff said it is.                       *)
AirInv(s) ==
  worker[s].pc \in OnAir \cup {"granted"} =>
    /\ session[s].epoch
    /\ s \notin closed => session[s].status \in {"starting", "stopping"}

(* What a worker believes about its lease, or is about to be told, is less  *)
(* than what the server granted; what the server granted is bounded by the  *)
(* stop.                                                                    *)
LeaseInv(s) ==
  /\ worker[s].sent <= now /\ session[s].lease <= now + LeaseTime
  /\ session[s].stopAt # Never => session[s].stopAt <= now
  /\ session[s].stopAt # Never /\ session[s].epoch =>
       session[s].lease <= session[s].stopAt + StopGrace
  /\ worker[s].pc \in OnAir => worker[s].authority <= session[s].lease
  /\ worker[s].pc \in {"granted", "renewed"} =>
       worker[s].sent + worker[s].span <= session[s].lease

SessionInv == \A s \in Session : LaunchInv(s) /\ AirInv(s) /\ LeaseInv(s)

(* One bridge at most is between the marker and the launch of a session.    *)
Marked(b, s) == bridge[b].pc = "marked" /\ bridge[b].session = s
MarkInv ==
  \A b \in Bridge, s \in Session : Marked(b, s) =>
    /\ session[s].launched /\ launches[s] = 0
    /\ \A c \in Bridge : Marked(c, s) => c = b

HeldInv == Cardinality(Held) <= cap
OneOpen == \A s, t \in OpenSessions : s = t

Inv == TypeOK /\ SessionInv /\ MarkInv /\ HeldInv /\ OneOpen

-----------------------------------------------------------------------------
(* Rows stay rows.                                                          *)

(* The constant rows and what closing and stopping make of a row.           *)
LEMMA RowTypes ==
  /\ Absent \in Row /\ Over \in Row /\ Stopped \in Row
  /\ \A row \in Row : Close(row) \in Row
<1>1. Absent \in Row /\ Over \in Row /\ Stopped \in Row
  BY DEF Absent, Over, Stopped, Row, Open, Command
<1>2. \A row \in Row : Close(row) \in Row
  BY <1>1 DEF Close, Row, Open, Command
<1> QED BY <1>1, <1>2

(* A request to stop keeps a row a row.                                     *)
LEMMA StoppingType ==
  ASSUME TypeOK, NEW row \in Row
  PROVE  Stopping(row) \in Row /\ Cancelled(row) \in Row
<1>1. now \in Nat
  BY DEF TypeOK
<1>2. Stopping(row) \in Row
  BY <1>1 DEF Stopping, Row, Open, Command
<1>3. [row EXCEPT !.start = "none"] \in Row
  BY DEF Row, Command
<1>4. ASSUME NEW c \in Command
      PROVE  [[row EXCEPT !.start = "none"] EXCEPT !.status = "stopping", !.stopAt = now,
                                                   !.stop = c] \in Row
  BY <1>1 DEF Row, Open, Command
<1>5. row.stop \in Command /\ "queued" \in Command
  BY DEF Row, Command
<1>6. Close(row) \in Row
  BY RowTypes
<1>7. Cancelled(row) \in Row
  BY <1>3, <1>4, <1>5, <1>6 DEF Cancelled
<1> QED BY <1>2, <1>7

(* What a bridge holds after a claim, and between its calls.                *)
LEMMA BridgeTypes ==
  ASSUME TypeOK, NEW s \in Session
  PROVE  \A pc \in {"starting", "stopping"} : Claimed(s, pc) \in Busy
<1>1. session[s].task \in BOOLEAN /\ (session[s].reserved \/ session[s].epoch) \in BOOLEAN
  BY DEF TypeOK, Row
<1> QED BY <1>1 DEF Claimed, Busy

(* A bridge that is somewhere works on a session.                           *)
LEMMA BridgeIsBusy ==
  ASSUME TypeOK, NEW b \in Bridge, bridge[b].pc # "idle"
  PROVE  bridge[b] \in Busy /\ bridge[b].session \in Session
<1>1. bridge[b] \in Busy
  BY DEF TypeOK, Idle
<1> QED BY <1>1 DEF Busy

(* Moving on and giving up keep every bridge well-formed.                   *)
LEMMA BridgeMoves ==
  ASSUME TypeOK, NEW b \in Bridge, bridge[b] \in Busy,
         NEW pc \in {"admitted", "unlaunched", "marked", "running"},
         Goto(b, pc) \/ GiveUp(b)
  PROVE  bridge' \in [Bridge -> Busy \cup {Idle}]
<1>1. [Idle EXCEPT !.pc = pc, !.session = bridge[b].session] \in Busy
  BY DEF Idle, Busy
<1> QED BY <1>1 DEF TypeOK, Goto, GiveUp

-----------------------------------------------------------------------------
(* Facts the steps share.                                                   *)

(* Launching depends on nothing that a step which neither marks nor         *)
(* launches can change.                                                     *)
LEMMA MarksKept ==
  ASSUME MarkInv, launches' = launches,
         \A s \in Session : session[s].launched => session'[s].launched,
         \A b \in Bridge, s \in Session : Marked(b, s)' => Marked(b, s)
  PROVE  MarkInv'
  BY DEF MarkInv

(* A bridge that gives up or goes anywhere but past the marker marks        *)
(* nothing.                                                                 *)
LEMMA Unmarked ==
  ASSUME TypeOK, NEW b \in Bridge,
         \/ bridge' = bridge
         \/ GiveUp(b)
         \/ \E pc \in {"admitted", "unlaunched", "running"} : Goto(b, pc)
         \/ \E s \in Session, pc \in {"starting", "stopping"} :
              bridge' = [bridge EXCEPT ![b] = Claimed(s, pc)]
         \/ bridge[b] \in Busy /\ bridge' = [bridge EXCEPT ![b].pc = "denied"]
  PROVE  \A c \in Bridge, s \in Session : Marked(c, s)' => Marked(c, s)
<1> SUFFICES ASSUME NEW c \in Bridge, NEW s \in Session, Marked(c, s)'
             PROVE  bridge'[c] = bridge[c]
  BY DEF Marked
<1>1. c # b => bridge'[c] = bridge[c]
  BY DEF TypeOK, GiveUp, Goto
<1>2. CASE bridge' = bridge
  BY <1>2
<1>3. CASE GiveUp(b)
  BY <1>1, <1>3 DEF TypeOK, GiveUp, Idle, Marked
<1>4. CASE \E pc \in {"admitted", "unlaunched", "running"} : Goto(b, pc)
  BY <1>1, <1>4 DEF TypeOK, Goto, Idle, Marked
<1>5. CASE \E t \in Session, pc \in {"starting", "stopping"} :
             bridge' = [bridge EXCEPT ![b] = Claimed(t, pc)]
  BY <1>1, <1>5 DEF TypeOK, Claimed, Marked
<1>6. CASE bridge[b] \in Busy /\ bridge' = [bridge EXCEPT ![b].pc = "denied"]
  BY <1>1, <1>6 DEF TypeOK, Busy, Marked
<1> QED BY <1>2, <1>3, <1>4, <1>5, <1>6

(* Reservations that are not new are counted already.                       *)
LEMMA HeldShrinks ==
  ASSUME HeldInv, cap' = cap, TypeOK,
         \A s \in Session : session'[s].reserved /\ ~session'[s].confirmed
                            => session[s].reserved /\ ~session[s].confirmed
  PROVE  HeldInv'
<1>1. Held' \subseteq Held
  BY DEF Held
<1>2. IsFiniteSet(Held)
  BY FS_Subset DEF Held
<1>3. Cardinality(Held') \in Nat /\ Cardinality(Held) \in Nat /\ Cardinality(Held') <= Cardinality(Held)
  BY <1>1, <1>2, FS_Subset, FS_CardinalityType
<1> QED BY <1>3 DEF HeldInv, TypeOK

(* No two sessions are open at once, so the one handlers find is the one.   *)
LEMMA TheOpenSession ==
  ASSUME Inv
  PROVE  /\ OpenSession = NoSession => OpenSessions = {}
         /\ OpenSession # NoSession => OpenSession \in OpenSessions
<1>1. CASE active \in OpenSessions
  BY <1>1 DEF OpenSession, OpenSessions
<1>2. CASE active \notin OpenSessions /\ OpenSessions # {}
  <2>1. PICK s \in OpenSessions : TRUE
    BY <1>2
  <2>2. \A t \in OpenSessions : t <= s
    BY <2>1 DEF Inv, OneOpen, OpenSessions
  <2>3. OpenSession = CHOOSE u \in OpenSessions : \A t \in OpenSessions : t <= u
    BY <1>2 DEF OpenSession
  <2>4. OpenSession \in OpenSessions
    BY <2>2, <2>3
  <2> QED BY <2>4 DEF OpenSessions
<1>3. CASE active \notin OpenSessions /\ OpenSessions = {}
  BY <1>3 DEF OpenSession
<1> QED BY <1>1, <1>2, <1>3

(* What closing leaves of a row that a launch or a worker depends on.       *)
LEMMA ClosedRow ==
  ASSUME Inv, NEW s \in Session, NEW row, row = Close(session[s])
  PROVE  /\ row.status = "ended"
         /\ row.reserved = session[s].reserved /\ row.launched = session[s].launched
         /\ row.confirmed = session[s].confirmed /\ row.epoch = session[s].epoch
         /\ session[s].reserved => row.lease = session[s].lease /\ row.stopAt = session[s].stopAt
         /\ ~session[s].reserved => row.lease = 0 /\ row.stopAt = Never
<1>1. session[s] \in Row /\ LaunchInv(s)
  BY DEF Inv, TypeOK, SessionInv
<1>2. CASE session[s].reserved
  BY <1>1, <1>2 DEF Close, Row
<1>3. CASE ~session[s].reserved
  BY <1>1, <1>3 DEF Close, Over, Absent, LaunchInv, Row
<1> QED BY <1>1, <1>2, <1>3 DEF Row

(* The row of an unusable start, which a reservation outlives too.          *)
LEMMA UnusableRow ==
  ASSUME Inv, NEW s \in Session, NEW row, row = Unusable(session[s])
  PROVE  /\ row \in Row /\ row.status = "ended" /\ row.lease = now
         /\ row.reserved = session[s].reserved /\ row.launched = session[s].launched
         /\ row.confirmed = session[s].confirmed /\ row.epoch = session[s].epoch
         /\ row.stopAt \in {Never, session[s].stopAt, now}
<1> DEFINE ended == Close(session[s])
<1>1. /\ ended \in Row /\ ended.status = "ended"
      /\ ended.reserved = session[s].reserved /\ ended.launched = session[s].launched
      /\ ended.confirmed = session[s].confirmed /\ ended.epoch = session[s].epoch
      /\ ended.stopAt \in {Never, session[s].stopAt}
  BY RowTypes, ClosedRow DEF Inv, TypeOK
<1>2. row = [ended EXCEPT !.lease = now, !.stopAt = StopTime(ended)]
  BY DEF Unusable
<1> DEFINE stop == StopTime(ended)
<1>3. now \in Nat /\ stop \in {ended.stopAt, now}
  BY DEF StopTime, Inv, TypeOK
<1> HIDE DEF ended, stop
<1> DEFINE leased == [ended EXCEPT !.lease = now]
<1>4. leased \in Row /\ leased.lease = now /\ leased.status = "ended"
      /\ leased.reserved = ended.reserved /\ leased.launched = ended.launched
      /\ leased.confirmed = ended.confirmed /\ leased.epoch = ended.epoch
      /\ leased.stopAt = ended.stopAt
  BY <1>1, <1>3 DEF Row
<1>5. stop \in Nat \cup {Never}
  BY <1>1, <1>3 DEF Row
<1>6. row = [leased EXCEPT !.stopAt = stop]
  BY <1>1, <1>2 DEF Row, stop
<1> HIDE DEF leased
<1> QED BY <1>1, <1>3, <1>4, <1>5, <1>6 DEF Row

(* Closing a session keeps the invariant when its worker is off the air or  *)
(* staff answers for it.                                                    *)
LEMMA CloseKeeps ==
  ASSUME Inv, NEW s \in Session,
         session' = [session EXCEPT ![s] = Close(session[s])],
         now' = now, cap' = cap, launches' = launches, worker' = worker,
         closed \subseteq closed', closed' \subseteq Session,
         s \in closed' \/ worker[s].pc \notin OnAir \cup {"granted"}
  PROVE  /\ session' \in [Session -> Row] /\ SessionInv' /\ HeldInv' /\ OneOpen'
         /\ \A t \in Session : session[t].launched => session'[t].launched
<1> DEFINE row == Close(session[s])
<1>1. session[s] \in Row /\ row \in Row
  BY RowTypes DEF Inv, TypeOK
<1>2. session' \in [Session -> Row]
  BY <1>1 DEF Inv, TypeOK
<1>3. session'[s] = row /\ \A t \in Session \ {s} : session'[t] = session[t]
  BY DEF Inv, TypeOK
<1>4. /\ row.status = "ended"
      /\ row.reserved = session[s].reserved /\ row.launched = session[s].launched
      /\ row.confirmed = session[s].confirmed /\ row.epoch = session[s].epoch
      /\ session[s].reserved => row.lease = session[s].lease /\ row.stopAt = session[s].stopAt
      /\ ~session[s].reserved => row.lease = 0 /\ row.stopAt = Never
  BY ClosedRow
<1> HIDE DEF row
<1>5. SessionInv'
  <2> SUFFICES ASSUME NEW t \in Session PROVE (LaunchInv(t) /\ AirInv(t) /\ LeaseInv(t))'
    BY DEF SessionInv
  <2>1. LaunchInv(t) /\ AirInv(t) /\ LeaseInv(t)
    BY DEF Inv, SessionInv
  <2>2. now \in Nat /\ worker[t] \in Worker /\ session[t] \in Row
    BY DEF Inv, TypeOK
  <2>3. CASE t # s
    BY <1>3, <2>1, <2>3 DEF LaunchInv, AirInv, LeaseInv
  <2>4. CASE t = s
    <3>1. LaunchInv(s)'
      BY <1>3, <1>4, <2>1, <2>4 DEF LaunchInv
    <3>2. AirInv(s)'
      BY <1>3, <1>4, <2>1, <2>4 DEF AirInv
    <3>3. LeaseInv(s)'
      BY <1>3, <1>4, <2>1, <2>2, <2>4 DEF LeaseInv, LaunchInv, AirInv, Worker, Row
    <3> QED BY <2>4, <3>1, <3>2, <3>3
  <2> QED BY <2>3, <2>4
<1>6. HeldInv'
  BY <1>3, <1>4, HeldShrinks DEF Inv
<1>7. OneOpen'
  BY <1>3, <1>4 DEF Inv, OneOpen, OpenSessions, Open
<1> QED BY <1>2, <1>3, <1>4, <1>5, <1>6, <1>7

(* Any other step changes one session and its worker.  It is enough to look *)
(* at those.                                                                *)
LEMMA StepAt ==
  ASSUME Inv, TypeOK', NEW s \in Session,
         \A t \in Session \ {s} : session'[t] = session[t] /\ worker'[t] = worker[t],
         now' = now, cap' = cap, launches' = launches, closed \subseteq closed',
         session'[s].reserved /\ ~session'[s].confirmed
           => session[s].reserved /\ ~session[s].confirmed,
         session[s].launched => session'[s].launched,
         session'[s].status \in Open => session[s].status \in Open,
         \A b \in Bridge, t \in Session : Marked(b, t)' => Marked(b, t),
         (LaunchInv(s) /\ AirInv(s) /\ LeaseInv(s))'
  PROVE  Inv'
<1>1. SessionInv'
  <2> SUFFICES ASSUME NEW t \in Session, t # s
               PROVE  (LaunchInv(t) /\ AirInv(t) /\ LeaseInv(t))'
    BY DEF SessionInv
  <2>1. session'[t] = session[t] /\ worker'[t] = worker[t]
    OBVIOUS
  <2>2. LaunchInv(t) /\ AirInv(t) /\ LeaseInv(t)
    BY DEF Inv, SessionInv
  <2> QED BY <2>1, <2>2 DEF LaunchInv, AirInv, LeaseInv
<1>2. MarkInv'
  <2>1. \A t \in Session : session[t].launched => session'[t].launched
    OBVIOUS
  <2> QED BY <2>1, MarksKept DEF Inv
<1>3. HeldInv'
  <2>1. \A t \in Session : session'[t].reserved /\ ~session'[t].confirmed
                              => session[t].reserved /\ ~session[t].confirmed
    OBVIOUS
  <2> QED BY <2>1, HeldShrinks DEF Inv
<1>4. OneOpen'
  <2>1. OpenSessions' \subseteq OpenSessions
    BY DEF OpenSessions
  <2> QED BY <2>1 DEF Inv, OneOpen
<1> QED BY <1>1, <1>2, <1>3, <1>4 DEF Inv
-----------------------------------------------------------------------------
(* Steps of tasks and workers that leave the rows and the bridges alone.    *)

(* A task is told to stop, or stops.                                        *)
LEMMA TaskSteps ==
  ASSUME Inv, NEW s \in Session, ReconcileStop(s) \/ DrainTask(s) \/ TaskStops(s)
  PROVE  Inv'
<1>1. worker[s] \in Worker /\ worker[s].ecs # "none" /\ session[s].task \in BOOLEAN
  BY DEF Inv, TypeOK, ReconcileStop, DrainTask, TaskStops, Row
<1>2. LaunchInv(s) /\ AirInv(s) /\ LeaseInv(s) /\ now \in Nat
  BY DEF Inv, SessionInv, TypeOK
<1>3. CASE ReconcileStop(s) \/ DrainTask(s)
  <2> DEFINE w == [worker[s] EXCEPT !.ecs = "stopping"]
  <2>1. w \in Worker /\ worker' = [worker EXCEPT ![s] = w]
    BY <1>1, <1>3 DEF ReconcileStop, DrainTask, StopTask, Worker, Inv, TypeOK
  <2>2. TypeOK'
    BY <1>3, <2>1 DEF Inv, TypeOK, ReconcileStop, DrainTask, Lose, rows
  <2>3. (LaunchInv(s) /\ AirInv(s) /\ LeaseInv(s))'
    BY <1>1, <1>2, <1>3, <2>1 DEF ReconcileStop, DrainTask, rows, Inv, TypeOK, LaunchInv,
      AirInv, LeaseInv, Worker
  <2> QED BY <1>3, <2>1, <2>2, <2>3, StepAt DEF Inv, TypeOK, ReconcileStop, DrainTask, rows,
    Marked
<1>4. CASE TaskStops(s)
  <2> DEFINE w == [NoWorker EXCEPT !.ecs = "stopped", !.pc = "fenced",
    !.report = worker[s].report]
  <2>1. w \in Worker /\ worker' = [worker EXCEPT ![s] = w]
    BY <1>1, <1>4 DEF TaskStops, NoWorker, Worker
  <2>2. TypeOK'
    BY <1>4, <2>1 DEF Inv, TypeOK, TaskStops, Lose, rows
  <2>3. (LaunchInv(s) /\ AirInv(s) /\ LeaseInv(s))'
    BY <1>1, <1>2, <1>4, <2>1 DEF TaskStops, rows, Inv, TypeOK, LaunchInv, AirInv, LeaseInv,
      Worker, NoWorker, OnAir
  <2> QED BY <1>4, <2>1, <2>2, <2>3, StepAt DEF Inv, TypeOK, TaskStops, rows, Marked
<1> QED BY <1>3, <1>4

(* What a worker does by itself keeps its own invariant, and that is all it *)
(* can disturb.                                                             *)
LEMMA LocalStep ==
  ASSUME Inv, NEW s \in Session, NEW w \in Worker, Step(s, w), UNCHANGED rows,
         (LaunchInv(s) /\ AirInv(s) /\ LeaseInv(s))'
  PROVE  Inv'
<1>1. TypeOK'
  BY DEF Inv, TypeOK, Step, rows
<1> QED BY <1>1, StepAt DEF Inv, TypeOK, Step, rows, Marked

(* A worker sends a request, takes over what the server granted, or stops   *)
(* its outputs.                                                             *)
LEMMA LocalSteps ==
  ASSUME Inv, NEW s \in Session,
         Ask(s) \/ AskMore(s) \/ AcceptLease(s) \/ Fence(s) \/ EndProgram(s)
  PROVE  Inv'
<1>1. worker[s] \in Worker /\ now \in Nat /\ session[s] \in Row
  BY DEF Inv, TypeOK
<1>2. LaunchInv(s) /\ AirInv(s) /\ LeaseInv(s)
  BY DEF Inv, SessionInv
<1>3. CASE Ask(s)
  <2> DEFINE w == [worker[s] EXCEPT !.pc = "asking", !.sent = now]
  <2>1. w \in Worker /\ Step(s, w) /\ UNCHANGED rows
    BY <1>1, <1>3 DEF Ask, Authority, Worker, OnAir, Row
  <2>2. (LaunchInv(s) /\ AirInv(s) /\ LeaseInv(s))'
    BY <1>1, <1>2, <1>3, <2>1 DEF Ask, Step, Authority, At, Process, rows, Inv, TypeOK,
      LaunchInv, AirInv, LeaseInv, Worker, OnAir, Row
  <2> HIDE DEF w
  <2> QED BY <2>1, <2>2, LocalStep
<1>4. CASE AskMore(s)
  <2> DEFINE w == [worker[s] EXCEPT !.pc = "renewing", !.sent = now]
  <2>1. w \in Worker /\ Step(s, w) /\ UNCHANGED rows
    BY <1>1, <1>4 DEF AskMore, Authority, Worker, OnAir, Row
  <2>2. (LaunchInv(s) /\ AirInv(s) /\ LeaseInv(s))'
    BY <1>1, <1>2, <1>4, <2>1 DEF AskMore, Step, Authority, At, Process, rows, Inv, TypeOK,
      LaunchInv, AirInv, LeaseInv, Worker, OnAir, Row
  <2> HIDE DEF w
  <2> QED BY <2>1, <2>2, LocalStep
<1>5. CASE AcceptLease(s)
  <2> DEFINE w == [worker[s] EXCEPT !.pc = "on", !.authority = Authority(worker[s]),
                                    !.sent = 0, !.span = 0]
  <2>1. w \in Worker /\ Step(s, w) /\ UNCHANGED rows
    <3>1. worker[s].sent + worker[s].span \in Nat
      BY <1>1 DEF Worker
    <3>2. w \in Worker
      BY <1>1, <3>1 DEF Authority, Worker, OnAir
    <3> QED BY <1>5, <3>2 DEF AcceptLease
  <2>2. (LaunchInv(s) /\ AirInv(s) /\ LeaseInv(s))'
    BY <1>1, <1>2, <1>5, <2>1 DEF AcceptLease, Step, Authority, At, Process, rows, Inv,
      TypeOK, LaunchInv, AirInv, LeaseInv, Worker, OnAir, Row
  <2> HIDE DEF w
  <2> QED BY <2>1, <2>2, LocalStep
<1>6. ASSUME NEW report \in BOOLEAN, Step(s, Fenced(worker[s], report)), UNCHANGED rows
      PROVE  Inv'
  <2> DEFINE w == Fenced(worker[s], report)
  <2>1. w \in Worker
    BY <1>1 DEF Fenced, Worker
  <2>2. (LaunchInv(s) /\ AirInv(s) /\ LeaseInv(s))'
    BY <1>1, <1>2, <1>6 DEF Step, Fenced, rows, Inv, TypeOK, LaunchInv, AirInv, LeaseInv,
      Worker, OnAir, Row
  <2> HIDE DEF w
  <2> QED BY <1>6, <2>1, <2>2, LocalStep DEF w
<1>7. CASE Fence(s)
  <2>1. (worker[s].pc \in OnAir /\ now < worker[s].authority) \in BOOLEAN
    OBVIOUS
  <2> QED BY <1>6, <1>7, <2>1 DEF Fence
<1>8. CASE EndProgram(s)
  BY <1>6, <1>8 DEF EndProgram
<1> QED BY <1>3, <1>4, <1>5, <1>7, <1>8

(* A report that nobody hears.                                              *)
LEMMA LoseReportStep ==
  ASSUME Inv, NEW s \in Session, LoseReport(s)
  PROVE  Inv'
<1>1. TypeOK'
  <2>1. [worker[s] EXCEPT !.report = FALSE] \in Worker
    BY DEF Inv, TypeOK, Worker
  <2> QED BY <2>1 DEF Inv, TypeOK, LoseReport, Lose, rows
<1>2. worker[s] \in Worker /\ LaunchInv(s) /\ AirInv(s) /\ LeaseInv(s)
  BY DEF Inv, SessionInv, TypeOK
<1>3. (LaunchInv(s) /\ AirInv(s) /\ LeaseInv(s))'
  BY <1>2 DEF Inv, TypeOK, LoseReport, rows, LaunchInv, AirInv, LeaseInv, Worker
<1> QED BY <1>1, <1>3, StepAt DEF Inv, TypeOK, LoseReport, rows, Marked
-----------------------------------------------------------------------------
(* Steps of one session that a worker or ECS causes.                        *)

(* A worker acquires its session, extends it, claims the command to stop it.*)
LEMMA LeaseSteps ==
  ASSUME Inv, NEW s \in Session, AcquireSession(s) \/ RenewSession(s) \/ ClaimStopCommand(s)
  PROVE  Inv'
<1>1. worker[s] \in Worker /\ now \in Nat /\ session[s] \in Row
  BY DEF Inv, TypeOK
<1>2. LaunchInv(s) /\ AirInv(s) /\ LeaseInv(s)
  BY DEF Inv, SessionInv
<1>3. CASE AcquireSession(s)
  <2> DEFINE row == [session[s] EXCEPT !.epoch = TRUE, !.lease = now + LeaseTime,
                                       !.status = "starting"]
             w == [worker[s] EXCEPT !.pc = "granted", !.span = LeaseTime]
  <2>1. row \in Row /\ w \in Worker
    <3>1. now + LeaseTime \in Nat
      BY <1>1
    <3>2. row \in Row
      BY <1>1, <3>1 DEF Row, Open
    <3>3. w \in Worker
      BY <1>1 DEF Worker
    <3> QED BY <3>2, <3>3
  <2>2. session' = [session EXCEPT ![s] = row] /\ Step(s, w) /\ active' = active
    BY <1>3 DEF AcquireSession, Inv, TypeOK
  <2>3. TypeOK'
    <3> HIDE DEF row, w
    <3> QED BY <2>1, <2>2 DEF Inv, TypeOK, Step
  <2>4. (LaunchInv(s) /\ AirInv(s) /\ LeaseInv(s))'
    BY <1>1, <1>2, <1>3, <2>2 DEF AcquireSession, Step, At, Process, Inv, TypeOK, LaunchInv,
      AirInv, LeaseInv, Worker, OnAir, Row, Open, Current
  <2> QED BY <1>1, <1>3, <2>2, <2>3, <2>4, StepAt DEF AcquireSession, Step, Current, Inv,
    TypeOK, Marked, Row, Open
<1>4. CASE RenewSession(s)
  <2> DEFINE row == [session[s] EXCEPT !.lease = Renewed(s)]
             w == [worker[s] EXCEPT !.pc = "renewed", !.span = Renewed(s) - now]
  <2>1. Renewed(s) \in Nat /\ Renewed(s) - now \in Nat /\ Renewed(s) <= now + LeaseTime
        /\ (session[s].stopAt # Never => Renewed(s) <= session[s].stopAt + StopGrace)
    BY <1>1, <1>4 DEF RenewSession, Renewed, Row
  <2>2. row \in Row /\ w \in Worker
    BY <1>1, <2>1 DEF Row, Worker, OnAir
  <2>3. session' = [session EXCEPT ![s] = row] /\ Step(s, w) /\ active' = active
    BY <1>4 DEF RenewSession, Inv, TypeOK
  <2>4. TypeOK'
    <3> HIDE DEF row, w
    <3> QED BY <2>2, <2>3 DEF Inv, TypeOK, Step
  <2>5. LaunchInv(s)' /\ AirInv(s)'
    BY <1>1, <1>2, <1>4, <2>3 DEF RenewSession, Step, At, Process, Inv, TypeOK, LaunchInv,
      AirInv, Worker, OnAir, Row
  <2>6. LeaseInv(s)'
    <3>1. session[s].lease <= Renewed(s)
      BY <1>1, <1>2, <1>4 DEF RenewSession, Renewed, Owns, LeaseInv, Row
    <3>2. worker[s].authority <= session[s].lease /\ worker[s].authority \in Nat
      BY <1>1, <1>2, <1>4 DEF RenewSession, At, LeaseInv, Worker, OnAir
    <3>3. worker[s].authority <= Renewed(s) /\ worker[s].sent + (Renewed(s) - now) <= Renewed(s)
      BY <1>1, <1>2, <2>1, <3>1, <3>2 DEF LeaseInv, Worker, Row
    <3>4. /\ session'[s] = row /\ worker'[s] = w /\ now' = now
          /\ w.sent = worker[s].sent /\ w.authority = worker[s].authority
          /\ w.span = Renewed(s) - now /\ row.lease = Renewed(s)
          /\ row.stopAt = session[s].stopAt
      BY <1>1, <2>3 DEF Step, Inv, TypeOK, Worker, Row
    <3> HIDE DEF row, w
    <3> QED BY <1>2, <2>1, <3>3, <3>4 DEF LeaseInv
  <2> QED BY <1>1, <2>3, <2>4, <2>5, <2>6, StepAt DEF Step, Inv, TypeOK, Marked, Row
<1>5. CASE ClaimStopCommand(s)
  <2> DEFINE row == [session[s] EXCEPT !.stop = "claimed"]
             w == [worker[s] EXCEPT !.pc = "ending"]
  <2>1. row \in Row /\ w \in Worker
    BY <1>1 DEF Row, Command, Worker, OnAir
  <2>2. session' = [session EXCEPT ![s] = row] /\ Step(s, w) /\ active' = active
    BY <1>5 DEF ClaimStopCommand, Inv, TypeOK
  <2>3. TypeOK'
    <3> HIDE DEF row, w
    <3> QED BY <2>1, <2>2 DEF Inv, TypeOK, Step
  <2>4. (LaunchInv(s) /\ AirInv(s) /\ LeaseInv(s))'
    BY <1>1, <1>2, <1>5, <2>2 DEF ClaimStopCommand, Step, At, Process, Inv, TypeOK, LaunchInv,
      AirInv, LeaseInv, Worker, OnAir, Row
  <2> QED BY <1>1, <2>2, <2>3, <2>4, StepAt DEF Step, Inv, TypeOK, Marked, Row
<1> QED BY <1>3, <1>4, <1>5

(* A terminal report arrives.                                               *)
LEMMA ReceiveReportStep ==
  ASSUME Inv, NEW s \in Session, ReceiveReport(s)
  PROVE  Inv'
<1>1. worker[s] \in Worker /\ LaunchInv(s) /\ AirInv(s) /\ LeaseInv(s)
  BY DEF Inv, TypeOK, SessionInv
<1> DEFINE w == [worker[s] EXCEPT !.report = FALSE]
<1>2. w \in Worker /\ Step(s, w)
  BY <1>1 DEF ReceiveReport, Worker
<1>3. worker[s].pc = "fenced" /\ w.pc = "fenced" /\ w.ecs = worker[s].ecs
  BY <1>1 DEF ReceiveReport, LaunchInv, Worker
<1>4. \A b \in Bridge, t \in Session : Marked(b, t)' => Marked(b, t)
  BY <1>2 DEF Step, Marked
<1>5. CASE Owns(s)
  <2>1. session' = [session EXCEPT ![s] = Close(session[s])] /\ active' = NoSession
    BY <1>5 DEF ReceiveReport, Inv, TypeOK
  <2>2. TypeOK'
    BY <1>2, <2>1, RowTypes DEF Inv, TypeOK, Step
  <2> DEFINE row == Close(session[s])
  <2>3. /\ row.status = "ended"
        /\ row.reserved = session[s].reserved /\ row.launched = session[s].launched
        /\ row.confirmed = session[s].confirmed /\ row.epoch = session[s].epoch
        /\ session[s].reserved => row.lease = session[s].lease /\ row.stopAt = session[s].stopAt
        /\ ~session[s].reserved => row.lease = 0 /\ row.stopAt = Never
    BY ClosedRow
  <2> HIDE DEF row
  <2>4. session'[s] = row /\ \A t \in Session \ {s} : session'[t] = session[t]
    BY <2>1 DEF row, Inv, TypeOK
  <2>5. (LaunchInv(s) /\ AirInv(s) /\ LeaseInv(s))'
    BY <1>1, <1>2, <1>3, <2>3, <2>4 DEF Step, Inv, TypeOK, LaunchInv, AirInv, LeaseInv,
      Worker, OnAir
  <2> QED BY <1>2, <1>4, <2>2, <2>3, <2>4, <2>5, StepAt DEF Step, Open, Inv, TypeOK
<1>6. CASE ~Owns(s)
  <2>1. UNCHANGED rows
    BY <1>6 DEF ReceiveReport
  <2>2. (LaunchInv(s) /\ AirInv(s) /\ LeaseInv(s))'
    BY <1>1, <1>2, <1>3, <2>1 DEF Step, rows, Inv, TypeOK, LaunchInv, AirInv, LeaseInv, OnAir
  <2> HIDE DEF w
  <2> QED BY <1>2, <2>1, <2>2, LocalStep
<1> QED BY <1>5, <1>6

(* ECS reports a task STOPPED, and its reservation counts no more.          *)
LEMMA ConfirmStep ==
  ASSUME Inv, NEW s \in Session, ConfirmStopped(s)
  PROVE  Inv'
<1>1. worker[s] \in Worker /\ session[s] \in Row /\ now \in Nat /\ LaunchInv(s) /\ LeaseInv(s)
  BY DEF Inv, TypeOK, SessionInv
<1>2. session' = [session EXCEPT ![s] = Stopped] /\ active' \in {active, NoSession}
  BY DEF ConfirmStopped, Deselect
<1>3. TypeOK'
  BY <1>2, RowTypes DEF ConfirmStopped, Inv, TypeOK
<1>4. (LaunchInv(s) /\ AirInv(s) /\ LeaseInv(s))'
  BY <1>1, <1>2 DEF ConfirmStopped, Stopped, Over, Absent, Inv, TypeOK, LaunchInv, AirInv,
    LeaseInv, OnAir
<1> QED BY <1>2, <1>3, <1>4, StepAt DEF ConfirmStopped, Stopped, Over, Absent, Inv, TypeOK,
  Marked, Open
-----------------------------------------------------------------------------
(* Steps of staff.                                                          *)

(* A session is stopped.                                                    *)
LEMMA StopStep ==
  ASSUME Inv, StopSession
  PROVE  Inv'
<1>1. PICK s \in OpenSessions : session' = [session EXCEPT ![s] = Stopping(session[s])]
                                /\ active' = s
  BY DEF StopSession, Inv, TypeOK, OpenSessions
<1>2. s \in Session /\ session[s] \in Row /\ session[s].status \in Open /\ now \in Nat
      /\ LaunchInv(s) /\ AirInv(s) /\ LeaseInv(s)
  BY DEF Inv, TypeOK, SessionInv, OpenSessions
<1>3. TypeOK'
  BY <1>1, <1>2, StoppingType DEF StopSession, StaffActs, Inv, TypeOK
<1>4. (LaunchInv(s) /\ AirInv(s) /\ LeaseInv(s))'
  BY <1>1, <1>2 DEF StopSession, Stopping, Inv, TypeOK, LaunchInv, AirInv, LeaseInv, Row, Open
<1> QED BY <1>1, <1>2, <1>3, <1>4, StepAt DEF StopSession, Stopping, Inv, TypeOK, Row, Marked

(* A session is declared over.                                              *)
LEMMA MarkEndedStep ==
  ASSUME Inv, MarkEnded
  PROVE  Inv'
<1>1. PICK s \in Session : session' = [session EXCEPT ![s] = Close(session[s])]
                           /\ closed' = closed \cup {s}
  BY DEF MarkEnded, Inv, TypeOK
<1>2. /\ session' \in [Session -> Row] /\ SessionInv' /\ HeldInv' /\ OneOpen'
      /\ \A t \in Session : session[t].launched => session'[t].launched
  BY <1>1, CloseKeeps DEF MarkEnded, Inv, TypeOK
<1>3. TypeOK'
  BY <1>1, <1>2 DEF MarkEnded, StaffActs, Inv, TypeOK
<1>4. MarkInv'
  BY <1>2, MarksKept DEF MarkEnded, Inv, Marked
<1> QED BY <1>2, <1>3, <1>4 DEF Inv

(* What a cancellation makes of an open row.                                *)
LEMMA CancelledRow ==
  ASSUME Inv, NEW s \in OpenSessions, NEW row, row = Cancelled(session[s])
  PROVE  /\ row.reserved = session[s].reserved /\ row.launched = session[s].launched
         /\ row.confirmed = session[s].confirmed /\ row.epoch = session[s].epoch
         /\ \/ row.status = "stopping" /\ row.lease = session[s].lease
               /\ (row.stopAt = now \/ (session[s].stopAt = row.stopAt))
            \/ /\ row.status = "ended" /\ session[s].status = "scheduled"
               /\ row.lease \in {0, session[s].lease}
               /\ row.stopAt \in {Never, session[s].stopAt}
<1>1. s \in Session /\ session[s] \in Row /\ session[s].status \in Open
  BY DEF Inv, TypeOK, OpenSessions
<1>2. CASE session[s].status = "scheduled" /\ session[s].start # "claimed"
  BY <1>1, <1>2, ClosedRow DEF Cancelled
<1>3. CASE ~(session[s].status = "scheduled" /\ session[s].start # "claimed")
  BY <1>1, <1>3 DEF Cancelled, Row
<1> QED BY <1>2, <1>3

(* What a cancellation makes of the event's status and of staff's budget.   *)
LEMMA CancelTypes ==
  ASSUME Inv, CancelMedia
  PROVE  scheduled' \in BOOLEAN /\ staff' \in 0..MaxStaff
<1>1. scheduled \in BOOLEAN /\ scheduled' \in {scheduled, FALSE}
  BY DEF Inv, TypeOK, CancelMedia
<1>2. staff' \in 0..MaxStaff
  BY DEF Inv, TypeOK, CancelMedia, StaffActs
<1>3. scheduled' \in BOOLEAN
  BY <1>1
<1> QED BY <1>2, <1>3

(* The event is cancelled or its start moved.                               *)
LEMMA CancelStep ==
  ASSUME Inv, CancelMedia
  PROVE  Inv'
<1>1. CASE OpenSession = NoSession
  <2>1. UNCHANGED rows
    BY <1>1 DEF CancelMedia
  <2>2. TypeOK'
    <3>1. scheduled' \in BOOLEAN /\ staff' \in 0..MaxStaff
      BY CancelTypes
    <3> QED BY <2>1, <3>1 DEF CancelMedia, Inv, TypeOK, rows
  <2> QED BY <2>1, <2>2 DEF CancelMedia, rows, Inv, SessionInv, LaunchInv, AirInv, LeaseInv,
                            MarkInv, Marked, HeldInv, Held, OneOpen, OpenSessions
<1>2. CASE OpenSession # NoSession
  <2>1. PICK s \in OpenSessions : s = OpenSession
    BY <1>2, TheOpenSession
  <2>2. s \in Session /\ session[s] \in Row /\ session[s].status \in Open /\ now \in Nat
        /\ LaunchInv(s) /\ AirInv(s) /\ LeaseInv(s)
    BY DEF Inv, TypeOK, SessionInv, OpenSessions
  <2> DEFINE row == Cancelled(session[s])
  <2>3. session' = [session EXCEPT ![s] = row] /\ active' \in {NoSession, active, s}
    BY <1>2, <2>1 DEF CancelMedia, Inv, TypeOK
  <2>4. TypeOK'
    <3>1. scheduled' \in BOOLEAN /\ staff' \in 0..MaxStaff
      BY CancelTypes
    <3>2. row \in Row
      BY <2>2, StoppingType DEF Inv
    <3> HIDE DEF row
    <3> QED BY <2>2, <2>3, <3>1, <3>2 DEF CancelMedia, Inv, TypeOK
  <2>5. /\ row.reserved = session[s].reserved /\ row.launched = session[s].launched
        /\ row.confirmed = session[s].confirmed /\ row.epoch = session[s].epoch
        /\ \/ row.status = "stopping" /\ row.lease = session[s].lease
              /\ (row.stopAt = now \/ (session[s].stopAt = row.stopAt))
           \/ /\ row.status = "ended" /\ session[s].status = "scheduled"
              /\ row.lease \in {0, session[s].lease}
              /\ row.stopAt \in {Never, session[s].stopAt}
    BY CancelledRow
  <2> HIDE DEF row
  <2>6. session'[s] = row /\ \A t \in Session \ {s} : session'[t] = session[t]
    BY <2>2, <2>3 DEF Inv, TypeOK
  <2>7. worker[s].pc \in OnAir \cup {"granted"} => session[s].epoch
    BY <2>2 DEF AirInv
  <2>8. LaunchInv(s)' /\ AirInv(s)'
    BY <2>2, <2>5, <2>6, <2>7 DEF CancelMedia, LaunchInv, AirInv
  <2>9. LeaseInv(s)'
    BY <2>2, <2>5, <2>6, <2>7 DEF CancelMedia, LeaseInv, LaunchInv, Row, Inv, TypeOK, Worker,
      OnAir
  <2> QED BY <2>2, <2>4, <2>5, <2>6, <2>8, <2>9, StepAt DEF CancelMedia, Marked
<1> QED BY <1>1, <1>2

(* A claimed start is given to another bridge.                              *)
LEMMA RequeueStep ==
  ASSUME Inv, Requeue
  PROVE  Inv'
<1>1. PICK s \in Session : session' = [session EXCEPT ![s].start = "queued", ![s].by = NoBridge]
  BY DEF Requeue
<1>2. session[s] \in Row /\ LaunchInv(s) /\ AirInv(s) /\ LeaseInv(s)
  BY DEF Inv, TypeOK, SessionInv
<1> DEFINE row == [session[s] EXCEPT !.start = "queued", !.by = NoBridge]
<1>3. row \in Row /\ session' = [session EXCEPT ![s] = row]
  BY <1>1, <1>2 DEF Row, Command, Inv, TypeOK
<1>4. TypeOK'
  <2> HIDE DEF row
  <2>1. staff' \in 0..MaxStaff
    BY DEF Requeue, StaffActs, Inv, TypeOK
  <2>2. UNCHANGED <<now, cap, scheduled, active, bridge, worker, launches, closed, losses>>
    BY DEF Requeue
  <2> QED BY <1>3, <2>1, <2>2 DEF Inv, TypeOK
<1>5. (LaunchInv(s) /\ AirInv(s) /\ LeaseInv(s))'
  BY <1>2, <1>3 DEF Requeue, Inv, TypeOK, LaunchInv, AirInv, LeaseInv, Row
<1> QED BY <1>2, <1>3, <1>4, <1>5, StepAt DEF Requeue, Inv, TypeOK, Row, Marked

(* A start is scheduled: the only step that opens a session, and there is   *)
(* none open.                                                               *)
LEMMA ScheduleStep ==
  ASSUME Inv, Schedule
  PROVE  Inv'
<1>1. CASE UNCHANGED session
  <2>1. active' = active \/ active' \in Session
    BY <1>1, TheOpenSession DEF Schedule, OpenSessions
  <2>2. TypeOK'
    BY <1>1, <2>1 DEF Schedule, Inv, TypeOK
  <2> QED BY <1>1, <2>2 DEF Schedule, Inv, SessionInv, LaunchInv, AirInv, LeaseInv,
                            MarkInv, Marked, HeldInv, Held, OneOpen, OpenSessions
<1>2. CASE ~UNCHANGED session
  <2> DEFINE row == [Absent EXCEPT !.status = "scheduled", !.start = "queued"]
  <2>1. PICK s \in Session : /\ session[s].status = "absent"
                             /\ session' = [session EXCEPT ![s] = row] /\ active' = s
                             /\ OpenSessions = {}
    BY <1>2, TheOpenSession DEF Schedule
  <2>2. row \in Row
    BY DEF Absent, Row, Open, Command
  <2>3. TypeOK'
    BY <2>1, <2>2 DEF Schedule, Inv, TypeOK
  <2>4. LaunchInv(s) /\ AirInv(s) /\ LeaseInv(s) /\ session[s] \in Row /\ now \in Nat
    BY DEF Inv, SessionInv, TypeOK
  <2>5. ~session[s].reserved /\ ~session[s].launched /\ launches[s] = 0
        /\ worker[s].ecs = "none" /\ ~session[s].epoch
    BY <2>1, <2>4 DEF LaunchInv, Row
  <2>6. (LaunchInv(s) /\ AirInv(s) /\ LeaseInv(s))'
    BY <2>1, <2>4, <2>5 DEF Schedule, Absent, Inv, TypeOK, LaunchInv, AirInv, LeaseInv, OnAir
  <2>7. session'[s] = row /\ \A t \in Session \ {s} : session'[t] = session[t]
    BY <2>1 DEF Inv, TypeOK
  <2>8. SessionInv'
    <3> SUFFICES ASSUME NEW t \in Session, t # s
                 PROVE  (LaunchInv(t) /\ AirInv(t) /\ LeaseInv(t))'
      BY <2>6 DEF SessionInv
    <3>1. LaunchInv(t) /\ AirInv(t) /\ LeaseInv(t)
      BY DEF Inv, SessionInv
    <3> QED BY <2>7, <3>1 DEF Schedule, LaunchInv, AirInv, LeaseInv
  <2>9. MarkInv'
    BY <2>5, <2>7, MarksKept DEF Schedule, Inv, Marked
  <2>10. HeldInv'
    BY <2>3, <2>7, HeldShrinks DEF Schedule, Inv, Absent
  <2>11. OneOpen'
    BY <2>1, <2>7 DEF OneOpen, OpenSessions
  <2> QED BY <2>3, <2>8, <2>9, <2>10, <2>11 DEF Inv
<1> QED BY <1>1, <1>2
-----------------------------------------------------------------------------
(* Steps of bridges.                                                        *)

(* Only a bridge moves.                                                     *)
LEMMA BridgeOnly ==
  ASSUME Inv, bridge' \in [Bridge -> Busy \cup {Idle}], losses' \in 0..MaxLosses,
         UNCHANGED <<now, cap, scheduled, rows, worker, launches, closed, staff>>,
         \A c \in Bridge, s \in Session : Marked(c, s)' => Marked(c, s)
  PROVE  Inv'
<1>1. session' = session /\ active' = active
  BY DEF rows
<1>2. TypeOK'
  BY <1>1 DEF Inv, TypeOK
<1>3. SessionInv' /\ HeldInv' /\ OneOpen'
  BY <1>1 DEF Inv, SessionInv, LaunchInv, AirInv, LeaseInv, HeldInv, Held, OneOpen, OpenSessions
<1>4. MarkInv'
  BY <1>1, MarksKept DEF Inv
<1> QED BY <1>2, <1>3, <1>4 DEF Inv

(* A bridge may move and one row change, with what nobody else depends on:  *)
(* its commands, its claimant, its task.                                    *)
LEMMA RowStep ==
  ASSUME Inv, bridge' \in [Bridge -> Busy \cup {Idle}], NEW s \in Session, NEW row \in Row,
         session' = [session EXCEPT ![s] = row],
         UNCHANGED <<now, cap, scheduled, active, worker, launches, closed, staff, losses>>,
         row.status = session[s].status, row.epoch = session[s].epoch,
         row.lease = session[s].lease, row.stopAt = session[s].stopAt,
         row.reserved = session[s].reserved, row.confirmed = session[s].confirmed,
         row.launched = session[s].launched,
         \A c \in Bridge, t \in Session : Marked(c, t)' => Marked(c, t)
  PROVE  Inv'
<1>1. TypeOK'
  BY DEF Inv, TypeOK
<1>2. session'[s] = row /\ \A t \in Session \ {s} : session'[t] = session[t]
  BY DEF Inv, TypeOK
<1>3. LaunchInv(s) /\ AirInv(s) /\ LeaseInv(s)
  BY DEF Inv, SessionInv
<1>4. (LaunchInv(s) /\ AirInv(s) /\ LeaseInv(s))'
  BY <1>2, <1>3 DEF LaunchInv, AirInv, LeaseInv
<1> QED BY <1>1, <1>2, <1>4, StepAt

(* A session without a worker on the air is closed.                         *)
LEMMA CloseStep ==
  ASSUME Inv, NEW s \in Session, bridge' \in [Bridge -> Busy \cup {Idle}],
         session' = [session EXCEPT ![s] = Close(session[s])],
         active' \in {active, NoSession}, ~session[s].epoch,
         UNCHANGED <<now, cap, scheduled, worker, launches, closed, staff, losses>>,
         \A c \in Bridge, t \in Session : Marked(c, t)' => Marked(c, t)
  PROVE  Inv'
<1>1. worker[s].pc \notin OnAir \cup {"granted"}
  BY DEF Inv, SessionInv, AirInv
<1>2. /\ session' \in [Session -> Row] /\ SessionInv' /\ HeldInv' /\ OneOpen'
      /\ \A t \in Session : session[t].launched => session'[t].launched
  BY <1>1, CloseKeeps DEF Inv, TypeOK
<1>3. TypeOK'
  BY <1>2 DEF Inv, TypeOK
<1>4. MarkInv'
  BY <1>2, MarksKept DEF Inv
<1> QED BY <1>2, <1>3, <1>4 DEF Inv

(* A bridge gives up without a trace.                                       *)
LEMMA GivesUp ==
  ASSUME TypeOK, NEW b \in Bridge, GiveUp(b)
  PROVE  /\ bridge' \in [Bridge -> Busy \cup {Idle}]
         /\ \A c \in Bridge, s \in Session : Marked(c, s)' => Marked(c, s)
<1>1. bridge' \in [Bridge -> Busy \cup {Idle}]
  BY DEF TypeOK, GiveUp
<1> QED BY <1>1, Unmarked

(* A start command is claimed, or found unusable.                           *)
LEMMA ClaimStartStep ==
  ASSUME Inv, NEW b \in Bridge, ClaimStart(b)
  PROVE  Inv'
<1>1. PICK s \in Session :
        /\ ~session[s].epoch
        /\ \/ /\ session' = [session EXCEPT ![s].start = "claimed", ![s].by = b]
              /\ bridge' = [bridge EXCEPT ![b] = Claimed(s, "starting")]
              /\ active' = active
           \/ /\ session' = [session EXCEPT ![s] = Unusable(session[s])]
              /\ active' = Deselect(s)
              /\ bridge' = bridge
  BY DEF ClaimStart, Inv, TypeOK
<1>2. session[s] \in Row /\ now \in Nat /\ LaunchInv(s) /\ AirInv(s) /\ LeaseInv(s)
  BY DEF Inv, TypeOK, SessionInv
<1>3. CASE bridge' = [bridge EXCEPT ![b] = Claimed(s, "starting")]
           /\ session' = [session EXCEPT ![s].start = "claimed", ![s].by = b]
           /\ active' = active
  <2> DEFINE row == [session[s] EXCEPT !.start = "claimed", !.by = b]
  <2>1. row \in Row /\ session' = [session EXCEPT ![s] = row]
    BY <1>2, <1>3 DEF Row, Command, Inv, TypeOK
  <2>2. bridge' \in [Bridge -> Busy \cup {Idle}]
    BY <1>3, BridgeTypes DEF Inv, TypeOK
  <2>3. \A c \in Bridge, t \in Session : Marked(c, t)' => Marked(c, t)
    BY <1>3, Unmarked DEF Inv
  <2>4. UNCHANGED <<now, cap, scheduled, active, worker, launches, closed, staff, losses>>
    BY <1>3 DEF ClaimStart
  <2>5. /\ row.status = session[s].status /\ row.epoch = session[s].epoch
        /\ row.lease = session[s].lease /\ row.stopAt = session[s].stopAt
        /\ row.reserved = session[s].reserved /\ row.confirmed = session[s].confirmed
        /\ row.launched = session[s].launched
    BY <1>2 DEF Row
  <2> HIDE DEF row
  <2> QED BY <2>1, <2>2, <2>3, <2>4, <2>5, RowStep
<1>4. CASE bridge' = bridge /\ active' = Deselect(s)
           /\ session' = [session EXCEPT ![s] = Unusable(session[s])]
  <2> DEFINE row == Unusable(session[s])
  <2>3. /\ row \in Row /\ row.status = "ended" /\ row.lease = now
        /\ row.reserved = session[s].reserved /\ row.launched = session[s].launched
        /\ row.confirmed = session[s].confirmed /\ row.epoch = session[s].epoch
        /\ row.stopAt \in {Never, session[s].stopAt, now}
    BY UnusableRow
  <2> HIDE DEF row
  <2>4. session'[s] = row /\ \A t \in Session \ {s} : session'[t] = session[t]
    BY <1>4 DEF row, Inv, TypeOK
  <2>5. active' \in {active, NoSession} /\ session' \in [Session -> Row]
    BY <1>4, <2>3 DEF row, Deselect, Inv, TypeOK
  <2>6. TypeOK'
    BY <1>4, <2>5 DEF ClaimStart, Inv, TypeOK
  <2>7. worker[s].pc \notin OnAir \cup {"granted"}
    BY <1>1, <1>2 DEF AirInv
  <2>8. LaunchInv(s)' /\ AirInv(s)'
    BY <1>1, <1>2, <2>3, <2>4, <2>7 DEF ClaimStart, LaunchInv, AirInv
  <2>9. LeaseInv(s)'
    BY <1>1, <1>2, <2>3, <2>4, <2>7 DEF ClaimStart, LeaseInv, OnAir
  <2> QED BY <1>4, <2>3, <2>4, <2>6, <2>8, <2>9, StepAt DEF ClaimStart, Marked, Open
<1> QED BY <1>1, <1>3, <1>4

(* A stop command is claimed.                                               *)
LEMMA ClaimStopStep ==
  ASSUME Inv, NEW b \in Bridge, ClaimStop(b)
  PROVE  Inv'
<1>1. PICK s \in Session : /\ session' = [session EXCEPT ![s].stop = "claimed"]
                           /\ bridge' = [bridge EXCEPT ![b] = Claimed(s, "stopping")]
  BY DEF ClaimStop
<1>2. session[s] \in Row
  BY DEF Inv, TypeOK
<1> DEFINE row == [session[s] EXCEPT !.stop = "claimed"]
<1>3. row \in Row /\ session' = [session EXCEPT ![s] = row]
  BY <1>1, <1>2 DEF Row, Command, Inv, TypeOK
<1>4. bridge' \in [Bridge -> Busy \cup {Idle}]
  BY <1>1, BridgeTypes DEF Inv, TypeOK
<1>5. \A c \in Bridge, t \in Session : Marked(c, t)' => Marked(c, t)
  BY <1>1, Unmarked DEF Inv
<1>6. UNCHANGED <<now, cap, scheduled, active, worker, launches, closed, staff, losses>>
  BY DEF ClaimStop
<1>7. /\ row.status = session[s].status /\ row.epoch = session[s].epoch
      /\ row.lease = session[s].lease /\ row.stopAt = session[s].stopAt
      /\ row.reserved = session[s].reserved /\ row.confirmed = session[s].confirmed
      /\ row.launched = session[s].launched
  BY <1>2 DEF Row
<1> HIDE DEF row
<1> QED BY <1>3, <1>4, <1>5, <1>6, <1>7, RowStep

(* A bridge reports an error for a session no worker has acquired.          *)
LEMMA FailStep ==
  ASSUME Inv, NEW b \in Bridge, bridge[b] \in Busy, Fail(bridge[b].session), GiveUp(b),
         UNCHANGED <<now, cap, scheduled, worker, launches, closed, staff, losses>>
  PROVE  Inv'
<1> DEFINE s == bridge[b].session
<1>1. s \in Session
  BY DEF Busy
<1>2. /\ bridge' \in [Bridge -> Busy \cup {Idle}]
      /\ \A c \in Bridge, t \in Session : Marked(c, t)' => Marked(c, t)
  BY GivesUp DEF Inv
<1>3. losses' \in 0..MaxLosses
  BY DEF Inv, TypeOK
<1>4. CASE session[s].epoch
  BY <1>2, <1>3, <1>4, BridgeOnly DEF Fail
<1>5. CASE ~session[s].epoch
  <2>1. /\ session' = [session EXCEPT ![s] = Close(session[s])]
        /\ active' \in {active, NoSession}
    BY <1>1, <1>5 DEF Fail, Deselect, Inv, TypeOK
  <2> QED BY <1>1, <1>2, <1>5, <2>1, CloseStep
<1> QED BY <1>4, <1>5

(* A denied start is reported, unless the session was reserved before.      *)
LEMMA DeniedStep ==
  ASSUME Inv, NEW b \in Bridge, ReportDenied(b)
  PROVE  Inv'
<1>1. bridge[b] \in Busy
  <2>1. bridge[b].pc # "idle"
    BY DEF ReportDenied
  <2> QED BY <2>1, BridgeIsBusy DEF Inv
<1>2. /\ bridge' \in [Bridge -> Busy \cup {Idle}]
      /\ \A c \in Bridge, t \in Session : Marked(c, t)' => Marked(c, t)
  BY GivesUp DEF Inv, ReportDenied
<1>3. losses' \in 0..MaxLosses
  BY DEF Inv, TypeOK, ReportDenied
<1>4. CASE bridge[b].held
  BY <1>2, <1>3, <1>4, BridgeOnly DEF ReportDenied
<1>5. CASE ~bridge[b].held
  BY <1>1, <1>5, FailStep DEF ReportDenied
<1> QED BY <1>4, <1>5

(* A stop command stops the task it was claimed with, or reports that there *)
(* never was one.                                                           *)
LEMMA StopCommandStep ==
  ASSUME Inv, NEW b \in Bridge, StopCommand(b)
  PROVE  Inv'
<1>1. bridge[b] \in Busy /\ bridge[b].session \in Session
  <2>1. bridge[b].pc # "idle"
    BY DEF StopCommand
  <2> QED BY <2>1, BridgeIsBusy DEF Inv
<1>0. PICK s \in Session : s = bridge[b].session
  BY <1>1
<1>2. /\ bridge' \in [Bridge -> Busy \cup {Idle}]
      /\ \A c \in Bridge, t \in Session : Marked(c, t)' => Marked(c, t)
  BY GivesUp DEF Inv, StopCommand
<1>3. losses' \in 0..MaxLosses
  BY DEF Inv, TypeOK, StopCommand
<1>4. CASE bridge[b].task
  <2> DEFINE w == [worker[s] EXCEPT !.ecs = IF @ = "running" THEN "stopping" ELSE @]
  <2>1. worker[s] \in Worker /\ LaunchInv(s) /\ AirInv(s) /\ LeaseInv(s)
    BY <1>1 DEF Inv, TypeOK, SessionInv
  <2>2. w \in Worker /\ worker' = [worker EXCEPT ![s] = w] /\ UNCHANGED rows
    BY <1>4, <1>0, <2>1 DEF StopCommand, StopTask, Worker, Inv, TypeOK
  <2>3. TypeOK'
    <3> HIDE DEF w
    <3> QED BY <1>2, <1>3, <2>2 DEF StopCommand, rows, Inv, TypeOK
  <2>4. /\ w.pc = worker[s].pc /\ w.report = worker[s].report /\ w.sent = worker[s].sent
        /\ w.span = worker[s].span /\ w.authority = worker[s].authority
        /\ w.ecs = worker[s].ecs \/ (worker[s].ecs = "running" /\ w.ecs = "stopping")
    BY <2>1 DEF Worker
  <2>5. worker'[s] = w /\ \A t \in Session \ {s} : worker'[t] = worker[t]
    BY <2>2 DEF Inv, TypeOK
  <2> HIDE DEF w
  <2>6. (LaunchInv(s) /\ AirInv(s) /\ LeaseInv(s))'
    BY <2>1, <2>2, <2>4, <2>5 DEF StopCommand, rows, LaunchInv, AirInv, LeaseInv
  <2> QED BY <1>2, <2>2, <2>3, <2>5, <2>6, StepAt DEF StopCommand, rows
<1>5. CASE ~bridge[b].task /\ bridge[b].held
  BY <1>2, <1>3, <1>5, BridgeOnly DEF StopCommand, rows
<1>6. CASE ~bridge[b].task /\ ~bridge[b].held
  BY <1>1, <1>6, FailStep DEF StopCommand
<1> QED BY <1>4, <1>5, <1>6

(* A bridge withdraws, or is lost.                                          *)
LEMMA WithdrawStep ==
  ASSUME Inv, NEW b \in Bridge, Withdraw(b) \/ BridgeLost(b)
  PROVE  Inv'
<1>1. CASE Withdraw(b)
  <2>1. bridge[b] \in Busy
    <3>1. bridge[b].pc # "idle"
      BY <1>1 DEF Withdraw
    <3> QED BY <3>1, BridgeIsBusy DEF Inv
  <2>2. Goto(b, "unlaunched")
    BY <1>1 DEF Withdraw
  <2>3. bridge' \in [Bridge -> Busy \cup {Idle}]
    BY <2>1, <2>2, BridgeMoves DEF Inv
  <2>4. \A c \in Bridge, s \in Session : Marked(c, s)' => Marked(c, s)
    BY <2>2, Unmarked DEF Inv
  <2> QED BY <1>1, <2>3, <2>4, BridgeOnly DEF Withdraw, Inv, TypeOK
<1>2. CASE BridgeLost(b)
  <2>1. losses' \in 0..MaxLosses
    BY <1>2 DEF BridgeLost, Lose, Inv, TypeOK
  <2> QED BY <1>2, <2>1, GivesUp, BridgeOnly DEF BridgeLost, Inv
<1> QED BY <1>1, <1>2

(* A reservation without a task is given back.                              *)
LEMMA ReleaseStep ==
  ASSUME Inv, NEW b \in Bridge, ReleaseUnlaunched(b)
  PROVE  Inv'
<1>1. bridge[b].session \in Session
  <2>1. bridge[b].pc # "idle"
    BY DEF ReleaseUnlaunched
  <2> QED BY <2>1, BridgeIsBusy DEF Inv
<1> PICK s \in Session : s = bridge[b].session
  BY <1>1
<1>2. /\ bridge' \in [Bridge -> Busy \cup {Idle}]
      /\ \A c \in Bridge, t \in Session : Marked(c, t)' => Marked(c, t)
  BY GivesUp DEF Inv, ReleaseUnlaunched
<1>3. CASE Unlaunched(b, s)
  <2>1. session' = [session EXCEPT ![s] = Over] /\ active' = NoSession
    BY <1>3 DEF ReleaseUnlaunched
  <2>2. session[s] \in Row /\ worker[s] \in Worker /\ now \in Nat
        /\ LaunchInv(s) /\ AirInv(s) /\ LeaseInv(s)
    BY DEF Inv, TypeOK, SessionInv
  <2>3. ~session[s].launched /\ ~session[s].epoch /\ launches[s] = 0 /\ worker[s].ecs = "none"
    BY <1>3, <2>2 DEF Unlaunched, LaunchInv
  <2>4. TypeOK'
    BY <1>2, <2>1, RowTypes DEF ReleaseUnlaunched, Inv, TypeOK
  <2>5. session'[s] = Over /\ \A t \in Session \ {s} : session'[t] = session[t]
    BY <2>1 DEF Inv, TypeOK
  <2>6. (LaunchInv(s) /\ AirInv(s) /\ LeaseInv(s))'
    BY <2>2, <2>3, <2>5 DEF ReleaseUnlaunched, Over, Absent, LaunchInv, AirInv, LeaseInv, OnAir
  <2> QED BY <1>2, <2>3, <2>4, <2>5, <2>6, StepAt DEF ReleaseUnlaunched, Over, Absent, Open
<1>4. CASE ~Unlaunched(b, s)
  BY <1>2, <1>4, BridgeOnly DEF ReleaseUnlaunched, rows, Inv, TypeOK
<1> QED BY <1>3, <1>4

(* The task of a launch is recorded.                                        *)
LEMMA RecordStep ==
  ASSUME Inv, NEW b \in Bridge, RecordDispatchedTask(b)
  PROVE  Inv'
<1> DEFINE s == bridge[b].session
           row == IF session[s].reserved /\ session[s].launched /\ ~session[s].confirmed
                    THEN [session[s] EXCEPT !.task = TRUE] ELSE session[s]
<1>1. s \in Session
  <2>1. bridge[b].pc # "idle"
    BY DEF RecordDispatchedTask
  <2> QED BY <2>1, BridgeIsBusy DEF Inv
<1>2. session[s] \in Row
  BY <1>1 DEF Inv, TypeOK
<1>3. row \in Row
  BY <1>2 DEF Row
<1>4. session' = [session EXCEPT ![s] = row]
  BY <1>1 DEF RecordDispatchedTask, Inv, TypeOK
<1>5. /\ row.status = session[s].status /\ row.epoch = session[s].epoch
      /\ row.lease = session[s].lease /\ row.stopAt = session[s].stopAt
      /\ row.reserved = session[s].reserved /\ row.confirmed = session[s].confirmed
      /\ row.launched = session[s].launched
  BY <1>2 DEF Row
<1>6. /\ bridge' \in [Bridge -> Busy \cup {Idle}]
      /\ \A c \in Bridge, t \in Session : Marked(c, t)' => Marked(c, t)
  BY GivesUp DEF Inv, RecordDispatchedTask
<1>7. UNCHANGED <<now, cap, scheduled, active, worker, launches, closed, staff, losses>>
  BY DEF RecordDispatchedTask
<1> HIDE DEF row, s
<1> QED BY <1>1, <1>3, <1>4, <1>5, <1>6, <1>7, RowStep

(* Capacity is reserved for a start: the only step that counts one more,    *)
(* and it looks at the limit in the same transaction.                       *)
LEMMA AdmitStep ==
  ASSUME Inv, NEW b \in Bridge, AdmitDispatch(b)
  PROVE  Inv'
<1>1. bridge[b] \in Busy /\ bridge[b].session \in Session
  <2>1. bridge[b].pc # "idle"
    BY DEF AdmitDispatch
  <2> QED BY <2>1, BridgeIsBusy DEF Inv
<1> PICK s \in Session : s = bridge[b].session
  BY <1>1
<1>2. CASE UNCHANGED session
  <2>1. bridge' = [bridge EXCEPT ![b].pc = "denied"] \/ Goto(b, "admitted")
    BY DEF AdmitDispatch
  <2>2. [bridge[b] EXCEPT !.pc = "denied"] \in Busy
    BY <1>1 DEF Busy
  <2>3. bridge' \in [Bridge -> Busy \cup {Idle}]
    BY <1>1, <2>1, <2>2, BridgeMoves DEF Inv, TypeOK
  <2>4. \A c \in Bridge, t \in Session : Marked(c, t)' => Marked(c, t)
    BY <1>1, <2>1, Unmarked DEF Inv
  <2> QED BY <1>2, <2>3, <2>4, BridgeOnly DEF AdmitDispatch, rows, Inv, TypeOK
<1>3. CASE ~UNCHANGED session
  <2> DEFINE row == [session[s] EXCEPT !.reserved = TRUE]
  <2>1. /\ session' = [session EXCEPT ![s] = row] /\ Goto(b, "admitted")
        /\ session[s].status \in Open
        /\ ~session[s].reserved => Cardinality(Held) < cap
    BY <1>3 DEF AdmitDispatch, Inv, TypeOK
  <2>2. session[s] \in Row /\ LaunchInv(s) /\ AirInv(s) /\ LeaseInv(s)
    BY DEF Inv, TypeOK, SessionInv
  <2>3. row \in Row
    BY <2>2 DEF Row
  <2>4. bridge' \in [Bridge -> Busy \cup {Idle}]
    BY <1>1, <2>1, BridgeMoves DEF Inv
  <2>5. \A c \in Bridge, t \in Session : Marked(c, t)' => Marked(c, t)
    BY <2>1, Unmarked DEF Inv
  <2>6. /\ row.status = session[s].status /\ row.epoch = session[s].epoch
        /\ row.lease = session[s].lease /\ row.stopAt = session[s].stopAt
        /\ row.reserved = TRUE /\ row.confirmed = session[s].confirmed
        /\ row.launched = session[s].launched
    BY <2>2 DEF Row
  <2> HIDE DEF row
  <2>7. TypeOK'
    BY <2>1, <2>3, <2>4 DEF AdmitDispatch, Inv, TypeOK
  <2>8. session'[s] = row /\ \A t \in Session \ {s} : session'[t] = session[t]
    BY <2>1 DEF Inv, TypeOK
  <2>9. SessionInv'
    <3> SUFFICES ASSUME NEW t \in Session PROVE (LaunchInv(t) /\ AirInv(t) /\ LeaseInv(t))'
      BY DEF SessionInv
    <3>1. LaunchInv(t) /\ AirInv(t) /\ LeaseInv(t)
      BY DEF Inv, SessionInv
    <3>2. CASE t = s
      BY <2>1, <2>2, <2>6, <2>8, <3>2 DEF AdmitDispatch, LaunchInv, AirInv, LeaseInv, Open
    <3>3. CASE t # s
      BY <2>8, <3>1, <3>3 DEF AdmitDispatch, LaunchInv, AirInv, LeaseInv
    <3> QED BY <3>2, <3>3
  <2>10. MarkInv'
    <3>1. \A t \in Session : session[t].launched => session'[t].launched
      BY <2>6, <2>8
    <3> QED BY <2>5, <3>1, MarksKept DEF AdmitDispatch, Inv
  <2>11. HeldInv'
    <3>1. CASE session[s].reserved
      BY <2>6, <2>8, <3>1, HeldShrinks DEF AdmitDispatch, Inv
    <3>2. CASE ~session[s].reserved
      <4>1. Held' \subseteq Held \cup {s} /\ s \notin Held
        BY <2>8, <3>2 DEF Held
      <4>2. IsFiniteSet(Held) /\ Held \subseteq Session
        BY FS_Subset DEF Held
      <4>3. IsFiniteSet(Held \cup {s}) /\ Cardinality(Held \cup {s}) = Cardinality(Held) + 1
        BY <4>1, <4>2, FS_AddElement
      <4>4. Cardinality(Held') <= Cardinality(Held \cup {s}) /\ IsFiniteSet(Held')
        BY <4>1, <4>3, FS_Subset
      <4>5. Cardinality(Held) \in Nat /\ Cardinality(Held') \in Nat /\ cap \in Nat
        BY <4>2, <4>4, FS_CardinalityType DEF Inv, TypeOK
      <4> QED BY <2>1, <3>2, <4>3, <4>4, <4>5 DEF AdmitDispatch, HeldInv
    <3> QED BY <3>1, <3>2
  <2>12. OneOpen'
    BY <2>6, <2>8 DEF Inv, OneOpen, OpenSessions
  <2> QED BY <2>7, <2>9, <2>10, <2>11, <2>12 DEF Inv
<1> QED BY <1>2, <1>3

(* The marker: before it the session was never launched, and no other       *)
(* bridge got it.                                                           *)
LEMMA MarkStep ==
  ASSUME Inv, NEW b \in Bridge, MarkLaunchAttempt(b)
  PROVE  Inv'
<1>1. bridge[b] \in Busy /\ bridge[b].session \in Session
  <2>1. bridge[b].pc # "idle"
    BY DEF MarkLaunchAttempt
  <2> QED BY <2>1, BridgeIsBusy DEF Inv
<1> PICK s \in Session : s = bridge[b].session
  BY <1>1
<1>2. CASE ~(Unlaunched(b, s) /\ session[s].stopAt = Never)
  <2>1. UNCHANGED session /\ Goto(b, "unlaunched")
    BY <1>2 DEF MarkLaunchAttempt
  <2>2. bridge' \in [Bridge -> Busy \cup {Idle}]
    BY <1>1, <2>1, BridgeMoves DEF Inv
  <2>3. \A c \in Bridge, t \in Session : Marked(c, t)' => Marked(c, t)
    BY <2>1, Unmarked DEF Inv
  <2> QED BY <2>1, <2>2, <2>3, BridgeOnly DEF MarkLaunchAttempt, rows, Inv, TypeOK
<1>3. CASE Unlaunched(b, s) /\ session[s].stopAt = Never
  <2> DEFINE row == [session[s] EXCEPT !.launched = TRUE, !.by = NoBridge]
  <2>1. session' = [session EXCEPT ![s] = row] /\ Goto(b, "marked")
    BY <1>3 DEF MarkLaunchAttempt, Inv, TypeOK
  <2>2. session[s] \in Row /\ LaunchInv(s) /\ AirInv(s) /\ LeaseInv(s)
    BY DEF Inv, TypeOK, SessionInv
  <2>3. session[s].reserved /\ ~session[s].launched /\ launches[s] = 0
    BY <1>3, <2>2 DEF Unlaunched, LaunchInv
  <2>4. row \in Row
    BY <2>2 DEF Row
  <2>5. bridge' \in [Bridge -> Busy \cup {Idle}]
    BY <1>1, <2>1, BridgeMoves DEF Inv
  <2>6. /\ row.status = session[s].status /\ row.epoch = session[s].epoch
        /\ row.lease = session[s].lease /\ row.stopAt = session[s].stopAt
        /\ row.reserved = session[s].reserved /\ row.confirmed = session[s].confirmed
        /\ row.launched
    BY <2>2 DEF Row
  <2> HIDE DEF row
  <2>7. TypeOK'
    BY <2>1, <2>4, <2>5 DEF MarkLaunchAttempt, Inv, TypeOK
  <2>8. session'[s] = row /\ \A t \in Session \ {s} : session'[t] = session[t]
    BY <2>1 DEF Inv, TypeOK
  <2>9. SessionInv'
    <3> SUFFICES ASSUME NEW t \in Session PROVE (LaunchInv(t) /\ AirInv(t) /\ LeaseInv(t))'
      BY DEF SessionInv
    <3>1. LaunchInv(t) /\ AirInv(t) /\ LeaseInv(t)
      BY DEF Inv, SessionInv
    <3>2. CASE t = s
      BY <2>2, <2>3, <2>6, <2>8, <3>2 DEF MarkLaunchAttempt, LaunchInv, AirInv, LeaseInv
    <3>3. CASE t # s
      BY <2>8, <3>1, <3>3 DEF MarkLaunchAttempt, LaunchInv, AirInv, LeaseInv
    <3> QED BY <3>2, <3>3
  <2>10. HeldInv' /\ OneOpen'
    BY <2>6, <2>8, HeldShrinks DEF MarkLaunchAttempt, Inv, OneOpen, OpenSessions
  <2>11. MarkInv'
    <3>1. \A c \in Bridge, t \in Session : Marked(c, t)' => Marked(c, t) \/ (c = b /\ t = s)
      BY <1>1, <2>1 DEF Goto, Idle, Marked, Inv, TypeOK
    <3>2. \A c \in Bridge : ~Marked(c, s)
      BY <2>3 DEF Inv, MarkInv
    <3>3. \A t \in Session : session[t].launched => session'[t].launched
      BY <2>6, <2>8
    <3>4. launches' = launches /\ session'[s].launched
      BY <2>6, <2>8 DEF MarkLaunchAttempt
    <3> QED BY <2>3, <3>1, <3>2, <3>3, <3>4 DEF Inv, MarkInv
  <2> QED BY <2>7, <2>9, <2>10, <2>11 DEF Inv
<1> QED BY <1>2, <1>3

(* The launch, once for a marker.                                           *)
LEMMA RunStep ==
  ASSUME Inv, NEW b \in Bridge, RunTask(b)
  PROVE  Inv'
<1>1. bridge[b] \in Busy /\ bridge[b].session \in Session /\ bridge[b].pc = "marked"
  <2>1. bridge[b].pc = "marked"
    BY DEF RunTask
  <2> QED BY <2>1, BridgeIsBusy DEF Inv
<1> PICK s \in Session : s = bridge[b].session
  BY <1>1
<1>2. /\ session[s].launched /\ launches[s] = 0 /\ worker[s] \in Worker
      /\ LaunchInv(s) /\ AirInv(s) /\ LeaseInv(s)
      /\ \A c \in Bridge : Marked(c, s) => c = b
  BY <1>1 DEF Inv, MarkInv, Marked, TypeOK, SessionInv
<1>3. worker[s].ecs = "none" /\ ~session[s].confirmed /\ ~session[s].epoch
  BY <1>2 DEF LaunchInv
<1>4. /\ session' = session /\ active' = active /\ launches' = [launches EXCEPT ![s] = 1]
      /\ Goto(b, "running") \/ GiveUp(b)
      /\ worker' = worker \/ worker' = [worker EXCEPT ![s].ecs = "running"]
      /\ losses' \in 0..MaxLosses
      /\ UNCHANGED <<now, cap, scheduled, closed, staff>>
  <2>1. losses' \in 0..MaxLosses
    BY DEF RunTask, Lose, Inv, TypeOK
  <2> QED BY <1>2, <2>1 DEF RunTask, rows
<1>5. bridge' \in [Bridge -> Busy \cup {Idle}]
  BY <1>1, <1>4, BridgeMoves, GivesUp DEF Inv
<1>6. \A c \in Bridge, t \in Session : Marked(c, t)' => Marked(c, t) /\ c # b
  <2>1. \A c \in Bridge, t \in Session : Marked(c, t)' => Marked(c, t)
    BY <1>4, Unmarked DEF Inv
  <2>2. bridge'[b].pc # "marked"
    <3>1. CASE GiveUp(b)
      BY <3>1 DEF GiveUp, Idle, Inv, TypeOK
    <3>2. CASE Goto(b, "running")
      BY <3>2 DEF Goto, Idle, Inv, TypeOK
    <3> QED BY <1>4, <3>1, <3>2
  <2> QED BY <2>1, <2>2 DEF Marked
<1>7. TypeOK'
  <2>1. [worker[s] EXCEPT !.ecs = "running"] \in Worker
    BY <1>2 DEF Worker
  <2>2. worker' \in [Session -> Worker]
    BY <1>4, <2>1 DEF Inv, TypeOK
  <2> QED BY <1>4, <1>5, <2>2 DEF Inv, TypeOK
<1>8. SessionInv'
  <2> SUFFICES ASSUME NEW t \in Session PROVE (LaunchInv(t) /\ AirInv(t) /\ LeaseInv(t))'
    BY DEF SessionInv
  <2>1. LaunchInv(t) /\ AirInv(t) /\ LeaseInv(t)
    BY DEF Inv, SessionInv
  <2>2. CASE t = s
    BY <1>2, <1>3, <1>4, <2>2 DEF LaunchInv, AirInv, LeaseInv, Worker, Inv, TypeOK
  <2>3. CASE t # s
    BY <1>4, <2>1, <2>3 DEF LaunchInv, AirInv, LeaseInv, Inv, TypeOK
  <2> QED BY <2>2, <2>3
<1>9. HeldInv' /\ OneOpen'
  BY <1>4 DEF Inv, HeldInv, Held, OneOpen, OpenSessions
<1>10. MarkInv'
  <2> SUFFICES ASSUME NEW c \in Bridge, NEW t \in Session, Marked(c, t)'
               PROVE  /\ session'[t].launched /\ launches'[t] = 0
                      /\ \A d \in Bridge : Marked(d, t)' => d = c
    BY DEF MarkInv
  <2>1. Marked(c, t) /\ t # s
    BY <1>2, <1>6
  <2> QED BY <1>4, <1>6, <2>1 DEF Inv, MarkInv, TypeOK
<1> QED BY <1>7, <1>8, <1>9, <1>10 DEF Inv
-----------------------------------------------------------------------------
(* The invariant, and what follows.                                         *)

(* Nothing is scheduled at the start.                                       *)
LEMMA InitInv == Init => Inv
<1> SUFFICES ASSUME Init PROVE Inv
  OBVIOUS
<1>1. Absent \in Row /\ NoWorker \in Worker
  BY RowTypes DEF NoWorker, Worker
<1>2. TypeOK
  BY <1>1 DEF Init, TypeOK
<1>3. SessionInv
  BY DEF Init, Absent, NoWorker, SessionInv, LaunchInv, AirInv, LeaseInv, OnAir
<1>4. MarkInv
  BY DEF Init, Idle, MarkInv, Marked
<1>5. HeldInv
  <2>1. Held = {}
    BY DEF Init, Absent, Held
  <2> QED BY <2>1, FS_EmptySet DEF HeldInv, Init
<1>6. OneOpen
  BY DEF Init, Absent, OneOpen, OpenSessions, Open
<1> QED BY <1>2, <1>3, <1>4, <1>5, <1>6 DEF Inv

(* Time passes, an event is reinstated, or nothing happens.                 *)
LEMMA OtherSteps ==
  ASSUME Inv, Tick \/ Reinstate \/ UNCHANGED vars
  PROVE  Inv'
<1>1. /\ session' = session /\ active' = active /\ now' \in {now, now + 1} /\ now' \in 0..MaxTime
      /\ scheduled' \in BOOLEAN
      /\ UNCHANGED <<cap, bridge, worker, launches, closed, staff, losses>>
  <2>1. now \in 0..MaxTime /\ scheduled \in BOOLEAN
    BY DEF Inv, TypeOK
  <2>2. CASE Tick
    BY <2>1, <2>2 DEF Tick, rows
  <2>3. CASE Reinstate
    BY <2>1, <2>3 DEF Reinstate, rows
  <2>4. CASE UNCHANGED vars
    BY <2>1, <2>4 DEF vars, rows
  <2> QED BY <2>2, <2>3, <2>4
<1>2. TypeOK'
  BY <1>1 DEF Inv, TypeOK
<1>3. SessionInv'
  <2> SUFFICES ASSUME NEW t \in Session PROVE (LaunchInv(t) /\ AirInv(t) /\ LeaseInv(t))'
    BY DEF SessionInv
  <2>1. LaunchInv(t) /\ AirInv(t) /\ LeaseInv(t) /\ worker[t] \in Worker /\ session[t] \in Row
        /\ now \in Nat
    BY DEF Inv, SessionInv, TypeOK
  <2>2. LaunchInv(t)' /\ AirInv(t)'
    BY <1>1, <2>1 DEF LaunchInv, AirInv
  <2>3. LeaseInv(t)'
    BY <1>1, <2>1 DEF LeaseInv, Worker, Row
  <2> QED BY <2>2, <2>3
<1>4. MarkInv' /\ HeldInv' /\ OneOpen'
  BY <1>1 DEF Inv, MarkInv, Marked, HeldInv, Held, OneOpen, OpenSessions
<1> QED BY <1>2, <1>3, <1>4 DEF Inv

(* Every step keeps the invariant.                                          *)
LEMMA NextInv == Inv /\ [Next]_vars => Inv'
<1> SUFFICES ASSUME Inv, [Next]_vars PROVE Inv'
  OBVIOUS
<1>1. CASE Schedule \/ StopSession \/ MarkEnded \/ CancelMedia \/ Requeue
  BY <1>1, ScheduleStep, StopStep, MarkEndedStep, CancelStep, RequeueStep
<1>2. CASE Tick \/ Reinstate \/ UNCHANGED vars
  BY <1>2, OtherSteps
<1>3. ASSUME NEW b \in Bridge, BridgeStep(b) PROVE Inv'
  <2>1. CASE ClaimStart(b) \/ ClaimStop(b) \/ AdmitDispatch(b) \/ ReportDenied(b)
    BY <2>1, ClaimStartStep, ClaimStopStep, AdmitStep, DeniedStep
  <2>2. CASE Withdraw(b) \/ BridgeLost(b) \/ ReleaseUnlaunched(b) \/ MarkLaunchAttempt(b)
    BY <2>2, WithdrawStep, ReleaseStep, MarkStep
  <2>3. CASE RunTask(b) \/ RecordDispatchedTask(b) \/ StopCommand(b)
    BY <2>3, RunStep, RecordStep, StopCommandStep
  <2> QED BY <1>3, <2>1, <2>2, <2>3 DEF BridgeStep
<1>4. ASSUME NEW s \in Session, TaskStep(s) PROVE Inv'
  BY <1>4, TaskSteps, ConfirmStep DEF TaskStep
<1>5. ASSUME NEW s \in Session, WorkerStep(s) PROVE Inv'
  BY <1>5, LocalSteps, LeaseSteps, ReceiveReportStep, LoseReportStep DEF WorkerStep
<1> QED BY <1>1, <1>2, <1>3, <1>4, <1>5 DEF Next

(* Every behaviour keeps the invariant.                                     *)
LEMMA AlwaysInv == Spec => []Inv
  BY InitInv, NextInv, PTL DEF Spec

(* Every variable keeps its type.                                           *)
THEOREM TypeCorrect == Spec => []TypeOK
<1>1. Inv => TypeOK
  BY DEF Inv
<1> QED BY <1>1, AlwaysInv, PTL

(* No session is launched twice, and the running tasks never exceed the     *)
(* limit: a running task has a reservation that is not confirmed over, and  *)
(* those are counted when another is made.                                  *)
THEOREM Capacity == Spec => []CapacityHeld
<1>1. Inv => CapacityHeld
  <2> SUFFICES ASSUME Inv PROVE CapacityHeld
    OBVIOUS
  <2>1. Running \subseteq Held
    BY DEF Inv, SessionInv, LaunchInv, Running, Held
  <2>2. IsFiniteSet(Held)
    BY FS_Subset DEF Held
  <2>3. Cardinality(Running) <= Cardinality(Held) /\ IsFiniteSet(Running)
    BY <2>1, <2>2, FS_Subset
  <2>4. Cardinality(Running) \in Nat /\ Cardinality(Held) \in Nat /\ cap \in Nat
    BY <2>2, <2>3, FS_CardinalityType DEF Inv, TypeOK
  <2>5. \A s \in Session : launches[s] <= 1
    BY DEF Inv, SessionInv, LaunchInv
  <2> QED BY <2>3, <2>4, <2>5 DEF Inv, HeldInv, CapacityHeld
<1> QED BY <1>1, AlwaysInv, PTL

(* No two sessions that staff left alone are on the air together: one of    *)
(* them would be open for each, and one session is open at a time.          *)
THEOREM Publisher == Spec => []OnePublisher
<1>1. Inv => OnePublisher
  BY DEF Inv, SessionInv, AirInv, OneOpen, OpenSessions, Open, OnePublisher, Publishing, Process
<1> QED BY <1>1, AlwaysInv, PTL

(* A worker's authority ends before its lease does.                         *)
THEOREM LeaseCovers == Spec => []LeaseCoversAuthority
<1>1. Inv => LeaseCoversAuthority
  <2> SUFFICES ASSUME Inv, NEW s \in Session, Publishing(s) PROVE now < session[s].lease
    BY DEF LeaseCoversAuthority
  <2>1. LeaseInv(s) /\ worker[s] \in Worker /\ session[s] \in Row /\ now \in Nat
    BY DEF Inv, SessionInv, TypeOK
  <2> QED BY <2>1 DEF LeaseInv, Publishing, Worker, Row
<1> QED BY <1>1, AlwaysInv, PTL

(* A worker is off the air one grace after the request to stop it.          *)
THEOREM StopBounded == Spec => []StopIsBounded
<1>1. Inv => StopIsBounded
  <2> SUFFICES ASSUME Inv, NEW s \in Session, session[s].stopAt # Never, Publishing(s)
               PROVE  now < session[s].stopAt + StopGrace
    BY DEF StopIsBounded
  <2>1. LeaseInv(s) /\ AirInv(s) /\ worker[s] \in Worker /\ session[s] \in Row /\ now \in Nat
    BY DEF Inv, SessionInv, TypeOK
  <2>2. session[s].lease <= session[s].stopAt + StopGrace
    BY <2>1 DEF AirInv, LeaseInv, Publishing
  <2>3. now < worker[s].authority /\ worker[s].authority <= session[s].lease
    BY <2>1 DEF LeaseInv, Publishing
  <2> QED BY <2>1, <2>2, <2>3 DEF Worker, Row
<1> QED BY <1>1, AlwaysInv, PTL
-----------------------------------------------------------------------------
(* The launch implements BroadcastSlots.                                    *)

(* One reservation moves, the way it may.                                   *)
LEMMA SlotMove ==
  ASSUME cap' = cap, NEW s \in Session, NEW from, NEW to,
         SlotOf(s) = from, SlotOf(s)' = to,
         \A t \in Session \ {s} : SlotOf(t)' = SlotOf(t)
  PROVE  Slots!Move(s, from, to)
<1> DEFINE slot == [t \in Session |-> SlotOf(t)]
<1>1. slot[s] = from
  OBVIOUS
<1>2. slot' = [slot EXCEPT ![s] = to]
  OBVIOUS
<1> QED BY <1>1, <1>2 DEF Slots!Move

(* What a step leaves alone of a reservation.                               *)
Same(t) == /\ session'[t].reserved = session[t].reserved
           /\ session'[t].launched = session[t].launched
           /\ session'[t].confirmed = session[t].confirmed
           /\ \/ worker'[t].ecs = worker[t].ecs
              \/ {worker'[t].ecs, worker[t].ecs} = {"running", "stopping"}

LEMMA SameSlot ==
  ASSUME NEW t \in Session, Same(t)
  PROVE  SlotOf(t)' = SlotOf(t)
<1>1. CASE worker'[t].ecs = worker[t].ecs
  BY <1>1 DEF Same, SlotOf
<1>2. CASE {worker'[t].ecs, worker[t].ecs} = {"running", "stopping"}
  <2>1. worker[t].ecs \in {"running", "stopping"} /\ worker'[t].ecs \in {"running", "stopping"}
    BY <1>2
  <2> QED BY <2>1 DEF Same, SlotOf
<1> QED BY <1>1, <1>2 DEF Same

(* A step that touches no reservation is none of BroadcastSlots.            *)
LEMMA QuietSlots ==
  ASSUME cap' = cap, \A t \in Session : Same(t)
  PROVE  UNCHANGED Slots!vars
<1>1. \A t \in Session : SlotOf(t)' = SlotOf(t)
  BY SameSlot
<1> QED BY <1>1 DEF Slots!vars

(* What staff does touches no reservation.                                  *)
LEMMA StaffQuiet ==
  ASSUME Inv, \/ Schedule \/ StopSession \/ MarkEnded \/ CancelMedia \/ Requeue
              \/ Tick \/ Reinstate \/ UNCHANGED vars
  PROVE  UNCHANGED Slots!vars
<1>1. cap' = cap /\ worker' = worker
  BY DEF Schedule, StopSession, MarkEnded, CancelMedia, Requeue, Tick, Reinstate, vars
<1>2. CASE UNCHANGED session
  BY <1>1, <1>2, QuietSlots DEF Same
<1>3. CASE Schedule /\ ~UNCHANGED session
  <2>1. PICK s \in Session :
          /\ session[s].status = "absent"
          /\ session' = [session EXCEPT ![s] = [Absent EXCEPT !.status = "scheduled",
                                                              !.start = "queued"]]
    BY <1>3 DEF Schedule
  <2>2. LaunchInv(s) /\ session[s] \in Row
    BY DEF Inv, SessionInv, TypeOK
  <2>3. ~session[s].reserved /\ ~session'[s].reserved
    BY <2>1, <2>2 DEF LaunchInv, Absent, Inv, TypeOK
  <2>4. \A t \in Session : SlotOf(t)' = SlotOf(t)
    BY <1>1, <2>1, <2>3 DEF SlotOf, Inv, TypeOK
  <2> QED BY <1>1, <2>4 DEF Slots!vars
<1>4. CASE StopSession
  <2>1. PICK s \in Session : session' = [session EXCEPT ![s] = Stopping(session[s])]
    BY <1>4 DEF StopSession, OpenSessions, Inv, TypeOK
  <2> QED BY <1>1, <2>1, QuietSlots DEF Stopping, Same, Inv, TypeOK, Row
<1>5. CASE MarkEnded
  <2>1. PICK s \in Session : session' = [session EXCEPT ![s] = Close(session[s])]
    BY <1>5 DEF MarkEnded, Inv, TypeOK
  <2> QED BY <1>1, <2>1, ClosedRow, QuietSlots DEF Same, Inv, TypeOK
<1>6. CASE CancelMedia /\ ~UNCHANGED session
  <2>1. PICK s \in OpenSessions : session' = [session EXCEPT ![s] = Cancelled(session[s])]
    BY <1>6, TheOpenSession DEF CancelMedia, OpenSessions, Inv, TypeOK, rows
  <2> QED BY <1>1, <2>1, CancelledRow, QuietSlots DEF OpenSessions, Same, Inv, TypeOK
<1>7. CASE Requeue
  BY <1>1, <1>7, QuietSlots DEF Requeue, Same, Inv, TypeOK, Row
<1> QED BY <1>2, <1>3, <1>4, <1>5, <1>6, <1>7 DEF Tick, Reinstate, vars, rows

(* So do most steps of bridges.                                             *)
LEMMA BridgeQuiet ==
  ASSUME Inv, NEW b \in Bridge,
         \/ ClaimStart(b) \/ ClaimStop(b) \/ ReportDenied(b) \/ Withdraw(b)
         \/ BridgeLost(b) \/ RecordDispatchedTask(b) \/ StopCommand(b)
  PROVE  UNCHANGED Slots!vars
<1>1. cap' = cap
  BY DEF ClaimStart, ClaimStop, ReportDenied, Withdraw, BridgeLost, RecordDispatchedTask,
    StopCommand
<1>2. CASE ClaimStart(b)
  <2>1. PICK s \in Session :
          \/ session' = [session EXCEPT ![s].start = "claimed", ![s].by = b]
          \/ session' = [session EXCEPT ![s] = Unusable(session[s])]
    BY <1>2 DEF ClaimStart, Inv, TypeOK
  <2>2. session[s] \in Row
    BY DEF Inv, TypeOK
  <2>3. CASE session' = [session EXCEPT ![s].start = "claimed", ![s].by = b]
    BY <1>1, <1>2, <2>2, <2>3, QuietSlots DEF ClaimStart, Same, Inv, TypeOK, Row
  <2>4. CASE session' = [session EXCEPT ![s] = Unusable(session[s])]
    <3> DEFINE row == Unusable(session[s])
    <3>1. /\ row.reserved = session[s].reserved /\ row.launched = session[s].launched
          /\ row.confirmed = session[s].confirmed /\ row \in Row
      BY UnusableRow
    <3>2. session' = [session EXCEPT ![s] = row]
      BY <2>4
    <3> HIDE DEF row
    <3> QED BY <1>1, <1>2, <3>1, <3>2, QuietSlots DEF ClaimStart, Same, Inv, TypeOK, Row
  <2> QED BY <2>1, <2>3, <2>4
<1>3. CASE ClaimStop(b)
  BY <1>1, <1>3, QuietSlots DEF ClaimStop, Same, Inv, TypeOK, Row
<1>4. CASE ReportDenied(b) \/ StopCommand(b)
  <2>1. bridge[b].session \in Session
    <3>1. bridge[b].pc # "idle"
      BY <1>4 DEF ReportDenied, StopCommand
    <3> QED BY <3>1, BridgeIsBusy DEF Inv
  <2> PICK s \in Session : s = bridge[b].session
    BY <2>1
  <2>2. session' = session \/ session' = [session EXCEPT ![s] = Close(session[s])]
    BY <1>4 DEF ReportDenied, StopCommand, Fail, rows, Inv, TypeOK
  <2>3. worker' = worker \/ StopTask(s)
    BY <1>4 DEF ReportDenied, StopCommand
  <2>4. \A t \in Session : \/ worker'[t].ecs = worker[t].ecs
                           \/ {worker'[t].ecs, worker[t].ecs} = {"running", "stopping"}
    BY <2>3 DEF StopTask, Inv, TypeOK, Worker
  <2>5. \A t \in Session : /\ session'[t].reserved = session[t].reserved
                           /\ session'[t].launched = session[t].launched
                           /\ session'[t].confirmed = session[t].confirmed
    BY <2>2, ClosedRow DEF Inv, TypeOK
  <2> QED BY <1>1, <2>4, <2>5, QuietSlots DEF Same
<1>5. CASE Withdraw(b) \/ BridgeLost(b)
  BY <1>1, <1>5, QuietSlots DEF Withdraw, BridgeLost, rows, Same
<1>6. CASE RecordDispatchedTask(b)
  <2>1. bridge[b].session \in Session
    <3>1. bridge[b].pc # "idle"
      BY <1>6 DEF RecordDispatchedTask
    <3> QED BY <3>1, BridgeIsBusy DEF Inv
  <2> QED BY <1>1, <1>6, <2>1, QuietSlots DEF RecordDispatchedTask, Same, Inv, TypeOK, Row
<1> QED BY <1>2, <1>3, <1>4, <1>5, <1>6

(* Nothing a worker does starts or stops its task.                          *)
LEMMA WorkerEcs ==
  ASSUME Inv, NEW s \in Session, WorkerStep(s)
  PROVE  \A t \in Session : worker'[t].ecs = worker[t].ecs
<1>1. worker[s] \in Worker /\ worker \in [Session -> Worker]
  BY DEF Inv, TypeOK
<1>2. CASE Ask(s)
  BY <1>1, <1>2 DEF Ask, Step, Worker
<1>3. CASE AskMore(s)
  BY <1>1, <1>3 DEF AskMore, Step, Worker
<1>4. CASE AcceptLease(s)
  BY <1>1, <1>4 DEF AcceptLease, Step, Worker
<1>5. CASE Fence(s)
  BY <1>1, <1>5 DEF Fence, Step, Fenced, Worker
<1>6. CASE EndProgram(s)
  BY <1>1, <1>6 DEF EndProgram, Step, Fenced, Worker
<1>7. CASE LoseReport(s)
  BY <1>1, <1>7 DEF LoseReport, Worker
<1>8. CASE AcquireSession(s)
  BY <1>1, <1>8 DEF AcquireSession, Step, Worker
<1>9. CASE RenewSession(s)
  BY <1>1, <1>9 DEF RenewSession, Step, Worker
<1>10. CASE ClaimStopCommand(s)
  BY <1>1, <1>10 DEF ClaimStopCommand, Step, Worker
<1>11. CASE ReceiveReport(s)
  BY <1>1, <1>11 DEF ReceiveReport, Step, Worker
<1> QED BY <1>2, <1>3, <1>4, <1>5, <1>6, <1>7, <1>8, <1>9, <1>10, <1>11 DEF WorkerStep

(* And all of workers, and of ECS until the task stopped.                   *)
LEMMA WorkerQuiet ==
  ASSUME Inv, NEW s \in Session, WorkerStep(s) \/ ReconcileStop(s) \/ DrainTask(s)
  PROVE  UNCHANGED Slots!vars
<1>1. cap' = cap /\ worker[s] \in Worker /\ session[s] \in Row
  BY DEF WorkerStep, Ask, AskMore, AcquireSession, RenewSession, AcceptLease, Fence,
         ClaimStopCommand, EndProgram, ReceiveReport, LoseReport, ReconcileStop, DrainTask,
         Step,
         Inv, TypeOK
<1>2. CASE ReconcileStop(s) \/ DrainTask(s)
  BY <1>1, <1>2, QuietSlots DEF ReconcileStop, DrainTask, StopTask, rows, Same, Inv, TypeOK,
    Worker
<1>3. CASE Ask(s) \/ AskMore(s) \/ AcceptLease(s) \/ Fence(s) \/ EndProgram(s) \/ LoseReport(s)
  <2>1. session' = session
    BY <1>3 DEF Ask, AskMore, AcceptLease, Fence, EndProgram, LoseReport, rows
  <2> QED BY <1>1, <1>3, <2>1, WorkerEcs, QuietSlots DEF WorkerStep, Same
<1>4. CASE AcquireSession(s) \/ RenewSession(s) \/ ClaimStopCommand(s)
  <2>1. \A t \in Session : worker'[t].ecs = worker[t].ecs
    BY <1>4, WorkerEcs DEF WorkerStep
  <2>2. \A t \in Session : /\ session'[t].reserved = session[t].reserved
                           /\ session'[t].launched = session[t].launched
                           /\ session'[t].confirmed = session[t].confirmed
    BY <1>1, <1>4 DEF AcquireSession, RenewSession, ClaimStopCommand, Inv, TypeOK, Row
  <2> QED BY <1>1, <2>1, <2>2, QuietSlots DEF Same
<1>5. CASE ReceiveReport(s)
  <2>1. \A t \in Session : worker'[t].ecs = worker[t].ecs
    BY <1>5, WorkerEcs DEF WorkerStep
  <2>2. session' = session \/ session' = [session EXCEPT ![s] = Close(session[s])]
    BY <1>5 DEF ReceiveReport, rows, Inv, TypeOK
  <2>3. \A t \in Session : /\ session'[t].reserved = session[t].reserved
                           /\ session'[t].launched = session[t].launched
                           /\ session'[t].confirmed = session[t].confirmed
    BY <2>2, ClosedRow DEF Inv, TypeOK
  <2> QED BY <1>1, <2>1, <2>3, QuietSlots DEF Same
<1> QED BY <1>2, <1>3, <1>4, <1>5 DEF WorkerStep

(* The instance counts as this module does.                                 *)
LEMMA SameCardinality == ASSUME NEW S PROVE Slots!Cardinality(S) = Cardinality(S)
  BY DEF Slots!Cardinality, Cardinality

(* A reservation is made, within the limit.                                 *)
LEMMA AdmitSlots ==
  ASSUME Inv, NEW b \in Bridge, AdmitDispatch(b)
  PROVE  [Slots!Next]_(Slots!vars)
<1>1. bridge[b].session \in Session
  <2>1. bridge[b].pc # "idle"
    BY DEF AdmitDispatch
  <2> QED BY <2>1, BridgeIsBusy DEF Inv
<1> PICK s \in Session : s = bridge[b].session
  BY <1>1
<1>2. cap' = cap /\ worker' = worker /\ session[s] \in Row /\ LaunchInv(s)
  BY DEF AdmitDispatch, Inv, TypeOK, SessionInv
<1>3. CASE UNCHANGED session
  BY <1>2, <1>3, QuietSlots DEF Same
<1>4. CASE ~UNCHANGED session
  <2>1. /\ session' = [session EXCEPT ![s].reserved = TRUE]
        /\ ~session[s].confirmed
        /\ ~session[s].reserved => Cardinality(Held) < cap
    BY <1>4 DEF AdmitDispatch, Inv, TypeOK
  <2>2. CASE session[s].reserved
    BY <1>2, <2>1, <2>2, QuietSlots DEF Same, Inv, TypeOK, Row
  <2>3. CASE ~session[s].reserved
    <3>1. ~session[s].launched /\ worker[s].ecs = "none"
      BY <1>2, <2>3 DEF LaunchInv
    <3>2. SlotOf(s) = "free" /\ SlotOf(s)' = "reserved"
      BY <1>2, <2>1, <2>3, <3>1 DEF SlotOf, Inv, TypeOK, Row
    <3>3. \A t \in Session \ {s} : SlotOf(t)' = SlotOf(t)
      BY <1>2, <2>1 DEF SlotOf, Inv, TypeOK
    <3>4. Slots!Move(s, "free", "reserved")
      BY <1>2, <3>2, <3>3, SlotMove
    <3>5. Slots!Counted = Held
      BY DEF Slots!Counted, SlotOf, Held
    <3>6. Slots!Reserve(s)
      <4>1. Cardinality(Slots!Counted) < cap
        BY <2>1, <2>3, <3>5
      <4> QED BY <3>4, <4>1, SameCardinality DEF Slots!Reserve
    <3> QED BY <3>6 DEF Slots!Next
  <2> QED BY <2>2, <2>3
<1> QED BY <1>3, <1>4

(* It is given back unlaunched.                                             *)
LEMMA ReleaseSlots ==
  ASSUME Inv, NEW b \in Bridge, ReleaseUnlaunched(b)
  PROVE  [Slots!Next]_(Slots!vars)
<1>1. bridge[b].session \in Session
  <2>1. bridge[b].pc # "idle"
    BY DEF ReleaseUnlaunched
  <2> QED BY <2>1, BridgeIsBusy DEF Inv
<1> PICK s \in Session : s = bridge[b].session
  BY <1>1
<1>2. cap' = cap /\ worker' = worker /\ session[s] \in Row /\ LaunchInv(s)
  BY DEF ReleaseUnlaunched, Inv, TypeOK, SessionInv
<1>3. CASE ~Unlaunched(b, s)
  BY <1>2, <1>3, QuietSlots DEF ReleaseUnlaunched, rows, Same
<1>4. CASE Unlaunched(b, s)
  <2>1. session' = [session EXCEPT ![s] = Over]
    BY <1>4 DEF ReleaseUnlaunched
  <2>2. worker[s].ecs = "none"
    BY <1>2, <1>4 DEF Unlaunched, LaunchInv
  <2>3. SlotOf(s) = "reserved" /\ SlotOf(s)' = "free"
    BY <1>2, <1>4, <2>1, <2>2 DEF Unlaunched, SlotOf, Over, Absent, Inv, TypeOK
  <2>4. \A t \in Session \ {s} : SlotOf(t)' = SlotOf(t)
    BY <1>2, <2>1 DEF SlotOf, Inv, TypeOK
  <2>5. Slots!Release(s)
    BY <1>2, <2>3, <2>4, SlotMove DEF Slots!Release
  <2> QED BY <2>5 DEF Slots!Next
<1> QED BY <1>3, <1>4

(* The marker commits it.                                                   *)
LEMMA MarkSlots ==
  ASSUME Inv, NEW b \in Bridge, MarkLaunchAttempt(b)
  PROVE  [Slots!Next]_(Slots!vars)
<1>1. bridge[b].session \in Session
  <2>1. bridge[b].pc # "idle"
    BY DEF MarkLaunchAttempt
  <2> QED BY <2>1, BridgeIsBusy DEF Inv
<1> PICK s \in Session : s = bridge[b].session
  BY <1>1
<1>2. cap' = cap /\ worker' = worker /\ session[s] \in Row /\ LaunchInv(s)
  BY DEF MarkLaunchAttempt, Inv, TypeOK, SessionInv
<1>3. CASE ~(Unlaunched(b, s) /\ session[s].stopAt = Never)
  BY <1>2, <1>3, QuietSlots DEF MarkLaunchAttempt, Same
<1>4. CASE Unlaunched(b, s) /\ session[s].stopAt = Never
  <2>1. session' = [session EXCEPT ![s].launched = TRUE, ![s].by = NoBridge]
    BY <1>4 DEF MarkLaunchAttempt
  <2>2. worker[s].ecs = "none"
    BY <1>2, <1>4 DEF Unlaunched, LaunchInv
  <2>3. SlotOf(s) = "reserved" /\ SlotOf(s)' = "launched"
    BY <1>2, <1>4, <2>1, <2>2 DEF Unlaunched, SlotOf, Inv, TypeOK, Row
  <2>4. \A t \in Session \ {s} : SlotOf(t)' = SlotOf(t)
    BY <1>2, <2>1 DEF SlotOf, Inv, TypeOK
  <2>5. Slots!Commit(s)
    BY <1>2, <2>3, <2>4, SlotMove DEF Slots!Commit
  <2> QED BY <2>5 DEF Slots!Next
<1> QED BY <1>3, <1>4

(* The task runs, or it does not.                                           *)
LEMMA RunSlots ==
  ASSUME Inv, NEW b \in Bridge, RunTask(b)
  PROVE  [Slots!Next]_(Slots!vars)
<1>1. bridge[b].session \in Session /\ bridge[b].pc = "marked"
  <2>1. bridge[b].pc = "marked"
    BY DEF RunTask
  <2> QED BY <2>1, BridgeIsBusy DEF Inv
<1> PICK s \in Session : s = bridge[b].session
  BY <1>1
<1>2. /\ session[s].launched /\ launches[s] = 0 /\ worker[s] \in Worker /\ LaunchInv(s)
  BY <1>1 DEF Inv, MarkInv, Marked, TypeOK, SessionInv
<1>3. worker[s].ecs = "none" /\ ~session[s].confirmed /\ session[s].reserved
  BY <1>2 DEF LaunchInv
<1>4. cap' = cap /\ session' = session
  BY DEF RunTask, rows
<1>5. CASE worker' = worker
  BY <1>4, <1>5, QuietSlots DEF Same
<1>6. CASE worker' = [worker EXCEPT ![s].ecs = "running"]
  <2>1. SlotOf(s) = "launched" /\ SlotOf(s)' = "running"
    BY <1>2, <1>3, <1>4, <1>6 DEF SlotOf, Inv, TypeOK, Worker
  <2>2. \A t \in Session \ {s} : SlotOf(t)' = SlotOf(t)
    BY <1>4, <1>6 DEF SlotOf, Inv, TypeOK
  <2>3. Slots!Launch(s)
    BY <1>4, <2>1, <2>2, SlotMove DEF Slots!Launch
  <2> QED BY <2>3 DEF Slots!Next
<1> QED BY <1>5, <1>6 DEF RunTask

(* The task stops, and a bridge confirms it.                                *)
LEMMA StopSlots ==
  ASSUME Inv, NEW s \in Session, TaskStops(s) \/ ConfirmStopped(s)
  PROVE  [Slots!Next]_(Slots!vars)
<1>1. cap' = cap /\ worker[s] \in Worker /\ session[s] \in Row /\ LaunchInv(s)
  BY DEF TaskStops, ConfirmStopped, Inv, TypeOK, SessionInv
<1>2. CASE TaskStops(s)
  <2>1. session' = session /\ worker[s].ecs \in {"running", "stopping"}
    BY <1>2 DEF TaskStops, rows
  <2>2. worker'[s].ecs = "stopped" /\ \A t \in Session \ {s} : worker'[t] = worker[t]
    BY <1>2 DEF TaskStops, NoWorker, Inv, TypeOK
  <2>3. session[s].reserved /\ ~session[s].confirmed
    BY <1>1, <2>1 DEF LaunchInv
  <2>4. SlotOf(s) = "running" /\ SlotOf(s)' = "stopped"
    BY <2>1, <2>2, <2>3 DEF SlotOf
  <2>5. \A t \in Session \ {s} : SlotOf(t)' = SlotOf(t)
    BY <2>1, <2>2 DEF SlotOf
  <2>6. Slots!Exit(s)
    BY <1>1, <2>4, <2>5, SlotMove DEF Slots!Exit
  <2> QED BY <2>6 DEF Slots!Next
<1>3. CASE ConfirmStopped(s)
  <2>1. worker' = worker /\ worker[s].ecs = "stopped" /\ ~session[s].confirmed
        /\ session' = [session EXCEPT ![s] = Stopped]
    BY <1>3 DEF ConfirmStopped
  <2>2. session[s].reserved
    BY <1>1, <2>1 DEF LaunchInv
  <2>3. SlotOf(s) = "stopped" /\ SlotOf(s)' = "returned"
    BY <2>1, <2>2 DEF SlotOf, Stopped, Over, Absent, Inv, TypeOK
  <2>4. \A t \in Session \ {s} : SlotOf(t)' = SlotOf(t)
    BY <2>1 DEF SlotOf, Inv, TypeOK
  <2>5. Slots!Return(s)
    BY <1>1, <2>3, <2>4, SlotMove DEF Slots!Return
  <2> QED BY <2>5 DEF Slots!Next
<1> QED BY <1>2, <1>3

(* Every behaviour of the launch is one of BroadcastSlots.                  *)
THEOREM Implements == Spec => KeepsSlots
<1>1. Init => Slots!Init
  BY DEF Init, Absent, SlotOf, Slots!Init
<1>2. Inv /\ [Next]_vars => [Slots!Next]_(Slots!vars)
  <2> SUFFICES ASSUME Inv, [Next]_vars PROVE [Slots!Next]_(Slots!vars)
    OBVIOUS
  <2>1. CASE \/ Schedule \/ StopSession \/ MarkEnded \/ CancelMedia \/ Requeue
             \/ Tick \/ Reinstate \/ UNCHANGED vars
    BY <2>1, StaffQuiet
  <2>2. ASSUME NEW b \in Bridge, BridgeStep(b) PROVE [Slots!Next]_(Slots!vars)
    <3>1. CASE \/ ClaimStart(b) \/ ClaimStop(b) \/ ReportDenied(b) \/ Withdraw(b)
               \/ BridgeLost(b) \/ RecordDispatchedTask(b) \/ StopCommand(b)
      BY <3>1, BridgeQuiet
    <3>2. CASE AdmitDispatch(b) \/ ReleaseUnlaunched(b) \/ MarkLaunchAttempt(b) \/ RunTask(b)
      BY <3>2, AdmitSlots, ReleaseSlots, MarkSlots, RunSlots
    <3> QED BY <2>2, <3>1, <3>2 DEF BridgeStep
  <2>3. ASSUME NEW s \in Session, TaskStep(s) \/ WorkerStep(s) PROVE [Slots!Next]_(Slots!vars)
    BY <2>3, WorkerQuiet, StopSlots DEF TaskStep
  <2> QED BY <2>1, <2>2, <2>3 DEF Next
<1> QED BY <1>1, <1>2, AlwaysInv, PTL DEF Spec, KeepsSlots, Slots!Spec
=============================================================================
