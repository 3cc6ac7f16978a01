----------------------------- MODULE EventSync -----------------------------
(***************************************************************************)
(* The event sync queue (src/convex/eventSync.ts, src/convex/_eventSync.ts)*)
(* for one connector and one event: event writes queue exports and         *)
(* deletions, scheduled runJob actions claim a job, run the kind's handler *)
(* outside any transaction and report back, a cron recovers what got stuck.*)
(*                                                                         *)
(* The handler of a "direct" kind (Discord, Google) calls the source       *)
(* itself; the one of an "operation" kind (VRChat) queues a club operation *)
(* and lets its job wait for it.  Every action is one Convex transaction,  *)
(* one call to the source, or the loss of a call or of a runner.  Time is  *)
(* left out: a retry or a recovery may come at any moment after its cause. *)
(***************************************************************************)
EXTENDS Integers, FiniteSets

CONSTANTS Job,          \* job ids in creation order: a bound on the rows
          Runner,       \* bound on the runJob actions running at once
          Idle,         \* what an idle runner holds
          Kinds,        \* the connector kinds of a run
          MaxAttempts,  \* MAX_ATTEMPTS (5)
          Writes,       \* which writes to the event a run explores
          MaxEdits,     \* bound on the writes to the event
          MaxPauses,    \* bound on how often the connector stops
          MaxLosses     \* bound on how many runs and runners are lost

ASSUME SyncAssumption ==
  /\ IsFiniteSet(Job) /\ Job \subseteq Nat \ {0}
  /\ Idle \notin Runner
  /\ Kinds \subseteq {"direct", "operation"} /\ Writes \subseteq {"edit", "hide", "publish"}
  /\ MaxAttempts \in Nat \ {0} /\ MaxEdits \in Nat
  /\ MaxPauses \in Nat /\ MaxLosses \in Nat

VARIABLES connector,  \* eventConnectors row; reconcile: a reconcile job is queued
          event,      \* what of the event is exported, and whether it is public
          link,       \* eventSyncLinks row
          jobs,       \* eventSyncJobs rows with their scheduled run
          strays,     \* scheduled runs no row refers to any more
          runner,     \* running runJob actions
          orphans,    \* club operations in flight that no row refers to any more
          remote,     \* the copy the source shows
          edits, pauses, losses

vars == <<connector, event, link, jobs, strays, runner, orphans, remote, edits, pauses,
          losses>>

Connector == [kind : {"direct", "operation"}, active : BOOLEAN, reconcile : BOOLEAN]
Event == [public : BOOLEAN, version : Nat]
Link == [state : {"none", "linked", "vrdex_retracted"}, exported : Nat]
Copy == [live : BOOLEAN, version : Nat]

(* live: leaseExpiresAt lies ahead.  call: scheduledFunctionId names a run  *)
(* that has not started.  op: the club operation the payload names, which   *)
(* carries `carries`; late: it has been waited for longer than STALL_MS.    *)
Row == [state : {"absent", "pending", "running", "done", "failed"},
        kind : {"upsert", "delete"}, attempts : Nat, live : BOOLEAN, call : BOOLEAN,
        op : {"none", "waiting", "succeeded", "rejected", "missed"}, carries : Nat,
        late : BOOLEAN]
Absent == [state |-> "absent", kind |-> "upsert", attempts |-> 0, live |-> FALSE,
           call |-> FALSE, op |-> "none", carries |-> 0, late |-> FALSE]

Run == [pc : {"handling", "answered"}, job : Job, kind : {"upsert", "delete"},
        version : Nat, answer : {"none", "done", "nothing", "failed", "await"}]

TypeOK ==
  /\ connector \in Connector /\ event \in Event /\ link \in Link
  /\ jobs \in [Job -> Row] /\ strays \subseteq Job
  /\ runner \in [Runner -> Run \cup {Idle}]
  /\ orphans \subseteq [kind : {"upsert", "delete"}, version : Nat]
  /\ remote \in Copy
  /\ edits \in 0..MaxEdits /\ pauses \in 0..MaxPauses /\ losses \in 0..MaxLosses

(* A new connector queues a reconcile.                                      *)
Init ==
  /\ connector \in [kind : Kinds, active : {TRUE}, reconcile : {TRUE}]
  /\ event \in [public : BOOLEAN, version : {0}]
  /\ link = [state |-> "none", exported |-> 0]
  /\ jobs = [j \in Job |-> Absent]
  /\ strays = {} /\ orphans = {}
  /\ runner = [r \in Runner |-> Idle]
  /\ remote = [live |-> FALSE, version |-> 0]
  /\ edits = 0 /\ pauses = 0 /\ losses = 0

InState(rows, state) == {j \in Job : rows[j].state = state}
Siblings(rows, j, state) == InState(rows, state) \ {j}
First(ids) == CHOOSE j \in ids : \A k \in ids : j <= k
-----------------------------------------------------------------------------
On(j) == {r \in Runner : runner[r] # Idle /\ runner[r].job = j}

(* enqueueSyncJob: the event's first pending row is replaced in place, with *)
(* its payload, attempts and scheduled run.                                 *)
Slot(rows) == InState(rows, IF InState(rows, "pending") # {} THEN "pending" ELSE "absent")
Enqueued(rows, kind) ==
  [rows EXCEPT ![First(Slot(rows))] =
     [Absent EXCEPT !.state = "pending", !.kind = kind, !.call = TRUE]]
Dropped(rows) == {[kind |-> rows[j].kind, version |-> rows[j].carries] :
                    j \in {First(Slot(rows))} \cap {k \in Job : rows[k].op = "waiting"}}

EnqueueSyncJob(rows, kind) == /\ Slot(rows) # {}
                              /\ jobs' = Enqueued(rows, kind)
                              /\ orphans' = orphans \cup Dropped(rows)

(* enqueueEventSync after a write that made the event e.                    *)
EnqueueEventSync(e) ==
  IF connector.active /\ (e.public \/ link.state = "linked")
    THEN EnqueueSyncJob(jobs, IF e.public THEN "upsert" ELSE "delete")
    ELSE UNCHANGED <<jobs, orphans>>

(* A write to the event: its content changes, or it is published or hidden. *)
WriteEvent ==
  /\ edits < MaxEdits /\ edits' = edits + 1
  /\ \E write \in Writes :
       /\ write # "edit" => event.public = (write = "hide")
       /\ event' = IF write = "edit" THEN [event EXCEPT !.version = @ + 1]
                   ELSE [event EXCEPT !.public = (write = "publish")]
       /\ EnqueueEventSync(event')
  /\ UNCHANGED <<connector, link, strays, runner, remote, pauses, losses>>

(* A connector is paused or removed, by staff or by an error.               *)
Stop == /\ connector.active
        /\ pauses < MaxPauses /\ pauses' = pauses + 1
        /\ connector' = [connector EXCEPT !.active = FALSE]
StopConnector ==
  /\ Stop
  /\ UNCHANGED <<event, link, jobs, strays, runner, orphans, remote, edits, losses>>

(* eventConnectors.update with state active.                                *)
ResumeConnector ==
  /\ ~connector.active
  /\ connector' = [connector EXCEPT !.active = TRUE, !.reconcile = TRUE]
  /\ UNCHANGED <<event, link, jobs, strays, runner, orphans, remote, edits, pauses, losses>>

(* The reconcile job's claim: enqueueUnlinkedExports for this event.        *)
Reconcile ==
  /\ connector.reconcile
  /\ connector' = [connector EXCEPT !.reconcile = FALSE]
  /\ IF connector.active /\ event.public /\ link.state = "none"
       THEN EnqueueSyncJob(jobs, "upsert") ELSE UNCHANGED <<jobs, orphans>>
  /\ UNCHANGED <<event, link, strays, runner, remote, edits, pauses, losses>>
-----------------------------------------------------------------------------
(* A row closes.  A run still scheduled for it finds it closed and does     *)
(* nothing; what else it held is not read again, but a club operation in    *)
(* flight still takes place.                                                *)
Closed(row, state) ==
  IF row.op = "waiting" THEN [Absent EXCEPT !.state = state, !.kind = row.kind,
                                            !.op = row.op, !.carries = row.carries]
                        ELSE [Absent EXCEPT !.state = state]

(* Mutant: a skipped job gets a state of its own.                           *)
MutSkipped(row) == Closed(row, "skipped")
Skipped(row) == Closed(row, "done")

(* wakePendingSibling                                                       *)
Woken(rows, j) == [k \in Job |-> IF k \in Siblings(rows, j, "pending")
                                   THEN [rows[k] EXCEPT !.call = TRUE] ELSE rows[k]]

(* Mutant: a stalled job gives way to a running sibling as well.            *)
MutFailed(rows, j, source) ==
  IF Siblings(rows, j, "pending") # {} \/ Siblings(rows, j, "running") # {}
    THEN Woken([rows EXCEPT ![j] = Skipped(@)], j)
  ELSE IF rows[j].attempts >= MaxAttempts
    THEN [rows EXCEPT ![j] = Closed(@, "failed")]
  ELSE [rows EXCEPT ![j].state = "pending", ![j].live = FALSE, ![j].call = TRUE]

(* failAttempt                                                              *)
Failed(rows, j, source) ==
  IF \/ Siblings(rows, j, "pending") # {}
     \/ source # "stalled" /\ Siblings(rows, j, "running") # {}
    THEN Woken([rows EXCEPT ![j] = Skipped(@)], j)
  ELSE IF rows[j].attempts >= MaxAttempts
    THEN [rows EXCEPT ![j] = Closed(@, "failed")]
  ELSE [rows EXCEPT ![j].state = "pending", ![j].live = FALSE, ![j].call = TRUE]
-----------------------------------------------------------------------------
(* claimJob, once it found the row pending or its lease run out.  Mutant:   *)
(* the siblings' leases are not looked at.                                  *)
MutBusy(j) == {}
Busy(j) == {k \in Siblings(jobs, j, "running") : jobs[k].live}

(* What the event and the link make of the row's kind, unless it has an     *)
(* operation in flight; "skip" closes it.                                   *)
Decided(row) ==
  LET kind == IF row.op # "none" THEN row.kind
              ELSE IF row.kind = "upsert"
                THEN IF event.public THEN "upsert"
                     ELSE IF link.state = "none" THEN "skip" ELSE "delete"
              ELSE IF event.public THEN "skip" ELSE "delete"
  IN IF kind = "delete" /\ link.state # "linked" THEN "skip" ELSE kind

(* rows: the jobs as the scheduled run that calls claimJob found them.      *)
ClaimJob(r, j, rows) ==
  LET kind == Decided(rows[j])
      skipped == [rows EXCEPT ![j] = Skipped(@)]
  IN \/ ~connector.active /\ jobs' = skipped /\ UNCHANGED <<connector, runner, pauses>>
     \/ Stop /\ jobs' = skipped /\ UNCHANGED runner   \* authority_lost
     \/ /\ connector.active
        /\ Busy(j) # {}
        /\ jobs' = [rows EXCEPT ![j].state = "pending", ![j].live = FALSE, ![j].call = TRUE]
        /\ UNCHANGED <<connector, runner, pauses>>
     \/ /\ connector.active
        /\ Busy(j) = {}
        /\ IF kind = "skip" THEN jobs' = skipped /\ UNCHANGED runner
           ELSE /\ jobs' = [rows EXCEPT ![j].state = "running", ![j].attempts = @ + 1,
                                         ![j].live = TRUE, ![j].kind = kind]
                /\ runner' = [runner EXCEPT ![r] =
                     [pc |-> "handling", job |-> j, kind |-> kind,
                      version |-> event.version, answer |-> "none"]]
        /\ UNCHANGED <<connector, pauses>>

Claimable(j) == jobs[j].state = "pending" \/ (jobs[j].state = "running" /\ ~jobs[j].live)

(* runJob starts.  The run of a waiting job is due when its lease runs out; *)
(* a stray run is due at once.                                              *)
RunJob(r, j) ==
  /\ runner[r] = Idle
  /\ jobs[j].call /\ Claimable(j)
  /\ ClaimJob(r, j, [jobs EXCEPT ![j].call = FALSE])
  /\ UNCHANGED <<event, link, strays, orphans, remote, edits, losses>>

RunStray(r, j) ==
  /\ runner[r] = Idle
  /\ j \in strays
  /\ strays' = strays \ {j}
  /\ IF Claimable(j) THEN ClaimJob(r, j, jobs) ELSE UNCHANGED <<connector, jobs, runner, pauses>>
  /\ UNCHANGED <<event, link, orphans, remote, edits, losses>>

Loss == losses < MaxLosses /\ losses' = losses + 1

(* The run throws before or inside claimJob.                                *)
LoseRun(j) ==
  /\ Loss
  /\ Claimable(j) /\ jobs[j].call
  /\ jobs' = [jobs EXCEPT ![j].call = FALSE]
  /\ UNCHANGED <<connector, event, link, strays, runner, orphans, remote, edits, pauses>>
-----------------------------------------------------------------------------
Answer(r, answer, version) ==
  runner' = [runner EXCEPT ![r].pc = "answered", ![r].answer = answer, ![r].version = version]

Applied(kind, version) == IF kind = "upsert" THEN [live |-> TRUE, version |-> version]
                                             ELSE [remote EXCEPT !.live = FALSE]

Handling(r, kind) == /\ runner[r] # Idle
                     /\ runner[r].pc = "handling"
                     /\ connector.kind = kind

(* A direct kind's handler calls the source with what it was claimed with.  *)
(* A call that fails may have been applied.                                 *)
CallSource(r) ==
  /\ Handling(r, "direct")
  /\ \/ /\ remote' = Applied(runner[r].kind, runner[r].version)
        /\ \E answer \in {"done", "failed"} : Answer(r, answer, runner[r].version)
     \/ UNCHANGED remote /\ Answer(r, "failed", runner[r].version)
  /\ UNCHANGED <<connector, event, link, jobs, strays, orphans, edits, pauses, losses>>

(* advanceExport and advanceDelete: the next step of a job that writes      *)
(* through club operations.  The list that precedes a creation is left out. *)
(* Send is enqueue: a hidden event's export sends nothing, a refusal pauses *)
(* the connector.  An update answered 404 counts as any rejection.          *)
Send(r, j, version) ==
  \/ /\ jobs[j].kind = "upsert" /\ ~event.public
     /\ Answer(r, "nothing", version)
     /\ UNCHANGED <<connector, jobs, pauses>>
  \/ /\ jobs[j].kind = "delete" \/ event.public
     /\ \/ Stop /\ Answer(r, "failed", version) /\ UNCHANGED jobs
        \/ /\ jobs' = [jobs EXCEPT ![j].op = "waiting", ![j].carries = version]
           /\ Answer(r, "await", version)
           /\ UNCHANGED <<connector, pauses>>

Advance(r) ==
  LET j == runner[r].job
      row == jobs[j]
  IN /\ Handling(r, "operation")
     /\ CASE row.state # "running" \/ (row.kind = "delete" /\ link.state = "none") ->
               Answer(r, "failed", 0) /\ UNCHANGED <<connector, link, jobs, pauses>>
          [] row.state = "running" /\ row.op \in {"waiting", "missed"} /\ row.late ->
               Answer(r, "failed", 0) /\ UNCHANGED <<connector, link, jobs, pauses>>
          [] row.state = "running" /\ row.op = "waiting" /\ ~row.late ->
               Answer(r, "await", 0) /\ UNCHANGED <<connector, link, jobs, pauses>>
          [] row.state = "running" /\ row.op = "missed" /\ ~row.late ->
               Send(r, j, row.carries) /\ UNCHANGED link
          [] row.state = "running" /\ row.op = "succeeded" ->
               /\ link' = IF row.kind = "upsert" THEN [link EXCEPT !.state = "linked"] ELSE link
               /\ Answer(r, "done", row.carries)
               /\ UNCHANGED <<connector, jobs, pauses>>
          [] row.state = "running" /\ row.op = "rejected" ->
               /\ jobs' = [jobs EXCEPT ![j].op = "none", ![j].late = FALSE]
               /\ Answer(r, "failed", 0)
               /\ UNCHANGED <<connector, link, pauses>>
          [] OTHER ->
               /\ IF row.kind = "delete" /\ link.state # "linked"
                    THEN Answer(r, "done", 0) /\ UNCHANGED <<connector, jobs, pauses>>
                    ELSE Send(r, j, event.version)
               /\ UNCHANGED link
     /\ UNCHANGED <<event, strays, orphans, remote, edits, losses>>

(* patchOperation settles a job's club operation (module ClubOperations)    *)
(* and resumeConnectorSyncJob wakes the job if it still waits for it.  A    *)
(* deletion that is answered 404 counts as succeeded, as for advanceDelete: *)
(* the source shows no copy.                                                *)
SettleOperation(j) ==
  /\ jobs[j].op = "waiting"
  /\ \E outcome \in {"succeeded", "rejected", "missed"} :
       /\ jobs' = [jobs EXCEPT ![j] =
            IF @.state = "running" THEN [@ EXCEPT !.op = outcome, !.live = FALSE, !.call = TRUE]
                                   ELSE [@ EXCEPT !.op = outcome]]
       /\ remote' \in IF outcome = "succeeded" THEN {Applied(jobs[j].kind, jobs[j].carries)}
                      ELSE IF outcome = "rejected"
                        THEN {remote, Applied(jobs[j].kind, jobs[j].carries)}
                      ELSE {remote}
  /\ UNCHANGED <<connector, event, link, strays, runner, orphans, edits, pauses, losses>>

SettleOrphan ==
  /\ \E o \in orphans : /\ orphans' = orphans \ {o}
                        /\ remote' \in {remote, Applied(o.kind, o.version)}
  /\ UNCHANGED <<connector, event, link, jobs, strays, runner, edits, pauses, losses>>

WaitRunsLate(j) ==
  /\ jobs[j].state \in {"pending", "running"}
  /\ jobs[j].op \in {"waiting", "missed"} /\ ~jobs[j].late
  /\ jobs' = [jobs EXCEPT ![j].late = TRUE]
  /\ UNCHANGED <<connector, event, link, strays, runner, orphans, remote, edits, pauses, losses>>
-----------------------------------------------------------------------------
Answered(r, answers) == /\ runner[r] # Idle
                        /\ runner[r].pc = "answered"
                        /\ runner[r].answer \in answers

(* completeJob: the export is recorded on the link, and a copy of an event  *)
(* that went private meanwhile is deleted again.                            *)
CompleteJob(r) ==
  LET j == runner[r].job
      row == jobs[j]
      done == [jobs EXCEPT ![j] = Closed(@, "done")]
      exported == row.kind = "upsert" /\ runner[r].answer = "done"
      retract == exported /\ ~event.public
  IN /\ Answered(r, {"done", "nothing"})
     /\ runner' = [runner EXCEPT ![r] = Idle]
     /\ IF row.state # "running" THEN UNCHANGED <<jobs, link, orphans>>
        ELSE /\ link' = IF exported THEN [state |-> "linked", exported |-> runner[r].version]
                        ELSE IF row.kind = "delete" /\ link.state # "none"
                          THEN [link EXCEPT !.state = "vrdex_retracted"] ELSE link
             /\ retract => Slot(done) # {}
             /\ jobs' = Woken(IF retract THEN Enqueued(done, "delete") ELSE done, j)
             /\ orphans' = orphans \cup IF retract THEN Dropped(done) ELSE {}
     /\ UNCHANGED <<connector, event, strays, remote, edits, pauses, losses>>

FailJob(r) ==
  LET j == runner[r].job
  IN /\ Answered(r, {"failed"})
     /\ runner' = [runner EXCEPT ![r] = Idle]
     /\ jobs' = IF jobs[j].state = "running" THEN Failed(jobs, j, "handler") ELSE jobs
     /\ UNCHANGED <<connector, event, link, strays, orphans, remote, edits, pauses, losses>>

(* awaitJob gives the attempt back and schedules the job's next run at the  *)
(* end of the wait.  A run that was already scheduled is forgotten, not     *)
(* cancelled.                                                               *)
AwaitJob(r) ==
  LET j == runner[r].job
  IN /\ Answered(r, {"await"})
     /\ runner' = [runner EXCEPT ![r] = Idle]
     /\ IF jobs[j].state # "running" THEN UNCHANGED <<jobs, strays>>
        ELSE /\ jobs' = [jobs EXCEPT ![j].attempts = IF @ > 0 THEN @ - 1 ELSE 0,
                                      ![j].live = TRUE, ![j].call = TRUE]
             /\ strays' = IF jobs[j].call THEN strays \cup {j} ELSE strays
     /\ UNCHANGED <<connector, event, link, orphans, remote, edits, pauses, losses>>

(* Convex stops the action, or its host fails.                              *)
LoseRunner(r) ==
  /\ Loss
  /\ runner[r] # Idle
  /\ runner' = [runner EXCEPT ![r] = Idle]
  /\ UNCHANGED <<connector, event, link, jobs, strays, orphans, remote, edits, pauses>>

(* An action is stopped after ten minutes, the length of a lease: a lease   *)
(* outlives the run that took it.                                           *)
LeaseRunsOut(j) ==
  /\ jobs[j].state = "running" /\ jobs[j].live
  /\ On(j) = {}
  /\ jobs' = [jobs EXCEPT ![j].live = FALSE]
  /\ UNCHANGED <<connector, event, link, strays, runner, orphans, remote, edits, pauses, losses>>

(* recoverExpiredJobs, one row: a lease that ran out, or a pending job whose *)
(* run was lost, which costs it an attempt.  The cron leaves either alone    *)
(* for five minutes: a scheduled run has started or is lost by then.         *)
RecoverExpiredJob(j) ==
  /\ jobs[j].state = "running" /\ ~jobs[j].live /\ ~jobs[j].call
  /\ On(j) = {}
  /\ jobs' = Failed(jobs, j, "lease_expired")
  /\ UNCHANGED <<connector, event, link, strays, runner, orphans, remote, edits, pauses, losses>>

(* Mutant: a stalled job with one attempt left is not looked at.            *)
MutRecoverStalledJob(j) ==
  /\ jobs[j].state = "pending" /\ ~jobs[j].call
  /\ jobs[j].attempts + 1 < MaxAttempts
  /\ jobs' = Failed([jobs EXCEPT ![j].attempts = @ + 1], j, "stalled")
  /\ UNCHANGED <<connector, event, link, strays, runner, orphans, remote, edits, pauses, losses>>

RecoverStalledJob(j) ==
  /\ jobs[j].state = "pending" /\ ~jobs[j].call
  /\ jobs' = Failed([jobs EXCEPT ![j].attempts = @ + 1], j, "stalled")
  /\ UNCHANGED <<connector, event, link, strays, runner, orphans, remote, edits, pauses, losses>>
-----------------------------------------------------------------------------
RunnerStep(r) == CallSource(r) \/ Advance(r) \/ CompleteJob(r) \/ FailJob(r) \/ AwaitJob(r)

Next ==
  \/ WriteEvent \/ StopConnector \/ ResumeConnector \/ Reconcile \/ SettleOrphan
  \/ \E r \in Runner, j \in Job : RunJob(r, j) \/ RunStray(r, j)
  \/ \E r \in Runner : RunnerStep(r) \/ LoseRunner(r)
  \/ \E j \in Job : \/ LoseRun(j) \/ SettleOperation(j) \/ WaitRunsLate(j)
                    \/ LeaseRunsOut(j) \/ RecoverExpiredJob(j) \/ RecoverStalledJob(j)

Spec == Init /\ [][Next]_vars

(* Scheduled runs start, a started run ends, the cron runs, leases and      *)
(* waits run out, and a club operation settles (EverythingSettles of        *)
(* ClubOperations).  Staff and event writes are not assumed to happen.      *)
Fairness ==
  /\ \A j \in Job : /\ WF_vars(\E r \in Runner : RunJob(r, j))
                    /\ WF_vars(SettleOperation(j))
                    /\ WF_vars(WaitRunsLate(j))
                    /\ WF_vars(\/ LeaseRunsOut(j) \/ RecoverExpiredJob(j)
                               \/ RecoverStalledJob(j))
  /\ \A r \in Runner : WF_vars(RunnerStep(r))
LiveSpec == Spec /\ Fairness
-----------------------------------------------------------------------------
(* Properties.                                                              *)

Direct == connector.kind = "direct"
Unfinished == InState(jobs, "pending") \cup InState(jobs, "running")

(* Whatever order edits, runs, crashes, failures and recoveries came in:    *)
(* when a connector that never stopped has nothing left to do and gave up   *)
(* on nothing, the source shows the published event as it is now, and no    *)
(* copy it is known to hold of a hidden one.                                *)
InSync ==
  Direct /\ pauses = 0 /\ ~connector.reconcile
    /\ Unfinished = {} /\ InState(jobs, "failed") = {} =>
      IF event.public
        THEN /\ link = [state |-> "linked", exported |-> event.version]
             /\ remote = [live |-> TRUE, version |-> event.version]
        ELSE /\ link.state # "linked"
             /\ link.state = "vrdex_retracted" => ~remote.live

(* Two handlers of a direct kind never write for one event at a time, so an *)
(* older export cannot overtake a newer one.                                *)
OneHandler ==
  Direct => \A r, s \in Runner : runner[r] # Idle /\ runner[s] # Idle => r = s

(* Every queued export closes, however many runs are lost.  The writes of a *)
(* behaviour are bounded, so in the end the queue stays empty.              *)
JobsSettle == <>[](Unfinished = {})

(* src/convex/eventSync.ts, of a deletion that finds its event public again *)
(* and closes: "a re-publish has its own job".  So when a connector that    *)
(* never stopped has nothing left to do and gave up on nothing, a           *)
(* re-published event is shown again.                                       *)
RepublishExported ==
  Direct /\ pauses = 0 /\ ~connector.reconcile
    /\ Unfinished = {} /\ InState(jobs, "failed") = {} /\ event.public => remote.live

(* src/convex/_vrchatCalendarConnector.ts: "A terminal connector operation  *)
(* wakes the sync job waiting on it now instead of at the end of its wait." *)
WokenWhenSettled ==
  \A j \in Job : jobs[j].state = "running" /\ jobs[j].op \notin {"none", "waiting"} =>
                   ~jobs[j].live \/ On(j) # {} \/ j \in strays
=============================================================================
