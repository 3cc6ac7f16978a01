# VRDex: specifications and proofs

VRDex is a Convex backend (`src/convex`) with a Next.js web application, worker
processes (`src/workers`, `src/apps`, `src/packages/media-relay`) and outside
services: VRChat, Discord, Google Calendar, the relay's object store. Convex
runs each mutation as one serializable transaction, so the code has no data
races inside a handler. What is hard is between transactions: leased queues
whose workers are slow, die, or answer late and twice; fan-outs that are paged
over several transactions; calls to services that may or may not have been
applied; wake-ups, retries and recoveries that race with each other.

This directory models the parts in which that matters most for what VRDex does
outside: the club operation queue, the event sync queue, and the broadcast of an
event, both how its worker is launched and stopped and how staff steer what it
shows. It checks them with TLC, and proves with TLAPS every safety and action property
that the passing runs check, and both refinements.

## The system

| Part | State | Operations | What is hard |
| --- | --- | --- | --- |
| Club operations (`clubOperations.ts`, `_clubOperationEvents.ts`, `_clubNotifications.ts`) | `clubOperations` rows, notices, scheduled calls | staff enqueue, edit and cancel; a worker claims, authorizes, defers, rejects, completes; crons and scheduled calls expire and fan out | a VRChat write must go out at most once although the answer can be lost; stale claims; paging |
| Collector connection (`communityTelemetry.ts`) | integration, account, lease with fencing token | connect, disconnect, claim and release the lease, kill switches, credentials | leases taken over under a running operation; epochs |
| Group telemetry worker (`workers/group-telemetry`) | one process, one operation at a time | claim, preflight, authorize, write, report | death between any two steps; budget and deadline stops |
| Event sync (`eventSync.ts`, `_eventSync.ts`, `eventSyncKinds`) | connectors, links, jobs with leases and scheduled runs | event writes enqueue; `runJob` claims, calls a kind's handler, completes, fails or waits; a cron recovers | in-place replacement, superseding, lost runs, overlapping handlers |
| VRChat calendar (`vrchatCalendarConnector.ts`) | the job's payload: the operation in flight | `advanceExport`, `advanceDelete` | a job that waits for another queue and is woken by it |
| Analytics outboxes (`productAnalytics*.ts`, `claimAnalytics*.ts`) | outbox rows with leases | enqueue, claim, deliver, retry | at-least-once delivery, backoff |
| Media relay (`mediaRelayWorker.ts`, `mediaRelayPlayback.ts`, `packages/media-relay`) | source leases, playback grants | claim, heartbeat, publish, admit, clean up | two publishers of one source, capacity |
| Event media and broadcast (`events.ts`, `eventMediaWorker.ts`, `_eventMediaControl.ts`, `_eventBroadcastControl.ts`) | sessions, commands, dispatch reservations, committed intent, sources | schedule, stop, cancel; admit, mark, record a dispatch; lease; take, cut, cancel; configure, prepare, promote, acknowledge, observe | capacity against lost launches; two publishers; commands against dead workers; intents that overtake each other |
| ECS bridge (`scripts/event-media-ecs-bridge.mjs`) | none that lasts: polls, and runs one command at a time | claim, reserve, run or stop the task, refresh | dies between launch and record; may run twice |
| Restream worker (`workers/restream`) | lease authority, current configuration, one open operation, the encoder | acquire, renew, tick, fence; prepare, select, show | its clock against the lease; answers that come late |
| Contributions (`contributionUploads.ts`, `_contributionCapacity.ts`, `contributionBatches.ts`) | reservations, counters, batches | reserve, upload, finalize, expire | leaked or doubly released capacity |
| MCP receipts (`_mcpWriteReceipts.ts`) | receipts by key | begin, finish | repeated writes |
| Group observations, profile claims, media review, OAuth, VRCLinking, intake, seeds, slugs | their own tables | mostly single transactions | uniqueness, one-time codes, rotation |

`PROJECT.json` lists every part with its status, the hazards with the line where
each bites, and which property covers it.

How the two queues meet: an event mutation calls both
`syncClubEventOperations` (actions staff scheduled with the event) and
`enqueueEventSync` (exports of the event). A VRChat calendar job does not call
VRChat; it enqueues a club operation and waits. `patchOperation`, through which
nearly every change of an operation goes, wakes it when the operation settles.
The broadcast shares no table with them: it meets the event mutations only where
an event is cancelled. Its two modules divide the session row between them:
`BroadcastLaunch` has its status, dispatch, lease and stop, `BroadcastControl` its
sequence numbers, pending command and committed intent. They meet where the
session closes, which both have.

## Modules

| Module | Content |
| --- | --- |
| `ClubConnection` | one integration, account and lease; what each worker believes about them; the clock |
| `ClubOperations` | the queue, its scheduled calls, the event, the worker's steps, and what VRChat received (extends `ClubConnection`) |
| `MCClubOperations` | definitions for TLC: which operation depends on which |
| `ClubPromise` | the abstract specification: an action is planned, committed to once, written once at most, and settled for good |
| `ClubOperationsTypes`, `ClubOperationsProofs` | types, and what reaches the provider: the first inductive invariant and its theorems |
| `ClubOperationsOutcomes` | what becomes of the rows: one executor, final and reported outcomes, reviewed writes, current submissions, invitations |
| `ClubOperationsFanout` | that the pages of an event change miss nobody |
| `ClubOperationsPromise` | that `ClubOperations` implements `ClubPromise` |
| `EventSync` | connector, event, link, jobs, runs and the outside copy, for one connector and one event |
| `MCEventSync` | the instance for TLC: how far a run explores each kind of connector |
| `EventSyncProofs` | the lemmas and theorems about `EventSync` |
| `BroadcastLaunch` | the sessions of one event, the bridges, the ECS tasks and their workers: reservation, launch, lease, stop |
| `BroadcastSlots` | the abstract specification: a limited number of slots, taken, used by one task and given back when it can run no more |
| `MCBroadcastLaunch` | the symmetry of the bridges |
| `BroadcastLaunchProofs` | the lemmas and theorems about `BroadcastLaunch`, the refinement of `BroadcastSlots` among them |
| `BroadcastControl` | one open session, its sources, commands and intent, and the worker's operator control |
| `MCBroadcastControl` | the instance for TLC |
| `BroadcastControlProofs` | the lemmas and theorems about `BroadcastControl` |

The definitions named `Mut...` are not part of the specifications. Each is a
plausible slip in the definition it precedes, kept to show that the property of
the run named in `PROJECT.json` notices it.

### ClubConnection and ClubOperations

State. `ops` holds the rows; `"absent"` is a row that does not exist yet. A row
keeps state, schedule, due and ready times, revision, the revision of its
dependency, deferrals, epoch, `submitted` (`submittedAt` is set) and its claim.
The nonce, a UUID in the code, is a per-row counter, which is exactly as unique.
`expiries`, `fanout` and `rejections` are the functions Convex has scheduled.
`worker` is where each process is in `executeClubOperation`: `preflight` (has a
claim), `refused`, or `authorized` (was told to send). `reports` are completion
messages; they are never removed, so each may arrive late, repeatedly or never.
`writes` and `effects` count what VRChat received and applied.

Actions. One per mutation, with the code's guards in the code's order.
`Claim` contains the sweep of claims that ran out and the loop over the ready
queue, in which rows are disposed of until one stands. `Standing` is the common
list of checks of `claim` and `authorizeSubmission`. `AuthorizeSubmission` may
refuse for a reason outside the model (roles, provider authority, friendship),
and its answer may be lost. `ProviderWrite` sends the request; `Answers` lists
what the worker can conclude and whether VRChat applied it: a validated 2xx, a
definite 4xx, or anything else, applied or not. A report carries the worker's
lease token, epoch and key of the time it was sent.

Choices of abstraction.
- The four kill switches have one effect on `binding` and are one flag; account
  states are `ready` or not; the integration states that run operations
  (`active`, `degraded`) are one, those that do not but keep the connection are
  one. `reassignIntegration` is not modelled: one account.
- The worker's clock and the server's are equal. The write may be sent after the
  submission ran out on the server, as in the code, whose deadline for the write
  is the operation's late window.
- `ExpireUnsent` acts on one row: the cron reads nothing but the row and its
  event, so a page is a sequence of such steps. The pages of the fan-outs are
  modelled as pages, since their order against other transactions matters. The
  claim's own limits of 100 rows are not reached.
- An event that is deleted or moved to another community is the same case as a
  cancelled one in every branch read here.
- The durations are small numbers; in the code a claim lasts four minutes, a
  submission two, and the late window fifteen. The proofs hold for any values.

`PromiseOf` maps a row to `ClubPromise`: absent is `none`, pending and claimed are
`planned`, submitted is `committed`, and an outcome is itself; revision, the revision
of the dependency, and what the provider saw are kept. Workers, claims, leases,
clocks, due times and the event have no place there, so every step that only
concerns them is a stutter. One transaction may move several actions (a sweep, a
page), so a step of `ClubPromise` moves each action by one step at most. What the
abstract specification allows is short enough to read: nobody leaves `committed`
but to an outcome, a request goes out only from `committed`, or from
`indeterminate` when the queue gave up before the worker sent it, and an invitation
is committed to only after its creation succeeded at the revision it was reviewed
against.

### EventSync

State. One connector (`direct`: the handler calls the source itself; `operation`:
it waits for a club operation), one event with a content version, its link,
its jobs and the copy `remote`. `Job` bounds the rows. The model has no clock: a
row's lease is `live` or not, `call` says that the run named by
`scheduledFunctionId` has not started, `late` that an operation was waited for
longer than the stall limit. A row that closes is put in one of few forms: what a
closed row still holds is never read, save an operation in flight, which may
still be applied. `orphans` are operations a replaced row has forgotten, `strays`
runs that were overwritten in the row without being cancelled.

Actions. `RunJob` and `RunStray` are the start of `runJob` with its `claimJob`
transaction; `CallSource` (direct) and `Advance` (operation) are its handler;
`CompleteJob`, `FailJob` and `AwaitJob` report. `SettleOperation` abstracts the
other queue: an operation settles as succeeded, as rejected or indeterminate
(applied or not), or as missed. A deletion that VRChat answers with 404 is done for
`advanceDelete` just as one that succeeded, and shows the same: no copy is left; it is
among the succeeded ones. Recovery is per row, for a lease that ran out and
for a pending row whose run was lost.

Choices of abstraction.
- `LeaseRunsOut` needs that no run of the job is alive: a Convex action is
  stopped after ten minutes, the length of the lease. `RecoverExpiredJob` and
  `RecoverStalledJob` need that no run is scheduled: the cron's grace of five
  minutes is taken to cover the start of a scheduled run. A retry may come at any
  time, so backoffs are covered.
- A stop by staff, by an error and by lost authority are one action, and any stop
  may be followed by a resume; the code cannot resume a removed connector, so the
  model has more behaviours there.
- Left out: the list that precedes a VRChat creation, `external_deleted`, held
  drafts, the connectors flag, date-only events, series, imports, polls, boards,
  retention of old rows.

### BroadcastLaunch and BroadcastSlots

State. `session` has one row per session: status, the start and the stop command,
the reservation (`dispatchId`), the launch marker, `confirmed`
(`dispatchStopConfirmedAt`), epoch, lease and stop time. `bridge` is where each
bridge process is in the command it holds. `worker` is the one task and process of
a session: ECS status, the point in the worker's code, and what it believes about
its authority, with the time at which it sent the request (`sent`), because the
worker counts its lease from there. `launches` counts `RunTask` calls that took
effect, `closed` the sessions staff declared over while a task may run, `cap` the
configured limit, `now` the clock.

Actions. One per mutation and per step of the bridge. `ClaimStart` takes queued
commands only, as the code does, and ends the session of one that cannot be used
(`Unusable`: a reservation that may have been launched is asked to stop). A command whose
bridge is gone comes back only by `Requeue`, which an operator does. `BridgeLost` stands for a death and for a lost
answer alike: the bridge forgets, what it had called may have happened. A worker's
request and the arrival of its answer are two actions, so that an answer may come
late; the time that passes between them is what `LeaseCoversAuthority` is about.

Choices of abstraction. Durations are `LeaseTime` and `StopGrace`. Session
deadlines, the kill switch and the destination's revocation all end a worker as a
fence, which may come at any time. Task status written by staff
(`recordEventMediaWorkerTaskStatus`), live and hold reports, outputs, and sessions
from before fencing are left out. `OnePublisher` leaves out sessions that staff declared over
by `markEventMediaWorkerEnded`: `acquireSession` looks for open siblings only, and
so a second worker can acquire while the first still holds a lease; this is listed
among the hazards.

### BroadcastControl

State. Sources have an `offer` (whether the profile offers no link, the stored one or
another), `stored` (`projectionAvailable`, written when a worker refreshes its
configuration and `UpToDate` fails) and a revision; of a removed row nothing else is
read, and it is `Gone`. `command` is indexed by sequence number; `outcome` is `controlOutcome`,
with `open` for a queued or claimed one. `intent`, `intentSeq` and `pending` are the
session's. `record` is the picture the row says is on air. `worker` is the state
of `createOperatorControl`: `seq` is -1 before the first configuration as in the
code, `op` the open operation, `rpc` its request, `done` the map `completed`,
`adrift` requests that still travel although nobody waits for them. `sel` is what
the renderer selects, `enc` what is in the encoded output.

Actions. `Admit`, `Cut`, `Cancel`, `RemoveSource`, `StopSession` and `EndSession`
are mutations; the worker's requests are handled by `HandleBegin`,
`HandlePromote` and `HandleAck`, each with `controlFence` and `loadOperation`
(`Load`) before it. The worker's side is a set of functions of its state, named as
in `operator-control.mjs`; `Advance` is the rest of a tick after its configuration
came, `Receive` the continuation of a request.

Choices of abstraction.
- `Advance` is `applyConfiguration`, `claimCommands` and `advance` in one step.
  What happens between them on the server changes which commands are claimed,
  and the same change may come before or after the whole step.
- The schedule is not there: which source "next" or "automatic" means, and what
  `decideHandoff` does, are choices. A slate that "automatic" pins is told from a cut.
- Deadlines are choices too: a begun preparation may be expired at the server at any time
  (`Expired`), an operation at the worker (`Lapse`), whatever their order.
- `ready` is a choice: an input may get ready, or not, or be lost again. The renderer's pipeline is one
  step, `Encode`, and so the watermarks that keep evidence from going backwards
  (`outputMs`) are not needed.
- `failed`, `cancelled` and `superseded` are one outcome, `refused`: the worker forgets
  the operation at any of them, and no property tells them apart.
- Left out: the receipts that make a repeated request of a browser idempotent,
  the ordinary commands (start, stop), take-over by other staff, outputs.
- `Close` ends the worker in the same step, as nothing here speaks of how it
  stops; `BroadcastLaunch` does.

## Runs

| Run | Instance | Shows |
| --- | --- | --- |
| `club_submit` | 1 operation, 2 workers, 3 claims | at most one write, true and final outcomes, one executor, reviewed revision |
| `club_event` | a creation and its invitation, pages of 1, 2 event changes | fan-outs are complete; the invitation follows the creation it was reviewed against; submissions are current; `ClubPromise` is implemented |
| `club_settles` | a staff and a connector operation, short times, 2 of disconnect, pause, account failure, cancel, reschedule, restart | failures are reported once; no submission for an old connection; everything settles without a worker |
| `club_cancellation` | 2 operations, pages of 1 | finding, below |
| `sync_queue` | 5 rows, 2 attempts; direct: 2 runners, edited and hidden in 2 writes, 2 losses, 1 pause; operation: 1 runner, hidden or published once, 1 loss | an idle queue means a copy in sync; one handler; every job closes |
| `sync_republish`, `sync_wake` | 3 and 2 rows | findings, below |
| `broadcast_launch` | 2 sessions, 2 bridges, limits 1 and 2, 1 loss | capacity is held as long as a task may run and comes back; one publisher; leases cover authority; stops are bounded; `BroadcastSlots` is implemented |
| `broadcast_unlaunched` | 1 session, no losses, as nothing ambiguous must happen | finding, below |
| `broadcast_control` | 1 source of a profile, 2 sequence numbers, 1 disturbance | server and worker mean the same intent; refused takes never commit; removed sources leave; every operation ends; a worker that is behind catches up |
| `broadcast_forgotten` | 1 source, 1 operation, 1 disturbance | finding, below |
| `broadcast_ahead` | 1 source, 1 operation, no disturbance | finding, below |

Bounds. `MaxTime`, `MaxToken`, `MaxClaims`, `MaxRevision` bound the clock, lease
generations, claims and edits of a row; `Disturbances` and `MaxDisturbances` say
which environment steps a run explores and how many: kill switch, credential
rotation, account failure, disconnect, event changes, restarts. `MaxEdits`,
`MaxPauses`, `MaxLosses` do the same for event sync. They are chosen per run so
that its hazard occurs with room: a claim that runs out, is swept and granted to
the other worker while the first still acts; a late window that ends between
claim and write; an event changed again while the first change's pages are out;
an export that fails, is superseded, loses its run and is recovered. `sync_queue` has
a budget for each kind of connector (`Scope`), as a run of both at the larger one would
not end; five rows are enough for its writes, reconciles and retractions: no row
is missing when a write wants one, which would leave a retraction stuck. With pages of
one row, two rows need two pages and one continuation. In `club_settles` the
connector queues only at the times in `DueTimes`, so that its operation is not due
long after the clock has stopped. In `broadcast_launch` two sessions and two bridges
are what a race for a slot or for a command needs, a third repeats it; the clock
runs as far as a lease or a grace period lasts, so that both run out. In
`broadcast_control` two sequence numbers let a take meet its cut, cancel, removal
or successor; a profile edit or a lost request comes once. The safety
properties of the latter were also checked, without disturbances, with two sources, one
of them outside profiles (1.2 million states), and with three sequence numbers (1.3 million);
those instances are too slow to keep with the liveness properties. Together the passing runs
fire every action and every disjunct of `Next`. `club_submit` and
`broadcast_unlaunched`, which check only safety, use the symmetry of workers and bridges.

Deadlock checking is off everywhere: when the clock and the budgets of
disturbances are used up, or all work is done, the system rightly stops.

Fairness. `LiveSpec` of `ClubOperations` is fair to the clock, to the cron
`expireUnsent` (every minute, `crons.ts:20`) and to scheduled calls, which Convex
runs. No worker, staff member or provider is assumed to do anything.
`LiveSpec` of `EventSync` is fair to scheduled runs, to the ends of runs (the
platform stops them), to leases running out, to the recovery cron
(`crons.ts:134`) and to the settling of a club operation, which is
`EverythingSettles` of the other module. `RunJob` is fair per job over all
runners: a runner is a place for a running action, not a process that might be
busy for ever. In `sync_queue` an operation connector has one runner, and `RunJob` waits
while it is busy; as each run ends, that withholds nothing for ever.

`LiveSpec` of `BroadcastLaunch` asks one thing: of the bridge's refresh of a session
that should stop (`ReconcileStop`), the end of a task that was asked to stop, and the
report of that end (`ConfirmStopped`), some step is eventually taken while one is
possible; bridges poll, and ECS ends tasks. No worker is assumed to react.
`LiveSpec` of `BroadcastControl` assumes that a live worker's tick repeats
(`event-worker.mjs` schedules it every second), that a request is delivered or
fails, that promise continuations run, that an operation's deadline passes, and
that a session whose worker is gone is ended, as the bridge does when the task has
stopped. Staff need not do anything, inputs need not get ready, and no frame need
be encoded.

What the checked properties leave out. `InSync` is stated for direct kinds whose
connector never stopped, since edits made while it is paused are not caught up
for linked events. For a hidden event it demands a deleted copy only where the
link says retracted: a first export that failed but was applied leaves a copy
nobody knows of. Publishing again is left out of the direct part of `sync_queue` because
of the finding below, and is explored by `sync_republish`; the operation part publishes too,
but there only the end of the jobs is asked for. `JobsSettle` says that the queue is
empty in the end and stays so, which for bounded writes is that every job closes.

## Findings

1. `club_cancellation`. The planning contract
   (`docs/planning/group-instance-analytics/operation-backend-contract.md:147`)
   says a cancellation stays effective across continuation pages even if the
   event is reinstated immediately. The pages do carry the cancellation, but a
   row of a page that has not run yet is protected only by the event's present
   status; reinstated, it can be claimed and submitted before its page runs.
2. `sync_republish`. `failAttempt` takes any running sibling for a live one. An
   export of a re-published event that fails while the dead run of an older
   deletion has not been recovered is closed in favour of that deletion, which
   is then skipped because the event is public.
3. `sync_wake`. `awaitJob` writes lease and schedule without looking at the
   operation. If it settled before, the wake-up is overwritten and the job sleeps
   the full wait. It is delayed, not lost: `JobsSettle` holds.

4. `broadcast_unlaunched`. The code promises that only ambiguous dispatches keep
   their capacity (`eventMediaWorker.ts:468`). If the event is cancelled between a
   reservation and its launch marker, the start command is cancelled, and both the
   marker and the release that follows ask for a command that is still claimed. No
   stop command exists either, so the reservation stays although nothing runs.
5. `broadcast_forgotten`. The plan for operator controls says that failed and
   superseded commands settle
   (`docs/superpowers/plans/2026-10-22-twitch-inputs-and-operator-controls.md:103`).
   `completeControlOperation` answers `superseded` without settling when its
   evidence is not coherent, for example because the profile hid the link after
   the promotion. The worker takes any answer but `ok` for the end and does not
   begin the command again, while the session waits for it; staff can neither
   cancel it, as it is promoting, nor take anything else. A cut, a removal of the
   source or the end of the session ends this. `OperationsSettle` is therefore stated
   as: settled, or forgotten by the worker.

6. `broadcast_ahead`. The design of the operator controls
   (`docs/superpowers/specs/2026-10-22-twitch-inputs-and-operator-controls-design.md:123`)
   says that a preparation that fails, expires or is cancelled retains the prior
   committed intent and recalculates automatic standby (lines 37 and 40 and
   `docs/engineering/event-broadcast-operator-console.md:13` say the same). "Hold current" with
   nothing on air pins the slate, and the worker takes any pinned slate for a cut and
   commits it at the command's number before it asks. If the command is then
   refused, the session keeps its earlier intent under a smaller number, and the worker
   ignores every configuration of it (`operator-control.mjs:513`) until the next command.
   `SameIntent` states what remains: the worker is ahead only with the slate.
   `WorkerCatchesUp` is the other half, which holds: a worker that is behind does not
   stay behind. With that hold forbidden, `IntentReachesWorker` holds in the instance of
   the run: there is no other way into this state.

## Proofs

`ClubOperationsTypes` and `ClubOperationsProofs` prove, for all values of the
constants that satisfy `ConnectionAssumption` and `OperationsAssumption`:

- `TypeCorrect`: `Spec => []TypeOK`
- `WritesOnce`: `Spec => []AtMostOneWrite`
- `OutcomesTrue`: `Spec => []TruthfulOutcome`
- `Invariance`: `Spec => []Inv`, from which the three follow.

The assumptions say that identifiers are distinct from the markers of absence,
that the bounds are naturals, that `Op` is a finite set of numbers and that an
invitation depends on an earlier operation which is not itself an invitation.

Neither `AtMostOneWrite` nor `TruthfulOutcome` is inductive: they speak of counters
at the provider, and nothing in them says who may still send. `Inv` adds it.
`TypeInv` is the types and the fact that a busy worker is busy with an operation.
`SendInv` says that submission is a point of no return. `StateMatches`: a row is
marked submitted exactly if its state can only be reached through submission
(`rejected` can be reached both ways). `UnsentUntouched`: of a row not submitted
nothing was sent, no report exists and no worker is authorized. `AuthorizedOnce`:
an authorized worker is the only one for its operation, nothing was sent yet, and
the row is submitted or given up as indeterminate. `ReportsTrue`: a report tells the
effect that took place. `RowsTrue`: the row tells it too.

Most transactions (claims, sweeps, edits, fan-outs, rejections, expiries) are
"quiet": per row they keep the state, move it among the unsent outcomes while it
is not submitted, or turn submitted into indeterminate, and no worker becomes
authorized. One lemma shows that quiet steps keep `SendInv`; the others
(authorization, write, not attempted, report) have one each.

`ClubOperationsOutcomes` builds on it and proves, under the same assumptions:

- `OneWorker`: `Spec => []OneExecutor`
- `OutcomesFinal`: `Spec => SettledIsFinal`
- `FailuresReported`: `Spec => []OutcomeReported`
- `InvitationsFollow`: `Spec => []InviteFollowsCreation`
- `WritesReviewed`: `Spec => ReviewedWrite`
- `SubmissionsCurrent`: `Spec => SubmissionIsCurrent`
- `Outcomes`: `Spec => []OutcomeInv`, from which all but the first follow.

`OneExecutor` follows from `AuthorizedOnce` alone. For the others it matters how rows
move, and there are only two ways (`RowsMove`). Every transaction but enqueue and edit
keeps a row (`Kept`): what staff planned stays, a settled row stays altogether, a
submission keeps its time, and a claim is either the old one or has a nonce the row
never had. Enqueue and edit plan a row no worker holds (`Planned`). `OutcomeInv` adds to
`Inv` what these two relations preserve. `RowsPlanned`: a connector's action is tied to
no event, and a row is offered, hence claimed, no earlier than it is due; the
latter is why a submission cannot be early although no check of the authorization
asks. `Reviewed`: what a worker was told when it claimed is what the row says, as long
as the claim is the row's and from the authorization on; that nonces only grow is
what makes an old claim harmless. `Invited`: an action committed to has a creation that
succeeded at the reviewed revision, and as settled rows stay, it has it ever after.
`OutcomeReported` is inductive with these: every change of a row goes through
`patchOperation`, or settles nothing that would have to be filed (`Filed`), which for
the fan-out, that patches rows directly, holds because no connector's action is tied
to an event.

`ClubOperationsFanout` proves `FanoutReaches`: `Spec => []FanoutComplete`. The property says
nothing while pages are out; `FanoutInv` does: an unsent action of the event agrees with
the event as it is, or a page is scheduled whose cursor lies before it. A page is a
first stretch of the rows that follow its cursor (`PageRows`), so a row it left out
follows the cursor it hands on, and a row it handled agrees with the event the page
has read, which is the present one, or no longer concerns it. A change of the event
lets every row drift and schedules a page before all that its own first pass left
out. Nothing but these moves a row's time away from the event's, as each transaction
that retimes a row reads the event it retimes it to.

`ClubOperationsPromise` proves `Implements`: `Spec => KeepsPromise`, the refinement of
`ClubPromise`. There are four kinds of steps (`Turns`): a request, an answer, a grant
of the authorization, and what is quiet. The first three are `Send`, `Answer` and
`Commit` of one action, because of `AuthorizedOnce`, `ReportsTrue` and what the grant
has read (`GrantReads`). A quiet step is, row by row, a plan, a drop, an answer given up or
nothing, by `Kept`, `Planned` and `QuietRow` together.

`EventSyncProofs` proves, for all finite sets of jobs and runners and all bounds
(`SyncAssumption`):

- `TypeCorrect`: `Spec => []TypeOK`
- `OneAtATime`: `Spec => []OneHandler`
- `Converges`: if `"publish"` is not among the `Writes`, `Spec => []InSync`.

`OneHandler` becomes inductive as `HandlerInv`: the row of a handler at work is running
under a live lease, which a second claim finds busy, and there is one handler.
`SyncInv` adds, for a connector that never stopped, what a state must have so that
nothing wrong stays unnoticed: while the source may be wrong, an open job, a job given up
or a reconcile is left (`WorkLeft`); a handler was claimed with the event as it is, or the
next export is queued, and what it will report is what the source shows
(`ReportsFit`); and after a retraction nobody is left who could bring the copy back
(`RetractedGone`). Failed attempts, lapsed leases and wake-ups carry this work over from
row to row (`Carried`). The hypothesis of `Converges` restricts what is written to the
event: it may be edited and hidden, in any order with claims, crashes and recoveries,
but not published a second time. It cannot be dropped: with publishing, `DeletesHidden`
fails and `sync_republish` shows the copy that is then missing (finding 2). The half of
`InSync` about hidden events needs it too: TLC finds a renewed export that was applied and
reported as failed, and an event hidden before its retry, which leaves a copy behind a
link that says retracted.

`BroadcastLaunchProofs` proves, for all finite sets of sessions and bridges, all
limits and all values of the durations (`LaunchAssumption`):

- `TypeCorrect`: `Spec => []TypeOK`
- `Capacity`: `Spec => []CapacityHeld`
- `Publisher`: `Spec => []OnePublisher`
- `LeaseCovers`: `Spec => []LeaseCoversAuthority`
- `StopBounded`: `Spec => []StopIsBounded`
- `Implements`: `Spec => KeepsSlots`, the refinement of `BroadcastSlots`.

None of these is inductive. `CapacityHeld` counts running tasks, and admission counts
reservations: `LaunchInv` ties the two, row by row (a task exists only for a reserved
and launched row, is launched once, and a reservation is confirmed over only
when its task has stopped), `MarkInv` says that one bridge at most stands between
marker and launch, and `HeldInv` bounds the reservations. `OnePublisher` needs
`AirInv` (who is on air has an epoch and a session that is not over) and `OneOpen`
(sessions that are open are one). `LeaseCoversAuthority` and `StopIsBounded` need
`LeaseInv`, in which an answer on its way counts from the time its request was sent.
For the refinement, every step either is quiet for each slot or is one of the
slot's own moves.

`BroadcastControlProofs` proves, for all finite sets of sources, all bounds and all
pictures in which the slate and "automatic" are not sources (`ControlAssumption`,
`PictureAssumption`):

- `TypeCorrect`: `Spec => []TypeOK`
- `OnePending`: `Spec => []PendingIsOpen`
- `NoRefusedIntent`: `Spec => []RefusedNeverCommits`
- `RemovalHolds`: `Spec => []RemovedIsDropped`
- `OneIntent`: `Spec => []SameIntent`
- `Follows`: `Spec => []ShowsIntent`
- `Confirmed`: `Spec => []ConfirmedOnAir`

The inductive invariant `Inv` has a part for each place where a step could find
something stale. `CommandInv` is about the server alone: only the last number can be
pending, what is pending is what is open, a promoted command that is pending is
the committed intent, and a command whose number is committed was promoted.
`Agree` relates the worker to the session: neither its number nor its
operation's is ahead of the last one given out, at the session's number both mean
the same, and ahead of it the worker means and shows the slate. `Fits` says the same of the
operation it holds, whose promotion it knows of only when the server has
committed it or a later one. `Shown` follows an acknowledgement that shows a picture wherever it
may be (in the operation, in a request nobody waits for, in the row): the worker
has taken in that command or a later one. `Timely` is what a configuration still
on its way may say. `RevisionInv` bounds the revisions and is what makes `TypeOK`
provable.

The worker's functions (`Commit`, `Keep`, `Forget`, `Begin`, `AdvanceOperation`,
`Configured`, `Unpiloted`) each have a lemma that they keep `Agree` and `Shown`, and
one lemma (`MovesFit`) says that any transaction of the server keeps them: numbers
only grow, a new number is unknown to the worker, and a promotion is that of the
pending command. A step is then the composition of the functions it calls.

Only model-checked, not proved: liveness (`EverythingSettles`, `JobsSettle`,
`CapacityReturns`, `OperationsSettle`, `WorkerCatchesUp`), since liveness under
fairness and ENABLED are beyond the prover used here, as are inductions over data. No
recursive definition is in the modules that are proved about, so nothing else is lost
by that.

## Not modelled

Besides what the sections above name: payload validation and formatting,
permissions, the policy decision (an arbitrary refusal), request budgets (a write
that is not attempted), delivery of notices by mail, dashboards and listings, and
every part the table in `PROJECT.json` marks `not_modelled`, with its reason.

## Plan

In order of what is at stake:

1. What holds of `EventSync` when events are published again: the exact condition under
   which an export can be lost, as a weaker `InSync`, and its proof.
2. An abstract specification of one export (wanted, under way, in sync) that `EventSync`
   implements while its connector runs.
3. The composition of both queues for the VRChat calendar: orphaned and reordered
   writes to one entry, and the creation whose outcome is unknown.
4. `AnalyticsOutbox` (leased delivery), `MediaRelaySource` (fenced publishing),
   `RelayPlayback` (grants and capacity).
5. `ContributionUploads` (reservations and counters), `McpWriteReceipts`
   (idempotency).
6. Survey of profile claims, OAuth rotation, VRCLinking keys, group observation
   admission and intake, and modules for those whose interleavings matter.
