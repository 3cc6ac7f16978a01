--------------------------- MODULE EventSyncProofs ---------------------------
(***************************************************************************)
(* What holds of the event sync queue, proved for every finite set of jobs *)
(* and runners and every value of the bounds: the invariants that the runs *)
(* of MCEventSync check.                                                   *)
(*                                                                         *)
(* HandlerInv says that a handler's row is running under a live lease, so  *)
(* that a second claim finds it busy.  On top of it SyncInv says that as   *)
(* long as the source may show something wrong a row is left that will put *)
(* it right, and what a handler at work may still report.                  *)
(***************************************************************************)
EXTENDS EventSync, WellFoundedInduction, TLAPS

USE SyncAssumption

-----------------------------------------------------------------------------
(* The order of the job ids.                                                *)

Below == {p \in Nat \X Nat : p[1] < p[2]}

(* The order of the naturals is well founded.                               *)
LEMMA BelowWellFounded == IsWellFoundedOn(Below, Nat)
  BY NatLessThanWellFounded DEF OpToRel, Below

(* Of several jobs First is one of them.                                    *)
LEMMA FirstIn ==
  ASSUME NEW ids \in SUBSET Job, ids # {}
  PROVE  First(ids) \in ids
<1>1. PICK m \in ids : \A j \in ids : ~(<<j, m>> \in Below)
  BY BelowWellFounded, WFMin
<1>2. ASSUME NEW j \in ids PROVE m <= j
  <2>1. <<j, m>> \notin Below
    BY <1>1
  <2>2. j \in Nat /\ m \in Nat
    OBVIOUS
  <2> QED BY <2>1, <2>2 DEF Below
<1> QED BY <1>2 DEF First
-----------------------------------------------------------------------------
(* The functions that change rows.                                          *)

Rows == [Job -> Row]

(* What a wake-up leaves of a row: all but its scheduled run.               *)
Alike(row, new) == /\ new.state = row.state /\ new.kind = row.kind
                   /\ new.live = row.live /\ new.op = row.op

(* The row that is free is a row.                                           *)
LEMMA AbsentType == Absent \in Row
  BY DEF Absent, Row

(* A row that closes stays a row; only an operation in flight is kept.      *)
LEMMA ClosedFacts ==
  ASSUME NEW row \in Row, NEW state \in {"done", "failed"}
  PROVE  /\ Closed(row, state) \in Row /\ Closed(row, state).state = state
         /\ Closed(row, state).op \in {"none", row.op}
  BY DEF Closed, Absent, Row

(* Waking the pending siblings changes nothing but their scheduled runs.    *)
LEMMA WokenFacts ==
  ASSUME NEW rows \in Rows, NEW j \in Job
  PROVE  /\ Woken(rows, j) \in Rows
         /\ \A k \in Job : Alike(rows[k], Woken(rows, j)[k])
<1>1. ASSUME NEW k \in Job PROVE rows[k] \in Row /\ [rows[k] EXCEPT !.call = TRUE] \in Row
  BY DEF Rows, Row
<1>2. ASSUME NEW k \in Job PROVE Alike(rows[k], [rows[k] EXCEPT !.call = TRUE])
  BY <1>1 DEF Alike, Row
<1>3. ASSUME NEW k \in Job PROVE Alike(rows[k], rows[k])
  BY DEF Alike
<1> QED BY <1>1, <1>2, <1>3 DEF Woken, Rows

(* Changing one field of a row leaves a row.                                *)
LEMMA TouchedType ==
  ASSUME NEW rows \in Rows, NEW j \in Job
  PROVE  /\ [rows EXCEPT ![j].call = FALSE] \in Rows
         /\ [rows EXCEPT ![j].live = FALSE] \in Rows
         /\ [rows EXCEPT ![j].late = TRUE] \in Rows
         /\ [rows EXCEPT ![j].attempts = @ + 1] \in Rows
<1>1. rows[j] \in Row
  BY DEF Rows
<1>2. /\ [rows[j] EXCEPT !.call = FALSE] \in Row /\ [rows[j] EXCEPT !.live = FALSE] \in Row
      /\ [rows[j] EXCEPT !.late = TRUE] \in Row
  BY <1>1 DEF Row
<1>3. rows[j].attempts + 1 \in Nat
  BY <1>1 DEF Row
<1>4. [rows[j] EXCEPT !.attempts = rows[j].attempts + 1] \in Row
  BY <1>1, <1>3 DEF Row
<1> QED BY <1>2, <1>4 DEF Rows

(* failAttempt touches one row: it goes back to the queue, is given up, or  *)
(* is left to another row that is still open.                               *)
LEMMA FailedFacts ==
  ASSUME NEW rows \in Rows, NEW j \in Job, NEW source
  PROVE  /\ Failed(rows, j, source) \in Rows
         /\ \A k \in Job \ {j} : Alike(rows[k], Failed(rows, j, source)[k])
         /\ LET new == Failed(rows, j, source)[j]
            IN /\ new.op \in {"none", rows[j].op}
               /\ \/ new.state = "pending" /\ new.kind = rows[j].kind
                  \/ new.state = "failed"
                  \/ /\ new.state = "done"
                     /\ \E k \in Job \ {j} : \/ rows[k].state = "pending"
                                             \/ rows[k].state = "running" /\ source # "stalled"
<1> DEFINE skipped == [rows EXCEPT ![j] = Skipped(@)]
           given == [rows EXCEPT ![j] = Closed(@, "failed")]
           again == [rows EXCEPT ![j].state = "pending", ![j].live = FALSE, ![j].call = TRUE]
<1>1. rows[j] \in Row
  BY DEF Rows
<1>2. \A k \in Job : Alike(rows[k], rows[k])
  BY DEF Alike
<1>3. CASE \/ Siblings(rows, j, "pending") # {}
           \/ source # "stalled" /\ Siblings(rows, j, "running") # {}
  <2>1. Failed(rows, j, source) = Woken(skipped, j)
    BY <1>3 DEF Failed
  <2>2. skipped \in Rows /\ skipped[j].state = "done" /\ skipped[j].op \in {"none", rows[j].op}
    BY <1>1, ClosedFacts DEF Skipped, Rows
  <2>3. \A k \in Job \ {j} : skipped[k] = rows[k]
    BY DEF Rows
  <2>4. \E k \in Job \ {j} : \/ rows[k].state = "pending"
                             \/ rows[k].state = "running" /\ source # "stalled"
    BY <1>3 DEF Siblings, InState
  <2> HIDE DEF skipped
  <2>5. Woken(skipped, j) \in Rows /\ \A k \in Job : Alike(skipped[k], Woken(skipped, j)[k])
    BY <2>2, WokenFacts
  <2>6. Woken(skipped, j)[j].op = skipped[j].op /\ Woken(skipped, j)[j].state = "done"
    BY <2>2, <2>5 DEF Alike
  <2>7. \A k \in Job \ {j} : Alike(rows[k], Woken(skipped, j)[k])
    BY <2>3, <2>5
  <2> QED BY <2>1, <2>2, <2>4, <2>5, <2>6, <2>7
<1>4. CASE /\ ~(\/ Siblings(rows, j, "pending") # {}
                \/ source # "stalled" /\ Siblings(rows, j, "running") # {})
           /\ rows[j].attempts >= MaxAttempts
  <2>1. Failed(rows, j, source) = given
    BY <1>4 DEF Failed
  <2>2. given \in Rows /\ given[j].state = "failed" /\ given[j].op \in {"none", rows[j].op}
    BY <1>1, ClosedFacts DEF Rows
  <2>3. \A k \in Job \ {j} : given[k] = rows[k]
    BY DEF Rows
  <2> QED BY <1>2, <2>1, <2>2, <2>3
<1>5. CASE /\ ~(\/ Siblings(rows, j, "pending") # {}
                \/ source # "stalled" /\ Siblings(rows, j, "running") # {})
           /\ ~(rows[j].attempts >= MaxAttempts)
  <2>1. Failed(rows, j, source) = again
    BY <1>5 DEF Failed
  <2>2. /\ again \in Rows /\ again[j].state = "pending" /\ again[j].op = rows[j].op
        /\ again[j].kind = rows[j].kind
    BY <1>1 DEF Rows, Row
  <2>3. \A k \in Job \ {j} : again[k] = rows[k]
    BY DEF Rows
  <2> QED BY <1>2, <2>1, <2>2, <2>3
<1> QED BY <1>3, <1>4, <1>5

(* Operations whose row is replaced go on by themselves.                    *)
LEMMA DroppedFacts ==
  ASSUME NEW rows \in Rows
  PROVE  /\ Dropped(rows) \subseteq [kind : {"upsert", "delete"}, version : Nat]
         /\ (\A j \in Job : rows[j].op = "none") => Dropped(rows) = {}
<1>1. \A j \in Job : rows[j].kind \in {"upsert", "delete"} /\ rows[j].carries \in Nat
  BY DEF Rows, Row
<1>2. ASSUME NEW o \in Dropped(rows)
      PROVE  \E j \in Job : /\ rows[j].op = "waiting"
                            /\ o = [kind |-> rows[j].kind, version |-> rows[j].carries]
  BY DEF Dropped
<1> QED BY <1>1, <1>2

(* A job is queued in one row that was pending or free.                     *)
LEMMA EnqueuedFacts ==
  ASSUME NEW rows \in Rows, NEW kind \in {"upsert", "delete"}, Slot(rows) # {}
  PROVE  /\ Enqueued(rows, kind) \in Rows
         /\ \E i \in Job : /\ rows[i].state \in {"pending", "absent"}
                           /\ Enqueued(rows, kind)[i].state = "pending"
                           /\ Enqueued(rows, kind)[i].kind = kind
                           /\ Enqueued(rows, kind)[i].op = "none"
                           /\ \A k \in Job \ {i} : Enqueued(rows, kind)[k] = rows[k]
<1> DEFINE i == First(Slot(rows))
           new == [Absent EXCEPT !.state = "pending", !.kind = kind, !.call = TRUE]
<1>1. Slot(rows) \in SUBSET Job
  BY DEF Slot, InState
<1>2. i \in Slot(rows)
  BY <1>1, FirstIn
<1>3. i \in Job /\ rows[i].state \in {"pending", "absent"}
  BY <1>2 DEF Slot, InState
<1>4. new \in Row /\ new.state = "pending" /\ new.kind = kind /\ new.op = "none"
  BY DEF Absent, Row
<1>5. Enqueued(rows, kind) = [rows EXCEPT ![i] = new]
  BY DEF Enqueued
<1> HIDE DEF i, new
<1> QED BY <1>3, <1>4, <1>5 DEF Rows

(* What a claim decides: a row without an operation exports a public event, *)
(* deletes a copy it knows of, and has nothing to do otherwise.             *)
LEMMA DecidedFacts ==
  ASSUME NEW row \in Row, event.public \in BOOLEAN
  PROVE  /\ Decided(row) \in {"upsert", "delete", "skip"}
         /\ row.op = "none" =>
              /\ event.public => Decided(row) = IF row.kind = "upsert" THEN "upsert" ELSE "skip"
              /\ ~event.public => Decided(row) = IF link.state = "linked" THEN "delete" ELSE "skip"
<1>1. row.kind \in {"upsert", "delete"}
  BY DEF Row
<1>2. CASE row.op # "none"
  BY <1>1, <1>2 DEF Decided
<1>3. CASE row.op = "none" /\ row.kind = "upsert" /\ event.public
  BY <1>3 DEF Decided
<1>4. CASE row.op = "none" /\ row.kind = "upsert" /\ ~event.public
  BY <1>4 DEF Decided
<1>5. CASE row.op = "none" /\ row.kind = "delete"
  BY <1>5 DEF Decided
<1> QED BY <1>1, <1>2, <1>3, <1>4, <1>5
-----------------------------------------------------------------------------
(* Type correctness.                                                        *)

Orphans == [kind : {"upsert", "delete"}, version : Nat]

(* Queueing a job keeps the rows and the forgotten operations typed.        *)
LEMMA EnqueueType ==
  ASSUME NEW rows \in Rows, NEW kind \in {"upsert", "delete"},
         orphans \subseteq Orphans, EnqueueSyncJob(rows, kind)
  PROVE  jobs' \in Rows /\ orphans' \subseteq Orphans
  BY EnqueuedFacts, DroppedFacts DEF EnqueueSyncJob, Orphans

(* Stopping a connector keeps it typed and counts it.                       *)
LEMMA StopType ==
  ASSUME TypeOK, Stop
  PROVE  connector' \in Connector /\ pauses' \in 0..MaxPauses /\ pauses' = pauses + 1
<1>1. connector \in Connector /\ pauses \in 0..MaxPauses
  BY DEF TypeOK
<1>2. connector' \in Connector
  BY <1>1 DEF Stop, Connector
<1>3. pauses' = pauses + 1 /\ pauses < MaxPauses
  BY DEF Stop
<1> QED BY <1>1, <1>2, <1>3

(* A claim keeps the types.                                                 *)
LEMMA ClaimType ==
  ASSUME TypeOK, NEW r \in Runner, NEW j \in Job, NEW rows \in Rows, ClaimJob(r, j, rows)
  PROVE  /\ connector' \in Connector /\ jobs' \in Rows
         /\ runner' \in [Runner -> Run \cup {Idle}] /\ pauses' \in 0..MaxPauses
<1> DEFINE kind == Decided(rows[j])
           skipped == [rows EXCEPT ![j] = Skipped(@)]
           back == [rows EXCEPT ![j].state = "pending", ![j].live = FALSE, ![j].call = TRUE]
           claimed == [rows EXCEPT ![j].state = "running", ![j].attempts = @ + 1,
                                   ![j].live = TRUE, ![j].kind = kind]
           run == [pc |-> "handling", job |-> j, kind |-> kind, version |-> event.version,
                   answer |-> "none"]
<1>1. rows[j] \in Row
  BY DEF Rows
<1>2. kind \in {"upsert", "delete", "skip"}
  BY <1>1, DecidedFacts DEF TypeOK, Event
<1>3. skipped \in Rows
  BY <1>1, ClosedFacts DEF Skipped, Rows
<1>4. back \in Rows
  BY <1>1 DEF Rows, Row
<1>5. kind # "skip" => claimed \in Rows
  <2> DEFINE new == [rows[j] EXCEPT !.state = "running", !.attempts = rows[j].attempts + 1,
                                    !.live = TRUE, !.kind = kind]
  <2>1. rows[j].attempts + 1 \in Nat
    BY <1>1 DEF Row
  <2>2. kind # "skip" => new \in Row
    BY <1>1, <1>2, <2>1 DEF Row
  <2>3. claimed = [rows EXCEPT ![j] = new]
    BY DEF Rows
  <2> HIDE DEF new, claimed
  <2> QED BY <2>2, <2>3 DEF Rows
<1>6. kind # "skip" => run \in Run
  BY <1>2 DEF Run, TypeOK, Event
<1>7. Stop => connector' \in Connector /\ pauses' \in 0..MaxPauses
  BY StopType
<1>8. jobs \in Rows /\ runner \in [Runner -> Run \cup {Idle}] /\ connector \in Connector
      /\ pauses \in 0..MaxPauses
  BY DEF TypeOK, Rows
<1>9. \/ /\ jobs' = skipped /\ UNCHANGED runner
         /\ UNCHANGED <<connector, pauses>> \/ Stop
      \/ jobs' = back /\ UNCHANGED <<connector, runner, pauses>>
      \/ /\ kind # "skip" /\ jobs' = claimed /\ runner' = [runner EXCEPT ![r] = run]
         /\ UNCHANGED <<connector, pauses>>
  BY DEF ClaimJob
<1> HIDE DEF kind, skipped, back, claimed, run
<1> QED BY <1>3, <1>4, <1>5, <1>6, <1>7, <1>8, <1>9

(* Every step keeps the types.                                              *)
LEMMA TypeStep == TypeOK /\ [Next]_vars => TypeOK'
<1> SUFFICES ASSUME TypeOK, [Next]_vars PROVE TypeOK'
  OBVIOUS
<1> USE DEF Rows
<1>1. /\ connector \in Connector /\ event \in Event /\ link \in Link
      /\ jobs \in Rows /\ strays \subseteq Job
      /\ runner \in [Runner -> Run \cup {Idle}] /\ orphans \subseteq Orphans
      /\ remote \in Copy /\ edits \in 0..MaxEdits /\ pauses \in 0..MaxPauses
      /\ losses \in 0..MaxLosses
  BY DEF TypeOK, Orphans
<1>2. ASSUME WriteEvent PROVE TypeOK'
  <2>1. PICK write \in Writes :
          /\ event' = IF write = "edit" THEN [event EXCEPT !.version = @ + 1]
                      ELSE [event EXCEPT !.public = (write = "publish")]
          /\ EnqueueEventSync(event')
    BY <1>2 DEF WriteEvent
  <2>2. event' \in Event
    <3>1. event.version + 1 \in Nat /\ (write = "publish") \in BOOLEAN
      BY <1>1 DEF Event
    <3>2. /\ [event EXCEPT !.version = event.version + 1] \in Event
          /\ [event EXCEPT !.public = (write = "publish")] \in Event
      BY <1>1, <3>1 DEF Event
    <3> QED BY <2>1, <3>2
  <2>3. edits' \in 0..MaxEdits
    BY <1>2, <1>1 DEF WriteEvent
  <2>4. jobs' \in Rows /\ orphans' \subseteq Orphans
    BY <1>1, <2>1, EnqueueType DEF EnqueueEventSync
  <2> QED BY <1>2, <1>1, <2>2, <2>3, <2>4 DEF WriteEvent, TypeOK, Orphans
<1>3. ASSUME StopConnector PROVE TypeOK'
  BY <1>3, <1>1, StopType DEF StopConnector, TypeOK
<1>4. ASSUME ResumeConnector PROVE TypeOK'
  <2>1. connector' \in Connector
    BY <1>4, <1>1 DEF ResumeConnector, Connector
  <2> QED BY <1>4, <1>1, <2>1 DEF ResumeConnector, TypeOK
<1>5. ASSUME Reconcile PROVE TypeOK'
  <2>1. connector' \in Connector
    BY <1>5, <1>1 DEF Reconcile, Connector
  <2>2. jobs' \in Rows /\ orphans' \subseteq Orphans
    BY <1>5, <1>1, EnqueueType DEF Reconcile
  <2> QED BY <1>5, <1>1, <2>1, <2>2 DEF Reconcile, TypeOK, Orphans
<1>6. ASSUME SettleOrphan PROVE TypeOK'
  <2>1. PICK o \in orphans : /\ orphans' = orphans \ {o}
                             /\ remote' \in {remote, Applied(o.kind, o.version)}
    BY <1>6 DEF SettleOrphan
  <2>2. o.kind \in {"upsert", "delete"} /\ o.version \in Nat
    BY <1>1 DEF Orphans
  <2>3. [remote EXCEPT !.live = FALSE] \in Copy /\ [live |-> TRUE, version |-> o.version] \in Copy
    BY <1>1, <2>2 DEF Copy
  <2>4. remote' \in Copy
    BY <1>1, <2>1, <2>3 DEF Applied
  <2>5. orphans' \subseteq Orphans
    BY <1>1, <2>1
  <2> QED BY <1>6, <1>1, <2>4, <2>5 DEF SettleOrphan, TypeOK, Orphans
<1>7. ASSUME NEW r \in Runner, NEW j \in Job, RunJob(r, j) PROVE TypeOK'
  <2> DEFINE rows == [jobs EXCEPT ![j].call = FALSE]
  <2>1. rows \in Rows
    BY <1>1, TouchedType
  <2>2. ClaimJob(r, j, rows)
    BY <1>7 DEF RunJob
  <2> HIDE DEF rows
  <2> QED BY <1>7, <1>1, <2>1, <2>2, ClaimType DEF RunJob, TypeOK
<1>8. ASSUME NEW r \in Runner, NEW j \in Job, RunStray(r, j) PROVE TypeOK'
  BY <1>8, <1>1, ClaimType DEF RunStray, TypeOK
<1>9. ASSUME Loss PROVE losses' \in 0..MaxLosses
  BY <1>9, <1>1 DEF Loss
<1>10. ASSUME NEW j \in Job, LoseRun(j) PROVE TypeOK'
  <2>1. jobs' \in Rows
    BY <1>10, <1>1, TouchedType DEF LoseRun
  <2> QED BY <1>10, <1>1, <1>9, <2>1 DEF LoseRun, TypeOK
<1>11. ASSUME NEW j \in Job, SettleOperation(j) PROVE TypeOK'
  <2>1. jobs[j] \in Row
    BY <1>1
  <2>2. PICK outcome \in {"succeeded", "rejected", "missed"} :
          /\ jobs' = [jobs EXCEPT ![j] =
               IF @.state = "running" THEN [@ EXCEPT !.op = outcome, !.live = FALSE, !.call = TRUE]
                                      ELSE [@ EXCEPT !.op = outcome]]
          /\ remote' \in {remote, Applied(jobs[j].kind, jobs[j].carries)}
    BY <1>11 DEF SettleOperation
  <2>3. /\ [jobs[j] EXCEPT !.op = outcome, !.live = FALSE, !.call = TRUE] \in Row
        /\ [jobs[j] EXCEPT !.op = outcome] \in Row
    BY <2>1 DEF Row
  <2>4. jobs' \in Rows
    BY <1>1, <2>2, <2>3
  <2>5. Applied(jobs[j].kind, jobs[j].carries) \in Copy
    BY <1>1, <2>1 DEF Applied, Copy, Row
  <2> QED BY <1>11, <1>1, <2>2, <2>4, <2>5 DEF SettleOperation, TypeOK
<1>12. ASSUME NEW j \in Job, WaitRunsLate(j) PROVE TypeOK'
  <2>1. jobs' \in Rows
    BY <1>12, <1>1, TouchedType DEF WaitRunsLate
  <2> QED BY <1>12, <1>1, <2>1 DEF WaitRunsLate, TypeOK
<1>13. ASSUME NEW j \in Job, LeaseRunsOut(j) PROVE TypeOK'
  <2>1. jobs' \in Rows
    BY <1>13, <1>1, TouchedType DEF LeaseRunsOut
  <2> QED BY <1>13, <1>1, <2>1 DEF LeaseRunsOut, TypeOK
<1>14. ASSUME NEW j \in Job, RecoverExpiredJob(j) PROVE TypeOK'
  <2>1. jobs' \in Rows
    BY <1>14, <1>1, FailedFacts DEF RecoverExpiredJob
  <2> QED BY <1>14, <1>1, <2>1 DEF RecoverExpiredJob, TypeOK
<1>15. ASSUME NEW j \in Job, RecoverStalledJob(j) PROVE TypeOK'
  <2> DEFINE rows == [jobs EXCEPT ![j].attempts = @ + 1]
  <2>1. rows \in Rows
    BY <1>1, TouchedType
  <2>2. jobs' = Failed(rows, j, "stalled")
    BY <1>15 DEF RecoverStalledJob
  <2> HIDE DEF rows
  <2>3. jobs' \in Rows
    BY <2>1, <2>2, FailedFacts
  <2> QED BY <1>15, <1>1, <2>3 DEF RecoverStalledJob, TypeOK
<1>16. ASSUME NEW r \in Runner, runner[r] # Idle
      PROVE  /\ runner[r] \in Run /\ jobs[runner[r].job] \in Row
             /\ [runner EXCEPT ![r] = Idle] \in [Runner -> Run \cup {Idle}]
             /\ \A answer \in {"none", "done", "nothing", "failed", "await"}, version \in Nat :
                  Answer(r, answer, version) => runner' \in [Runner -> Run \cup {Idle}]
  <2>1. runner[r] \in Run
    BY <1>16, <1>1
  <2>2. jobs[runner[r].job] \in Row
    BY <2>1, <1>1 DEF Run
  <2>3. ASSUME NEW answer \in {"none", "done", "nothing", "failed", "await"}, NEW version \in Nat,
               Answer(r, answer, version)
        PROVE  runner' \in [Runner -> Run \cup {Idle}]
    <3> DEFINE new == [runner[r] EXCEPT !.pc = "answered", !.answer = answer, !.version = version]
    <3>1. new \in Run
      BY <2>1 DEF Run
    <3>2. runner' = [runner EXCEPT ![r] = new]
      BY <2>1, <1>1, <2>3 DEF Answer
    <3> HIDE DEF new
    <3> QED BY <1>1, <3>1, <3>2
  <2> QED BY <1>1, <2>1, <2>2, <2>3
<1>17. ASSUME NEW r \in Runner, CallSource(r) PROVE TypeOK'
  <2>1. runner[r] # Idle
    BY <1>17 DEF CallSource, Handling
  <2>2. runner[r].version \in Nat /\ runner[r].kind \in {"upsert", "delete"}
    BY <1>16, <2>1 DEF Run
  <2>3. runner' \in [Runner -> Run \cup {Idle}]
    BY <1>17, <1>16, <2>1, <2>2 DEF CallSource
  <2>4. Applied(runner[r].kind, runner[r].version) \in Copy
    BY <1>1, <2>2 DEF Applied, Copy
  <2> QED BY <1>17, <1>1, <2>3, <2>4 DEF CallSource, TypeOK
<1>18. ASSUME NEW r \in Runner, Advance(r) PROVE TypeOK'
  <2> DEFINE j == runner[r].job
             row == jobs[j]
  <2>1. runner[r] # Idle
    BY <1>18 DEF Advance, Handling
  <2>2. runner[r] \in Run /\ row \in Row /\ j \in Job
    BY <1>16, <2>1 DEF Run
  <2>3. row.carries \in Nat /\ event.version \in Nat
    BY <1>1, <2>2 DEF Row, Event
  <2>4. [link EXCEPT !.state = "linked"] \in Link
    BY <1>1 DEF Link
  <2>5. [jobs EXCEPT ![j].op = "none", ![j].late = FALSE] \in Rows
    BY <1>1, <2>2 DEF Row
  <2>6. ASSUME NEW version \in Nat, Send(r, j, version)
        PROVE  /\ connector' \in Connector /\ jobs' \in Rows /\ pauses' \in 0..MaxPauses
               /\ runner' \in [Runner -> Run \cup {Idle}]
    <3>1. [jobs EXCEPT ![j].op = "waiting", ![j].carries = version] \in Rows
      BY <1>1, <2>2 DEF Row
    <3>2. runner' \in [Runner -> Run \cup {Idle}]
      BY <2>6, <1>16, <2>1 DEF Send
    <3> QED BY <2>6, <1>1, <3>1, <3>2, StopType DEF Send
  <2>7. /\ connector' \in Connector /\ jobs' \in Rows /\ pauses' \in 0..MaxPauses
        /\ runner' \in [Runner -> Run \cup {Idle}] /\ link' \in Link
    <3> DEFINE typed == /\ connector' \in Connector /\ jobs' \in Rows /\ pauses' \in 0..MaxPauses
                        /\ runner' \in [Runner -> Run \cup {Idle}] /\ link' \in Link
               Says(answers) == \E a \in answers, v \in Nat : Answer(r, a, v)
    <3>1. ASSUME Says({"done", "failed", "await"}), UNCHANGED <<connector, link, jobs, pauses>>
          PROVE  typed
      BY <3>1, <1>1, <1>16, <2>1
    <3>2. ASSUME NEW v \in Nat, Send(r, j, v), UNCHANGED link PROVE typed
      BY <3>2, <1>1, <2>6
    <3>3. ASSUME Says({"done"}), link' \in {link, [link EXCEPT !.state = "linked"]},
                 UNCHANGED <<connector, jobs, pauses>>
          PROVE  typed
      BY <3>3, <1>1, <1>16, <2>1, <2>4
    <3>4. ASSUME Says({"failed"}), jobs' = [jobs EXCEPT ![j].op = "none", ![j].late = FALSE],
                 UNCHANGED <<connector, link, pauses>>
          PROVE  typed
      BY <3>4, <1>1, <1>16, <2>1, <2>5
    <3>5. \/ Says({"done", "failed", "await"}) /\ UNCHANGED <<connector, link, jobs, pauses>>
          \/ \E v \in Nat : Send(r, j, v) /\ UNCHANGED link
          \/ /\ Says({"done"}) /\ link' \in {link, [link EXCEPT !.state = "linked"]}
             /\ UNCHANGED <<connector, jobs, pauses>>
          \/ /\ Says({"failed"}) /\ jobs' = [jobs EXCEPT ![j].op = "none", ![j].late = FALSE]
             /\ UNCHANGED <<connector, link, pauses>>
      BY <1>18, <2>3 DEF Advance
    <3> HIDE DEF typed, Says
    <3> QED BY <3>1, <3>2, <3>3, <3>4, <3>5 DEF typed
  <2> QED BY <1>18, <1>1, <2>7 DEF Advance, TypeOK
<1>19. ASSUME NEW r \in Runner, CompleteJob(r) PROVE TypeOK'
  <2> DEFINE j == runner[r].job
             done == [jobs EXCEPT ![j] = Closed(@, "done")]
  <2>1. runner[r] # Idle
    BY <1>19 DEF CompleteJob, Answered
  <2>2. runner[r] \in Run /\ jobs[j] \in Row /\ j \in Job /\ runner[r].version \in Nat
    BY <1>16, <2>1 DEF Run
  <2>3. done \in Rows
    BY <1>1, <2>2, ClosedFacts
  <2>4. link' \in Link
    BY <1>19, <1>1, <2>2 DEF CompleteJob, Link
  <2>5. /\ Slot(done) # {} => Enqueued(done, "delete") \in Rows
        /\ Dropped(done) \subseteq Orphans
    BY <2>3, EnqueuedFacts, DroppedFacts DEF Orphans
  <2>6. \A rows \in Rows : Woken(rows, j) \in Rows
    BY <2>2, WokenFacts
  <2>7. \/ jobs' = jobs /\ orphans' = orphans
        \/ jobs' = Woken(done, j) /\ orphans' = orphans
        \/ /\ Slot(done) # {} /\ jobs' = Woken(Enqueued(done, "delete"), j)
           /\ orphans' = orphans \cup Dropped(done)
    BY <1>19 DEF CompleteJob
  <2> HIDE DEF done
  <2>8. jobs' \in Rows /\ orphans' \subseteq Orphans
    BY <1>1, <2>3, <2>5, <2>6, <2>7
  <2>9. runner' \in [Runner -> Run \cup {Idle}]
    BY <1>19, <1>16, <2>1 DEF CompleteJob
  <2> QED BY <1>19, <1>1, <2>4, <2>8, <2>9 DEF CompleteJob, TypeOK, Orphans
<1>20. ASSUME NEW r \in Runner, FailJob(r) PROVE TypeOK'
  <2>1. runner[r] # Idle
    BY <1>20 DEF FailJob, Answered
  <2>2. runner[r].job \in Job
    BY <1>16, <2>1 DEF Run
  <2>3. jobs' \in Rows /\ runner' \in [Runner -> Run \cup {Idle}]
    BY <1>20, <1>1, <1>16, <2>1, <2>2, FailedFacts DEF FailJob
  <2> QED BY <1>20, <1>1, <2>3 DEF FailJob, TypeOK
<1>21. ASSUME NEW r \in Runner, AwaitJob(r) PROVE TypeOK'
  <2> DEFINE j == runner[r].job
  <2>1. runner[r] # Idle
    BY <1>21 DEF AwaitJob, Answered
  <2>2. j \in Job /\ jobs[j] \in Row /\ jobs[j].attempts \in Nat
    BY <1>16, <2>1 DEF Run, Row
  <2> DEFINE left == IF jobs[j].attempts > 0 THEN jobs[j].attempts - 1 ELSE 0
  <2>3. left \in Nat
    BY <2>2
  <2>4. [jobs EXCEPT ![j].attempts = left, ![j].live = TRUE, ![j].call = TRUE] \in Rows
    <3> DEFINE new == [jobs[j] EXCEPT !.attempts = left, !.live = TRUE, !.call = TRUE]
    <3> HIDE DEF left
    <3>1. new \in Row
      BY <2>2, <2>3 DEF Row
    <3>2. [jobs EXCEPT ![j].attempts = left, ![j].live = TRUE, ![j].call = TRUE]
            = [jobs EXCEPT ![j] = new]
      BY <1>1, <2>2
    <3> HIDE DEF new
    <3> QED BY <1>1, <3>1, <3>2
  <2>5. jobs' \in Rows /\ strays' \subseteq Job
    BY <1>21, <1>1, <2>2, <2>4 DEF AwaitJob
  <2>6. runner' \in [Runner -> Run \cup {Idle}]
    BY <1>21, <1>16, <2>1 DEF AwaitJob
  <2> QED BY <1>21, <1>1, <2>5, <2>6 DEF AwaitJob, TypeOK
<1>22. ASSUME NEW r \in Runner, LoseRunner(r) PROVE TypeOK'
  BY <1>22, <1>1, <1>9, <1>16 DEF LoseRunner, TypeOK
<1>23. CASE UNCHANGED vars
  BY <1>23 DEF vars, TypeOK
<1> QED
  BY <1>2, <1>3, <1>4, <1>5, <1>6, <1>7, <1>8, <1>10, <1>11, <1>12, <1>13, <1>14, <1>15, <1>17,
     <1>18, <1>19, <1>20, <1>21, <1>22, <1>23 DEF Next, RunnerStep

(* The initial states are typed.                                            *)
LEMMA InitTyped == Init => TypeOK
<1> SUFFICES ASSUME Init PROVE TypeOK
  OBVIOUS
<1>1. connector \in Connector
  BY DEF Init, Connector
<1>2. event \in Event
  BY DEF Init, Event
<1>3. link \in Link /\ remote \in Copy
  BY DEF Init, Link, Copy
<1>4. edits \in 0..MaxEdits /\ pauses \in 0..MaxPauses /\ losses \in 0..MaxLosses
  BY DEF Init
<1> QED BY <1>1, <1>2, <1>3, <1>4, AbsentType DEF Init, TypeOK

(* Every reachable state is typed: rows, runners, the link and the copy are *)
(* what the code can make of them.                                          *)
THEOREM TypeCorrect == Spec => []TypeOK
  BY InitTyped, TypeStep, PTL DEF Spec
-----------------------------------------------------------------------------
(* One handler at a time.                                                   *)

Held(r) == runner[r] # Idle

(* A direct kind has no operations, and a handler's row is its own: running *)
(* under a lease that lies ahead.  So a second claim finds it busy.         *)
HandlerInv ==
  /\ orphans = {} /\ \A j \in Job : jobs[j].op = "none"
  /\ \A r \in Runner : Held(r) =>
       /\ runner[r].answer \in {"none", "done", "failed"}
       /\ LET row == jobs[runner[r].job]
          IN row.state = "running" /\ row.live /\ row.kind = runner[r].kind
  /\ \A r, s \in Runner : Held(r) /\ Held(s) => r = s

(* A step that takes nothing new and leaves the rows of the handlers that   *)
(* go on as they are keeps HandlerInv.                                      *)
LEMMA HandlersKept ==
  ASSUME HandlerInv, orphans' = {}, \A j \in Job : jobs'[j].op = "none",
         \A r \in Runner : Held(r)' =>
           /\ Held(r) /\ runner'[r].answer \in {"none", "done", "failed"}
           /\ runner'[r].job = runner[r].job /\ runner'[r].kind = runner[r].kind
           /\ Alike(jobs[runner[r].job], jobs'[runner[r].job])
  PROVE  HandlerInv'
  BY DEF HandlerInv, Held, Alike

(* What a claim of a direct kind's job does: it closes the row, puts it     *)
(* back, or takes it when no handler is at work.                            *)
Skips(j) == jobs'[j].state = "done" /\ runner' = runner
Returns(j) == /\ jobs'[j].state = "pending" /\ jobs'[j].kind = jobs[j].kind
              /\ UNCHANGED <<connector, runner, pauses>>
Takes(r, j) ==
  LET kind == Decided(jobs[j])
  IN /\ \A s \in Runner : ~Held(s)
     /\ kind # "skip"
     /\ jobs'[j].state = "running" /\ jobs'[j].live /\ jobs'[j].kind = kind
     /\ runner' = [runner EXCEPT ![r] = [pc |-> "handling", job |-> j, kind |-> kind,
                                         version |-> event.version, answer |-> "none"]]
     /\ UNCHANGED <<connector, pauses>>

(* The scheduled run that claims differs from the row in its call only.     *)
Found(j, rows) == rows \in {jobs, [jobs EXCEPT ![j].call = FALSE]}

(* A claim is one of the three, for a row no handler has.                   *)
LEMMA ClaimFacts ==
  ASSUME TypeOK, HandlerInv, NEW r \in Runner, NEW j \in Job, NEW rows, Found(j, rows),
         ClaimJob(r, j, rows), Claimable(j)
  PROVE  /\ jobs' \in Rows /\ jobs'[j].op = "none"
         /\ \A k \in Job \ {j} : jobs'[k] = jobs[k]
         /\ \A s \in Runner : Held(s) => runner[s].job # j
         /\ \/ /\ Skips(j)
               /\ \/ pauses' = pauses + 1
                  \/ /\ ~connector.active \/ Decided(jobs[j]) = "skip"
                     /\ UNCHANGED <<connector, pauses>>
            \/ Returns(j) \/ Takes(r, j)
<1> DEFINE kind == Decided(rows[j])
           skipped == [rows EXCEPT ![j] = Skipped(@)]
           back == [rows EXCEPT ![j].state = "pending", ![j].live = FALSE, ![j].call = TRUE]
           claimed == [rows EXCEPT ![j].state = "running", ![j].attempts = @ + 1,
                                   ![j].live = TRUE, ![j].kind = kind]
           run == [pc |-> "handling", job |-> j, kind |-> kind, version |-> event.version,
                   answer |-> "none"]
<1>1. jobs \in Rows /\ jobs[j] \in Row
  BY DEF TypeOK, Rows
<1>2. rows \in Rows
  <2>1. [jobs EXCEPT ![j].call = FALSE] \in Rows
    BY <1>1, TouchedType
  <2> QED BY <1>1, <2>1 DEF Found
<1>3. /\ rows[j] \in Row /\ rows[j].op = "none" /\ rows[j].kind = jobs[j].kind
      /\ \A k \in Job \ {j} : rows[k] = jobs[k]
  <2>1. jobs[j].op = "none"
    BY DEF HandlerInv
  <2>2. CASE rows = jobs
    BY <1>1, <2>1, <2>2
  <2>3. CASE rows = [jobs EXCEPT ![j].call = FALSE]
    <3>1. rows[j] = [jobs[j] EXCEPT !.call = FALSE]
      BY <1>1, <2>3 DEF Rows
    <3>2. rows[j] \in Row /\ rows[j].op = "none" /\ rows[j].kind = jobs[j].kind
      BY <1>1, <2>1, <3>1 DEF Row
    <3> QED BY <1>1, <2>3, <3>2 DEF Rows
  <2> QED BY <2>2, <2>3 DEF Found
<1>4. kind = Decided(jobs[j])
  BY <1>3 DEF Decided, HandlerInv
<1>5. jobs' \in Rows
  BY <1>2, ClaimType
<1>6. ASSUME NEW s \in Runner, Held(s) PROVE runner[s].job # j
  BY <1>6 DEF HandlerInv, Claimable
<1>7. ASSUME NEW s \in Runner, Held(s), Busy(j) = {} PROVE FALSE
  <2>1. runner[s].job \in Job
    BY <1>7 DEF TypeOK, Run, Held
  <2>2. jobs[runner[s].job].state = "running" /\ jobs[runner[s].job].live
    BY <1>7 DEF HandlerInv
  <2>3. runner[s].job \in Busy(j)
    BY <2>1, <2>2, <1>6, <1>7 DEF Busy, Siblings, InState
  <2> QED BY <2>3, <1>7
<1>8. /\ skipped[j].state = "done" /\ skipped[j].op = "none"
      /\ \A k \in Job \ {j} : skipped[k] = jobs[k]
  BY <1>2, <1>3, ClosedFacts DEF Skipped, Rows
<1>9. /\ back[j].state = "pending" /\ back[j].op = "none" /\ back[j].kind = jobs[j].kind
      /\ \A k \in Job \ {j} : back[k] = jobs[k]
  BY <1>2, <1>3 DEF Rows, Row
<1>10. /\ claimed[j].state = "running" /\ claimed[j].op = "none" /\ claimed[j].kind = kind
       /\ claimed[j].live /\ \A k \in Job \ {j} : claimed[k] = jobs[k]
  BY <1>2, <1>3 DEF Rows, Row
<1>11. \/ /\ jobs' = skipped /\ UNCHANGED runner
          /\ \/ (~connector.active \/ kind = "skip") /\ UNCHANGED <<connector, pauses>>
             \/ Stop
       \/ jobs' = back /\ UNCHANGED <<connector, runner, pauses>>
       \/ /\ Busy(j) = {} /\ kind # "skip" /\ jobs' = claimed
          /\ runner' = [runner EXCEPT ![r] = run] /\ UNCHANGED <<connector, pauses>>
  BY DEF ClaimJob
<1>12. Stop => pauses' = pauses + 1 /\ pauses \in Nat
  BY StopType DEF TypeOK
<1> HIDE DEF skipped, back, claimed
<1>13. CASE jobs' = skipped /\ UNCHANGED runner
            /\ \/ (~connector.active \/ kind = "skip") /\ UNCHANGED <<connector, pauses>>
               \/ Stop
  BY <1>13, <1>4, <1>5, <1>6, <1>8, <1>12 DEF Skips
<1>14. CASE jobs' = back /\ UNCHANGED <<connector, runner, pauses>>
  BY <1>14, <1>5, <1>6, <1>9 DEF Returns
<1>15. CASE /\ Busy(j) = {} /\ kind # "skip" /\ jobs' = claimed
            /\ runner' = [runner EXCEPT ![r] = run] /\ UNCHANGED <<connector, pauses>>
  BY <1>15, <1>4, <1>5, <1>6, <1>7, <1>10 DEF Takes
<1> QED BY <1>11, <1>13, <1>14, <1>15

(* The connector's kind never changes.                                      *)
LEMMA KindStays == TypeOK /\ [Next]_vars => connector'.kind = connector.kind
<1> SUFFICES ASSUME TypeOK, [Next]_vars PROVE connector'.kind = connector.kind
  OBVIOUS
<1>1. connector \in Connector
  BY DEF TypeOK
<1>2. Stop => connector'.kind = connector.kind
  BY <1>1 DEF Stop, Connector
<1>3. ASSUME ResumeConnector \/ Reconcile PROVE connector'.kind = connector.kind
  BY <1>1, <1>3 DEF ResumeConnector, Reconcile, Connector
<1>4. ASSUME NEW r \in Runner, NEW j \in Job, RunJob(r, j) \/ RunStray(r, j)
      PROVE  connector' = connector \/ Stop
  BY <1>4 DEF RunJob, RunStray, ClaimJob
<1>5. ASSUME NEW r \in Runner, Advance(r) PROVE connector' = connector \/ Stop
  BY <1>5 DEF Advance, Send
<1>6. ASSUME NEW r \in Runner,
             CallSource(r) \/ CompleteJob(r) \/ FailJob(r) \/ AwaitJob(r) \/ LoseRunner(r)
      PROVE  connector' = connector
  BY <1>6 DEF CallSource, CompleteJob, FailJob, AwaitJob, LoseRunner
<1>7. ASSUME NEW j \in Job, \/ LoseRun(j) \/ SettleOperation(j) \/ WaitRunsLate(j)
                            \/ LeaseRunsOut(j) \/ RecoverExpiredJob(j) \/ RecoverStalledJob(j)
      PROVE  connector' = connector
  BY <1>7 DEF LoseRun, SettleOperation, WaitRunsLate, LeaseRunsOut, RecoverExpiredJob,
              RecoverStalledJob
<1>8. WriteEvent \/ StopConnector \/ SettleOrphan \/ UNCHANGED vars =>
        connector' = connector \/ Stop
  BY DEF WriteEvent, StopConnector, SettleOrphan, vars
<1> QED BY <1>2, <1>3, <1>4, <1>5, <1>6, <1>7, <1>8 DEF Next, RunnerStep

(* No step lets a second handler in.                                        *)
LEMMA HandlerStep == TypeOK /\ Direct /\ HandlerInv /\ [Next]_vars => HandlerInv'
<1> SUFFICES ASSUME TypeOK, Direct, HandlerInv, [Next]_vars PROVE HandlerInv'
  OBVIOUS
<1>1. /\ jobs \in Rows /\ orphans = {} /\ \A j \in Job : jobs[j] \in Row /\ jobs[j].op = "none"
      /\ runner \in [Runner -> Run \cup {Idle}]
  BY DEF TypeOK, Rows, HandlerInv
<1>2. ASSUME NEW r \in Runner, Held(r)
      PROVE  /\ runner[r] \in Run /\ runner[r].job \in Job
             /\ jobs[runner[r].job].state = "running" /\ jobs[runner[r].job].live
             /\ runner[r].answer \in {"none", "done", "failed"}
             /\ \A s \in Runner : Held(s) => s = r
  BY <1>1, <1>2 DEF HandlerInv, Held, Run
<1>3. ASSUME UNCHANGED runner, \A j \in Job : jobs'[j].op = "none", orphans' = {},
             \A j \in Job : jobs[j].state = "running" /\ jobs[j].live =>
                              Alike(jobs[j], jobs'[j]) \/ On(j) = {}
      PROVE  HandlerInv'
  <2>1. ASSUME NEW r \in Runner, Held(r) PROVE On(runner[r].job) # {}
    BY <2>1 DEF On, Held
  <2>2. ASSUME NEW r \in Runner, Held(r)
        PROVE  Alike(jobs[runner[r].job], jobs'[runner[r].job])
    BY <1>2, <1>3, <2>1, <2>2
  <2>3. \A r \in Runner : Held(r)' => Held(r) /\ runner'[r] = runner[r]
    BY <1>3 DEF Held
  <2> QED BY <1>2, <1>3, <2>2, <2>3, HandlersKept
<1>4. ASSUME UNCHANGED <<runner, jobs, orphans>> PROVE HandlerInv'
  BY <1>4 DEF HandlerInv, Held
<1>5. ASSUME NEW kind \in {"upsert", "delete"}, EnqueueSyncJob(jobs, kind), UNCHANGED runner
      PROVE  HandlerInv'
  <2>1. Slot(jobs) # {} /\ jobs' = Enqueued(jobs, kind) /\ orphans' = orphans \cup Dropped(jobs)
    BY <1>5 DEF EnqueueSyncJob
  <2>2. orphans' = {}
    BY <1>1, <2>1, DroppedFacts
  <2>3. PICK i \in Job : /\ jobs[i].state \in {"pending", "absent"} /\ jobs'[i].op = "none"
                         /\ \A k \in Job \ {i} : jobs'[k] = jobs[k]
    BY <1>1, <2>1, EnqueuedFacts
  <2>4. \A k \in Job : jobs[k].state = "running" => Alike(jobs[k], jobs'[k])
    BY <2>3 DEF Alike
  <2> QED BY <1>1, <1>3, <1>5, <2>2, <2>3, <2>4
<1>6. ASSUME WriteEvent PROVE HandlerInv'
  <2>1. \E e : EnqueueEventSync(e) /\ UNCHANGED runner
    BY <1>6 DEF WriteEvent
  <2>2. \/ UNCHANGED <<runner, jobs, orphans>>
        \/ \E kind \in {"upsert", "delete"} : EnqueueSyncJob(jobs, kind) /\ UNCHANGED runner
    BY <2>1 DEF EnqueueEventSync
  <2> QED BY <1>4, <1>5, <2>2
<1>7. ASSUME Reconcile PROVE HandlerInv'
  BY <1>4, <1>5, <1>7 DEF Reconcile
<1>8. ASSUME StopConnector \/ ResumeConnector PROVE HandlerInv'
  BY <1>4, <1>8 DEF StopConnector, ResumeConnector
<1>9. ASSUME NEW r \in Runner, NEW j \in Job, NEW rows, Found(j, rows), Claimable(j),
             ClaimJob(r, j, rows), orphans' = orphans
      PROVE  HandlerInv'
  <2>1. /\ jobs'[j].op = "none" /\ \A k \in Job \ {j} : jobs'[k] = jobs[k]
        /\ \A s \in Runner : Held(s) => runner[s].job # j
        /\ runner' = runner \/ Takes(r, j)
    BY <1>9, ClaimFacts DEF Skips, Returns
  <2>2. \A k \in Job : jobs'[k].op = "none"
    BY <1>1, <2>1
  <2>3. CASE runner' = runner
    BY <1>1, <1>2, <1>9, <2>1, <2>2, <2>3, HandlersKept DEF Held, Alike
  <2>4. CASE Takes(r, j)
    <3>1. /\ runner'[r].answer = "none" /\ runner'[r].job = j
          /\ runner'[r].kind = Decided(jobs[j]) /\ \A s \in Runner \ {r} : ~(runner'[s] # Idle)
      BY <1>1, <2>4 DEF Takes, Held
    <3> QED BY <1>1, <1>9, <2>2, <2>4, <3>1 DEF HandlerInv, Held, Takes
  <2> QED BY <2>1, <2>3, <2>4
<1>10. ASSUME NEW r \in Runner, NEW j \in Job, RunJob(r, j) PROVE HandlerInv'
  BY <1>9, <1>10 DEF RunJob, Found
<1>11. ASSUME NEW r \in Runner, NEW j \in Job, RunStray(r, j) PROVE HandlerInv'
  BY <1>4, <1>9, <1>11 DEF RunStray, Found
<1>12. ASSUME NEW j \in Job, LoseRun(j) PROVE HandlerInv'
  <2>1. \A k \in Job : Alike(jobs[k], jobs'[k])
    BY <1>1, <1>12 DEF LoseRun, Alike, Row, Rows
  <2> QED BY <1>1, <1>3, <1>12, <2>1 DEF LoseRun, Alike
<1>13. ASSUME NEW j \in Job, LeaseRunsOut(j) PROVE HandlerInv'
  <2>1. jobs'[j].op = "none" /\ \A k \in Job \ {j} : jobs'[k] = jobs[k]
    BY <1>1, <1>13 DEF LeaseRunsOut, Row, Rows
  <2> QED BY <1>1, <1>3, <1>13, <2>1 DEF LeaseRunsOut, Alike
<1>14. ASSUME NEW j \in Job, NEW rows \in Rows, NEW source, jobs' = Failed(rows, j, source),
              \A k \in Job : Alike(jobs[k], rows[k]), orphans' = orphans
       PROVE  /\ \A k \in Job : jobs'[k].op = "none"
              /\ \A k \in Job \ {j} : Alike(jobs[k], jobs'[k])
  BY <1>1, <1>14, FailedFacts DEF Alike
<1>15. ASSUME NEW j \in Job, RecoverExpiredJob(j) PROVE HandlerInv'
  <2>1. /\ \A k \in Job : jobs'[k].op = "none"
        /\ \A k \in Job \ {j} : Alike(jobs[k], jobs'[k])
    BY <1>1, <1>14, <1>15 DEF RecoverExpiredJob, Alike
  <2> QED BY <1>1, <1>3, <1>15, <2>1 DEF RecoverExpiredJob
<1>16. ASSUME NEW j \in Job, RecoverStalledJob(j) PROVE HandlerInv'
  <2> DEFINE rows == [jobs EXCEPT ![j].attempts = @ + 1]
  <2>1. rows \in Rows
    BY <1>1, TouchedType
  <2>2. \A k \in Job : Alike(jobs[k], rows[k])
    BY <1>1 DEF Alike, Row, Rows
  <2>3. jobs' = Failed(rows, j, "stalled")
    BY <1>16 DEF RecoverStalledJob
  <2> HIDE DEF rows
  <2>4. /\ \A k \in Job : jobs'[k].op = "none"
        /\ \A k \in Job \ {j} : Alike(jobs[k], jobs'[k])
    BY <1>14, <1>16, <2>1, <2>2, <2>3 DEF RecoverStalledJob
  <2> QED BY <1>1, <1>3, <1>16, <2>4 DEF RecoverStalledJob
<1>17. ASSUME NEW r \in Runner, Held(r), runner' = [runner EXCEPT ![r] = Idle], orphans' = orphans,
              \A k \in Job : jobs'[k].op = "none"
       PROVE  HandlerInv'
  BY <1>1, <1>2, <1>17 DEF HandlerInv, Held
<1>18. ASSUME NEW r \in Runner, LoseRunner(r) PROVE HandlerInv'
  BY <1>1, <1>17, <1>18 DEF LoseRunner, Held
<1>19. ASSUME NEW r \in Runner, CallSource(r) PROVE HandlerInv'
  <2>1. Held(r) /\ UNCHANGED <<jobs, orphans>>
        /\ \E answer \in {"done", "failed"} : Answer(r, answer, runner[r].version)
    BY <1>19 DEF CallSource, Handling, Held
  <2>2. /\ runner'[r].answer \in {"done", "failed"} /\ runner'[r].job = runner[r].job
        /\ runner'[r].kind = runner[r].kind /\ \A s \in Runner \ {r} : runner'[s] = runner[s]
    BY <1>1, <1>2, <2>1 DEF Answer, Run
  <2> QED BY <1>1, <1>2, <2>1, <2>2, HandlersKept DEF Held, Alike
<1>20. ASSUME NEW r \in Runner, FailJob(r) PROVE HandlerInv'
  <2>1. Held(r) /\ runner' = [runner EXCEPT ![r] = Idle] /\ UNCHANGED orphans
        /\ (jobs' = jobs \/ jobs' = Failed(jobs, runner[r].job, "handler"))
    BY <1>20 DEF FailJob, Answered, Held
  <2>2. \A k \in Job : jobs'[k].op = "none"
    BY <1>1, <1>2, <1>14, <2>1 DEF Alike
  <2> QED BY <1>17, <2>1, <2>2
<1>21. ASSUME NEW r \in Runner, CompleteJob(r) PROVE HandlerInv'
  <2> DEFINE j == runner[r].job
             done == [jobs EXCEPT ![j] = Closed(@, "done")]
  <2>1. Held(r) /\ runner' = [runner EXCEPT ![r] = Idle]
    BY <1>21 DEF CompleteJob, Answered, Held
  <2>2. j \in Job /\ jobs[j] \in Row
    BY <1>1, <1>2, <2>1
  <2>3. done \in Rows /\ \A k \in Job : done[k].op = "none"
    BY <1>1, <2>2, ClosedFacts DEF Rows
  <2>4. Dropped(done) = {}
    BY <2>3, DroppedFacts
  <2> HIDE DEF done, j
  <2>5. ASSUME NEW rows \in Rows, \A k \in Job : rows[k].op = "none"
        PROVE  \A k \in Job : Woken(rows, j)[k].op = "none"
    <3>1. \A k \in Job : Alike(rows[k], Woken(rows, j)[k])
      BY <2>2, WokenFacts
    <3> QED BY <2>5, <3>1 DEF Alike
  <2>6. ASSUME Slot(done) # {}
        PROVE  /\ Enqueued(done, "delete") \in Rows
               /\ \A k \in Job : Enqueued(done, "delete")[k].op = "none"
    <3>1. Enqueued(done, "delete") \in Rows
      BY <2>3, <2>6, EnqueuedFacts
    <3>2. PICK i \in Job : /\ Enqueued(done, "delete")[i].op = "none"
                           /\ \A k \in Job \ {i} : Enqueued(done, "delete")[k] = done[k]
      BY <2>3, <2>6, EnqueuedFacts
    <3> QED BY <2>3, <3>1, <3>2
  <2>7. \/ jobs' = jobs /\ orphans' = orphans
        \/ jobs' = Woken(done, j) /\ orphans' = orphans
        \/ /\ Slot(done) # {} /\ jobs' = Woken(Enqueued(done, "delete"), j)
           /\ orphans' = orphans \cup Dropped(done)
    BY <1>21 DEF CompleteJob, done, j
  <2>8. orphans' = orphans /\ \A k \in Job : jobs'[k].op = "none"
    BY <1>1, <2>3, <2>4, <2>5, <2>6, <2>7
  <2> QED BY <1>17, <2>1, <2>8
<1>22. ASSUME NEW r \in Runner, Advance(r) \/ AwaitJob(r) PROVE FALSE
  <2>1. CASE Advance(r)
    BY <2>1 DEF Advance, Handling, Direct
  <2>2. CASE AwaitJob(r)
    BY <1>2, <2>2 DEF AwaitJob, Answered, Held
  <2> QED BY <1>22, <2>1, <2>2
<1>23. ASSUME NEW j \in Job, SettleOperation(j) \/ WaitRunsLate(j) PROVE FALSE
  BY <1>1, <1>23 DEF SettleOperation, WaitRunsLate
<1>24. ~SettleOrphan
  BY <1>1 DEF SettleOrphan
<1>25. CASE UNCHANGED vars
  BY <1>4, <1>25 DEF vars
<1> QED
  BY <1>6, <1>7, <1>8, <1>10, <1>11, <1>12, <1>13, <1>15, <1>16, <1>18, <1>19, <1>20, <1>21,
     <1>22, <1>23, <1>24, <1>25 DEF Next, RunnerStep

(* A direct kind stays one, so its invariants are carried from step to step.*)
LEMMA DirectStays == TypeOK /\ [Next]_vars => (Direct' <=> Direct)
  BY KindStays DEF Direct

(* The inductive invariant of the claims.                                   *)
HandlersInv == TypeOK /\ (Direct => HandlerInv)

(* Every reachable state has it.                                            *)
LEMMA HandlersInvHolds == Spec => []HandlersInv
<1>1. Init => HandlersInv
  <2>1. Init => HandlerInv
    BY DEF Init, HandlerInv, Held, Absent
  <2> QED BY <2>1, InitTyped DEF HandlersInv
<1>2. HandlersInv /\ [Next]_vars => HandlersInv'
  BY TypeStep, DirectStays, HandlerStep DEF HandlersInv
<1> QED BY <1>1, <1>2, PTL DEF Spec

(* Whatever is claimed, lost, recovered or written meanwhile, no two        *)
(* handlers of a direct kind are at work for one event.                     *)
THEOREM OneAtATime == Spec => []OneHandler
<1>1. HandlersInv => OneHandler
  BY DEF HandlersInv, HandlerInv, OneHandler, Held
<1> QED BY <1>1, HandlersInvHolds, PTL
-----------------------------------------------------------------------------
(* Exports converge.                                                        *)

Open(rows) == InState(rows, "pending") \cup InState(rows, "running")
GivenUp(rows) == InState(rows, "failed") # {}
UpToDate == /\ link = [state |-> "linked", exported |-> event.version]
            /\ remote = [live |-> TRUE, version |-> event.version]

(* A deletion is queued or under way only for a hidden event.               *)
DeletesHidden == \A j \in Open(jobs) : jobs[j].kind = "delete" => ~event.public

(* What a handler at work may still report: it was claimed with the event   *)
(* as it is, or an edit has queued the next export since; and what it says  *)
(* it did is what the source shows.                                         *)
ReportsFit ==
  \A r \in Runner : Held(r) =>
    /\ event.public => \/ GivenUp(jobs) \/ InState(jobs, "pending") # {}
                       \/ runner[r].version = event.version
    /\ runner[r].answer = "done" =>
         IF runner[r].kind = "delete" THEN ~remote.live
         ELSE remote = [live |-> TRUE, version |-> runner[r].version]

(* A retracted copy is gone and nobody is left who could bring it back.     *)
RetractedGone ==
  link.state = "vrdex_retracted" =>
    ~event.public /\ ~remote.live /\ \A r \in Runner : ~Held(r)

(* As long as the source may be wrong, something is left to do.             *)
WorkLeft ==
  \/ GivenUp(jobs) \/ Open(jobs) # {}
  \/ IF event.public THEN (connector.reconcile /\ link.state = "none") \/ UpToDate
     ELSE link.state # "linked"

SyncInv == pauses = 0 => connector.active /\ ReportsFit /\ RetractedGone /\ WorkLeft

(* Rows new in which nothing rows had left to do is forgotten.              *)
Carried(rows, new) ==
  /\ GivenUp(rows) => GivenUp(new)
  /\ InState(rows, "pending") # {} => GivenUp(new) \/ InState(new, "pending") # {}
  /\ Open(rows) # {} => GivenUp(new) \/ Open(new) # {}
  /\ \A j \in Open(new) : j \in Open(rows) /\ new[j].kind = rows[j].kind

(* Rows that look the same carry the same work.                             *)
LEMMA AlikeCarried ==
  ASSUME NEW rows, NEW new, \A k \in Job : Alike(rows[k], new[k])
  PROVE  Carried(rows, new)
<1>1. \A s : InState(rows, s) = InState(new, s)
  BY DEF InState, Alike
<1>2. \A j \in Open(new) : new[j].kind = rows[j].kind
  BY DEF Open, InState, Alike
<1> QED BY <1>1, <1>2 DEF Carried, Open, GivenUp

(* A failed attempt, a lapsed lease or a lost run forgets nothing.          *)
LEMMA FailedCarried ==
  ASSUME NEW rows \in Rows, NEW j \in Open(rows), NEW source,
         source = "stalled" \/ rows[j].state = "running"
  PROVE  Carried(rows, Failed(rows, j, source))
<1> DEFINE new == Failed(rows, j, source)
<1>1. j \in Job /\ rows[j].state \in {"pending", "running"}
  BY DEF Open, InState
<1>2. \A k \in Job \ {j} : new[k].state = rows[k].state /\ new[k].kind = rows[k].kind
  <2>1. \A k \in Job \ {j} : Alike(rows[k], new[k])
    BY <1>1, FailedFacts
  <2> HIDE DEF new
  <2> QED BY <2>1 DEF Alike
<1>3. \/ new[j].state = "pending" /\ new[j].kind = rows[j].kind
      \/ new[j].state = "failed"
      \/ /\ new[j].state = "done"
         /\ \E k \in Job \ {j} : \/ rows[k].state = "pending"
                                 \/ rows[k].state = "running" /\ source # "stalled"
  BY <1>1, FailedFacts
<1> HIDE DEF new
<1>4. GivenUp(rows) => GivenUp(new)
  BY <1>1, <1>2 DEF GivenUp, InState
<1>5. new[j].state = "failed" => GivenUp(new)
  BY <1>1 DEF GivenUp, InState
<1>6. InState(rows, "pending") # {} => GivenUp(new) \/ InState(new, "pending") # {}
  BY <1>1, <1>2, <1>3, <1>5 DEF InState
<1>7. GivenUp(new) \/ Open(new) # {}
  BY <1>1, <1>2, <1>3, <1>5 DEF Open, InState
<1>8. \A k \in Open(new) : k \in Open(rows) /\ new[k].kind = rows[k].kind
  BY <1>1, <1>2, <1>3 DEF Open, InState
<1>9. Carried(rows, new)
  BY <1>4, <1>6, <1>7, <1>8 DEF Carried
<1> QED BY <1>9 DEF new

(* A step that only moves rows and frees runners, and forgets nothing.      *)
LEMMA RowsMove ==
  ASSUME SyncInv, DeletesHidden, Carried(jobs, jobs'),
         UNCHANGED <<event, link, remote, pauses>>,
         connector'.active = connector.active, connector'.reconcile = connector.reconcile,
         \A r \in Runner : Held(r)' => Held(r) /\ runner'[r] = runner[r]
  PROVE  SyncInv' /\ DeletesHidden'
<1>1. DeletesHidden'
  BY DEF DeletesHidden, Carried
<1>2. ASSUME pauses = 0 PROVE connector'.active /\ ReportsFit' /\ RetractedGone' /\ WorkLeft'
  <2>1. connector.active /\ ReportsFit /\ RetractedGone /\ WorkLeft
    BY <1>2 DEF SyncInv
  <2>2. ReportsFit'
    BY <2>1 DEF ReportsFit, Carried
  <2>3. RetractedGone'
    BY <2>1 DEF RetractedGone
  <2>4. WorkLeft'
    BY <2>1 DEF WorkLeft, Carried, UpToDate
  <2> QED BY <2>1, <2>2, <2>3, <2>4
<1> QED BY <1>1, <1>2 DEF SyncInv

(* A queued job is work left to do, and its deletion is that of an event    *)
(* that is hidden now.                                                      *)
LEMMA EnqueueKeeps ==
  ASSUME TypeOK, NEW rows \in Rows, NEW kind \in {"upsert", "delete"}, Slot(rows) # {}
  PROVE  /\ InState(Enqueued(rows, kind), "pending") # {}
         /\ \A j \in Open(Enqueued(rows, kind)) :
              \/ Enqueued(rows, kind)[j].kind = kind
              \/ j \in Open(rows) /\ Enqueued(rows, kind)[j].kind = rows[j].kind
<1> DEFINE new == Enqueued(rows, kind)
<1>1. PICK i \in Job : /\ new[i].state = "pending" /\ new[i].kind = kind
                       /\ \A k \in Job \ {i} : new[k] = rows[k]
  BY EnqueuedFacts
<1> HIDE DEF new
<1>2. InState(new, "pending") # {}
  BY <1>1 DEF InState
<1>3. \A j \in Open(new) : \/ new[j].kind = kind
                           \/ j \in Open(rows) /\ new[j].kind = rows[j].kind
  BY <1>1 DEF Open, InState
<1> QED BY <1>2, <1>3 DEF new

(* A write to the event queues what it made necessary.                      *)
LEMMA WriteKeeps ==
  ASSUME "publish" \notin Writes, TypeOK, DeletesHidden, SyncInv, WriteEvent
  PROVE  SyncInv' /\ DeletesHidden'
<1>1. PICK write \in Writes :
        /\ write # "edit" => event.public = (write = "hide")
        /\ event' = IF write = "edit" THEN [event EXCEPT !.version = @ + 1]
                    ELSE [event EXCEPT !.public = (write = "publish")]
        /\ EnqueueEventSync(event')
  BY DEF WriteEvent
<1>2. /\ UNCHANGED <<connector, link, runner, remote, pauses>> /\ jobs \in Rows
      /\ event.public \in BOOLEAN
  BY DEF WriteEvent, TypeOK, Rows, Event
<1>3. write \in {"edit", "hide"}
  OBVIOUS
<1>4. /\ event'.public \in BOOLEAN /\ (event'.public => event.public)
      /\ event'.public # event.public => write = "hide"
  BY <1>1, <1>2, <1>3 DEF TypeOK, Event
<1>5. ASSUME connector.active, event'.public \/ link.state = "linked"
      PROVE  InState(jobs, "pending")' # {} /\ DeletesHidden'
  <2> DEFINE kind == IF event'.public THEN "upsert" ELSE "delete"
  <2>1. Slot(jobs) # {} /\ jobs' = Enqueued(jobs, kind)
    BY <1>1, <1>5 DEF EnqueueEventSync, EnqueueSyncJob
  <2>2. InState(Enqueued(jobs, kind), "pending") # {}
    BY <1>2, <2>1, EnqueueKeeps
  <2>3. \A j \in Open(Enqueued(jobs, kind)) :
          \/ Enqueued(jobs, kind)[j].kind = kind
          \/ j \in Open(jobs) /\ Enqueued(jobs, kind)[j].kind = jobs[j].kind
    BY <1>2, <2>1, EnqueueKeeps
  <2>4. InState(jobs, "pending")' # {}
    BY <2>1, <2>2 DEF InState
  <2>5. ASSUME NEW j \in Open(jobs'), jobs'[j].kind = "delete" PROVE ~event'.public
    <3>1. CASE jobs'[j].kind = kind
      BY <2>5, <3>1
    <3>2. CASE j \in Open(jobs) /\ jobs'[j].kind = jobs[j].kind
      BY <1>4, <2>5, <3>2 DEF DeletesHidden
    <3> QED BY <2>1, <2>3, <2>5, <3>1, <3>2
  <2> QED BY <2>4, <2>5 DEF DeletesHidden
<1>6. ASSUME ~(connector.active /\ (event'.public \/ link.state = "linked"))
      PROVE  jobs' = jobs /\ DeletesHidden'
  <2>1. jobs' = jobs
    BY <1>1, <1>6 DEF EnqueueEventSync
  <2> QED BY <1>4, <2>1 DEF DeletesHidden
<1>7. ASSUME pauses = 0 PROVE connector'.active /\ ReportsFit' /\ RetractedGone' /\ WorkLeft'
  <2>1. connector.active /\ ReportsFit /\ RetractedGone /\ WorkLeft
    BY <1>7 DEF SyncInv
  <2>2. RetractedGone'
    BY <1>2, <1>4, <2>1 DEF RetractedGone, Held
  <2>3. event'.public => InState(jobs, "pending")' # {}
    BY <1>5, <2>1
  <2>4. ReportsFit'
    BY <1>2, <2>1, <2>3 DEF ReportsFit, Held
  <2>5. WorkLeft'
    BY <1>2, <1>5, <2>1, <2>3 DEF WorkLeft, Open
  <2> QED BY <1>2, <2>1, <2>2, <2>4, <2>5
<1> QED BY <1>2, <1>5, <1>6, <1>7 DEF SyncInv

(* The reconcile of a new connector queues the export of what it has not.   *)
LEMMA ReconcileKeeps ==
  ASSUME TypeOK, DeletesHidden, SyncInv, Reconcile
  PROVE  SyncInv' /\ DeletesHidden'
<1>1. /\ UNCHANGED <<event, link, runner, remote, pauses>> /\ jobs \in Rows
      /\ connector'.active = connector.active
  BY DEF Reconcile, TypeOK, Rows, Connector
<1>2. ASSUME connector.active /\ event.public /\ link.state = "none"
      PROVE  InState(jobs, "pending")' # {} /\ DeletesHidden'
  <2>1. Slot(jobs) # {} /\ jobs' = Enqueued(jobs, "upsert")
    BY <1>2 DEF Reconcile, EnqueueSyncJob
  <2>2. InState(Enqueued(jobs, "upsert"), "pending") # {}
    BY <1>1, <2>1, EnqueueKeeps
  <2>3. \A j \in Open(Enqueued(jobs, "upsert")) :
          \/ Enqueued(jobs, "upsert")[j].kind = "upsert"
          \/ j \in Open(jobs) /\ Enqueued(jobs, "upsert")[j].kind = jobs[j].kind
    BY <1>1, <2>1, EnqueueKeeps
  <2> QED BY <1>1, <2>1, <2>2, <2>3 DEF DeletesHidden, InState, Open
<1>3. ASSUME ~(connector.active /\ event.public /\ link.state = "none")
      PROVE  jobs' = jobs /\ DeletesHidden'
  BY <1>1, <1>3 DEF Reconcile, DeletesHidden
<1>4. ASSUME pauses = 0 PROVE connector'.active /\ ReportsFit' /\ RetractedGone' /\ WorkLeft'
  <2>1. connector.active /\ ReportsFit /\ RetractedGone /\ WorkLeft
    BY <1>4 DEF SyncInv
  <2>2. RetractedGone'
    BY <1>1, <2>1 DEF RetractedGone, Held
  <2>3. ReportsFit'
    BY <1>1, <1>2, <1>3, <2>1 DEF ReportsFit, Held
  <2>4. WorkLeft'
    BY <1>1, <1>2, <1>3, <2>1 DEF WorkLeft, Open, UpToDate
  <2> QED BY <1>1, <2>1, <2>2, <2>3, <2>4
<1> QED BY <1>1, <1>2, <1>3, <1>4 DEF SyncInv

(* A claim leaves something to do, unless there was nothing.                *)
LEMMA ClaimKeeps ==
  ASSUME TypeOK, HandlerInv, DeletesHidden, SyncInv, NEW r \in Runner, NEW j \in Job, NEW rows,
         Found(j, rows), Claimable(j), ClaimJob(r, j, rows), UNCHANGED <<event, link, remote>>
  PROVE  SyncInv' /\ DeletesHidden'
<1>1. /\ \A k \in Job \ {j} : jobs'[k] = jobs[k]
      /\ \/ /\ Skips(j)
            /\ \/ pauses' = pauses + 1
               \/ /\ ~connector.active \/ Decided(jobs[j]) = "skip"
                  /\ UNCHANGED <<connector, pauses>>
         \/ Returns(j) \/ Takes(r, j)
  BY ClaimFacts
<1>2. jobs[j] \in Row /\ jobs[j].op = "none" /\ event.public \in BOOLEAN
  BY DEF TypeOK, HandlerInv, Event
<1>3. /\ event.public => Decided(jobs[j]) = IF jobs[j].kind = "upsert" THEN "upsert" ELSE "skip"
      /\ ~event.public => Decided(jobs[j]) = IF link.state = "linked" THEN "delete" ELSE "skip"
  BY <1>2, DecidedFacts
<1>4. j \in Open(jobs) /\ ~(jobs[j].state = "failed")
  BY DEF Claimable, Open, InState
<1>5. jobs[j].kind \in {"upsert", "delete"} /\ (jobs[j].kind = "delete" => ~event.public)
  BY <1>2, <1>4 DEF Row, DeletesHidden
<1>6. GivenUp(jobs) => GivenUp(jobs')
  BY <1>1, <1>4 DEF GivenUp, InState
<1>7. \A k \in Open(jobs') : \/ k \in Open(jobs) /\ jobs'[k].kind = jobs[k].kind
                             \/ k = j /\ (Skips(j) \/ Takes(r, j))
  BY <1>1, <1>4 DEF Open, InState, Returns
<1>8. DeletesHidden'
  <2>1. ASSUME NEW k \in Open(jobs'), jobs'[k].kind = "delete" PROVE ~event.public
    <3>1. CASE k \in Open(jobs) /\ jobs'[k].kind = jobs[k].kind
      BY <2>1, <3>1 DEF DeletesHidden
    <3>2. CASE k = j /\ Skips(j)
      BY <3>2, <2>1 DEF Skips, Open, InState
    <3>3. CASE k = j /\ Takes(r, j)
      BY <1>3, <1>5, <2>1, <3>3 DEF Takes
    <3> QED BY <1>7, <2>1, <3>1, <3>2, <3>3
  <2> QED BY <2>1 DEF DeletesHidden
<1>9. ASSUME pauses' = 0
      PROVE  pauses = 0 /\ connector.active /\ ReportsFit /\ RetractedGone /\ WorkLeft
  <2>1. pauses \in Nat /\ pauses' \in {pauses, pauses + 1}
    BY <1>1 DEF TypeOK, Returns, Takes
  <2> QED BY <1>9, <2>1 DEF SyncInv
<1>10. CASE Skips(j)
  <2>1. ASSUME pauses' = 0
        PROVE  connector'.active /\ ReportsFit' /\ RetractedGone' /\ WorkLeft'
    <3>1. ~(pauses' = pauses + 1)
      BY <1>9, <2>1
    <3>2. UNCHANGED <<connector, pauses>> /\ Decided(jobs[j]) = "skip"
      BY <1>1, <1>9, <1>10, <2>1, <3>1 DEF Skips, Returns, Takes
    <3>3. ~event.public /\ link.state # "linked"
      BY <1>3, <1>5, <3>2
    <3> QED BY <1>9, <1>10, <2>1, <3>2, <3>3 DEF Skips, ReportsFit, RetractedGone, WorkLeft, Held
  <2> QED BY <1>8, <2>1 DEF SyncInv
<1>11. CASE Returns(j)
  <2>1. InState(jobs, "pending")' # {}
    BY <1>11 DEF Returns, InState
  <2>2. ASSUME pauses' = 0
        PROVE  connector'.active /\ ReportsFit' /\ RetractedGone' /\ WorkLeft'
    BY <1>9, <1>11, <2>1, <2>2 DEF Returns, ReportsFit, RetractedGone, WorkLeft, Held, Open
  <2> QED BY <1>8, <2>2 DEF SyncInv
<1>12. CASE Takes(r, j)
  <2>1. Open(jobs') # {}
    BY <1>12 DEF Takes, Open, InState
  <2>2. runner \in [Runner -> Run \cup {Idle}]
    BY DEF TypeOK
  <2>3. ~(runner'[r] # Idle /\ runner'[r].answer = "done")
    BY <1>12, <2>2 DEF Takes
  <2>4. /\ \A s \in Runner \ {r} : ~(runner'[s] # Idle)
        /\ runner'[r].version = event.version
    BY <1>12, <2>2 DEF Takes, Held
  <2>5. Decided(jobs[j]) # "skip"
    BY <1>12 DEF Takes
  <2>6. ASSUME pauses' = 0
        PROVE  connector'.active /\ ReportsFit' /\ RetractedGone' /\ WorkLeft'
    <3>1. link.state # "vrdex_retracted"
      BY <1>3, <1>9, <2>5, <2>6 DEF RetractedGone
    <3>2. ReportsFit'
      BY <2>3, <2>4 DEF ReportsFit, Held
    <3> QED BY <1>9, <1>12, <2>1, <2>6, <3>1, <3>2 DEF Takes, RetractedGone, WorkLeft
  <2> QED BY <1>8, <2>6 DEF SyncInv
<1> QED BY <1>1, <1>10, <1>11, <1>12

(* The only handler at work is the one that calls the source.               *)
LEMMA CallKeeps ==
  ASSUME TypeOK, HandlerInv, DeletesHidden, SyncInv, NEW r \in Runner, CallSource(r)
  PROVE  SyncInv' /\ DeletesHidden'
<1>1. Held(r) /\ UNCHANGED <<connector, event, link, jobs, pauses>>
  BY DEF CallSource, Handling, Held
<1>2. runner[r] \in Run /\ runner[r].job \in Job /\ runner \in [Runner -> Run \cup {Idle}]
  BY <1>1 DEF Held, TypeOK, Run
<1>3. \A s \in Runner : Held(s) => s = r
  BY <1>1 DEF HandlerInv
<1>4. /\ runner'[r].version = runner[r].version /\ runner'[r].kind = runner[r].kind
      /\ runner'[r].answer = "done" => remote' = Applied(runner[r].kind, runner[r].version)
      /\ \A s \in Runner \ {r} : runner'[s] = runner[s]
  BY <1>2 DEF CallSource, Answer, Run
<1>5. runner[r].job \in Open(jobs)
  BY <1>1, <1>2 DEF HandlerInv, Open, InState
<1>6. DeletesHidden'
  BY <1>1 DEF DeletesHidden
<1>7. ASSUME pauses = 0 PROVE connector'.active /\ ReportsFit' /\ RetractedGone' /\ WorkLeft'
  <2>1. connector.active /\ ReportsFit /\ RetractedGone /\ WorkLeft
    BY <1>7 DEF SyncInv
  <2>2. link.state # "vrdex_retracted"
    BY <1>1, <2>1 DEF RetractedGone
  <2>3. remote \in Copy
    BY DEF TypeOK
  <2>4. ASSUME runner'[r].answer = "done"
        PROVE  IF runner[r].kind = "delete" THEN ~remote'.live
               ELSE remote' = [live |-> TRUE, version |-> runner[r].version]
    BY <1>2, <1>4, <2>3, <2>4 DEF Applied, Copy, Run
  <2>5. ReportsFit'
    BY <1>1, <1>3, <1>4, <2>1, <2>4 DEF ReportsFit, Held
  <2> QED BY <1>1, <1>5, <2>1, <2>2, <2>5 DEF RetractedGone, WorkLeft
<1> QED BY <1>1, <1>6, <1>7 DEF SyncInv

(* A report is recorded on the link; what it does not settle stays queued.  *)
LEMMA CompleteKeeps ==
  ASSUME TypeOK, HandlerInv, DeletesHidden, SyncInv, NEW r \in Runner, CompleteJob(r)
  PROVE  SyncInv' /\ DeletesHidden'
<1> DEFINE j == runner[r].job
           done == [jobs EXCEPT ![j] = Closed(@, "done")]
           exported == jobs[j].kind = "upsert"
           retract == exported /\ ~event.public
<1>1. /\ Held(r) /\ runner' = [runner EXCEPT ![r] = Idle] /\ runner[r].answer = "done"
      /\ UNCHANGED <<connector, event, remote, pauses>>
  BY DEF CompleteJob, Answered, Held, HandlerInv
<1>2. /\ runner[r] \in Run /\ j \in Job /\ runner \in [Runner -> Run \cup {Idle}]
      /\ jobs \in Rows /\ jobs[j] \in Row /\ event.public \in BOOLEAN /\ link \in Link
  BY <1>1 DEF Held, TypeOK, Run, Rows, Event
<1>3. /\ \A s \in Runner : ~(runner'[s] # Idle)
      /\ jobs[j].state = "running" /\ jobs[j].kind = runner[r].kind
  BY <1>1, <1>2 DEF HandlerInv, Held
<1>4. j \in Open(jobs) /\ (jobs[j].kind = "delete" => ~event.public)
  BY <1>2, <1>3 DEF Open, InState, DeletesHidden
<1>5. /\ done \in Rows /\ done[j].state = "done"
      /\ \A k \in Job \ {j} : done[k] = jobs[k]
  BY <1>2, ClosedFacts DEF Rows
<1>6. /\ link' = IF exported THEN [state |-> "linked", exported |-> runner[r].version]
                 ELSE IF jobs[j].kind = "delete" /\ link.state # "none"
                   THEN [link EXCEPT !.state = "vrdex_retracted"] ELSE link
      /\ retract => Slot(done) # {}
      /\ jobs' = Woken(IF retract THEN Enqueued(done, "delete") ELSE done, j)
  BY <1>1, <1>3 DEF CompleteJob
<1> HIDE DEF done
<1>7. ASSUME retract
      PROVE  /\ InState(jobs', "pending") # {}
             /\ \A k \in Open(jobs') : \/ jobs'[k].kind = "delete"
                                       \/ k \in Open(done) /\ jobs'[k].kind = done[k].kind
  <2> DEFINE new == Enqueued(done, "delete")
  <2>1. new \in Rows
    BY <1>5, <1>6, <1>7, EnqueuedFacts
  <2>2. /\ InState(new, "pending") # {}
        /\ \A k \in Open(new) : \/ new[k].kind = "delete"
                                \/ k \in Open(done) /\ new[k].kind = done[k].kind
    BY <1>5, <1>6, <1>7, EnqueueKeeps
  <2>3. jobs' = Woken(new, j)
    BY <1>6, <1>7
  <2> HIDE DEF new
  <2>4. \A k \in Job : jobs'[k].state = new[k].state /\ jobs'[k].kind = new[k].kind
    <3>1. \A k \in Job : Alike(new[k], jobs'[k])
      BY <1>2, <2>1, <2>3, WokenFacts
    <3> QED BY <3>1 DEF Alike
  <2>5. /\ InState(jobs', "pending") = InState(new, "pending") /\ Open(jobs') = Open(new)
        /\ \A k \in Open(jobs') : k \in Job
    BY <2>4 DEF Open, InState
  <2> QED BY <2>2, <2>4, <2>5
<1>8. ASSUME ~retract
      PROVE  \A k \in Job : jobs'[k].state = done[k].state /\ jobs'[k].kind = done[k].kind
  <2>1. jobs' = Woken(done, j)
    BY <1>6, <1>8
  <2>2. \A k \in Job : Alike(done[k], jobs'[k])
    BY <1>2, <1>5, <2>1, WokenFacts
  <2> QED BY <2>2 DEF Alike
<1>9. \A k \in Open(done) : k \in Open(jobs) /\ done[k].kind = jobs[k].kind
  BY <1>5 DEF Open, InState
<1>10. DeletesHidden'
  <2>1. ASSUME NEW k \in Open(jobs'), jobs'[k].kind = "delete" PROVE ~event.public
    <3>1. CASE retract
      BY <3>1
    <3>2. CASE ~retract
      <4>1. k \in Open(done) /\ jobs'[k].kind = done[k].kind
        BY <1>8, <2>1, <3>2 DEF Open, InState
      <4> QED BY <1>9, <2>1, <4>1 DEF DeletesHidden
    <3> QED BY <3>1, <3>2
  <2> QED BY <1>1, <2>1 DEF DeletesHidden
<1>11. ASSUME pauses = 0 PROVE connector'.active /\ ReportsFit' /\ RetractedGone' /\ WorkLeft'
  <2>1. connector.active /\ ReportsFit /\ RetractedGone /\ WorkLeft
    BY <1>11 DEF SyncInv
  <2>2. link.state # "vrdex_retracted"
    BY <1>1, <2>1 DEF RetractedGone
  <2>3. ReportsFit'
    BY <1>3 DEF ReportsFit, Held
  <2>4. IF jobs[j].kind = "delete" THEN ~remote.live
        ELSE remote = [live |-> TRUE, version |-> runner[r].version]
    BY <1>1, <1>3, <2>1 DEF ReportsFit
  <2>5. jobs[j].kind \in {"upsert", "delete"}
    BY <1>2 DEF Row
  <2>6. CASE exported /\ ~event.public
    <3>1. link'.state = "linked" /\ Open(jobs') # {}
      BY <1>6, <1>7, <2>6 DEF Open
    <3> QED BY <1>1, <2>1, <2>3, <3>1 DEF RetractedGone, WorkLeft
  <2>7. CASE exported /\ event.public
    <3>1. link' = [state |-> "linked", exported |-> runner[r].version]
      BY <1>6, <2>7
    <3>2. remote = [live |-> TRUE, version |-> runner[r].version]
      BY <2>4, <2>7
    <3>3. \/ GivenUp(jobs) \/ InState(jobs, "pending") # {}
          \/ runner[r].version = event.version
      BY <1>1, <2>1, <2>7 DEF ReportsFit
    <3>4. \A k \in Job \ {j} : jobs'[k].state = jobs[k].state
      BY <1>5, <1>8, <2>7
    <3>5. jobs[j].state = "running"
      BY <1>3
    <3>6. GivenUp(jobs) => GivenUp(jobs')
      BY <3>4, <3>5 DEF GivenUp, InState
    <3>7. InState(jobs, "pending") # {} => Open(jobs') # {}
      BY <3>4, <3>5 DEF InState, Open
    <3>8. WorkLeft'
      <4>1. CASE GivenUp(jobs) \/ InState(jobs, "pending") # {}
        BY <3>6, <3>7, <4>1 DEF WorkLeft
      <4>2. CASE runner[r].version = event.version
        <5>1. UpToDate' /\ event'.public
          BY <1>1, <2>7, <3>1, <3>2, <4>2 DEF UpToDate
        <5> QED BY <5>1 DEF WorkLeft
      <4> QED BY <3>3, <4>1, <4>2
    <3>9. RetractedGone'
      BY <3>1 DEF RetractedGone
    <3> QED BY <1>1, <2>1, <2>3, <3>8, <3>9
  <2>8. CASE jobs[j].kind = "delete"
    <3>1. link'.state # "linked"
      BY <1>2, <1>6, <2>8 DEF Link
    <3>2. ~event.public /\ ~remote.live
      BY <1>4, <2>4, <2>8
    <3> QED BY <1>1, <1>3, <2>1, <2>3, <3>1, <3>2 DEF RetractedGone, WorkLeft, Held
  <2> QED BY <2>5, <2>6, <2>7, <2>8
<1> QED BY <1>1, <1>10, <1>11 DEF SyncInv

(* Every step of a connector of a direct kind leaves work to do as long as  *)
(* the source may be wrong, if no event is published again.                 *)
LEMMA SyncStep ==
  ASSUME "publish" \notin Writes, TypeOK, Direct, HandlerInv, DeletesHidden, SyncInv, [Next]_vars
  PROVE  SyncInv' /\ DeletesHidden'
<1>1. jobs \in Rows /\ runner \in [Runner -> Run \cup {Idle}] /\ connector \in Connector
      /\ pauses \in Nat /\ pauses' \in Nat
  BY TypeStep DEF TypeOK, Rows
<1>2. ASSUME Carried(jobs, jobs'), UNCHANGED <<connector, event, link, remote, pauses>>,
             \A r \in Runner : Held(r)' => Held(r) /\ runner'[r] = runner[r]
      PROVE  SyncInv' /\ DeletesHidden'
  BY <1>2, RowsMove
<1>3. Carried(jobs, jobs)
  BY AlikeCarried DEF Alike
<1>4. UNCHANGED runner => \A r \in Runner : Held(r)' => Held(r) /\ runner'[r] = runner[r]
  BY DEF Held
<1>5. ASSUME NEW r \in Runner, runner' = [runner EXCEPT ![r] = Idle]
      PROVE  \A s \in Runner : Held(s)' => Held(s) /\ runner'[s] = runner[s]
  BY <1>1, <1>5 DEF Held
<1>6. ASSUME WriteEvent PROVE SyncInv' /\ DeletesHidden'
  BY <1>6, WriteKeeps
<1>7. ASSUME Reconcile PROVE SyncInv' /\ DeletesHidden'
  BY <1>7, ReconcileKeeps
<1>8. ASSUME StopConnector PROVE SyncInv' /\ DeletesHidden'
  <2>1. pauses' = pauses + 1 /\ UNCHANGED <<event, jobs>>
    BY <1>8, StopType DEF StopConnector
  <2> QED BY <1>1, <2>1 DEF SyncInv, DeletesHidden
<1>9. ASSUME ResumeConnector PROVE SyncInv' /\ DeletesHidden'
  <2>1. UNCHANGED <<event, jobs, pauses>> /\ ~connector.active
    BY <1>9 DEF ResumeConnector
  <2> QED BY <2>1 DEF SyncInv, DeletesHidden
<1>10. ASSUME NEW r \in Runner, NEW j \in Job, RunJob(r, j) PROVE SyncInv' /\ DeletesHidden'
  BY <1>10, ClaimKeeps DEF RunJob, Found
<1>11. ASSUME NEW r \in Runner, NEW j \in Job, RunStray(r, j) PROVE SyncInv' /\ DeletesHidden'
  <2>1. CASE Claimable(j)
    BY <1>11, <2>1, ClaimKeeps DEF RunStray, Found
  <2>2. CASE ~Claimable(j)
    BY <1>2, <1>3, <1>4, <1>11, <2>2 DEF RunStray
  <2> QED BY <2>1, <2>2
<1>12. ASSUME NEW j \in Job, LoseRun(j) \/ LeaseRunsOut(j) PROVE SyncInv' /\ DeletesHidden'
  <2>1. UNCHANGED <<connector, event, link, remote, pauses, runner>>
    BY <1>12 DEF LoseRun, LeaseRunsOut
  <2>2. \A k \in Job : jobs'[k].state = jobs[k].state /\ jobs'[k].kind = jobs[k].kind
    BY <1>1, <1>12 DEF LoseRun, LeaseRunsOut, Rows, Row
  <2>3. Carried(jobs, jobs')
    BY <2>2 DEF Carried, GivenUp, Open, InState
  <2> QED BY <1>2, <1>4, <2>1, <2>3
<1>13. ASSUME NEW j \in Job, RecoverExpiredJob(j) PROVE SyncInv' /\ DeletesHidden'
  <2>1. Carried(jobs, jobs')
    BY <1>1, <1>13, FailedCarried DEF RecoverExpiredJob, Open, InState
  <2> QED BY <1>2, <1>4, <1>13, <2>1 DEF RecoverExpiredJob
<1>14. ASSUME NEW j \in Job, RecoverStalledJob(j) PROVE SyncInv' /\ DeletesHidden'
  <2> DEFINE rows == [jobs EXCEPT ![j].attempts = @ + 1]
  <2>1. rows \in Rows
    BY <1>1, TouchedType
  <2>2. \A k \in Job : Alike(jobs[k], rows[k])
    BY <1>1 DEF Alike, Row, Rows
  <2>3. jobs' = Failed(rows, j, "stalled")
    BY <1>14 DEF RecoverStalledJob
  <2> HIDE DEF rows
  <2>4. j \in Open(rows)
    BY <1>14, <2>2 DEF RecoverStalledJob, Alike, Open, InState
  <2>5. Carried(rows, jobs') /\ Carried(jobs, rows)
    BY <2>1, <2>2, <2>3, <2>4, FailedCarried, AlikeCarried
  <2>6. Carried(jobs, jobs')
    <3>1. \A k \in Open(jobs') : jobs'[k].kind = jobs[k].kind
      BY <2>2, <2>5 DEF Carried, Open, InState, Alike
    <3>2. \A s : InState(rows, s) = InState(jobs, s)
      BY <2>2 DEF InState, Alike
    <3>3. /\ Open(rows) = Open(jobs) /\ InState(rows, "pending") = InState(jobs, "pending")
          /\ (GivenUp(rows) <=> GivenUp(jobs))
      BY <3>2 DEF Open, GivenUp
    <3>4. /\ GivenUp(rows) => GivenUp(jobs')
          /\ InState(rows, "pending") # {} => GivenUp(jobs') \/ InState(jobs', "pending") # {}
          /\ Open(rows) # {} => GivenUp(jobs') \/ Open(jobs') # {}
          /\ \A k \in Open(jobs') : k \in Open(rows)
      BY <2>5 DEF Carried
    <3> QED BY <3>1, <3>3, <3>4 DEF Carried
  <2> QED BY <1>2, <1>4, <1>14, <2>6 DEF RecoverStalledJob
<1>15. ASSUME NEW r \in Runner, LoseRunner(r) PROVE SyncInv' /\ DeletesHidden'
  BY <1>2, <1>3, <1>5, <1>15 DEF LoseRunner
<1>16. ASSUME NEW r \in Runner, CallSource(r) PROVE SyncInv' /\ DeletesHidden'
  BY <1>16, CallKeeps
<1>17. ASSUME NEW r \in Runner, CompleteJob(r) PROVE SyncInv' /\ DeletesHidden'
  BY <1>17, CompleteKeeps
<1>18. ASSUME NEW r \in Runner, FailJob(r) PROVE SyncInv' /\ DeletesHidden'
  <2>1. Held(r) /\ runner' = [runner EXCEPT ![r] = Idle]
        /\ UNCHANGED <<connector, event, link, remote, pauses>>
        /\ (jobs' = jobs \/ (/\ jobs[runner[r].job].state = "running"
                             /\ jobs' = Failed(jobs, runner[r].job, "handler")))
    BY <1>18 DEF FailJob, Answered, Held
  <2>2. runner[r].job \in Job
    BY <1>1, <2>1 DEF Held, Run
  <2>3. Carried(jobs, jobs')
    <3>1. CASE jobs' = jobs
      BY <1>3, <3>1
    <3>2. CASE /\ jobs[runner[r].job].state = "running"
               /\ jobs' = Failed(jobs, runner[r].job, "handler")
      <4>1. runner[r].job \in Open(jobs)
        BY <2>2, <3>2 DEF Open, InState
      <4> QED BY <1>1, <3>2, <4>1, FailedCarried
    <3> QED BY <2>1, <3>1, <3>2
  <2> QED BY <1>2, <1>5, <2>1, <2>3
<1>19. ASSUME NEW r \in Runner, Advance(r) \/ AwaitJob(r) PROVE FALSE
  BY <1>19 DEF Advance, Handling, Direct, AwaitJob, Answered, HandlerInv, Held
<1>20. ASSUME NEW j \in Job, SettleOperation(j) \/ WaitRunsLate(j) PROVE FALSE
  BY <1>20 DEF SettleOperation, WaitRunsLate, HandlerInv
<1>21. ~SettleOrphan
  BY DEF SettleOrphan, HandlerInv
<1>22. CASE UNCHANGED vars
  BY <1>2, <1>3, <1>4, <1>22 DEF vars
<1> QED
  BY <1>6, <1>7, <1>8, <1>9, <1>10, <1>11, <1>12, <1>13, <1>14, <1>15, <1>16, <1>17, <1>18, <1>19,
     <1>20, <1>21, <1>22 DEF Next, RunnerStep

(* When a connector of a direct kind that never stopped has nothing left to *)
(* do and gave up on nothing, the source shows the event as it is, in every *)
(* order of edits, claims, crashes and recoveries.  Publishing an event     *)
(* again is left out: RepublishExported shows what the code does then.      *)
THEOREM Converges ==
  ASSUME "publish" \notin Writes
  PROVE  Spec => []InSync
<1> DEFINE Inv == Direct => DeletesHidden /\ SyncInv
<1>1. Init => Inv
  <2> SUFFICES ASSUME Init PROVE Inv
    OBVIOUS
  <2>1. DeletesHidden
    BY DEF Init, DeletesHidden, Open, InState, Absent
  <2>2. connector.active /\ connector.reconcile /\ link.state = "none"
        /\ \A r \in Runner : ~Held(r)
    BY DEF Init, Held
  <2> QED BY <2>1, <2>2 DEF SyncInv, ReportsFit, RetractedGone, WorkLeft
<1>2. HandlersInv /\ Inv /\ [Next]_vars => Inv'
  BY DirectStays, SyncStep DEF HandlersInv
<1>3. Inv => InSync
  <2> SUFFICES ASSUME Inv, Direct, pauses = 0, ~connector.reconcile, Unfinished = {},
                      InState(jobs, "failed") = {}
               PROVE  IF event.public
                        THEN /\ link = [state |-> "linked", exported |-> event.version]
                             /\ remote = [live |-> TRUE, version |-> event.version]
                        ELSE /\ link.state # "linked"
                             /\ link.state = "vrdex_retracted" => ~remote.live
    BY DEF InSync
  <2>1. RetractedGone /\ WorkLeft
    BY DEF SyncInv
  <2>2. ~GivenUp(jobs) /\ Open(jobs) = {}
    BY DEF GivenUp, Open, Unfinished
  <2> QED BY <2>1, <2>2 DEF RetractedGone, WorkLeft, UpToDate
<1> HIDE DEF Inv
<1> QED BY <1>1, <1>2, <1>3, HandlersInvHolds, PTL DEF Spec
=============================================================================
