----------------------- MODULE ClubOperationsPromise -----------------------
(***************************************************************************)
(* The club operation queue implements ClubPromise, proved for every set   *)
(* of workers and operations and every value of the durations and bounds:  *)
(* under the mapping of ClubOperations, every step of the queue takes each *)
(* action at most one step of the promise.                                 *)
(***************************************************************************)
EXTENDS ClubOperationsOutcomes

row == [o \in Op |-> PromiseOf(o)]

(* What a step may do to one action: nothing, or one step of the promise.   *)
Promised(o) == \/ row'[o] = row[o]
               \/ Promise!Plan(o) \/ Promise!Replan(o) \/ Promise!Drop(o)
               \/ Promise!Commit(o) \/ Promise!Send(o) \/ Promise!Answer(o)

-----------------------------------------------------------------------------
(* The promise is a table over all the actions, now and after.              *)
LEMMA RowOf == /\ \A o \in Op : row[o] = PromiseOf(o) /\ row'[o] = PromiseOf(o)'
               /\ DOMAIN row' = Op
  BY DEF row

(* The stages that the states of a row stand for.                           *)
LEMMA Stages ==
  ASSUME NEW o \in Op
  PROVE  /\ ops[o].state = "absent" => row[o].stage = "none"
         /\ ops[o].state \in Unsent => row[o].stage = "planned"
         /\ ops[o].state = "submitted" => row[o].stage = "committed"
         /\ ops[o].state \in Settled => row[o].stage = ops[o].state
         /\ row[o].revision = ops[o].revision
         /\ row[o].reviewed = ops[o].dependencyRevision
         /\ row[o].writes = writes[o] /\ row[o].effects = effects[o]
<1>1. row[o] = PromiseOf(o)
  BY RowOf
<1> QED BY <1>1, States DEF PromiseOf

(* Stages again, of the next state.                                         *)
LEMMA StagesNext ==
  ASSUME NEW o \in Op
  PROVE  /\ ops'[o].state \in Unsent => row'[o].stage = "planned"
         /\ ops'[o].state = "submitted" => row'[o].stage = "committed"
         /\ ops'[o].state \in Settled => row'[o].stage = ops'[o].state
<1>1. row'[o] = PromiseOf(o)'
  BY RowOf
<1> QED BY <1>1, States DEF PromiseOf

(* What becomes of an action whose plan and whose record of the provider    *)
(* stay: at most its stage changes.                                         *)
LEMMA StageOnly ==
  ASSUME NEW o \in Op, ops'[o].revision = ops[o].revision,
         ops'[o].dependencyRevision = ops[o].dependencyRevision,
         UNCHANGED <<writes, effects>>
  PROVE  row'[o] = [row[o] EXCEPT !.stage = row'[o].stage]
<1>1. row[o] = PromiseOf(o) /\ row'[o] = PromiseOf(o)'
  BY RowOf
<1> QED BY <1>1 DEF PromiseOf

(* An action that nothing happens to stays where it stands.                 *)
LEMMA StaysPut ==
  ASSUME NEW o \in Op, ops'[o] = ops[o], UNCHANGED <<writes, effects>>
  PROVE  Promised(o)
  BY RowOf DEF PromiseOf, Promised

-----------------------------------------------------------------------------
(* enqueue and edit plan.                                                   *)
LEMMA PlanStep ==
  ASSUME OutcomeInv, NEW o \in Op, Planned(o, ops'[o]), UNCHANGED <<writes, effects>>
  PROVE  Promised(o)
<1>1. /\ Inv /\ ops[o] \in Operation /\ RowMatches(ops[o])
      /\ ops'[o].state = "pending" /\ ops[o].state \in {"absent", "pending"}
  BY DEF OutcomeInv, Inv, SendInv, StateMatches, TypeInv, TypeOK, Planned
<1>2. row'[o] = [stage |-> "planned", revision |-> ops'[o].revision,
                 reviewed |-> ops'[o].dependencyRevision,
                 writes |-> writes[o], effects |-> effects[o]]
  BY <1>1, RowOf, States DEF PromiseOf
<1>3. CASE ops[o].state = "absent"
  <2>1. writes[o] = 0 /\ effects[o] = 0
    BY <1>1, <1>3, UnsentRow DEF Inv, SendInv, UnsentUntouched, Untouched
  <2>2. ops'[o].revision = 1 /\ ops'[o].dependencyRevision = CreationOf(o, ops).revision
    BY <1>3 DEF Planned
  <2>3. CreationOf(o, ops).revision = IF Creation[o] = NoOp THEN 0 ELSE row[Creation[o]].revision
    BY Stages, OperationsAssumption DEF CreationOf, Absent
  <2> DEFINE reviewed == IF Creation[o] = NoOp THEN 0 ELSE row[Creation[o]].revision
  <2>4. row[o].stage = "none"
    BY <1>3, Stages
  <2>5. row'[o] = [stage |-> "planned", revision |-> 1, reviewed |-> reviewed,
                   writes |-> 0, effects |-> 0]
    BY <1>2, <2>1, <2>2, <2>3
  <2>6. Promise!Plan(o)
    BY <2>4, <2>5 DEF Promise!Plan, row
  <2> QED BY <2>6 DEF Promised
<1>4. CASE ops[o].state = "pending"
  <2>1. /\ ops'[o].revision = ops[o].revision + 1
        /\ ops'[o].dependencyRevision = ops[o].dependencyRevision
    BY <1>4 DEF Planned
  <2>2. row[o] = [stage |-> "planned", revision |-> ops[o].revision,
                  reviewed |-> ops[o].dependencyRevision,
                  writes |-> writes[o], effects |-> effects[o]]
    BY <1>4, RowOf, States DEF PromiseOf
  <2>3. Promise!Replan(o)
    BY <1>2, <2>1, <2>2 DEF Promise!Replan, row
  <2> QED BY <2>3 DEF Promised
<1> QED BY <1>1, <1>3, <1>4

(* Whatever is quiet leaves an action at its stage, drops it before it was  *)
(* committed to, or gives up on the answer.                                 *)
LEMMA KeptStep ==
  ASSUME OutcomeInv, NEW o \in Op, Kept(ops[o], ops'[o]), QuietRow(ops[o], ops'[o]),
         UNCHANGED <<writes, effects>>
  PROVE  Promised(o)
<1>1. ops[o] \in Operation /\ RowMatches(ops[o])
  BY DEF OutcomeInv, Inv, SendInv, StateMatches, TypeInv, TypeOK
<1>2. row'[o] = [row[o] EXCEPT !.stage = row'[o].stage]
  BY StageOnly DEF Kept
<1>3. row[o] = [row[o] EXCEPT !.stage = row[o].stage]
  <2>1. row[o] = PromiseOf(o)
    BY RowOf
  <2> QED BY <2>1 DEF PromiseOf
<1>4. row'[o].stage = row[o].stage => Promised(o)
  BY <1>2, <1>3 DEF Promised
<1>5. CASE ops[o].state \in Settled \cup {"absent"}
  BY <1>5, StaysPut DEF Kept
<1>6. CASE ops[o].state \in Unsent
  <2>1. ops'[o].state \in Unsent \cup {"cancelled", "missed", "rejected"}
    BY <1>6, States DEF QuietRow, Open
  <2>2. CASE ops'[o].state \in Unsent
    BY <1>4, <1>6, <2>2, Stages, StagesNext
  <2>3. CASE ops'[o].state \in {"cancelled", "missed", "rejected"}
    <3>1. row[o].stage = "planned" /\ row'[o].stage = ops'[o].state
      BY <1>6, <2>3, Stages, StagesNext, States
    <3>2. Promise!Becomes(o, "planned", ops'[o].state)
      BY <1>2, <3>1 DEF Promise!Becomes, row
    <3>3. Promise!Drop(o)
      BY <2>3, <3>2 DEF Promise!Drop
    <3> QED BY <3>3 DEF Promised
  <2> QED BY <2>1, <2>2, <2>3
<1>7. CASE ops[o].state = "submitted"
  <2>1. ops'[o].state \in {"submitted", "indeterminate"}
    BY <1>1, <1>7 DEF QuietRow, RowMatches, Sent
  <2>2. CASE ops'[o].state = "submitted"
    BY <1>4, <1>7, <2>2, Stages, StagesNext
  <2>3. CASE ops'[o].state = "indeterminate"
    <3>1. row[o].stage = "committed" /\ row'[o].stage = "indeterminate"
      BY <1>7, <2>3, Stages, StagesNext, States
    <3>2. Promise!Answer(o)
      BY <1>2, <3>1 DEF Promise!Answer, Promise!Becomes, row
    <3> QED BY <3>2 DEF Promised
  <2> QED BY <2>1, <2>2, <2>3
<1> QED BY <1>1, <1>5, <1>6, <1>7 DEF Operation, State

(* The authorization commits to one action and leaves the others.           *)
LEMMA GrantStep ==
  ASSUME OutcomeInv, NEW w \in Worker, NEW o \in Op, Grant(w, o), UNCHANGED <<writes, effects>>,
         NEW p \in Op
  PROVE  Promised(p)
<1> DEFINE q == [ops[o] EXCEPT !.state = "submitted", !.submitted = TRUE,
                               !.claim.expiresAt = now + SubmitTime]
<1>1. TypeOK /\ ops[o] \in Operation
  BY DEF OutcomeInv, Inv, TypeInv, TypeOK
<1>2. \A r \in Op : ops'[r] = IF r = o THEN q ELSE ops[r]
  BY <1>1 DEF Grant, TypeOK
<1>3. CASE p # o
  BY <1>2, <1>3, StaysPut
<1>4. CASE p = o
  <2>1. /\ q.state = "submitted" /\ q.revision = ops[o].revision
        /\ q.dependencyRevision = ops[o].dependencyRevision
    BY <1>1 DEF Operation
  <2> HIDE DEF q
  <2>2. row'[o] = [row[o] EXCEPT !.stage = row'[o].stage]
    BY <1>2, <2>1, StageOnly
  <2>3. ops[o].state = "claimed"
    BY DEF Grant, Held
  <2>4. row[o].stage = "planned" /\ row'[o].stage = "committed"
    BY <1>2, <2>1, <2>3, Stages, StagesNext, States
  <2>5. Promise!Becomes(o, "planned", "committed")
    BY <2>2, <2>4 DEF Promise!Becomes, row
  <2>6. Creation[o] # NoOp => /\ row[Creation[o]].stage = "succeeded"
                              /\ row[Creation[o]].revision = row[o].reviewed
    <3>1. ASSUME Creation[o] # NoOp
          PROVE  /\ Creation[o] \in Op /\ ops[Creation[o]].state = "succeeded"
                 /\ ops[Creation[o]].revision = ops[o].dependencyRevision
      BY <3>1, GrantReads, OperationsAssumption DEF OutcomeInv
    <3> QED BY <3>1, Stages, States
  <2>7. Promise!Commit(o)
    BY <2>5, <2>6 DEF Promise!Commit, row
  <2> QED BY <1>4, <2>7 DEF Promised
<1> QED BY <1>3, <1>4

(* A worker's report answers what it is about, truly, and nothing else.     *)
LEMMA CompleteStep ==
  ASSUME OutcomeInv, NEW r \in reports, Complete(r), NEW p \in Op
  PROVE  Promised(p)
<1>1. /\ Inv /\ r.op \in Op /\ ops[r.op].state = "submitted" /\ UNCHANGED <<writes, effects>>
      /\ ops'[r.op] = Settle(ops[r.op], r.status)
      /\ \A o \in Op : o # r.op => ops'[o] = ops[o]
  BY AnswerRows DEF OutcomeInv
<1>2. CASE p # r.op
  BY <1>1, <1>2, StaysPut
<1>3. CASE p = r.op
  <2>1. ops[p] \in Operation /\ r.status \in Status
    BY <1>1 DEF Inv, TypeInv, TypeOK, Report
  <2>2. /\ ops'[p].state = r.status /\ ops'[p].revision = ops[p].revision
        /\ ops'[p].dependencyRevision = ops[p].dependencyRevision
    BY <1>1, <1>3, <2>1 DEF Settle, Operation
  <2>3. row'[p] = [row[p] EXCEPT !.stage = row'[p].stage]
    BY <1>1, <2>2, StageOnly
  <2>4. row[p].stage = "committed" /\ row'[p].stage = r.status /\ row[p].effects = effects[p]
    BY <1>1, <1>3, <2>1, <2>2, Stages, StagesNext, States
  <2>5. /\ r.status = "succeeded" => effects[p] = 1
        /\ r.status = "rejected" => effects[p] = 0
    BY <1>1, <1>3 DEF Inv, SendInv, ReportsTrue
  <2>6. Promise!Answer(p)
    BY <2>1, <2>3, <2>4, <2>5 DEF Status, Promise!Answer, Promise!Becomes, row
  <2> QED BY <2>6 DEF Promised
<1> QED BY <1>2, <1>3

(* The one request of an action that was committed to.                      *)
LEMMA WriteStep ==
  ASSUME OutcomeInv, NEW w \in Worker, ProviderWrite(w), NEW p \in Op
  PROVE  Promised(p)
<1> DEFINE o == worker[w].op
<1>1. /\ TypeOK /\ o \in Op /\ Authorized(w, o) /\ UNCHANGED ops
  BY DEF OutcomeInv, Inv, TypeInv, Busy, TypeOK, ProviderWrite, Authorized
<1>2. PICK answer \in Answers :
        /\ writes' = [writes EXCEPT ![o] = @ + 1]
        /\ effects' = [effects EXCEPT ![o] = @ + (IF answer.applied THEN 1 ELSE 0)]
  BY DEF ProviderWrite
<1> HIDE DEF o
<1>3. CASE p # o
  <2>1. writes'[p] = writes[p] /\ effects'[p] = effects[p]
    BY <1>1, <1>2, <1>3 DEF TypeOK
  <2> QED BY <1>1, <2>1, RowOf DEF PromiseOf, Promised
<1>4. CASE p = o
  <2>1. /\ ops[o].state \in {"submitted", "indeterminate"}
        /\ writes[o] = 0 /\ effects[o] = 0
    BY <1>1 DEF OutcomeInv, Inv, SendInv, AuthorizedOnce, Untouched
  <2>2. writes'[o] = 1 /\ effects'[o] \in {0, 1}
    BY <1>1, <1>2, <2>1 DEF TypeOK
  <2>3. row'[o] = [row[o] EXCEPT !.writes = 1, !.effects = effects'[o]]
    <3>1. row[p] = PromiseOf(p) /\ row'[p] = PromiseOf(p)'
      BY RowOf
    <3>2. row'[p] = [stage |-> row[p].stage, revision |-> row[p].revision,
                     reviewed |-> row[p].reviewed,
                     writes |-> 1, effects |-> effects'[p]]
      BY <1>1, <1>4, <2>2, <3>1 DEF PromiseOf
    <3> DEFINE sent == [row[p] EXCEPT !.writes = 1]
    <3>3. sent = [stage |-> row[p].stage, revision |-> row[p].revision,
                  reviewed |-> row[p].reviewed, writes |-> 1, effects |-> row[p].effects]
      BY <3>1 DEF PromiseOf
    <3> HIDE DEF sent
    <3>4. [sent EXCEPT !.effects = effects'[p]] = row'[p]
      BY <3>2, <3>3
    <3> QED BY <1>4, <3>4 DEF sent
  <2>4. row[o].stage \in {"committed", "indeterminate"} /\ row[o].writes = 0
    BY <1>1, <2>1, Stages, States
  <2>5. Promise!Send(o)
    BY <2>2, <2>3, <2>4 DEF Promise!Send, row
  <2> QED BY <1>4, <2>5 DEF Promised
<1> QED BY <1>3, <1>4

-----------------------------------------------------------------------------
(* The queue starts with nothing planned and nothing written.               *)
LEMMA PromiseInit == Init => Promise!Init
  BY DEF Init, Absent, PromiseOf, Promise!Init, Promise!New

(* Every step of the queue is one of the promise for every action.          *)
LEMMA PromiseNext ==
  ASSUME OutcomeInv, RowsMove, Next, NEW p \in Op
  PROVE  Promised(p)
<1>1. Inv
  BY DEF OutcomeInv
<1>2. CASE UNCHANGED <<writes, effects>> /\ QuietRows
  <2>1. QuietRow(ops[p], ops'[p])
    BY <1>2 DEF QuietRows
  <2>2. Kept(ops[p], ops'[p]) \/ Planned(p, ops'[p])
    BY DEF RowsMove
  <2> QED BY <1>2, <2>1, <2>2, KeptStep, PlanStep
<1> QED BY <1>1, <1>2, Turns, GrantStep, CompleteStep, WriteStep

(* The queue implements ClubPromise: whatever the workers, the crons, the   *)
(* pages and the late reports do, each action is planned until it is        *)
(* committed to once, written at most once, and settled finally and truly.  *)
THEOREM Implements == Spec => KeepsPromise
<1>1. OutcomeInv /\ [Next]_vars => [Promise!Next]_row
  <2>1. ASSUME OutcomeInv, Next
        PROVE  Promise!Next
    <3>1. RowsMove
      BY <2>1, OutcomeNext
    <3>2. \A p \in Op : Promised(p)
      BY <2>1, <3>1, PromiseNext
    <3> QED BY <3>2, RowOf DEF Promise!Next, Promised, row
  <2>2. UNCHANGED vars => UNCHANGED row
    BY DEF vars, operationVars, row, PromiseOf
  <2> QED BY <2>1, <2>2
<1> QED BY PromiseInit, Outcomes, <1>1, PTL DEF Spec, KeepsPromise, Promise!Spec, row
=============================================================================
