-------------------------- MODULE BroadcastControl --------------------------
(***************************************************************************)
(* What goes on air in one broadcast session: staff's takes and cuts as    *)
(* operations with a pinned target (src/convex/_eventBroadcastControl.ts), *)
(* and the worker that prepares, shows and confirms them                   *)
(* (src/workers/restream/operator-control.mjs, event-worker.mjs).          *)
(*                                                                         *)
(* Every action is one Convex transaction, one callback or synchronous     *)
(* step of the worker, one encoded frame of another picture, a deadline,   *)
(* or the loss of an answer.                                               *)
(***************************************************************************)
EXTENDS Integers, FiniteSets

CONSTANTS Source,     \* eventMediaSources of the program
          Projected,  \* those that follow the broadcast link of a profile
          Slate,      \* the hold picture
          Automatic,  \* the schedule decides
          MaxSeq,     \* bound on command sequence numbers
          MaxDisturbances  \* bound on profile edits, lost requests and answers

ASSUME ControlAssumption ==
  /\ IsFiniteSet(Source) /\ Projected \subseteq Source
  /\ MaxSeq \in Nat /\ MaxDisturbances \in Nat

VARIABLES source,    \* source rows, and what the profile offers of them
          command,   \* eventMediaCommands with a control target, by sequence
          last,      \* the last sequence number given out
          pending,   \* session.pendingControlCommandId, 0 for none
          intent, intentSeq,  \* committedIntent, intentSequence
          record,    \* the picture the session's row says is on air
          open,      \* the session is neither stopping nor over
          tick,      \* where the worker's tick is, with the answer it waits for
          worker,    \* state of createOperatorControl
          enc,       \* the picture in the encoded output
          disturbances

rows == <<source, command, last, pending, intent, intentSeq, record, open>>
vars == <<rows, tick, worker, enc, disturbances>>

Seq == 1..MaxSeq
Item == [source : Source, rev : 1..MaxDisturbances + 1]
Picture == Item \cup {Slate}
Intent == Picture \cup {Automatic}

ASSUME PictureAssumption == Slate \notin Item /\ Automatic \notin Picture

(* auto: the target of "back to automatic".  A slate that is not is a cut   *)
(* or a hold with nothing on air.                                           *)
Target == [show : Picture, auto : BOOLEAN]
IntentFor(target) == IF target.auto THEN Automatic ELSE target.show
OffAir == [show |-> Slate, auto |-> FALSE]

(* stored: projectionAvailable; without it no link is stored.  offer: what  *)
(* the profile offers, no link, the stored one or another one.              *)
Offer == {"none", "same", "other"}
Row == [offer : Offer, stored : BOOLEAN, rev : 1..MaxDisturbances + 1, removed : BOOLEAN]
(* Of a removed row nothing else is read again.                             *)
Gone == [offer |-> "none", stored |-> FALSE, rev |-> 1, removed |-> TRUE]

(* refused: failed, cancelled or superseded, which the worker takes alike.  *)
Command == [outcome : {"absent", "open", "ok", "ended", "refused"}, target : Target,
            phase : {"preparing", "promoting"}, prior : 0..MaxSeq, begun : BOOLEAN]
NoCommand == [outcome |-> "absent", target |-> OffAir, phase |-> "preparing", prior |-> 0,
              begun |-> FALSE]

(* ack: the frozen acknowledgement.                                         *)
Ack == [how : {"none", "failed", "shown"}, picture : Picture]
NoAck == [how |-> "none", picture |-> Slate]
Operation == [seq : 0..MaxSeq, target : Target, begun : BOOLEAN, promoted : BOOLEAN,
              late : BOOLEAN, ack : Ack]
NoOp == [seq |-> 0, target |-> OffAir, begun |-> FALSE, promoted |-> FALSE,
         late |-> FALSE, ack |-> NoAck]
Request == [kind : {"begin", "promote", "ack"}, seq : Seq, ack : Ack]
Answer == {"ok", "fenced", "refused"}

(* rpc: the operation's request; seen: the picture when it was sent.        *)
Rpc == [at : {"none", "sent", "ok", "refused"}, kind : {"begin", "promote", "ack"}, seen : Picture]
NoRpc == [at |-> "none", kind |-> "begin", seen |-> Slate]
Worker == [items : SUBSET Item, intent : Intent, seq : -1..MaxSeq, cur : Picture, sel : Picture,
           op : Operation, rpc : Rpc, adrift : SUBSET Request, done : SUBSET Seq]
NoWorker == [items |-> {}, intent |-> Automatic, seq |-> -1, cur |-> Slate, sel |-> Slate,
             op |-> NoOp, rpc |-> NoRpc, adrift |-> {}, done |-> {}]

(* off: not started; configured: the answer of refreshConfiguration is on   *)
(* its way.                                                                 *)
Configuration == [pc : {"configured"}, items : SUBSET Item, intent : Intent, seq : 0..MaxSeq,
                  pending : 0..MaxSeq, promoting : BOOLEAN]
At(pc) == [pc |-> pc]
Tick == {At(pc) : pc \in {"off", "idle", "gone"}} \cup Configuration
Alive == tick.pc \notin {"off", "gone"}

TypeOK ==
  /\ source \in [Source -> Row]
  /\ command \in [Seq -> Command]
  /\ last \in 0..MaxSeq /\ pending \in 0..MaxSeq
  /\ intent \in Intent /\ intentSeq \in 0..MaxSeq /\ record \in Picture
  /\ open \in BOOLEAN
  /\ tick \in Tick /\ worker \in Worker /\ enc \in Picture
  /\ disturbances \in 0..MaxDisturbances

Init ==
  /\ source = [s \in Source |-> [offer |-> "same", stored |-> TRUE, rev |-> 1,
                            removed |-> FALSE]]
  /\ command = [c \in Seq |-> NoCommand]
  /\ last = 0 /\ pending = 0 /\ intent = Automatic /\ intentSeq = 0 /\ record = Slate
  /\ open = TRUE
  /\ tick = At("off") /\ worker = NoWorker /\ enc = Slate
  /\ disturbances = 0

Disturb == disturbances < MaxDisturbances /\ disturbances' = disturbances + 1
-----------------------------------------------------------------------------
(* Sources.                                                                 *)
Listed(sources) == {i \in Item : /\ sources[i.source].stored /\ ~sources[i.source].removed
                                 /\ sources[i.source].rev = i.rev}
(* eventMediaSourceProjectionAvailable wants the link that is stored.       *)
Available(picture) ==
  picture = Slate \/ (picture \in Listed(source) /\ source[picture.source].offer = "same")

(* Of a settled command only the outcome and the phase are read again.      *)
Settled(commands, c, how) ==
  [commands EXCEPT ![c] = [NoCommand EXCEPT !.outcome = how, !.phase = commands[c].phase]]
Superseded == IF pending = 0 THEN command ELSE Settled(command, pending, "refused")

(* The link disappears from the profile, comes back or is replaced.         *)
EditProfile ==
  /\ Disturb
  /\ \E s \in Projected, offer \in Offer :
       /\ ~source[s].removed
       /\ offer # source[s].offer /\ (offer = "same" => source[s].stored)
       /\ source' = [source EXCEPT ![s].offer = offer]
  /\ UNCHANGED <<command, last, pending, intent, intentSeq, record, open, tick, worker, enc>>

(* eventMediaSources.remove with disableSourceControl.                      *)
Shows(picture, s) == picture \in Item /\ picture.source = s
(* Mutant: the slate a removal commits keeps the old sequence number.       *)
MutRemoveUnnumbered ==
  /\ \E s \in Source :
       /\ ~source[s].removed
       /\ source' = [source EXCEPT ![s] = Gone]
       /\ IF open /\ (Shows(intent, s) \/ Shows(record, s)) THEN
            /\ command' = Superseded
            /\ pending' = 0 /\ intent' = Slate
          ELSE UNCHANGED <<command, pending, intent>>
  /\ UNCHANGED <<last, intentSeq, record, open, tick, worker, enc, disturbances>>

(* Mutant: the open operation whose target goes is left alone.              *)
MutRemoveSource ==
  /\ \E s \in Source :
       /\ ~source[s].removed
       /\ source' = [source EXCEPT ![s] = Gone]
       /\ IF open /\ (Shows(intent, s) \/ Shows(record, s)) THEN
            /\ last < MaxSeq /\ last' = last + 1
            /\ command' = Superseded
            /\ pending' = 0 /\ intent' = Slate /\ intentSeq' = last'
          ELSE UNCHANGED <<command, last, pending, intent, intentSeq>>
  /\ UNCHANGED <<record, open, tick, worker, enc, disturbances>>

RemoveSource ==
  /\ \E s \in Source :
       /\ ~source[s].removed
       /\ source' = [source EXCEPT ![s] = Gone]
       /\ IF ~open THEN UNCHANGED <<command, last, pending, intent, intentSeq>>
          ELSE IF Shows(intent, s) \/ Shows(record, s) THEN
            /\ last < MaxSeq /\ last' = last + 1
            /\ command' = Superseded
            /\ pending' = 0 /\ intent' = Slate /\ intentSeq' = last'
          ELSE IF pending # 0 /\ Shows(command[pending].target.show, s) THEN
            /\ command' = Settled(command, pending, "refused") /\ pending' = 0
            /\ UNCHANGED <<last, intent, intentSeq>>
          ELSE UNCHANGED <<command, last, pending, intent, intentSeq>>
  /\ UNCHANGED <<record, open, tick, worker, enc, disturbances>>
-----------------------------------------------------------------------------
(* Staff.                                                                   *)
Admitted(target, stage) ==
  [NoCommand EXCEPT !.outcome = "open", !.target = target, !.phase = stage, !.prior = intentSeq]

(* admitControlOperation.  The schedule decides which source next, previous *)
(* and automatic mean; "hold current" means the slate when none is on air.  *)
Operations == {t \in Target : Available(t.show) /\ (t = OffAir => record = Slate)}
Admit ==
  /\ open /\ last < MaxSeq /\ pending = 0
  /\ last' = last + 1
  /\ \E t \in Operations : command' = [command EXCEPT ![last'] = Admitted(t, "preparing")]
  /\ pending' = last'
  /\ UNCHANGED <<source, intent, intentSeq, record, open, tick, worker, enc, disturbances>>

(* Mutant: the operation the cut replaces is not superseded.                *)
MutCut ==
  /\ open /\ last < MaxSeq
  /\ last' = last + 1
  /\ command' = [command EXCEPT ![last'] = Admitted(OffAir, "promoting")]
  /\ pending' = last' /\ intent' = Slate /\ intentSeq' = last'
  /\ UNCHANGED <<source, record, open, tick, worker, enc, disturbances>>

Cut ==
  /\ open /\ last < MaxSeq
  /\ last' = last + 1
  /\ command' = [Superseded EXCEPT ![last'] = Admitted(OffAir, "promoting")]
  /\ pending' = last' /\ intent' = Slate /\ intentSeq' = last'
  /\ UNCHANGED <<source, record, open, tick, worker, enc, disturbances>>

Cancel ==
  /\ open /\ pending # 0 /\ command[pending].phase = "preparing"
  /\ command' = Settled(command, pending, "refused") /\ pending' = 0
  /\ UNCHANGED <<source, last, intent, intentSeq, record, open, tick, worker, enc, disturbances>>

(* stopEventMediaWorker, or the cancellation of the event.  From here on    *)
(* the worker is told to stop whatever it asks: how it does is the subject  *)
(* of BroadcastLaunch.                                                      *)
Close(how) ==
  /\ open /\ open' = FALSE
  /\ command' = IF pending = 0 THEN command ELSE Settled(command, pending, how)
  /\ pending' = 0
  /\ tick' = At("gone") /\ worker' = NoWorker /\ enc' = Slate
  /\ UNCHANGED <<source, last, intent, intentSeq, record, disturbances>>
StopSession == Close("refused")

(* The session is over: settleTerminalSessionCommands.                      *)
EndSession == Close("ended")
-----------------------------------------------------------------------------
(* Requests of the worker at the server; answer is what it sends back.      *)

(* controlFence and loadOperation: "found" lets the handler go on.          *)
Load(c) ==
  IF ~open THEN "fenced"
  ELSE IF \/ command[c].phase = "promoting" /\ intentSeq # c
          \/ command[c].outcome = "refused" THEN "refused"
  ELSE "found"

Decline(answer, how) == answer = how /\ UNCHANGED rows
Settle(c, answer) ==
  /\ answer = "refused" /\ command' = Settled(command, c, "refused") /\ pending' = 0
  /\ UNCHANGED <<source, last, intent, intentSeq, record, open>>

(* preparationExpiresAt may have passed once the preparation has begun.     *)
Expired(c) == IF command[c].begun THEN {"refused"} ELSE {}

(* checkPreparation: staff may have lost the role that let it ask.          *)
Checks(c) ==
  Expired(c) \cup
  IF command[c].phase = "preparing" /\ intentSeq # command[c].prior THEN {"refused"}
  ELSE IF ~Available(command[c].target.show) THEN {"refused"}
  ELSE IF command[c].phase = "preparing" THEN {"ok", "refused"}
  ELSE {"ok"}

HandleBegin(c, answer) ==
  \/ Load(c) # "found" /\ Decline(answer, Load(c))
  \/ Load(c) = "found" /\ pending # c /\ Decline(answer, "refused")
  \/ /\ Load(c) = "found" /\ pending = c
     /\ \/ "refused" \in Checks(c) /\ Settle(c, answer)
        \/ /\ "ok" \in Checks(c) /\ answer = "ok"
           /\ command' = [command EXCEPT ![c].begun = TRUE]
           /\ UNCHANGED <<source, last, pending, intent, intentSeq, record, open>>

(* Mutant: the intent is committed before the preparation is checked.       *)
MutHandlePromote(c, answer) ==
  \/ (Load(c) # "found" \/ pending # c) /\ Decline(answer, "refused")
  \/ /\ Load(c) = "found" /\ pending = c /\ command[c].begun
     /\ answer \in Checks(c)
     /\ command' = IF answer = "ok" THEN [command EXCEPT ![c].phase = "promoting"]
                   ELSE Settled(command, c, answer)
     /\ pending' = IF answer = "ok" THEN pending ELSE 0
     /\ intent' = IF command[c].phase = "preparing" THEN IntentFor(command[c].target)
                  ELSE intent
     /\ intentSeq' = c
     /\ UNCHANGED <<source, last, record, open>>

HandlePromote(c, answer) ==
  \/ Load(c) # "found" /\ Decline(answer, Load(c))
  \/ Load(c) = "found" /\ pending # c /\ Decline(answer, "refused")
  \/ /\ Load(c) = "found" /\ pending = c /\ command[c].begun
     /\ \/ "refused" \in Checks(c) /\ Settle(c, answer)
        \/ /\ "ok" \in Checks(c) /\ answer = "ok"
           /\ command' = [command EXCEPT ![c].phase = "promoting"]
           /\ intent' = IF command[c].phase = "preparing" THEN IntentFor(command[c].target)
                        ELSE intent
           /\ intentSeq' = c
           /\ UNCHANGED <<source, last, pending, record, open>>

(* coherentEvidence.  Evidence is never older than the record here, so the  *)
(* comparisons of outputMs are left out.                                    *)
Coherent(seq, picture) ==
  /\ seq = intentSeq /\ Available(picture)
  /\ picture # Slate => intent \in {Automatic, picture}

(* completeControlOperation.                                                *)
HandleAck(c, ack, answer) ==
  LET confirmed == /\ command[c].phase = "promoting" /\ command[c].begun
                   /\ Coherent(c, ack.picture) /\ ack.picture = command[c].target.show
  IN \/ Load(c) # "found" /\ Decline(answer, Load(c))
     \/ /\ Load(c) = "found" /\ pending # c
        /\ Decline(answer, IF command[c].outcome = "ok" THEN "ok" ELSE "refused")
     \/ /\ Load(c) = "found" /\ pending = c
        /\ \/ (ack.how = "failed" \/ "refused" \in Expired(c)) /\ Settle(c, answer)
           \/ ack.how = "shown" /\ ~confirmed /\ Decline(answer, "refused")
           \/ /\ ack.how = "shown" /\ confirmed
              /\ answer = "ok" /\ command' = Settled(command, c, "ok") /\ pending' = 0
              /\ record' = ack.picture
              /\ UNCHANGED <<source, last, intent, intentSeq, open>>

Handle(r, answer) ==
  \/ r.kind = "begin" /\ HandleBegin(r.seq, answer)
  \/ r.kind = "promote" /\ HandlePromote(r.seq, answer)
  \/ r.kind = "ack" /\ HandleAck(r.seq, r.ack, answer)
-----------------------------------------------------------------------------
(* The worker's own steps, as functions of its state w.                     *)
Sent(w) == [kind |-> w.rpc.kind, seq |-> w.op.seq,
            ack |-> IF w.rpc.kind = "ack" THEN w.op.ack ELSE NoAck]
Hold(w) == [w EXCEPT !.sel = Slate]
Send(w, kind, seen) == [w EXCEPT !.rpc = [at |-> "sent", kind |-> kind, seen |-> seen]]

(* An abandoned operation's request may still reach the server; nobody      *)
(* waits for the answer.                                                    *)
Abandon(w) ==
  [w EXCEPT !.op = NoOp, !.rpc = NoRpc,
            !.adrift = IF w.rpc.at = "sent" THEN @ \cup {Sent(w)} ELSE @]
Forget(w) == IF w.op = NoOp THEN w ELSE Abandon([w EXCEPT !.done = @ \cup {w.op.seq}])

(* inputs.reconcile and reconcileSources: only the current source and the   *)
(* one being prepared keep an input, and with it the selection.             *)
Keep(w, candidates) ==
  [w EXCEPT !.sel = IF @ \in ({w.cur} \cup candidates) \cap w.items THEN @ ELSE Slate]

InView(w, picture) == IF picture \in w.items THEN picture ELSE Slate
(* Mutant: the intent is taken without its number.                          *)
MutCommit(w, to, seq, shown) ==
  LET cur == IF to \in Item THEN InView(w, to) ELSE IF to = Slate THEN Slate ELSE shown
  IN  [w EXCEPT !.intent = to, !.cur = cur, !.sel = IF cur = Slate THEN Slate ELSE @]

Commit(w, to, seq, shown) ==
  LET cur == IF to \in Item THEN InView(w, to) ELSE IF to = Slate THEN Slate ELSE shown
  IN  IF seq < w.seq THEN w
      ELSE [w EXCEPT !.intent = to, !.seq = seq, !.cur = cur,
                     !.sel = IF cur = Slate THEN Slate ELSE @]

(* begin: a cut is shown before the server is asked.                        *)
Begin(w, c, target, promoting) ==
  LET taken == [Abandon(w) EXCEPT !.op = [NoOp EXCEPT !.seq = c, !.target = target,
                                                      !.promoted = promoting]]
  IN  IF c \in w.done \/ c <= w.op.seq \/ c < w.seq THEN w
      ELSE IF target = OffAir THEN Commit(taken, Slate, c, Slate)
      ELSE taken

Acknowledge(w, ack) == Send([w EXCEPT !.op.ack = IF @ = NoAck THEN ack ELSE @], "ack", Slate)

(* advanceOperation; seen is the encoded picture it looks at, ready says    *)
(* whether the target's input is.                                           *)
(* Mutant: the deadline is not looked at.                                   *)
MutAdvanceOperation(w, seen, ready) ==
  LET target == w.op.target
      shown == InView(w, target.show)
      now == IF w.op.promoted THEN Keep(Commit(w, IntentFor(target), w.op.seq, shown), {})
             ELSE Keep(w, {shown})
      selected == [now EXCEPT !.sel = IF ready THEN shown ELSE Slate]
  IN  IF w.rpc # NoRpc THEN now
      ELSE IF shown # target.show
        THEN Acknowledge(now, [how |-> "failed", picture |-> Slate])
      ELSE IF ~w.op.begun
        THEN Send(now, "begin", IF w.op.promoted THEN seen ELSE Slate)
      ELSE IF ~w.op.promoted
        THEN IF ready \/ shown = Slate THEN Send(now, "promote", Slate) ELSE now
      ELSE IF seen = shown THEN Acknowledge(selected, [how |-> "shown", picture |-> seen])
      ELSE selected

AdvanceOperation(w, seen, ready) ==
  LET target == w.op.target
      shown == InView(w, target.show)
      now == IF w.op.promoted THEN Keep(Commit(w, IntentFor(target), w.op.seq, shown), {})
             ELSE Keep(w, {shown})
      selected == [now EXCEPT !.sel = IF ready THEN shown ELSE Slate]
  IN  IF w.rpc # NoRpc THEN now
      ELSE IF w.op.late \/ shown # target.show
        THEN Acknowledge(now, [how |-> "failed", picture |-> Slate])
      ELSE IF ~w.op.begun
        THEN Send(now, "begin", IF w.op.promoted THEN seen ELSE Slate)
      ELSE IF ~w.op.promoted
        THEN IF ready \/ shown = Slate THEN Send(now, "promote", Slate) ELSE now
      ELSE IF seen = shown THEN Acknowledge(selected, [how |-> "shown", picture |-> seen])
      ELSE selected

(* Mutant: a committed slate is filled like a gap in the schedule.          *)
MutUnpiloted(w) ==
  LET stays == {[w EXCEPT !.cur = s, !.sel = s] : s \in {Slate, InView(w, w.intent)}}
      switches == {[w EXCEPT !.cur = i, !.sel = i] : i \in w.items}
  IN  IF w.intent \notin Item THEN stays \cup switches ELSE stays

(* automatic: decideHandoff keeps, holds or switches, as the clock, the     *)
(* schedule and the inputs' health have it.                                 *)
Unpiloted(w) ==
  LET cur == IF w.intent = Automatic
               THEN IF \E i \in w.items : w.cur \in Item /\ i.source = w.cur.source
                      THEN CHOOSE i \in w.items : i.source = w.cur.source ELSE Slate
             ELSE InView(w, w.intent)
      stays == {[w EXCEPT !.cur = cur, !.sel = s] : s \in {Slate, cur}}
      switches == {[w EXCEPT !.cur = i, !.sel = i] : i \in w.items}
  IN  IF w.intent = Automatic THEN stays \cup switches ELSE stays

(* Mutant: the next intent is left to the operation that brings it.         *)
MutConfigured(w, cfg) ==
  LET viewed == [w EXCEPT !.items = cfg.items]
      named == IF viewed.op.seq # cfg.pending THEN Forget(viewed) ELSE viewed
  IN  IF cfg.seq <= w.seq + 1 THEN named
      ELSE Commit(Forget(viewed), cfg.intent, cfg.seq, Slate)

(* applyConfiguration.                                                      *)
Configured(w, cfg) ==
  LET viewed == [w EXCEPT !.items = cfg.items]
      same == w.op.seq = cfg.seq /\ cfg.pending = cfg.seq /\ cfg.promoting
      newer ==
        IF cfg.seq <= w.seq THEN viewed
        ELSE IF w.op # NoOp /\ same
          THEN [Commit(viewed, cfg.intent, cfg.seq, InView(viewed, viewed.op.target.show))
                  EXCEPT !.op.promoted = TRUE]
        ELSE Commit(Forget(viewed), cfg.intent, cfg.seq, Slate)
      named == IF newer.op.seq # cfg.pending THEN Forget(newer) ELSE newer
      manual == [named EXCEPT !.cur = InView(named, named.intent),
                              !.sel = IF InView(named, named.intent) = Slate THEN Slate ELSE @]
  IN  IF cfg.seq < w.seq THEN w
      ELSE IF named.intent \in Item THEN manual
      ELSE IF named.intent = Slate THEN Hold(named)
      ELSE named
-----------------------------------------------------------------------------
(* The worker's tick.                                                       *)
TickTo(to) == /\ tick' = to
              /\ UNCHANGED <<disturbances>>
Promoting == pending # 0 /\ command[pending].phase = "promoting"

(* acquireSession (at the start) and refreshConfiguration: both bring the   *)
(* projected rows up to date.                                               *)
UpToDate(row) == row.offer = IF row.stored THEN "same" ELSE "none"
Taken(row) == [row EXCEPT !.offer = IF @ = "none" THEN "none" ELSE "same",
                          !.stored = (row.offer # "none"), !.rev = @ + 1]
(* Mutant: every pass gives the row a new revision.                         *)
MutReconciled == [s \in Source |-> Taken(source[s])]
Reconciled == [s \in Source |-> IF UpToDate(source[s]) THEN source[s] ELSE Taken(source[s])]
Refresh ==
  /\ tick.pc \in {"off", "idle"} /\ open
  /\ source' = Reconciled
  /\ TickTo([pc |-> "configured", items |-> Listed(Reconciled), intent |-> intent,
             seq |-> intentSeq, pending |-> pending, promoting |-> Promoting])
  /\ UNCHANGED <<command, last, pending, intent, intentSeq, record, open, worker, enc>>

(* applyConfiguration, claimCommands and advance.  The server reads rows    *)
(* that the worker's steps around it do not touch, so the three are one.    *)
Advance ==
  /\ tick.pc = "configured" /\ open
  /\ LET applied == Configured(worker, tick)
         w == IF pending = 0 THEN applied
              ELSE Begin(applied, pending, command[pending].target, Promoting)
     IN  IF w.op = NoOp THEN worker' \in Unpiloted(w)
         ELSE \E ready \in BOOLEAN : worker' = AdvanceOperation(w, enc, ready)
  /\ TickTo(At("idle"))
  /\ UNCHANGED <<rows, enc>>

(* report and observeProgram: nothing while an operation is open, nor a     *)
(* source that is not the current one.                                      *)
Observe ==
  /\ tick.pc = "idle" /\ worker.op = NoOp /\ enc \in {Slate, worker.cur}
  /\ Coherent(worker.seq, enc) /\ pending = 0
  /\ record' = enc
  /\ UNCHANGED <<source, command, last, pending, intent, intentSeq, open, tick, worker, enc,
                 disturbances>>

(* A lease, a deadline or a failed request ends the worker at any time; a   *)
(* session that is not open answers with a fence or a stop.                 *)
Fence ==
  /\ Alive
  /\ tick' = At("gone") /\ worker' = [NoWorker EXCEPT !.adrift = worker.adrift]
  /\ enc' = Slate
  /\ UNCHANGED <<rows, disturbances>>

Encode ==
  /\ Alive /\ enc # worker.sel /\ enc' = worker.sel
  /\ UNCHANGED <<rows, tick, worker, disturbances>>
-----------------------------------------------------------------------------
(* The operation's request: delivered, answered, lost.                      *)
Deliver ==
  /\ worker.rpc.at = "sent"
  /\ \E answer \in Answer :
       /\ Handle(Sent(worker), answer)
       /\ worker' = [worker EXCEPT !.rpc.at = IF answer = "ok" THEN "ok" ELSE "refused"]
  /\ UNCHANGED <<tick, enc, disturbances>>

(* The promise's continuation in rpc.  Any answer but ok settles.           *)
Receive ==
  /\ worker.rpc.at \in {"ok", "refused"}
  /\ LET w == [worker EXCEPT !.rpc = NoRpc]
         shown == InView(w, w.op.target.show)
         promoted == Commit([w EXCEPT !.op.promoted = TRUE], IntentFor(w.op.target), w.op.seq,
                            shown)
     IN  \/ /\ worker.rpc.at = "refused" \/ worker.rpc.kind = "ack"
            /\ worker' = Keep(Forget(w), {})
         \/ /\ worker.rpc.at = "ok" /\ worker.rpc.kind = "begin"
            /\ \E ready \in BOOLEAN :
                 worker' = AdvanceOperation([w EXCEPT !.op.begun = TRUE], worker.rpc.seen, ready)
         \/ /\ worker.rpc.at = "ok" /\ worker.rpc.kind = "promote"
            /\ \E picture \in IF w.op.late THEN {Slate} ELSE {shown, Slate} :
                 worker' = [promoted EXCEPT !.sel = picture]
  /\ UNCHANGED <<rows, tick, enc, disturbances>>

(* The request or the answer is lost and the worker asks again; the request *)
(* may still arrive.                                                        *)
TimeOut ==
  /\ Disturb /\ worker.rpc # NoRpc
  /\ worker' = [worker EXCEPT !.rpc = NoRpc,
                  !.adrift = IF worker.rpc.at = "sent" THEN @ \cup {Sent(worker)} ELSE @]
  /\ UNCHANGED <<rows, tick, enc>>

DeliverLate ==
  /\ \E r \in worker.adrift, answer \in Answer :
       Handle(r, answer) /\ worker' = [worker EXCEPT !.adrift = @ \ {r}]
  /\ UNCHANGED <<tick, enc, disturbances>>

(* The worker's own deadline for the operation, which it looks at only when *)
(* no request is out.                                                       *)
Lapse ==
  /\ worker.op # NoOp /\ ~worker.op.late
  /\ worker.rpc.at = "none" \/ (worker.rpc.at = "ok" /\ worker.rpc.kind # "ack")
  /\ worker' = [worker EXCEPT !.op.late = TRUE]
  /\ UNCHANGED <<rows, tick, enc, disturbances>>
-----------------------------------------------------------------------------
Next ==
  \/ EditProfile \/ RemoveSource
  \/ Admit \/ Cut \/ Cancel \/ StopSession \/ EndSession
  \/ Refresh \/ Advance \/ Observe \/ Fence \/ Encode
  \/ Deliver \/ Receive \/ TimeOut \/ DeliverLate \/ Lapse

Spec == Init /\ [][Next]_vars

(* The worker's tick repeats every second, requests are answered and        *)
(* deadlines pass; a session without a worker is ended by the bridge.       *)
Turns == tick.pc = "configured" /\ tick' = At("idle")
Answers == /\ worker.rpc.at = "sent"
           /\ \E at \in {"ok", "refused"} : worker' = [worker EXCEPT !.rpc.at = at]
Fairness ==
  /\ WF_tick(Refresh /\ Alive) /\ WF_tick(Turns)
  /\ WF_worker(Answers) /\ WF_worker(Receive) /\ WF_worker(Lapse)
  /\ WF_open(tick.pc = "gone" /\ EndSession)
LiveSpec == Spec /\ Fairness
-----------------------------------------------------------------------------
(* Properties.                                                              *)

(* The session of an open broadcast names the one command that is still     *)
(* open, whatever cuts, cancels, removals and late requests came between:   *)
(* no command is left open behind the session's back and none is settled    *)
(* while the session still waits for it.                                    *)
PendingIsOpen == open => \A c \in Seq : pending = c <=> command[c].outcome = "open"

(* A take that failed, was cancelled or was superseded before it was        *)
(* promoted never becomes the committed intent, not even through a request  *)
(* that arrives after the worker gave it up.                                *)
RefusedNeverCommits ==
  \A c \in Seq : command[c].outcome = "refused" /\ command[c].phase = "preparing" => intentSeq # c

(* Worker and session that stand at one sequence number mean the same       *)
(* intent.  The worker is ahead only with the slate of a cut or of a hold   *)
(* with nothing on air, which it shows before it asks; that it does not     *)
(* come back from the latter is what IntentReachesWorker is about.          *)
SameIntent ==
  Alive => /\ worker.seq = intentSeq => worker.intent = intent
           /\ worker.seq > intentSeq => worker.intent = Slate /\ worker.sel = Slate

(* With no operation open, a worker at the session's sequence number        *)
(* selects what the session committed or holds; no stale revision and no    *)
(* source of an earlier intent stays selected.                              *)
ShowsIntent ==
  Alive /\ worker.seq = intentSeq /\ worker.op = NoOp /\ intent # Automatic
    => worker.sel \in {intent, Slate}

(* An operation the server confirmed and nothing replaced was taken in by   *)
(* the worker that runs, and still is what it selects or waits to select.   *)
ConfirmedOnAir ==
  \A c \in Seq : command[c].outcome = "ok" /\ intentSeq = c /\ Alive
                 => worker.seq >= c /\ (intent # Automatic => worker.sel \in {intent, Slate})

(* A removed source is neither the committed intent nor the target of an    *)
(* open operation, in whatever order the removal met takes and promotions.  *)
RemovedIsDropped ==
  open => \A s \in Source : source[s].removed =>
            ~Shows(intent, s) /\ (pending # 0 => ~Shows(command[pending].target.show, s))

(* No operation blocks the next one for ever: it is settled, or the worker  *)
(* forgot it, which AnswersSettle is about.  Sequence numbers only grow, so *)
(* this is about every operation.                                           *)
OperationsSettle == []<>(pending = 0 \/ tick.pc = "off" \/ pending \in worker.done)

(* A worker that is behind the session, with an operation of its own open   *)
(* or not, catches up with what was committed, or the broadcast ends.  A    *)
(* worker that is ahead is the subject of IntentReachesWorker.              *)
WorkerCatchesUp == []<>~(open /\ tick.pc # "off" /\ worker.seq < intentSeq)

(* docs/superpowers/specs/2026-10-22-twitch-inputs-and-operator-controls-   *)
(* design.md: "If preparation fails, expires, or is cancelled, retain prior *)
(* committed intent, release the candidate, and recalculate automatic       *)
(* standby from the current timetable."  So the worker comes to mean what   *)
(* the session has committed, or the broadcast ends.                        *)
IntentReachesWorker ==
  []<>(~open \/ tick.pc = "off" \/ <<worker.intent, worker.seq>> = <<intent, intentSeq>>)

(* docs/superpowers/plans/2026-10-22-twitch-inputs-and-operator-controls.md:*)
(* "Ordinary failed/superseded commands settle without a lease revocation." *)
(* So what the worker has given up for good is not open any more.           *)
AnswersSettle == \A c \in worker.done : pending # c
=============================================================================
