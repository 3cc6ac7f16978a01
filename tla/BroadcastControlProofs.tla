----------------------- MODULE BroadcastControlProofs -----------------------
(***************************************************************************)
(* What holds of every broadcast session's intent, proved for every set of *)
(* sources and every value of the bounds: the invariants that the runs of  *)
(* MCBroadcastControl check.                                               *)
(*                                                                         *)
(* Inv is the inductive invariant.  CommandInv relates the command rows    *)
(* to the session's row; Agree and Fits relate the worker, and the         *)
(* operation it holds, to both; Shown says what an acknowledgement that    *)
(* shows a picture is worth wherever it is, in the worker, on its way or   *)
(* recorded; Timely is the same of a configuration on its way.             *)
(***************************************************************************)
EXTENDS BroadcastControl, TLAPS

USE ControlAssumption, PictureAssumption

(* The worker's record, and its operation: without one no request is out.   *)
Good(w) == w \in Worker /\ (w.op.seq \in Seq \/ (w.op = NoOp /\ w.rpc = NoRpc))
-----------------------------------------------------------------------------
(* Types of the constant records.                                           *)
LEMMA Constants ==
  /\ Slate \in Picture /\ Slate \in Intent /\ Automatic \in Intent
  /\ OffAir \in Target /\ NoAck \in Ack /\ NoOp \in Operation /\ NoRpc \in Rpc
  /\ NoCommand \in Command /\ NoWorker \in Worker /\ Good(NoWorker)
<1>1. Slate \in Picture /\ Slate \in Intent /\ Automatic \in Intent
  BY DEF Picture, Intent
<1>2. OffAir \in Target /\ NoAck \in Ack
  BY <1>1 DEF OffAir, Target, NoAck, Ack
<1>3. NoOp \in Operation /\ NoRpc \in Rpc /\ NoCommand \in Command
  BY <1>1, <1>2 DEF NoOp, Operation, NoRpc, Rpc, NoCommand, Command
<1>4. NoWorker \in Worker
  BY <1>1, <1>3 DEF NoWorker, Worker
<1>5. Good(NoWorker)
  BY <1>4 DEF Good, NoWorker
<1> QED BY <1>1, <1>2, <1>3, <1>4, <1>5

(* The intent of a target.                                                  *)
LEMMA IntentType == \A target \in Target : IntentFor(target) \in Intent /\ target.show \in Picture
  BY DEF Target, IntentFor, Intent

(* A picture that is no input of the worker's is looked at as the slate.    *)
LEMMA InViewFacts ==
  ASSUME NEW w \in Worker, NEW p \in Intent
  PROVE  /\ InView(w, p) \in {p, Slate} /\ InView(w, p) \in Picture
         /\ InView(w, p) # Slate => p \in w.items
BY Constants DEF InView, Worker, Picture, Item

(* What the worker's functions leave alone, and what they make of the rest. *)
LEMMA KeepFacts ==
  ASSUME NEW w, Good(w), NEW candidates \in SUBSET Picture
  PROVE  \E p \in {w.sel, Slate} :
           /\ p # Slate => p \in {w.cur} \cup candidates
           /\ Keep(w, candidates) = [w EXCEPT !.sel = p] /\ Good(Keep(w, candidates))
<1>1. w.sel \in Picture
  BY DEF Good, Worker
<1>2. \A p \in Picture : Good([w EXCEPT !.sel = p])
  BY DEF Good, Worker
<1>3. CASE w.sel \in ({w.cur} \cup candidates) \cap w.items
  BY <1>1, <1>2, <1>3 DEF Keep
<1>4. CASE ~(w.sel \in ({w.cur} \cup candidates) \cap w.items)
  BY <1>1, <1>2, <1>4, Constants DEF Keep
<1> QED BY <1>3, <1>4

(* A request carries the number and the acknowledgement of its operation.   *)
LEMMA SentFacts ==
  ASSUME NEW w, Good(w), w.rpc # NoRpc
  PROVE  /\ Sent(w) \in Request /\ Sent(w).seq = w.op.seq
         /\ Sent(w).ack.how = "shown" => w.op.ack.how = "shown"
<1>1. w.op.seq \in Seq /\ w.op.ack \in Ack /\ w.rpc.kind \in {"begin", "promote", "ack"}
  BY DEF Good, Worker, Operation, Rpc
<1>2. NoAck.how = "none"
  BY DEF NoAck
<1> QED BY <1>1, <1>2, Constants DEF Sent, Request

(* Abandoning leaves at most the request that is out behind.                *)
LEMMA AbandonFacts ==
  ASSUME NEW w, Good(w)
  PROVE  \E a \in SUBSET Request :
           /\ Abandon(w) = [w EXCEPT !.op = NoOp, !.rpc = NoRpc, !.adrift = a]
           /\ w.adrift \subseteq a /\ a \subseteq w.adrift \cup {Sent(w)}
           /\ w.rpc = NoRpc => a = w.adrift
           /\ Good(Abandon(w))
<1>1. w.adrift \in SUBSET Request
  BY DEF Good, Worker
<1>2. \A a \in SUBSET Request : Good([w EXCEPT !.op = NoOp, !.rpc = NoRpc, !.adrift = a])
  BY Constants DEF Good, Worker
<1>3. CASE w.rpc.at = "sent"
  <2>1. w.rpc # NoRpc
    BY <1>3 DEF NoRpc
  <2>2. w.adrift \cup {Sent(w)} \in SUBSET Request
    BY <1>1, <2>1, SentFacts
  <2> QED BY <1>2, <1>3, <2>1, <2>2 DEF Abandon
<1>4. CASE w.rpc.at # "sent"
  BY <1>1, <1>2, <1>4 DEF Abandon
<1> QED BY <1>3, <1>4

(* Everything but what the worker shows, or everything but its requests.    *)
SameOperation(w, r) == /\ r.op = w.op /\ r.rpc = w.rpc /\ r.adrift = w.adrift
SameShow(w, r) == /\ r.intent = w.intent /\ r.seq = w.seq /\ r.cur = w.cur /\ r.sel = w.sel

(* Forgetting is abandoning, and changes nothing that is shown.             *)
LEMMA ForgetFacts ==
  ASSUME NEW w \in Worker, Good(w)
  PROVE  /\ Good(Forget(w)) /\ SameShow(w, Forget(w)) /\ Forget(w).items = w.items
         /\ Forget(w).op = NoOp /\ Forget(w).rpc = NoRpc
         /\ Forget(w).adrift \subseteq w.adrift \cup {Sent(w)}
         /\ w.rpc = NoRpc => Forget(w).adrift = w.adrift
<1>1. CASE w.op = NoOp
  <2>1. w.rpc = NoRpc
    BY <1>1 DEF Good, NoOp, Seq
  <2> QED BY <1>1, <2>1 DEF Forget, SameShow
<1>2. CASE w.op # NoOp
  <2> DEFINE v == [w EXCEPT !.done = @ \cup {w.op.seq}]
  <2>1. v \in Worker /\ Good(v)
    BY <1>2 DEF Good, Worker
  <2>2. v.rpc = w.rpc /\ v.op = w.op /\ v.adrift = w.adrift /\ SameShow(w, v) /\ v.items = w.items
    BY DEF Worker, SameShow
  <2>3. Sent(v) = Sent(w)
    BY <2>2 DEF Sent
  <2>4. Forget(w) = Abandon(v)
    BY <1>2 DEF Forget
  <2> HIDE DEF v
  <2>5. PICK a \in SUBSET Request :
          /\ Abandon(v) = [v EXCEPT !.op = NoOp, !.rpc = NoRpc, !.adrift = a]
          /\ a \subseteq v.adrift \cup {Sent(v)} /\ Good(Abandon(v))
          /\ v.rpc = NoRpc => a = v.adrift
    BY <2>1, AbandonFacts
  <2> QED BY <2>1, <2>2, <2>3, <2>4, <2>5 DEF Worker, SameShow
<1> QED BY <1>1, <1>2

(* Taking in an intent with its number; an older number is left alone.      *)
LEMMA CommitFacts ==
  ASSUME NEW w \in Worker, Good(w), NEW to \in Intent, NEW seq \in 0..MaxSeq, NEW shown \in Picture
  PROVE  LET r == Commit(w, to, seq, shown)
         IN  /\ Good(r) /\ SameOperation(w, r) /\ r.items = w.items
             /\ seq < w.seq => r = w
             /\ seq >= w.seq => /\ r.intent = to /\ r.seq = seq
                                /\ to # Automatic => r.cur \in {to, Slate}
                                /\ r.sel \in {w.sel, Slate}
                                /\ to = Slate => r.sel = Slate
<1> DEFINE cur == IF to \in Item THEN InView(w, to) ELSE IF to = Slate THEN Slate ELSE shown
           sel == IF cur = Slate THEN Slate ELSE w.sel
           r == [w EXCEPT !.intent = to, !.seq = seq, !.cur = cur, !.sel = sel]
<1>1. cur \in Picture /\ (to # Automatic => cur \in {to, Slate}) /\ (to = Slate => cur = Slate)
  BY Constants, InViewFacts DEF Intent, Picture
<1>2. sel \in Picture /\ sel \in {w.sel, Slate} /\ (to = Slate => sel = Slate)
  BY <1>1, Constants DEF Worker
<1>3. Commit(w, to, seq, shown) = IF seq < w.seq THEN w ELSE r
  BY DEF Commit, Worker
<1> HIDE DEF cur, sel
<1>4. r \in Worker /\ Good(r)
  <2>1. seq \in -1..MaxSeq
    OBVIOUS
  <2>2. r \in Worker
    BY <1>1, <1>2, <2>1 DEF Worker
  <2>3. r.op = w.op /\ r.rpc = w.rpc
    BY DEF Worker
  <2> QED BY <2>2, <2>3 DEF Good
<1>5. /\ SameOperation(w, r) /\ r.items = w.items /\ r.intent = to /\ r.seq = seq
      /\ r.cur = cur /\ r.sel = sel
  BY DEF Worker, SameOperation
<1>6. w.seq \in Int /\ SameOperation(w, w)
  BY DEF Worker, SameOperation
<1> QED BY <1>1, <1>2, <1>3, <1>4, <1>5, <1>6
-----------------------------------------------------------------------------
(* How a worker's state fits the session's row.                             *)

(* What the operation of a worker is worth: it is not older than the intent *)
(* taken in, and at the session's or the worker's own number it means the   *)
(* same.                                                                    *)
Fits(w) ==
  /\ w.op.seq >= w.seq
  /\ w.op.seq = w.seq => w.intent = IntentFor(w.op.target)
  /\ w.op.seq = intentSeq => intent = IntentFor(w.op.target)
  /\ w.op.seq = pending => command[pending].target = w.op.target
  /\ w.op.promoted \/ (w.rpc.at = "ok" /\ w.rpc.kind = "promote") => w.op.seq <= intentSeq

Agree(w) ==
  /\ w.seq <= last /\ w.op.seq <= last
  /\ w.intent # Automatic => w.cur \in {w.intent, Slate}
  /\ w.seq = intentSeq => w.intent = intent
  /\ w.seq > intentSeq => /\ w.intent = Slate /\ w.sel = Slate
                          /\ pending = w.seq => command[pending].target = OffAir
  /\ w.op # NoOp => Fits(w)

(* The worker has shown the picture of c, or the server knows it did.       *)
Acked(w, c) == \/ w.op.seq = c /\ w.op.ack.how = "shown"
               \/ \E r \in w.adrift : r.seq = c /\ r.ack.how = "shown"
               \/ command[c].outcome = "ok"
OnIntent(w) == w.intent # Automatic => w.sel \in {w.intent, Slate}
Shown(w) == \A c \in Seq : Acked(w, c) => w.seq >= c /\ (w.seq = c => OnIntent(w))

Fit(w) == Good(w) /\ Agree(w) /\ Shown(w)

(* What the rows of commands and the session's row say of each other.       *)
CommandInv ==
  /\ intentSeq <= last /\ pending \in {0, last}
  /\ \A c \in Seq : /\ c > last => command[c].outcome = "absent"
                    /\ pending = c <=> command[c].outcome = "open"
                    /\ command[c].outcome # "absent" /\ intentSeq = c
                         => command[c].phase = "promoting"
  /\ pending # 0 => /\ intentSeq = pending => intent = IntentFor(command[pending].target)
                    /\ command[pending].phase = "promoting" => intentSeq = pending
ServerOK ==
  /\ source \in [Source -> Row] /\ command \in [Seq -> Command]
  /\ last \in 0..MaxSeq /\ pending \in 0..MaxSeq
  /\ intent \in Intent /\ intentSeq \in 0..MaxSeq /\ record \in Picture
  /\ open \in BOOLEAN
Rows == ServerOK /\ CommandInv
-----------------------------------------------------------------------------
(* The worker's functions keep the fit.                                     *)

(* A worker that takes nothing from the air but what it shows.              *)
LEMMA Quieter ==
  ASSUME Rows, NEW w \in Worker, Fit(w), NEW r \in Worker, Good(r), SameOperation(w, r),
         r.intent = w.intent, r.seq = w.seq, r.sel \in {w.sel, Slate},
         w.intent # Automatic => r.cur \in {w.intent, Slate}
  PROVE  Fit(r)
<1>1. Agree(r)
  BY DEF Fit, Agree, Fits, SameOperation
<1>2. Shown(r)
  <2> SUFFICES ASSUME NEW c \in Seq, Acked(r, c) PROVE r.seq >= c /\ (r.seq = c => OnIntent(r))
    BY DEF Shown
  <2>1. Acked(w, c)
    BY DEF Acked, SameOperation
  <2> QED BY <2>1 DEF Fit, Shown, OnIntent
<1> QED BY <1>1, <1>2 DEF Fit

(* Reconciling the inputs.                                                  *)
LEMMA KeepFits ==
  ASSUME Rows, NEW w \in Worker, Fit(w), NEW candidates \in SUBSET Picture
  PROVE  LET r == Keep(w, candidates)
         IN  r \in Worker /\ Fit(r) /\ r.op = w.op /\ r.intent = w.intent /\ r.seq = w.seq
<1>1. PICK p \in {w.sel, Slate} :
        Keep(w, candidates) = [w EXCEPT !.sel = p] /\ Good(Keep(w, candidates))
  BY KeepFacts DEF Fit
<1> DEFINE r == Keep(w, candidates)
<1>2. r \in Worker /\ SameOperation(w, r) /\ r.intent = w.intent /\ r.seq = w.seq /\ r.sel = p
      /\ r.cur = w.cur
  BY <1>1 DEF Worker, SameOperation, Good
<1> QED BY <1>1, <1>2, Quieter DEF Fit, Agree, SameOperation

(* Forgetting: nothing more was shown than before.                          *)
LEMMA ForgetFits ==
  ASSUME Rows, NEW w \in Worker, Fit(w), NEW r \in Worker, Good(r), SameShow(w, r),
         r.op = NoOp, r.adrift \subseteq w.adrift \cup {Sent(w)},
         w.rpc = NoRpc => r.adrift = w.adrift
  PROVE  Fit(r)
<1>1. Agree(r)
  BY DEF Fit, Agree, SameShow, NoOp, Rows, ServerOK
<1>2. Shown(r)
  <2> SUFFICES ASSUME NEW c \in Seq, Acked(r, c) PROVE r.seq >= c /\ (r.seq = c => OnIntent(r))
    BY DEF Shown
  <2>1. Acked(w, c)
    BY SentFacts DEF Acked, NoOp, NoAck, Fit
  <2> QED BY <2>1 DEF Fit, Shown, OnIntent, SameShow
<1> QED BY <1>1, <1>2 DEF Fit

(* Taking in the intent of the worker's own operation.                      *)
LEMMA CommitFits ==
  ASSUME Rows, NEW w \in Worker, Fit(w), w.op # NoOp, w.op.seq <= intentSeq, NEW shown \in Picture
  PROVE  LET r == Commit(w, IntentFor(w.op.target), w.op.seq, shown)
         IN  r \in Worker /\ Fit(r) /\ r.seq = w.op.seq /\ r.intent = IntentFor(w.op.target)
             /\ SameOperation(w, r) /\ r.items = w.items
<1> DEFINE to == IntentFor(w.op.target)
           r == Commit(w, to, w.op.seq, shown)
<1>1. to \in Intent /\ w.op.seq \in Seq /\ w.op.seq \in 0..MaxSeq /\ w.seq \in Int
  BY IntentType DEF Fit, Good, Worker, Operation, Seq
<1>2. w.op.seq >= w.seq /\ (w.op.seq = w.seq => w.intent = to) /\ Fits(w)
  BY DEF Fit, Agree, Fits
<1>3. /\ Good(r) /\ SameOperation(w, r) /\ r.items = w.items
      /\ r.intent = to /\ r.seq = w.op.seq
      /\ to # Automatic => r.cur \in {to, Slate}
      /\ r.sel \in {w.sel, Slate}
  BY <1>1, <1>2, CommitFacts DEF Fit
<1>4. r \in Worker
  BY <1>3 DEF Good
<1> HIDE DEF to, r
<1>5. Agree(r)
  <2>1. to = IntentFor(r.op.target) /\ Fits(r)
    BY <1>1, <1>2, <1>3 DEF SameOperation, Fits, to
  <2>2. r.op.seq <= last /\ r.seq <= last
    BY <1>3 DEF SameOperation, Fit, Agree
  <2>3. r.seq = intentSeq => r.intent = intent
    BY <1>3, <1>2 DEF Fits, to
  <2> QED BY <1>1, <1>3, <2>1, <2>2, <2>3 DEF Agree, Rows, ServerOK
<1>6. Shown(r)
  <2> SUFFICES ASSUME NEW c \in Seq, Acked(r, c) PROVE r.seq >= c /\ (r.seq = c => OnIntent(r))
    BY DEF Shown
  <2>1. Acked(w, c)
    BY <1>3 DEF Acked, SameOperation
  <2>2. w.seq >= c /\ (w.seq = c => OnIntent(w)) /\ c \in Nat
    BY <2>1 DEF Fit, Shown, Seq
  <2>3. r.seq >= c
    BY <1>1, <1>2, <1>3, <2>2
  <2>4. r.seq = c => w.seq = c /\ w.intent = to
    BY <1>1, <1>2, <1>3, <2>2
  <2> QED BY <1>3, <2>2, <2>3, <2>4 DEF OnIntent
<1> QED BY <1>3, <1>4, <1>5, <1>6 DEF Fit, r, to

(* A request leaves: its operation is open, and it is not an answer yet.    *)
LEMMA SendFits ==
  ASSUME Rows, NEW w \in Worker, Fit(w), w.op # NoOp,
         NEW kind \in {"begin", "promote", "ack"}, NEW seen \in Picture
  PROVE  LET r == Send(w, kind, seen)
         IN  r \in Worker /\ Fit(r) /\ r.op = w.op /\ SameShow(w, r)
<1> DEFINE r == Send(w, kind, seen)
<1>1. [at |-> "sent", kind |-> kind, seen |-> seen] \in Rpc
  BY DEF Rpc
<1>2. r \in Worker /\ r.op = w.op /\ r.adrift = w.adrift /\ SameShow(w, r) /\ r.rpc.at = "sent"
  BY <1>1 DEF Send, Worker, SameShow
<1>3. Good(r)
  BY <1>2 DEF Fit, Good
<1> HIDE DEF r
<1>4. Agree(r)
  BY <1>2 DEF Fit, Agree, Fits, SameShow
<1>5. Shown(r)
  BY <1>2 DEF Fit, Shown, Acked, SameShow, OnIntent
<1> QED BY <1>2, <1>3, <1>4, <1>5 DEF Fit, r

(* The acknowledgement says "shown" only for an intent that was taken in.   *)
LEMMA AcknowledgeFits ==
  ASSUME Rows, NEW w \in Worker, Fit(w), w.op # NoOp, NEW ack \in Ack,
         ack.how = "shown" => w.seq = w.op.seq /\ OnIntent(w)
  PROVE  LET r == Acknowledge(w, ack)
         IN  /\ r \in Worker /\ Fit(r) /\ r.op # NoOp
             /\ r.op.seq = w.op.seq /\ r.op.target = w.op.target
<1> DEFINE a == IF w.op.ack = NoAck THEN ack ELSE w.op.ack
           v == [w EXCEPT !.op.ack = a]
<1>1. w.op \in Operation /\ w.op.seq \in Seq /\ a \in Ack /\ w.seq \in Int
  BY DEF Fit, Good, Worker, Operation
<1>2. /\ [w.op EXCEPT !.ack = a] \in Operation
      /\ v = [w EXCEPT !.op = [w.op EXCEPT !.ack = a]]
  BY <1>1 DEF Operation, Worker
<1> HIDE DEF v, a
<1>3. v \in Worker /\ SameShow(w, v) /\ v.rpc = w.rpc /\ v.adrift = w.adrift
  BY <1>1, <1>2 DEF Worker, SameShow
<1>4. /\ v.op.seq = w.op.seq /\ v.op.target = w.op.target /\ v.op.promoted = w.op.promoted
      /\ v.op.ack = a
  BY <1>1, <1>2 DEF Worker, Operation
<1>5. Good(v) /\ v.op # NoOp
  BY <1>1, <1>3, <1>4 DEF Good, NoOp, Seq
<1>6. Agree(v)
  BY <1>3, <1>4 DEF Fit, Agree, Fits, SameShow
<1>7. Shown(v)
  <2> SUFFICES ASSUME NEW c \in Seq, Acked(v, c) PROVE v.seq >= c /\ (v.seq = c => OnIntent(v))
    BY DEF Shown
  <2>1. CASE Acked(w, c)
    BY <1>3, <2>1 DEF Fit, Shown, SameShow, OnIntent
  <2>2. CASE ~Acked(w, c)
    <3>1. w.op.seq = c /\ ack.how = "shown"
      BY <1>3, <1>4, <2>2 DEF Acked, a
    <3> QED BY <1>1, <1>3, <3>1 DEF SameShow, OnIntent
  <2> QED BY <2>1, <2>2
<1>8. Acknowledge(w, ack) = Send(v, "ack", Slate)
  BY DEF Acknowledge, v, a, Worker
<1>9. /\ Send(v, "ack", Slate) \in Worker /\ Fit(Send(v, "ack", Slate))
      /\ Send(v, "ack", Slate).op = v.op
  BY <1>3, <1>5, <1>6, <1>7, SendFits, Constants DEF Fit
<1> QED BY <1>4, <1>5, <1>8, <1>9

(* The target of a taken in operation is put on the air, or not yet.        *)
LEMMA SelectFits ==
  ASSUME Rows, NEW w \in Worker, Fit(w), w.op # NoOp, w.op.seq <= intentSeq,
         w.seq = w.op.seq, w.intent = IntentFor(w.op.target),
         NEW p \in {w.op.target.show, Slate}
  PROVE  LET r == [w EXCEPT !.sel = p]
         IN  r \in Worker /\ Fit(r) /\ r.op = w.op /\ r.seq = w.seq /\ OnIntent(r)
<1> DEFINE r == [w EXCEPT !.sel = p]
<1>1. w.op.target \in Target /\ w.op.seq \in Seq /\ intentSeq \in Int
  BY DEF Fit, Good, Worker, Operation, Rows, ServerOK
<1>2. p \in Picture /\ (w.intent # Automatic => p \in {w.intent, Slate})
  BY <1>1, IntentType, Constants DEF IntentFor
<1>3. /\ r \in Worker /\ SameOperation(w, r) /\ r.intent = w.intent /\ r.seq = w.seq
      /\ r.cur = w.cur /\ r.sel = p
  BY <1>2 DEF Worker, SameOperation
<1> HIDE DEF r
<1>4. Good(r) /\ OnIntent(r)
  BY <1>2, <1>3 DEF Fit, Good, SameOperation, OnIntent
<1>5. ~(r.seq > intentSeq)
  BY <1>1, <1>3 DEF Seq
<1>6. Agree(r)
  BY <1>3, <1>5 DEF Fit, Agree, Fits, SameOperation
<1>7. Shown(r)
  BY <1>3, <1>4 DEF Fit, Shown, Acked, SameOperation
<1> QED BY <1>3, <1>4, <1>6, <1>7 DEF Fit, r, SameOperation

(* A step of the operation: it stays the same one and the fit is kept.      *)
LEMMA AdvanceFits ==
  ASSUME Rows, NEW w \in Worker, Fit(w), w.op # NoOp, NEW seen \in Picture, NEW ready \in BOOLEAN
  PROVE  LET r == AdvanceOperation(w, seen, ready)
         IN  /\ r \in Worker /\ Fit(r) /\ r.op # NoOp
             /\ r.op.seq = w.op.seq /\ r.op.target = w.op.target
<1> DEFINE target == w.op.target
           shown == InView(w, target.show)
           now == IF w.op.promoted
                    THEN Keep(Commit(w, IntentFor(target), w.op.seq, shown), {})
                  ELSE Keep(w, {shown})
           p == IF ready THEN shown ELSE Slate
           selected == [now EXCEPT !.sel = p]
           failed == [how |-> "failed", picture |-> Slate]
           yes == [how |-> "shown", picture |-> seen]
           r == AdvanceOperation(w, seen, ready)
<1>1. target \in Target /\ target.show \in Intent /\ w.op.seq \in Seq
  BY IntentType DEF Fit, Good, Worker, Operation, Intent
<1>2. shown \in Picture /\ p \in {target.show, Slate}
  BY <1>1, InViewFacts, Constants
<1>3. now \in Worker /\ Fit(now) /\ now.op = w.op
      /\ (w.op.promoted => /\ now.seq = w.op.seq /\ now.intent = IntentFor(target)
                           /\ w.op.seq <= intentSeq)
  <2>1. CASE w.op.promoted
    <3>1. w.op.seq <= intentSeq
      BY <2>1 DEF Fit, Agree, Fits
    <3> DEFINE v == Commit(w, IntentFor(target), w.op.seq, shown)
    <3>2. v \in Worker /\ Fit(v) /\ v.seq = w.op.seq /\ v.intent = IntentFor(target) /\ v.op = w.op
      BY <1>2, <3>1, CommitFits DEF SameOperation
    <3>3. now = Keep(v, {}) /\ {} \in SUBSET Picture
      BY <2>1
    <3> HIDE DEF v, now, target, shown
    <3> QED BY <3>1, <3>2, <3>3, KeepFits
  <2>2. CASE ~w.op.promoted
    <3>1. now = Keep(w, {shown}) /\ {shown} \in SUBSET Picture
      BY <1>2, <2>2
    <3> HIDE DEF now, shown
    <3> QED BY <2>2, <3>1, KeepFits
  <2> QED BY <2>1, <2>2
<1>4. failed \in Ack /\ yes \in Ack /\ failed.how = "failed"
  BY Constants DEF Ack
<1>5. r = IF w.rpc # NoRpc THEN now
          ELSE IF w.op.late \/ shown # target.show THEN Acknowledge(now, failed)
          ELSE IF ~w.op.begun THEN Send(now, "begin", IF w.op.promoted THEN seen ELSE Slate)
          ELSE IF ~w.op.promoted
            THEN IF ready \/ shown = Slate THEN Send(now, "promote", Slate) ELSE now
          ELSE IF seen = shown THEN Acknowledge(selected, yes)
          ELSE selected
  BY DEF AdvanceOperation
<1>6. (IF w.op.promoted THEN seen ELSE Slate) \in Picture
  BY Constants
<1>7. w.op.promoted => /\ selected \in Worker /\ Fit(selected) /\ selected.op = w.op
                       /\ selected.seq = selected.op.seq /\ OnIntent(selected)
  <2> HIDE DEF now, p, shown
  <2> SUFFICES ASSUME w.op.promoted
               PROVE  /\ selected \in Worker /\ Fit(selected) /\ selected.op = w.op
                      /\ selected.seq = selected.op.seq /\ OnIntent(selected)
    OBVIOUS
  <2>1. /\ now \in Worker /\ Fit(now) /\ now.op # NoOp /\ now.op.seq <= intentSeq
        /\ now.seq = now.op.seq /\ now.intent = IntentFor(now.op.target)
        /\ p \in {now.op.target.show, Slate}
    BY <1>2, <1>3
  <2>2. selected \in Worker /\ Fit(selected) /\ selected.op = now.op
        /\ selected.seq = now.seq /\ OnIntent(selected)
    BY <2>1, SelectFits
  <2> QED BY <1>3, <2>1, <2>2
<1> DEFINE Kept(v) == /\ v \in Worker /\ Fit(v) /\ v.op # NoOp
                      /\ v.op.seq = w.op.seq /\ v.op.target = w.op.target
<1>8. Kept(Acknowledge(now, failed))
  <2> HIDE DEF now, failed
  <2> QED BY <1>3, <1>4, AcknowledgeFits
<1>9. w.op.promoted => Kept(Acknowledge(selected, yes))
  <2> HIDE DEF selected, yes
  <2> QED BY <1>4, <1>7, AcknowledgeFits
<1>10. \A kind \in {"begin", "promote"}, q \in Picture : Kept(Send(now, kind, q))
  <2> HIDE DEF now
  <2> QED BY <1>3, SendFits
<1> HIDE DEF now, selected, shown, failed, yes, r, target
<1> QED BY <1>3, <1>5, <1>6, <1>7, <1>8, <1>9, <1>10, Constants DEF r, target, shown

(* An operation the worker takes up: it is the one the session waits for.   *)
LEMMA BeginFits ==
  ASSUME Rows, NEW w \in Worker, Fit(w), pending # 0
  PROVE  LET r == Begin(w, pending, command[pending].target, Promoting)
         IN  r \in Worker /\ Fit(r) /\ (r.op = NoOp => r = w)
<1> DEFINE c == pending
           target == command[pending].target
           op == [NoOp EXCEPT !.seq = c, !.target = target, !.promoted = Promoting]
           taken == [Abandon(w) EXCEPT !.op = op]
           r == Begin(w, c, target, Promoting)
<1>1. CASE c \in w.done \/ c <= w.op.seq \/ c < w.seq
  BY <1>1 DEF Begin
<1>2. CASE ~(c \in w.done \/ c <= w.op.seq \/ c < w.seq)
  <2>1. c \in Seq /\ c = last /\ target \in Target /\ w.seq \in Int /\ intentSeq \in Nat
        /\ Promoting \in BOOLEAN /\ (Promoting => command[c].phase = "promoting")
    BY DEF Rows, ServerOK, CommandInv, Seq, Command, Fit, Good, Worker, Promoting
  <2>2. /\ op \in Operation /\ op.seq = c /\ op.target = target /\ op.promoted = Promoting
        /\ op.ack = NoAck
    <3>1. c \in 0..MaxSeq
      BY <2>1 DEF Seq
    <3> HIDE DEF c, target
    <3> QED BY <2>1, <3>1, Constants DEF NoOp, Operation
  <2> HIDE DEF op, target, c
  <2>3. PICK a \in SUBSET Request :
          /\ Abandon(w) = [w EXCEPT !.op = NoOp, !.rpc = NoRpc, !.adrift = a]
          /\ a \subseteq w.adrift \cup {Sent(w)}
          /\ w.rpc = NoRpc => a = w.adrift
    BY AbandonFacts DEF Fit
  <2>4. /\ taken \in Worker /\ taken.op = op /\ taken.rpc = NoRpc /\ taken.adrift = a
        /\ SameShow(w, taken)
    BY <2>2, <2>3, Constants DEF Worker, SameShow
  <2>5. r = IF target = OffAir THEN Commit(taken, Slate, c, Slate) ELSE taken
    BY <1>2 DEF Begin, c, target, op
  <2> HIDE DEF taken, r
  <2>6. Good(taken) /\ op # NoOp
    BY <2>1, <2>2, <2>4 DEF Good, NoOp, Seq
  <2>7. /\ c = intentSeq => intent = IntentFor(target)
        /\ Promoting => c = intentSeq
        /\ command[pending].target = target /\ c = pending
    BY <2>1 DEF Rows, CommandInv, c, target
  <2>8. c >= w.seq /\ (c = w.seq => w.intent = IntentFor(target))
    <3>1. IntentFor(OffAir) = Slate
      BY DEF IntentFor, OffAir
    <3>2. intentSeq <= last
      BY DEF Rows, CommandInv
    <3> QED BY <1>2, <2>1, <2>7, <3>1, <3>2 DEF Fit, Agree, Seq
  <2>9. Agree(taken)
    <3>1. taken.seq <= last /\ taken.op.seq <= last
      BY <2>1, <2>2, <2>4 DEF Fit, Agree, SameShow, Seq
    <3>2. NoRpc.at = "none"
      BY DEF NoRpc
    <3>3. Fits(taken)
      BY <2>1, <2>2, <2>4, <2>7, <2>8, <3>2 DEF Fits, SameShow
    <3> QED BY <2>4, <3>1, <3>3 DEF Fit, Agree, SameShow
  <2>10. Shown(taken)
    <3> SUFFICES ASSUME NEW d \in Seq, Acked(taken, d)
                 PROVE  taken.seq >= d /\ (taken.seq = d => OnIntent(taken))
      BY DEF Shown
    <3>1. NoAck.how = "none"
      BY DEF NoAck
    <3>2. Acked(w, d)
      BY <2>2, <2>3, <2>4, <3>1, SentFacts DEF Acked, Fit
    <3> QED BY <2>4, <3>2 DEF Fit, Shown, OnIntent, SameShow
  <2>11. CASE target # OffAir
    <3>1. r = taken
      BY <2>5, <2>11
    <3>2. r \in Worker /\ Fit(r) /\ r.op # NoOp
      BY <2>4, <2>6, <2>9, <2>10, <3>1 DEF Fit
    <3> QED BY <3>2 DEF r, c, target
  <2>12. CASE target = OffAir
    <3>1. /\ Good(r) /\ SameOperation(taken, r) /\ r.intent = Slate /\ r.seq = c
          /\ r.cur \in {Slate} /\ r.sel = Slate
      <4>1. c \in 0..MaxSeq /\ taken.seq = w.seq /\ Slate # Automatic
        BY <2>1, <2>4, Constants DEF SameShow, Seq
      <4> QED BY <2>4, <2>5, <2>6, <2>8, <2>12, <4>1, CommitFacts, Constants
    <3>2. IntentFor(target) = Slate
      BY <2>12 DEF IntentFor, OffAir
    <3>3. NoRpc.at = "none"
      BY DEF NoRpc
    <3>4. Fits(r)
      BY <2>1, <2>2, <2>4, <2>7, <3>1, <3>2, <3>3 DEF Fits, SameOperation, Seq
    <3>5. r.op.seq <= last /\ r.seq <= last
      BY <2>1, <2>2, <2>4, <3>1 DEF SameOperation, Seq
    <3>6. Agree(r)
      BY <2>7, <2>12, <3>1, <3>2, <3>4, <3>5 DEF Agree
    <3>7. Shown(r)
      <4> SUFFICES ASSUME NEW d \in Seq, Acked(r, d) PROVE r.seq >= d /\ (r.seq = d => OnIntent(r))
        BY DEF Shown
      <4>1. Acked(taken, d) /\ taken.seq = w.seq
        BY <2>4, <3>1 DEF Acked, SameOperation, SameShow
      <4>2. taken.seq >= d
        BY <2>10, <4>1 DEF Shown
      <4> QED BY <2>1, <2>8, <3>1, <4>1, <4>2 DEF OnIntent, Seq
    <3>8. r \in Worker /\ Fit(r) /\ r.op # NoOp
      BY <2>4, <2>6, <3>1, <3>6, <3>7 DEF Fit, Good, SameOperation
    <3> QED BY <3>8 DEF r, c, target
  <2> QED BY <2>11, <2>12 DEF r, c, target
<1> QED BY <1>1, <1>2

(* A newer intent is taken in without an operation.                         *)
LEMMA TakeFits ==
  ASSUME Rows, NEW w \in Worker, Fit(w), w.op = NoOp, NEW to \in Intent, NEW seq \in 0..MaxSeq,
         seq > w.seq, seq <= intentSeq, seq = intentSeq => to = intent
  PROVE  LET r == Commit(w, to, seq, Slate)
         IN  r \in Worker /\ Fit(r) /\ r.op = NoOp /\ r.intent = to
<1> DEFINE r == Commit(w, to, seq, Slate)
<1>1. w.seq \in Int /\ seq >= w.seq /\ intentSeq \in Int /\ last \in Int
  BY DEF Worker, Rows, ServerOK
<1>2. /\ Good(r) /\ SameOperation(w, r) /\ r.intent = to /\ r.seq = seq
      /\ to # Automatic => r.cur \in {to, Slate}
  BY <1>1, CommitFacts, Constants DEF Fit
<1> HIDE DEF r
<1>3. Agree(r)
  <2>1. seq <= last
    BY <1>1 DEF Rows, CommandInv
  <2> QED BY <1>1, <1>2, <2>1 DEF Agree, Fit, SameOperation
<1>4. Shown(r)
  <2> SUFFICES ASSUME NEW c \in Seq, Acked(r, c) PROVE r.seq >= c /\ (r.seq = c => OnIntent(r))
    BY DEF Shown
  <2>1. Acked(w, c)
    BY <1>2 DEF Acked, SameOperation
  <2>2. w.seq >= c
    BY <2>1 DEF Fit, Shown
  <2> QED BY <1>1, <1>2, <2>2 DEF Seq
<1> QED BY <1>2, <1>3, <1>4 DEF Fit, Good, r, SameOperation

(* The worker learns that its operation was promoted.                       *)
LEMMA PromoteFits ==
  ASSUME Rows, NEW w \in Worker, Fit(w), w.op # NoOp, w.op.seq <= intentSeq
  PROVE  LET r == [w EXCEPT !.op.promoted = TRUE]
         IN  r \in Worker /\ Fit(r) /\ r.op # NoOp /\ r.op.seq = w.op.seq
             /\ r.op.target = w.op.target /\ SameShow(w, r)
<1> DEFINE r == [w EXCEPT !.op.promoted = TRUE]
           op == [w.op EXCEPT !.promoted = TRUE]
<1>1. w.op \in Operation /\ w.op.seq \in Seq
  BY DEF Fit, Good, Worker
<1>2. op \in Operation /\ op.seq = w.op.seq /\ op.target = w.op.target /\ op.ack = w.op.ack
  BY <1>1 DEF Operation
<1>3. r = [w EXCEPT !.op = op]
  BY DEF Worker
<1> HIDE DEF op, r
<1>4. /\ r \in Worker /\ r.op = op /\ r.rpc = w.rpc /\ r.adrift = w.adrift /\ SameShow(w, r)
  BY <1>2, <1>3 DEF Worker, SameShow
<1>5. Good(r) /\ op # NoOp
  BY <1>1, <1>2, <1>4 DEF Good, NoOp, Seq
<1>6. Agree(r)
  BY <1>2, <1>4 DEF Fit, Agree, Fits, SameShow
<1>7. Shown(r)
  BY <1>2, <1>4 DEF Fit, Shown, Acked, SameShow, OnIntent
<1> QED BY <1>2, <1>4, <1>5, <1>6, <1>7 DEF Fit, r

(* What is known of a configuration on its way.                             *)
Timely(w, cfg) ==
  /\ cfg.seq <= intentSeq
  /\ cfg.seq = intentSeq => cfg.intent = intent
  /\ w.op # NoOp /\ cfg.seq = w.op.seq => cfg.intent = IntentFor(w.op.target)

(* Applying a configuration, however old the intent it carries.             *)
LEMMA ConfiguredFits ==
  ASSUME Rows, NEW w \in Worker, Fit(w), NEW cfg \in Configuration, Timely(w, cfg)
  PROVE  Configured(w, cfg) \in Worker /\ Fit(Configured(w, cfg))
<1> DEFINE viewed == [w EXCEPT !.items = cfg.items]
           same == w.op.seq = cfg.seq /\ cfg.pending = cfg.seq /\ cfg.promoting
           shown == InView(viewed, viewed.op.target.show)
           taken == Commit(viewed, cfg.intent, cfg.seq, shown)
           promoted == [taken EXCEPT !.op.promoted = TRUE]
           fresh == Commit(Forget(viewed), cfg.intent, cfg.seq, Slate)
           newer == IF cfg.seq <= w.seq THEN viewed
                    ELSE IF w.op # NoOp /\ same THEN promoted ELSE fresh
           named == IF newer.op.seq # cfg.pending THEN Forget(newer) ELSE newer
           cur == InView(named, named.intent)
           sel == IF cur = Slate THEN Slate ELSE named.sel
           manual == [named EXCEPT !.cur = cur, !.sel = sel]
<1>1. /\ cfg.items \in SUBSET Item /\ cfg.intent \in Intent /\ cfg.seq \in 0..MaxSeq
      /\ w.seq \in Int
  BY DEF Configuration, Worker
<1>2. viewed \in Worker /\ Fit(viewed) /\ viewed.op = w.op /\ viewed.seq = w.seq
  <2>1. /\ viewed \in Worker /\ SameOperation(w, viewed) /\ viewed.intent = w.intent
        /\ viewed.seq = w.seq /\ viewed.sel = w.sel /\ viewed.cur = w.cur
    BY <1>1 DEF Worker, SameOperation
  <2>2. Good(viewed)
    BY <2>1 DEF Fit, Good, SameOperation
  <2> HIDE DEF viewed
  <2> QED BY <2>1, <2>2, Quieter DEF Fit, Agree, SameOperation
<1> HIDE DEF viewed
<1>3. Forget(viewed) \in Worker /\ Fit(Forget(viewed)) /\ Forget(viewed).op = NoOp
      /\ Forget(viewed).seq = w.seq
  BY <1>2, ForgetFacts, ForgetFits DEF Fit, Good, SameShow
<1>4. CASE cfg.seq < w.seq
  BY <1>4 DEF Configured
<1>5. CASE ~(cfg.seq < w.seq)
  <2>1. newer \in Worker /\ Fit(newer)
    <3>1. CASE cfg.seq <= w.seq
      BY <1>2, <3>1
    <3>2. CASE ~(cfg.seq <= w.seq) /\ w.op # NoOp /\ same
      <4>1. /\ cfg.intent = IntentFor(viewed.op.target) /\ cfg.seq = viewed.op.seq
            /\ viewed.op.seq <= intentSeq
        BY <1>2, <3>2 DEF Timely
      <4>2. shown \in Picture
        BY <1>2, InViewFacts, IntentType DEF Worker, Operation, Intent
      <4> HIDE DEF shown
      <4>3. taken \in Worker /\ Fit(taken) /\ taken.op = viewed.op
        BY <1>2, <3>2, <4>1, <4>2, CommitFits DEF SameOperation
      <4> HIDE DEF taken
      <4>4. promoted \in Worker /\ Fit(promoted)
        BY <1>2, <3>2, <4>1, <4>3, PromoteFits
      <4> QED BY <3>2, <4>4
    <3>3. CASE ~(cfg.seq <= w.seq) /\ ~(w.op # NoOp /\ same)
      <4>1. cfg.seq > Forget(viewed).seq
        BY <1>1, <1>3, <3>3
      <4>2. fresh \in Worker /\ Fit(fresh)
        BY <1>1, <1>3, <4>1, TakeFits DEF Timely
      <4> HIDE DEF fresh
      <4> QED BY <3>3, <4>2
    <3> HIDE DEF newer, same
    <3> QED BY <3>1, <3>2, <3>3
  <2> HIDE DEF newer
  <2>2. named \in Worker /\ Fit(named)
    BY <2>1, ForgetFacts, ForgetFits DEF Fit, Good
  <2> HIDE DEF named
  <2>3. named.intent \in Intent /\ named.sel \in Picture
    BY <2>2 DEF Worker
  <2>4. manual \in Worker /\ Fit(manual)
    <3>1. cur \in Picture /\ cur \in {named.intent, Slate} /\ sel \in Picture
          /\ sel \in {named.sel, Slate}
      BY <2>2, <2>3, InViewFacts, Constants
    <3> HIDE DEF cur, sel
    <3>2. /\ manual \in Worker /\ SameOperation(named, manual) /\ manual.intent = named.intent
          /\ manual.seq = named.seq /\ manual.sel = sel /\ manual.cur = cur
      BY <2>2, <3>1 DEF Worker, SameOperation
    <3> HIDE DEF manual
    <3>3. Good(manual)
      BY <2>2, <3>2 DEF Fit, Good, SameOperation
    <3> QED BY <2>2, <3>1, <3>2, <3>3, Quieter
  <2>5. Hold(named) \in Worker /\ Fit(Hold(named))
    <3>1. /\ Hold(named) \in Worker /\ SameOperation(named, Hold(named))
          /\ Hold(named).intent = named.intent /\ Hold(named).cur = named.cur
          /\ Hold(named).seq = named.seq /\ Hold(named).sel = Slate
      BY <2>2, Constants DEF Hold, Worker, SameOperation
    <3>2. Good(Hold(named))
      BY <2>2, <3>1 DEF Fit, Good, SameOperation
    <3> QED BY <2>2, <3>1, <3>2, Quieter DEF Fit, Agree
  <2>6. Configured(w, cfg) = IF named.intent \in Item THEN manual
                             ELSE IF named.intent = Slate THEN Hold(named)
                             ELSE named
    BY <1>5 DEF Configured, viewed, newer, named
  <2> HIDE DEF manual
  <2> QED BY <2>2, <2>4, <2>5, <2>6
<1> QED BY <1>4, <1>5

(* The schedule moves what is on the air only when nothing is committed.    *)
LEMMA UnpilotedFits ==
  ASSUME Rows, NEW w \in Worker, Fit(w), NEW r \in Unpiloted(w)
  PROVE  r \in Worker /\ Fit(r) /\ r.op = w.op /\ OnIntent(r)
<1> DEFINE now == IF w.intent = Automatic
                    THEN IF \E i \in w.items : w.cur \in Item /\ i.source = w.cur.source
                           THEN CHOOSE i \in w.items : i.source = w.cur.source ELSE Slate
                  ELSE InView(w, w.intent)
<1>1. w.items \subseteq Picture /\ w.intent \in Intent
  BY DEF Worker, Picture
<1>2. now \in Picture
  BY <1>1, InViewFacts, Constants
<1>3. w.intent # Automatic => now \in {w.intent, Slate}
  BY <1>1, InViewFacts
<1>4. \E cur, sel \in Picture :
        /\ r = [w EXCEPT !.cur = cur, !.sel = sel]
        /\ w.intent # Automatic => cur = now /\ sel \in {now, Slate}
  <2>1. CASE \E s \in {Slate, now} : r = [w EXCEPT !.cur = now, !.sel = s]
    <3> HIDE DEF now
    <3> QED BY <1>2, <2>1, Constants
  <2>2. CASE w.intent = Automatic /\ \E i \in w.items : r = [w EXCEPT !.cur = i, !.sel = i]
    <3> HIDE DEF now
    <3> QED BY <1>1, <2>2
  <2>3. r \in IF w.intent = Automatic
                THEN {[w EXCEPT !.cur = now, !.sel = s] : s \in {Slate, now}} \cup
                     {[w EXCEPT !.cur = i, !.sel = i] : i \in w.items}
              ELSE {[w EXCEPT !.cur = now, !.sel = s] : s \in {Slate, now}}
    BY DEF Unpiloted
  <2> HIDE DEF now
  <2> QED BY <2>1, <2>2, <2>3
<1> HIDE DEF now
<1>5. PICK cur, sel \in Picture :
        /\ r = [w EXCEPT !.cur = cur, !.sel = sel]
        /\ w.intent # Automatic => cur = now /\ sel \in {now, Slate}
  BY <1>4
<1>6. /\ r \in Worker /\ SameOperation(w, r) /\ r.intent = w.intent /\ r.seq = w.seq
      /\ r.cur = cur /\ r.sel = sel
  BY <1>5 DEF Worker, SameOperation
<1>7. Good(r) /\ OnIntent(r)
  BY <1>3, <1>5, <1>6 DEF Fit, Good, SameOperation, OnIntent
<1>8. Agree(r)
  <2>1. w.seq > intentSeq => w.intent = Slate /\ Slate # Automatic
    BY Constants DEF Fit, Agree, Picture
  <2>2. w.seq > intentSeq => sel = Slate
    BY <1>3, <1>5, <2>1
  <2> QED BY <1>3, <1>5, <1>6, <2>2 DEF Fit, Agree, Fits, SameOperation
<1>9. Shown(r)
  BY <1>6, <1>7 DEF Fit, Shown, Acked, SameOperation
<1> QED BY <1>6, <1>7, <1>8, <1>9 DEF Fit, SameOperation

(* An answer came and nobody waits for it any more.                         *)
LEMMA AnsweredFits ==
  ASSUME Rows, NEW w \in Worker, Fit(w), w.op # NoOp
  PROVE  LET r == [w EXCEPT !.rpc = NoRpc]
         IN  r \in Worker /\ Fit(r) /\ r.op = w.op /\ SameShow(w, r) /\ r.items = w.items
<1> DEFINE r == [w EXCEPT !.rpc = NoRpc]
<1>1. r \in Worker /\ r.op = w.op /\ r.rpc = NoRpc /\ r.adrift = w.adrift /\ SameShow(w, r)
      /\ r.items = w.items
  BY Constants DEF Worker, SameShow
<1>2. Good(r)
  BY <1>1 DEF Fit, Good
<1> HIDE DEF r
<1>3. NoRpc.at = "none"
  BY DEF NoRpc
<1>4. Agree(r)
  BY <1>1, <1>3 DEF Fit, Agree, Fits, SameShow
<1>5. Shown(r)
  BY <1>1 DEF Fit, Shown, Acked, SameShow, OnIntent
<1> QED BY <1>1, <1>2, <1>4, <1>5 DEF Fit, r

(* The operation's preparation has begun.                                   *)
LEMMA BegunFits ==
  ASSUME Rows, NEW w \in Worker, Fit(w), w.op # NoOp
  PROVE  LET r == [w EXCEPT !.op.begun = TRUE]
         IN  /\ r \in Worker /\ Fit(r) /\ r.op # NoOp
             /\ r.op.seq = w.op.seq /\ r.op.target = w.op.target
<1> DEFINE r == [w EXCEPT !.op.begun = TRUE]
           op == [w.op EXCEPT !.begun = TRUE]
<1>1. w.op \in Operation /\ w.op.seq \in Seq
  BY DEF Fit, Good, Worker
<1>2. /\ op \in Operation /\ op.seq = w.op.seq /\ op.target = w.op.target
      /\ op.ack = w.op.ack /\ op.promoted = w.op.promoted
  BY <1>1 DEF Operation
<1>3. r = [w EXCEPT !.op = op]
  BY DEF Worker
<1> HIDE DEF op, r
<1>4. /\ r \in Worker /\ r.op = op /\ r.rpc = w.rpc /\ r.adrift = w.adrift /\ SameShow(w, r)
  BY <1>2, <1>3 DEF Worker, SameShow
<1>5. Good(r) /\ op # NoOp
  BY <1>1, <1>2, <1>4 DEF Good, NoOp, Seq
<1>6. Agree(r)
  BY <1>2, <1>4 DEF Fit, Agree, Fits, SameShow
<1>7. Shown(r)
  BY <1>2, <1>4 DEF Fit, Shown, Acked, SameShow, OnIntent
<1> QED BY <1>2, <1>4, <1>5, <1>6, <1>7 DEF Fit, r

(* The worker's deadline passed.                                            *)
LEMMA LapseFits ==
  ASSUME Rows, NEW w \in Worker, Fit(w), w.op # NoOp
  PROVE  LET r == [w EXCEPT !.op.late = TRUE]
         IN  /\ r \in Worker /\ Fit(r) /\ r.op # NoOp
             /\ r.op.seq = w.op.seq /\ r.op.target = w.op.target
<1> DEFINE r == [w EXCEPT !.op.late = TRUE]
           op == [w.op EXCEPT !.late = TRUE]
<1>1. w.op \in Operation /\ w.op.seq \in Seq
  BY DEF Fit, Good, Worker
<1>2. /\ op \in Operation /\ op.seq = w.op.seq /\ op.target = w.op.target
      /\ op.ack = w.op.ack /\ op.promoted = w.op.promoted
  BY <1>1 DEF Operation
<1>3. r = [w EXCEPT !.op = op]
  BY DEF Worker
<1> HIDE DEF op, r
<1>4. /\ r \in Worker /\ r.op = op /\ r.rpc = w.rpc /\ r.adrift = w.adrift /\ SameShow(w, r)
  BY <1>2, <1>3 DEF Worker, SameShow
<1>5. Good(r) /\ op # NoOp
  BY <1>1, <1>2, <1>4 DEF Good, NoOp, Seq
<1>6. Agree(r)
  BY <1>2, <1>4 DEF Fit, Agree, Fits, SameShow
<1>7. Shown(r)
  BY <1>2, <1>4 DEF Fit, Shown, Acked, SameShow, OnIntent
<1> QED BY <1>2, <1>4, <1>5, <1>6, <1>7 DEF Fit, r

(* A request is lost, or still on its way when nobody waits for it.         *)
LEMMA LostFits ==
  ASSUME Rows, NEW w \in Worker, Fit(w), w.op # NoOp, w.rpc # NoRpc
  PROVE  LET r == [w EXCEPT !.rpc = NoRpc,
                     !.adrift = IF w.rpc.at = "sent" THEN @ \cup {Sent(w)} ELSE @]
         IN  r \in Worker /\ Fit(r) /\ r.op = w.op
<1> DEFINE a == IF w.rpc.at = "sent" THEN w.adrift \cup {Sent(w)} ELSE w.adrift
           r == [w EXCEPT !.rpc = NoRpc, !.adrift = a]
<1>1. a \in SUBSET Request /\ a \subseteq w.adrift \cup {Sent(w)}
  BY SentFacts DEF Fit, Worker
<1> HIDE DEF a
<1>2. r \in Worker /\ r.op = w.op /\ r.rpc = NoRpc /\ r.adrift = a /\ SameShow(w, r)
  BY <1>1, Constants DEF Worker, SameShow
<1>3. r = [w EXCEPT !.rpc = NoRpc,
             !.adrift = IF w.rpc.at = "sent" THEN @ \cup {Sent(w)} ELSE @]
  BY DEF a, Worker
<1> HIDE DEF r
<1>4. NoRpc.at = "none"
  BY DEF NoRpc
<1>5. Good(r)
  BY <1>2 DEF Fit, Good
<1>6. Agree(r)
  BY <1>2, <1>4 DEF Fit, Agree, Fits, SameShow
<1>7. Shown(r)
  <2> SUFFICES ASSUME NEW c \in Seq, Acked(r, c) PROVE r.seq >= c /\ (r.seq = c => OnIntent(r))
    BY DEF Shown
  <2>1. Acked(w, c)
    BY <1>1, <1>2, SentFacts DEF Acked, Fit
  <2> QED BY <1>2, <2>1 DEF Fit, Shown, OnIntent, SameShow
<1> QED BY <1>2, <1>3, <1>5, <1>6, <1>7 DEF Fit
-----------------------------------------------------------------------------
(* The server's steps.                                                      *)

(* Of the steps of the server a worker only needs to know: numbers grow, a  *)
(* number that was not given out is unknown to it, and a promotion is that  *)
(* of the pending command.                                                  *)
Moves ==
  /\ last' \in {last, last + 1}
  /\ \/ intentSeq' = intentSeq /\ intent' = intent
     \/ intentSeq' = last + 1
     \/ intentSeq' = pending /\ pending # 0 /\ intent' = IntentFor(command[pending].target)
  /\ \/ pending' \in {0, last + 1}
     \/ pending' = pending /\ (pending # 0 => command'[pending].target = command[pending].target)

(* A step of the server leaves a worker that fits fitting.                  *)
LEMMA MovesFit ==
  ASSUME Rows, Rows', Moves, NEW w \in Worker, Fit(w),
         \A c \in Seq : command'[c].outcome = "ok" => Acked(w, c)
  PROVE  Agree(w)' /\ Shown(w)'
<1>1. /\ last \in Nat /\ intentSeq \in Nat /\ pending \in {0, last} /\ intentSeq <= last
      /\ last' \in Nat /\ intentSeq' \in Nat
      /\ pending # 0 /\ intentSeq = pending => intent = IntentFor(command[pending].target)
  BY DEF Rows, ServerOK, CommandInv
<1>2. w.seq \in Int /\ w.op.seq \in Int /\ (w.op # NoOp => w.op.seq \in Nat /\ w.op.seq # 0)
  BY DEF Fit, Good, Worker, Operation, Seq
<1>3. w.seq <= last /\ w.op.seq <= last
  BY DEF Fit, Agree
<1>4. w.seq <= last' /\ w.op.seq <= last'
  BY <1>1, <1>2, <1>3 DEF Moves
<1>5. w.seq = intentSeq' => w.intent = intent'
  <2>1. CASE intentSeq' = intentSeq /\ intent' = intent
    BY <2>1 DEF Fit, Agree
  <2>2. CASE intentSeq' = last + 1
    BY <1>1, <1>2, <1>3, <2>2
  <2>3. CASE intentSeq' = pending /\ pending # 0 /\ intent' = IntentFor(command[pending].target)
    <3> SUFFICES ASSUME w.seq = pending PROVE w.intent = IntentFor(command[pending].target)
      BY <2>3
    <3>1. CASE intentSeq = pending
      BY <1>1, <2>3, <3>1 DEF Fit, Agree
    <3>2. CASE intentSeq # pending
      <4>1. w.seq > intentSeq
        BY <1>1, <1>2, <2>3, <3>2
      <4>2. IntentFor(OffAir) = Slate
        BY DEF IntentFor, OffAir
      <4> QED BY <4>1, <4>2 DEF Fit, Agree
    <3> QED BY <3>1, <3>2
  <2> QED BY <2>1, <2>2, <2>3 DEF Moves
<1>6. w.seq > intentSeq' =>
        /\ w.intent = Slate /\ w.sel = Slate
        /\ pending' = w.seq => command'[pending'].target = OffAir
  <2> SUFFICES ASSUME w.seq > intentSeq'
               PROVE  /\ w.intent = Slate /\ w.sel = Slate
                      /\ pending' = w.seq => command'[pending'].target = OffAir
    OBVIOUS
  <2>1. intentSeq' = intentSeq
    BY <1>1, <1>2, <1>3 DEF Moves
  <2>2. pending' = w.seq => pending' = pending /\ pending # 0
    BY <1>1, <1>2, <1>3, <2>1 DEF Moves
  <2>3. pending' = w.seq => command'[pending'].target = command[pending].target
    BY <1>1, <1>2, <1>3, <2>1, <2>2 DEF Moves
  <2> QED BY <2>1, <2>2, <2>3 DEF Fit, Agree
<1>7. w.op # NoOp => Fits(w)'
  <2> SUFFICES ASSUME w.op # NoOp PROVE Fits(w)'
    OBVIOUS
  <2>1. Fits(w)
    BY DEF Fit, Agree
  <2>2. intentSeq' >= intentSeq
    BY <1>1 DEF Moves
  <2>3. w.op.seq = intentSeq' => intent' = IntentFor(w.op.target)
    BY <1>1, <1>2, <1>3, <2>1 DEF Moves, Fits
  <2>4. w.op.seq = pending' => command'[pending'].target = w.op.target
    BY <1>1, <1>2, <1>3, <2>1 DEF Moves, Fits
  <2>5. w.op.promoted \/ (w.rpc.at = "ok" /\ w.rpc.kind = "promote") => w.op.seq <= intentSeq'
    BY <1>1, <1>2, <2>1, <2>2 DEF Fits
  <2> QED BY <2>1, <2>3, <2>4, <2>5 DEF Fits
<1>8. Agree(w)'
  <2>1. w.intent # Automatic => w.cur \in {w.intent, Slate}
    BY DEF Fit, Agree
  <2> QED BY <1>4, <1>5, <1>6, <1>7, <2>1 DEF Agree
<1>9. Shown(w)'
  <2>1. \A c \in Seq : Acked(w, c)' => Acked(w, c)
    BY DEF Acked
  <2>2. \A c \in Seq : Acked(w, c)' => w.seq >= c /\ (w.seq = c => OnIntent(w))
    BY <2>1 DEF Fit, Shown
  <2> QED BY <2>2 DEF Shown, OnIntent
<1> QED BY <1>8, <1>9

(* A settled command keeps its phase; the others are left alone.            *)
LEMMA SettledFacts ==
  ASSUME Rows, NEW c \in Seq, NEW how \in {"refused", "ended", "ok"}
  PROVE  /\ Settled(command, c, how) \in [Seq -> Command]
         /\ Settled(command, c, how)[c].outcome = how
         /\ Settled(command, c, how)[c].phase = command[c].phase
         /\ \A d \in Seq : d # c => Settled(command, c, how)[d] = command[d]
<1> DEFINE row == [NoCommand EXCEPT !.outcome = how, !.phase = command[c].phase]
<1>1. row \in Command /\ row.outcome = how /\ row.phase = command[c].phase
  <2>1. command[c] \in Command /\ command \in [Seq -> Command]
    BY DEF Rows, ServerOK
  <2>2. command[c].phase \in {"preparing", "promoting"} /\ OffAir \in Target
    BY <2>1, Constants DEF Command
  <2>3. how \in {"absent", "open", "ok", "ended", "refused"}
    OBVIOUS
  <2> QED BY <2>2, <2>3, Constants DEF Command
<1>2. Settled(command, c, how) = [command EXCEPT ![c] = row]
  BY DEF Settled
<1> HIDE DEF row
<1> QED BY <1>1, <1>2 DEF Rows, ServerOK

(* The pending command is settled, and nothing else.                        *)
LEMMA SettlesRows ==
  ASSUME Rows, pending # 0, NEW how \in {"refused", "ended", "ok"},
         command' = Settled(command, pending, how), pending' = 0,
         UNCHANGED <<source, last, intent, intentSeq>>, record' \in Picture, open' \in BOOLEAN
  PROVE  /\ Rows' /\ Moves
         /\ \A c \in Seq : command'[c].outcome = "ok"
                           => command[c].outcome = "ok" \/ (how = "ok" /\ c = pending)
<1>1. pending \in Seq
  BY DEF Rows, ServerOK, Seq
<1>2. ServerOK'
  BY <1>1, SettledFacts DEF Rows, ServerOK
<1>3. CommandInv'
  <2>1. command'[pending].outcome = how /\ command'[pending].phase = command[pending].phase
        /\ \A d \in Seq : d # pending => command'[d] = command[d]
    BY <1>1, SettledFacts
  <2>2. command[pending].outcome = "open" /\ how # "open" /\ how # "absent"
    BY <1>1 DEF Rows, CommandInv
  <2> QED BY <1>1, <2>1, <2>2 DEF Rows, ServerOK, CommandInv, Seq
<1>4. Moves
  BY DEF Moves
<1> QED BY <1>1, <1>2, <1>3, <1>4, SettledFacts DEF Rows

NoNewOk == \A c \in Seq : command'[c].outcome = "ok" => command[c].outcome = "ok"

(* The row of a new command.                                                *)
LEMMA AdmittedType ==
  ASSUME Rows, NEW t \in Target, NEW stage \in {"preparing", "promoting"}
  PROVE  /\ Admitted(t, stage) \in Command /\ Admitted(t, stage).outcome = "open"
         /\ Admitted(t, stage).phase = stage /\ Admitted(t, stage).target = t
<1>1. intentSeq \in 0..MaxSeq
  BY DEF Rows, ServerOK
<1>2. NoCommand \in Command
  BY Constants
<1> QED BY <1>1, <1>2 DEF Admitted, Command

(* What a new command with the next number does to the rows, be it a take   *)
(* when nothing is pending, or a cut after whatever was.                    *)
LEMMA NumberedRows ==
  ASSUME Rows, last < MaxSeq, last' = last + 1, pending' = last',
         NEW commands \in [Seq -> Command],
         \A c \in Seq : /\ c # pending => commands[c] = command[c]
                        /\ commands[c].outcome \notin {"open", "ok"} \/ commands[c] = command[c]
                        /\ commands[c].outcome # "open"
                        /\ commands[c].outcome # "absent" => command[c].outcome # "absent"
                        /\ commands[c].phase = command[c].phase,
         NEW t \in Target, NEW stage \in {"preparing", "promoting"},
         command' = [commands EXCEPT ![last'] = Admitted(t, stage)],
         IF stage = "promoting" THEN intent' = IntentFor(t) /\ intentSeq' = last'
                                ELSE UNCHANGED <<intent, intentSeq>>,
         UNCHANGED <<source, record, open>>
  PROVE  Rows' /\ Moves /\ NoNewOk
<1>1. /\ last \in Nat /\ last + 1 \in Seq /\ last' \in Seq /\ intentSeq \in Nat
      /\ pending \in 0..MaxSeq /\ intentSeq <= last /\ pending \in {0, last}
  BY DEF Rows, ServerOK, CommandInv, Seq
<1>2. /\ command'[last'] = Admitted(t, stage)
      /\ \A c \in Seq : c # last' => command'[c] = commands[c]
  BY <1>1
<1>3. ServerOK'
  <2>1. command' \in [Seq -> Command]
    BY <1>1, AdmittedType
  <2>2. intent' \in Intent /\ intentSeq' \in 0..MaxSeq
    BY <1>1, IntentType DEF Rows, ServerOK, Seq
  <2> QED BY <1>1, <2>1, <2>2 DEF Rows, ServerOK, Seq
<1>4. CommandInv'
  <2>1. intentSeq' <= last' /\ pending' \in {0, last'}
    BY <1>1
  <2>2. ASSUME NEW c \in Seq
        PROVE  /\ c > last' => command'[c].outcome = "absent"
               /\ pending' = c <=> command'[c].outcome = "open"
               /\ command'[c].outcome # "absent" /\ intentSeq' = c
                    => command'[c].phase = "promoting"
    <3>1. CASE c = last'
      BY <1>1, <1>2, <3>1, AdmittedType DEF Seq
    <3>2. CASE c # last'
      <4>1. command'[c] = commands[c] /\ commands[c].outcome # "open" /\ c \in Nat
        BY <1>2, <3>2 DEF Seq
      <4>2. c > last' => commands[c] = command[c] /\ command[c].outcome = "absent"
        BY <1>1, <4>1 DEF Rows, CommandInv, Seq
      <4>3. command[c].outcome # "absent" /\ intentSeq = c => command[c].phase = "promoting"
        BY DEF Rows, CommandInv
      <4> QED BY <1>1, <3>2, <4>1, <4>2, <4>3
    <3> QED BY <3>1, <3>2
  <2>3. /\ intentSeq' = pending' => intent' = IntentFor(command'[pending'].target)
        /\ command'[pending'].phase = "promoting" => intentSeq' = pending'
    BY <1>1, <1>2, AdmittedType
  <2> QED BY <2>1, <2>2, <2>3 DEF CommandInv
<1>5. Moves
  BY <1>1 DEF Moves
<1>6. NoNewOk
  <2> SUFFICES ASSUME NEW c \in Seq, command'[c].outcome = "ok" PROVE command[c].outcome = "ok"
    BY DEF NoNewOk
  <2>1. c # last'
    BY <1>2, AdmittedType
  <2> QED BY <1>2, <2>1
<1> QED BY <1>3, <1>4, <1>5, <1>6 DEF Rows

(* A take.                                                                  *)
LEMMA AdmitStep ==
  ASSUME Rows, RemovedIsDropped, Admit
  PROVE  Rows' /\ Moves /\ NoNewOk /\ RemovedIsDropped'
<1>1. PICK t \in Operations : command' = [command EXCEPT ![last'] = Admitted(t, "preparing")]
  BY DEF Admit
<1>2. t \in Target /\ Available(t.show)
  BY DEF Operations
<1>3. \A c \in Seq : command[c].outcome # "open"
  <2>1. \A c \in Seq : pending = c <=> command[c].outcome = "open"
    BY DEF Rows, CommandInv
  <2> QED BY <2>1 DEF Admit, Seq
<1>4. Rows' /\ Moves /\ NoNewOk
  BY <1>1, <1>2, <1>3, NumberedRows DEF Admit, Rows, ServerOK
<1>5. RemovedIsDropped'
  <2>1. last' \in Seq /\ pending' = last'
    BY DEF Admit, Rows, ServerOK, Seq
  <2>2. command'[pending'].target = t
    BY <1>1, <1>2, <2>1, AdmittedType DEF Rows, ServerOK
  <2>3. \A s \in Source : source[s].removed => ~Shows(t.show, s)
    BY <1>2 DEF Available, Listed, Shows
  <2> QED BY <2>2, <2>3 DEF RemovedIsDropped, Admit, Shows
<1> QED BY <1>4, <1>5

(* Superseding settles what is pending, if anything is.                     *)
LEMMA SupersededFacts ==
  ASSUME Rows
  PROVE  /\ Superseded \in [Seq -> Command]
         /\ \A c \in Seq :
              /\ c # pending => Superseded[c] = command[c]
              /\ Superseded[c].outcome \notin {"open", "ok"} \/ Superseded[c] = command[c]
              /\ Superseded[c].outcome # "open"
              /\ Superseded[c].outcome # "absent" => command[c].outcome # "absent"
              /\ Superseded[c].phase = command[c].phase
<1>1. \A c \in Seq : pending = c <=> command[c].outcome = "open"
  BY DEF Rows, CommandInv
<1>2. CASE pending = 0
  BY <1>1, <1>2 DEF Superseded, Rows, ServerOK, Seq
<1>3. CASE pending # 0
  <2>1. pending \in Seq
    BY <1>3 DEF Rows, ServerOK, Seq
  <2>2. Superseded = Settled(command, pending, "refused")
    BY <1>3 DEF Superseded
  <2> QED BY <1>1, <2>1, <2>2, SettledFacts
<1> QED BY <1>2, <1>3

(* A cut supersedes what is pending.                                        *)
LEMMA CutStep ==
  ASSUME Rows, RemovedIsDropped, Cut
  PROVE  Rows' /\ Moves /\ NoNewOk /\ RemovedIsDropped'
<1>1. IntentFor(OffAir) = Slate /\ OffAir.show = Slate /\ Slate \notin Item
  BY DEF IntentFor, OffAir
<1>2. Rows' /\ Moves /\ NoNewOk
  BY <1>1, Constants, SupersededFacts, NumberedRows DEF Cut
<1>3. RemovedIsDropped'
  <2>1. last' \in Seq /\ pending' = last'
    BY DEF Cut, Rows, ServerOK, Seq
  <2>2. command'[pending'].target = OffAir
    BY <2>1, Constants, SupersededFacts, AdmittedType DEF Cut
  <2> QED BY <1>1, <2>2 DEF RemovedIsDropped, Cut, Shows
<1> QED BY <1>2, <1>3

(* Settling what is pending takes nothing to the air.                       *)
LEMMA SettledIsDropped ==
  ASSUME Rows, RemovedIsDropped, pending' = 0, UNCHANGED <<source, intent>>, open' => open
  PROVE  RemovedIsDropped'
BY DEF RemovedIsDropped, Shows

(* A cancellation.                                                          *)
LEMMA CancelStep ==
  ASSUME Rows, RemovedIsDropped, Cancel
  PROVE  Rows' /\ Moves /\ NoNewOk /\ RemovedIsDropped'
<1>1. Rows' /\ Moves /\ NoNewOk
  BY SettlesRows DEF Cancel, Rows, ServerOK, NoNewOk
<1> QED BY <1>1, SettledIsDropped DEF Cancel

(* The end of the session settles what is pending.                          *)
LEMMA CloseStep ==
  ASSUME Rows, RemovedIsDropped, NEW how \in {"refused", "ended"}, Close(how)
  PROVE  Rows' /\ Moves /\ NoNewOk /\ RemovedIsDropped'
<1>1. RemovedIsDropped'
  BY DEF Close, RemovedIsDropped
<1>2. CASE pending = 0
  BY <1>1, <1>2 DEF Close, Rows, ServerOK, CommandInv, Moves, NoNewOk
<1>3. CASE pending # 0
  <2>1. Rows' /\ Moves /\ NoNewOk
    BY <1>3, SettlesRows DEF Close, Rows, ServerOK, NoNewOk
  <2> QED BY <1>1, <2>1
<1> QED BY <1>2, <1>3

(* A removal keeps the row of the source a row.                             *)
LEMMA RemovedRow ==
  ASSUME Rows, NEW s \in Source, source' = [source EXCEPT ![s] = Gone]
  PROVE  /\ source' \in [Source -> Row]
         /\ \A r \in Source : source'[r] = IF r = s THEN Gone ELSE source[r]
         /\ \A r \in Source : source'[r].removed <=> (source[r].removed \/ r = s)
<1>1. 1 \in 1..MaxDisturbances + 1
  BY ControlAssumption
<1>2. Gone \in Row /\ Gone.removed
  BY <1>1 DEF Gone, Row, Offer
<1>3. /\ source' \in [Source -> Row]
      /\ \A r \in Source : source'[r] = IF r = s THEN Gone ELSE source[r]
  BY <1>2 DEF Rows, ServerOK
<1> QED BY <1>2, <1>3

(* The removal of a source that is committed, recorded, pending or neither. *)
LEMMA RemoveStep ==
  ASSUME Rows, RemovedIsDropped, RemoveSource
  PROVE  Rows' /\ Moves /\ NoNewOk /\ RemovedIsDropped'
<1>1. PICK s \in Source :
        /\ source' = [source EXCEPT ![s] = Gone]
        /\ IF ~open THEN UNCHANGED <<command, last, pending, intent, intentSeq>>
           ELSE IF Shows(intent, s) \/ Shows(record, s) THEN
             /\ last < MaxSeq /\ last' = last + 1
             /\ command' = Superseded
             /\ pending' = 0 /\ intent' = Slate /\ intentSeq' = last'
           ELSE IF pending # 0 /\ Shows(command[pending].target.show, s) THEN
             /\ command' = Settled(command, pending, "refused") /\ pending' = 0
             /\ UNCHANGED <<last, intent, intentSeq>>
           ELSE UNCHANGED <<command, last, pending, intent, intentSeq>>
  BY DEF RemoveSource
<1>2. /\ source' \in [Source -> Row] /\ UNCHANGED <<record, open>>
      /\ \A r \in Source : source'[r].removed => source[r].removed \/ r = s
  BY <1>1, RemovedRow DEF RemoveSource
<1>3. CASE UNCHANGED <<command, last, pending, intent, intentSeq>>
           /\ (open => /\ ~Shows(intent, s)
                       /\ pending # 0 => ~Shows(command[pending].target.show, s))
  <2>1. Rows' /\ Moves /\ NoNewOk
    BY <1>2, <1>3 DEF Rows, ServerOK, CommandInv, Moves, NoNewOk
  <2>2. RemovedIsDropped'
    BY <1>2, <1>3 DEF RemovedIsDropped, Shows
  <2> QED BY <2>1, <2>2
<1>4. CASE open /\ (Shows(intent, s) \/ Shows(record, s))
  <2>1. /\ last < MaxSeq /\ last' = last + 1 /\ command' = Superseded
        /\ pending' = 0 /\ intent' = Slate /\ intentSeq' = last'
    BY <1>1, <1>4
  <2>2. last \in Nat /\ last' \in 0..MaxSeq /\ pending <= last
    BY <2>1 DEF Rows, ServerOK, CommandInv
  <2>3. ServerOK'
    BY <1>2, <2>1, <2>2, SupersededFacts, Constants DEF Rows, ServerOK
  <2>4. ASSUME NEW c \in Seq
        PROVE  /\ c > last' => command'[c].outcome = "absent"
               /\ pending' = c <=> command'[c].outcome = "open"
               /\ command'[c].outcome # "absent" /\ intentSeq' = c
                    => command'[c].phase = "promoting"
    <3>1. /\ c # pending => command'[c] = command[c]
          /\ command'[c].outcome # "open" /\ c # 0
          /\ command'[c].outcome # "absent" => command[c].outcome # "absent"
      BY <2>1, SupersededFacts DEF Seq
    <3>2. c > last => command[c].outcome = "absent"
      BY DEF Rows, CommandInv
    <3> QED BY <2>1, <2>2, <3>1, <3>2 DEF Seq
  <2>5. CommandInv'
    BY <2>1, <2>2, <2>4 DEF CommandInv
  <2>6. Moves
    BY <2>1 DEF Moves
  <2>7. NoNewOk
    BY <2>1, SupersededFacts DEF NoNewOk
  <2>8. RemovedIsDropped'
    BY <2>1 DEF RemovedIsDropped, Shows
  <2> QED BY <2>3, <2>5, <2>6, <2>7, <2>8 DEF Rows
<1>5. CASE open /\ ~(Shows(intent, s) \/ Shows(record, s))
           /\ pending # 0 /\ Shows(command[pending].target.show, s)
  <2>1. /\ command' = Settled(command, pending, "refused") /\ pending' = 0
        /\ UNCHANGED <<last, intent, intentSeq>>
    BY <1>1, <1>5
  <2>2. pending \in Seq
    BY <1>5 DEF Rows, ServerOK, Seq
  <2>3. /\ command' \in [Seq -> Command] /\ command'[pending].outcome = "refused"
        /\ command'[pending].phase = command[pending].phase
        /\ \A d \in Seq : d # pending => command'[d] = command[d]
    BY <2>1, <2>2, SettledFacts
  <2>4. ServerOK'
    BY <1>2, <2>1, <2>3 DEF Rows, ServerOK
  <2>5. CommandInv'
    BY <2>1, <2>2, <2>3 DEF Rows, CommandInv, Seq
  <2>6. Moves /\ NoNewOk
    BY <2>1, <2>3 DEF Moves, NoNewOk
  <2>7. RemovedIsDropped'
    BY <1>2, <1>5, <2>1 DEF RemovedIsDropped, Shows
  <2> QED BY <2>4, <2>5, <2>6, <2>7 DEF Rows
<1> QED BY <1>1, <1>3, <1>4, <1>5
-----------------------------------------------------------------------------
(* The handlers.                                                            *)

(* A request that is declined or settled, or begins a preparation, commits  *)
(* nothing.                                                                 *)
LEMMA SettleStep ==
  ASSUME Rows, RemovedIsDropped, NEW c \in Seq, pending = c, NEW answer, Settle(c, answer)
  PROVE  Rows' /\ Moves /\ NoNewOk /\ RemovedIsDropped' /\ answer = "refused"
<1>1. c # 0
  BY DEF Seq
<1>2. Rows' /\ Moves /\ NoNewOk
  BY <1>1, SettlesRows DEF Settle, Rows, ServerOK, NoNewOk
<1> QED BY <1>2, SettledIsDropped DEF Settle

(* A request that is declined changes no row.                               *)
LEMMA DeclineStep ==
  ASSUME Rows, RemovedIsDropped, NEW answer, NEW how, Decline(answer, how)
  PROVE  Rows' /\ Moves /\ NoNewOk /\ RemovedIsDropped' /\ answer = how /\ command' = command
<1>1. UNCHANGED <<source, command, last, pending, intent, intentSeq, record, open>> /\ answer = how
  BY DEF Decline, rows
<1> QED BY <1>1 DEF Rows, ServerOK, CommandInv, Moves, NoNewOk, RemovedIsDropped, Shows

(* A request that is turned away is not told ok.                            *)
LEMMA RefusedAnswers == ASSUME NEW c \in Seq, Load(c) # "found" PROVE Load(c) # "ok"
BY DEF Load

(* A row of the command that only begins or is promoted.                    *)
LEMMA CommandMoves ==
  ASSUME Rows, NEW c \in Seq, NEW stage \in {"preparing", "promoting"}
  PROVE  /\ [command EXCEPT ![c].begun = TRUE] \in [Seq -> Command]
         /\ [command EXCEPT ![c].phase = stage] \in [Seq -> Command]
BY DEF Rows, ServerOK, Command

(* Every answer of the server: what is refused commits nothing, a promise   *)
(* of the server to promote is the committed intent, and a command is       *)
(* confirmed only by an acknowledgement that shows it.                      *)
Answered(r, answer) ==
  /\ Rows' /\ Moves /\ RemovedIsDropped'
  /\ answer = "ok" /\ r.kind = "promote" => r.seq <= intentSeq'
  /\ \A c \in Seq : command'[c].outcome = "ok" =>
       command[c].outcome = "ok" \/ (r.kind = "ack" /\ r.seq = c /\ r.ack.how = "shown")

(* A refusal says nothing that a worker could take for a promise.           *)
LEMMA QuietAnswer ==
  ASSUME NEW r \in Request, NEW answer, Rows', Moves, NoNewOk, RemovedIsDropped', answer # "ok"
  PROVE  Answered(r, answer)
BY DEF Answered, NoNewOk

(* controlBegin.                                                            *)
LEMMA BeginStep ==
  ASSUME Rows, RemovedIsDropped, NEW r \in Request, NEW answer, r.kind = "begin",
         HandleBegin(r.seq, answer)
  PROVE  Answered(r, answer)
<1> DEFINE c == r.seq
<1>1. c \in Seq
  BY DEF Request
<1>2. CASE Load(c) # "found" /\ Decline(answer, Load(c))
  BY <1>1, <1>2, DeclineStep, RefusedAnswers, QuietAnswer
<1>3. CASE Decline(answer, "refused")
  BY <1>3, DeclineStep, QuietAnswer
<1>4. CASE pending = c /\ Settle(c, answer)
  BY <1>1, <1>4, SettleStep, QuietAnswer
<1>5. CASE /\ pending = c /\ command' = [command EXCEPT ![c].begun = TRUE]
           /\ UNCHANGED <<source, last, pending, intent, intentSeq, record, open>>
  <2> HIDE DEF c
  <2>1. command' \in [Seq -> Command]
    BY <1>1, <1>5, CommandMoves
  <2>2. \A d \in Seq : /\ command'[d].outcome = command[d].outcome
                       /\ command'[d].phase = command[d].phase
                       /\ command'[d].target = command[d].target
    BY <1>1, <1>5 DEF Rows, ServerOK, Command
  <2>3. pending \in Seq
    BY <1>1, <1>5
  <2>4. ServerOK'
    BY <1>5, <2>1 DEF Rows, ServerOK
  <2>5. CommandInv'
    BY <1>5, <2>2, <2>3 DEF Rows, CommandInv
  <2>6. Moves /\ RemovedIsDropped'
    BY <1>5, <2>2, <2>3 DEF Moves, RemovedIsDropped, Shows
  <2> QED BY <2>2, <2>4, <2>5, <2>6 DEF Answered, Rows
<1> QED BY <1>2, <1>3, <1>4, <1>5 DEF HandleBegin

(* controlPromote: the intent it commits is that of the pending command.    *)
LEMMA PromoteStep ==
  ASSUME Rows, RemovedIsDropped, NEW r \in Request, NEW answer, r.kind = "promote",
         HandlePromote(r.seq, answer)
  PROVE  Answered(r, answer)
<1> DEFINE c == r.seq
<1>1. c \in Seq
  BY DEF Request
<1>2. CASE Load(c) # "found" /\ Decline(answer, Load(c))
  BY <1>1, <1>2, DeclineStep, RefusedAnswers, QuietAnswer
<1>3. CASE Decline(answer, "refused")
  BY <1>3, DeclineStep, QuietAnswer
<1>4. CASE pending = c /\ Settle(c, answer)
  BY <1>1, <1>4, SettleStep, QuietAnswer
<1>5. CASE /\ Load(c) = "found" /\ pending = c
           /\ command' = [command EXCEPT ![c].phase = "promoting"]
           /\ intent' = IF command[c].phase = "preparing" THEN IntentFor(command[c].target)
                        ELSE intent
           /\ intentSeq' = c
           /\ UNCHANGED <<source, last, pending, record, open>>
  <2> HIDE DEF c
  <2>1. command' \in [Seq -> Command]
    BY <1>1, <1>5, CommandMoves
  <2>2. /\ command'[c].phase = "promoting" /\ c # 0
        /\ \A d \in Seq : /\ command'[d].outcome = command[d].outcome
                          /\ command'[d].target = command[d].target
                          /\ d # c => command'[d] = command[d]
    BY <1>1, <1>5 DEF Rows, ServerOK, Command, Seq
  <2>3. /\ pending = last /\ pending # 0
        /\ command[pending].phase = "promoting" => intentSeq = pending
        /\ intentSeq = pending => intent = IntentFor(command[pending].target)
    BY <1>5, <2>2 DEF Rows, CommandInv
  <2>4. command[c].phase \in {"preparing", "promoting"} /\ command[c].target \in Target
    BY <1>1 DEF Rows, ServerOK, Command
  <2>5. intent' = IntentFor(command[pending].target)
    BY <1>5, <2>3, <2>4
  <2>6. ServerOK'
    BY <1>1, <1>5, <2>1, <2>4, <2>5, IntentType DEF Rows, ServerOK, Seq
  <2>7. CommandInv'
    <3>1. ASSUME NEW d \in Seq
          PROVE  /\ d > last' => command'[d].outcome = "absent"
                 /\ pending' = d <=> command'[d].outcome = "open"
                 /\ command'[d].outcome # "absent" /\ intentSeq' = d
                      => command'[d].phase = "promoting"
      BY <1>5, <2>2 DEF Rows, CommandInv
    <3>2. intentSeq' <= last' /\ pending' \in {0, last'}
      BY <1>5, <2>3 DEF Rows, ServerOK
    <3>3. intent' = IntentFor(command'[pending'].target) /\ intentSeq' = pending'
      BY <1>1, <1>5, <2>2, <2>5
    <3> QED BY <3>1, <3>2, <3>3 DEF CommandInv
  <2>8. Moves
    BY <1>1, <1>5, <2>2, <2>3, <2>5 DEF Moves
  <2>9. RemovedIsDropped'
    <3>1. \A s \in Source : Shows(intent', s) => Shows(command[pending].target.show, s)
      BY <2>5, Constants DEF Shows, IntentFor, Picture
    <3> QED BY <1>1, <1>5, <2>2, <2>3, <3>1 DEF RemovedIsDropped, Shows
  <2>10. r.seq <= intentSeq'
    BY <1>1, <1>5 DEF c, Seq
  <2>11. Rows'
    BY <2>6, <2>7 DEF Rows
  <2>12. \A d \in Seq : command'[d].outcome = command[d].outcome
    BY <2>2
  <2> QED BY <2>8, <2>9, <2>10, <2>11, <2>12 DEF Answered
<1> QED BY <1>2, <1>3, <1>4, <1>5 DEF HandlePromote

(* controlAck.                                                              *)
LEMMA AckStep ==
  ASSUME Rows, RemovedIsDropped, NEW r \in Request, NEW answer, r.kind = "ack",
         HandleAck(r.seq, r.ack, answer)
  PROVE  Answered(r, answer)
<1> DEFINE c == r.seq
<1>1. c \in Seq /\ r.ack.picture \in Picture
  BY DEF Request, Ack
<1>2. ASSUME NEW how, Decline(answer, how) PROVE Answered(r, answer)
  BY <1>2, DeclineStep DEF Answered
<1>3. CASE pending = c /\ Settle(c, answer)
  BY <1>1, <1>3, SettleStep, QuietAnswer
<1>4. CASE /\ pending = c /\ r.ack.how = "shown"
           /\ command' = Settled(command, c, "ok") /\ pending' = 0
           /\ record' = r.ack.picture
           /\ UNCHANGED <<source, last, intent, intentSeq, open>>
  <2>1. pending # 0
    BY <1>1, <1>4 DEF Seq
  <2>2. /\ Rows' /\ Moves
        /\ \A d \in Seq : command'[d].outcome = "ok" => command[d].outcome = "ok" \/ d = pending
    BY <1>1, <1>4, <2>1, SettlesRows DEF Rows, ServerOK
  <2>3. RemovedIsDropped'
    BY <1>4, SettledIsDropped
  <2> QED BY <1>4, <2>2, <2>3 DEF Answered
<1> QED BY <1>2, <1>3, <1>4 DEF HandleAck

(* Any request.                                                             *)
LEMMA HandleStep ==
  ASSUME Rows, RemovedIsDropped, NEW r \in Request, NEW answer, Handle(r, answer)
  PROVE  Answered(r, answer)
BY BeginStep, PromoteStep, AckStep DEF Handle
-----------------------------------------------------------------------------
(* The invariant.                                                           *)

(* A revision is made only for a change of the profile.                     *)
RevisionInv == \A s \in Source : /\ source[s].rev <= disturbances + 1
                                 /\ ~UpToDate(source[s]) => source[s].rev <= disturbances

WorkerInv ==
  IF tick.pc = "gone" THEN worker = [NoWorker EXCEPT !.adrift = worker.adrift]
  ELSE /\ Fit(worker)
       /\ worker.op = NoOp => OnIntent(worker)
       /\ tick.pc = "configured" => Timely(worker, tick)

Inv == TypeOK /\ RevisionInv /\ CommandInv /\ RemovedIsDropped /\ WorkerInv

(* The invariant without the worker's part.                                 *)
LEMMA InvRows == Inv => Rows /\ worker \in Worker /\ tick \in Tick
  BY DEF Inv, TypeOK, Rows, ServerOK

(* A step of the server leaves a worker and its configuration fitting.      *)
LEMMA WorkerKeeps ==
  ASSUME Inv, Rows', Moves, UNCHANGED tick, tick.pc # "gone", NEW w \in Worker, w = worker,
         \A c \in Seq : command'[c].outcome = "ok" => Acked(w, c)
  PROVE  /\ Fit(w)'
         /\ w.op = NoOp => OnIntent(w)
         /\ tick.pc = "configured" => Timely(w, tick)'
<1>1. Fit(w) /\ (w.op = NoOp => OnIntent(w)) /\ (tick.pc = "configured" => Timely(w, tick))
  BY DEF Inv, WorkerInv
<1>2. Agree(w)' /\ Shown(w)'
  BY <1>1, MovesFit, InvRows
<1>3. Fit(w)'
  BY <1>1, <1>2 DEF Fit, Good
<1>4. ASSUME tick.pc = "configured" PROVE Timely(w, tick)'
  <2>1. tick.seq \in 0..MaxSeq /\ Timely(w, tick)
    BY <1>1, <1>4, InvRows DEF Tick, At, Configuration
  <2>2. /\ last \in Nat /\ intentSeq \in Nat /\ intentSeq <= last /\ pending \in {0, last}
        /\ intentSeq' \in Nat
        /\ pending # 0 /\ intentSeq = pending => intent = IntentFor(command[pending].target)
    BY InvRows DEF Rows, ServerOK, CommandInv
  <2>3. tick.seq <= intentSeq'
    BY <2>1, <2>2 DEF Timely, Moves
  <2>4. tick.seq = intentSeq' => tick.intent = intent'
    BY <2>1, <2>2 DEF Timely, Moves
  <2> QED BY <2>1, <2>3, <2>4 DEF Timely
<1> QED BY <1>1, <1>3, <1>4

(* The same of the worker the session has.                                  *)
LEMMA ServerKeeps ==
  ASSUME Inv, Rows', Moves, UNCHANGED <<tick, worker>>, NoNewOk
  PROVE  WorkerInv'
<1>1. CASE tick.pc = "gone"
  BY <1>1 DEF Inv, WorkerInv
<1>2. CASE tick.pc # "gone"
  <2>1. PICK w \in Worker : w = worker
    BY InvRows
  <2>2. \A c \in Seq : command'[c].outcome = "ok" => Acked(w, c)
    BY DEF Acked, NoNewOk
  <2>3. Fit(w)' /\ (w.op = NoOp => OnIntent(w)) /\ (tick.pc = "configured" => Timely(w, tick)')
    BY <1>2, <2>1, <2>2, WorkerKeeps
  <2> QED BY <1>2, <2>1, <2>3 DEF WorkerInv, Fit, Good, Agree, Fits, Shown, Acked, OnIntent, Timely
<1> QED BY <1>1, <1>2

(* A step of the server that only changes what the rows say.                *)
LEMMA ServerInv ==
  ASSUME Inv, Rows', Moves, NoNewOk, RemovedIsDropped', UNCHANGED <<tick, worker, enc>>,
         disturbances' \in 0..MaxDisturbances, RevisionInv'
  PROVE  Inv'
<1>1. WorkerInv'
  BY ServerKeeps
<1>2. TypeOK'
  BY DEF Inv, TypeOK, Rows, ServerOK
<1> QED BY <1>1, <1>2 DEF Inv, Rows

(* Nothing has happened yet.                                                *)
LEMMA InitInv == Init => Inv
<1> SUFFICES ASSUME Init PROVE Inv
  OBVIOUS
<1>1. TypeOK
  BY Constants DEF Init, TypeOK, Row, Offer, Tick, At
<1>2. RevisionInv /\ RemovedIsDropped
  <2>1. \A s \in Source : /\ source[s].rev = 1 /\ UpToDate(source[s])
                         /\ source[s].removed = FALSE
    BY DEF Init, UpToDate
  <2>2. RevisionInv
    BY <2>1 DEF Init, RevisionInv
  <2> QED BY <2>1, <2>2 DEF RemovedIsDropped
<1>3. CommandInv
  BY DEF Init, CommandInv, NoCommand, Seq
<1>4. Agree(NoWorker)
  BY DEF Init, Agree, NoWorker, NoOp
<1>5. Shown(NoWorker)
  BY DEF Init, Shown, Acked, NoWorker, NoOp, NoAck, NoCommand
<1>6. OnIntent(NoWorker)
  BY DEF OnIntent, NoWorker
<1>7. WorkerInv
  BY <1>4, <1>5, <1>6, Constants DEF Init, WorkerInv, Fit, At
<1> QED BY <1>1, <1>2, <1>3, <1>7 DEF Inv

(* An edit of a profile changes what is offered and no revision.            *)
LEMMA EditInv ==
  ASSUME Inv, EditProfile PROVE Inv'
<1>1. PICK s \in Projected, offer \in Offer : source' = [source EXCEPT ![s].offer = offer]
  BY DEF EditProfile
<1>2. s \in Source /\ source \in [Source -> Row] /\ disturbances \in Nat
      /\ disturbances' = disturbances + 1 /\ disturbances' \in 0..MaxDisturbances
  BY ControlAssumption DEF EditProfile, Disturb, Inv, TypeOK
<1>3. /\ source' \in [Source -> Row]
      /\ \A r \in Source : /\ source'[r].rev = source[r].rev
                           /\ source'[r].removed = source[r].removed
  BY <1>1, <1>2 DEF Row
<1>4. RevisionInv'
  <2> SUFFICES ASSUME NEW r \in Source PROVE source'[r].rev <= disturbances'
    <3>1. \A r \in Source : source'[r].rev <= disturbances' => source'[r].rev <= disturbances' + 1
      BY <1>2, <1>3 DEF Row
    <3> QED BY <3>1 DEF RevisionInv
  <2>1. source[r].rev \in Nat /\ source[r].rev <= disturbances + 1
    BY <1>2 DEF Inv, RevisionInv, Row
  <2> QED BY <1>2, <1>3, <2>1
<1>5. Rows' /\ Moves /\ NoNewOk /\ RemovedIsDropped'
  BY <1>3, InvRows
     DEF EditProfile, Inv, Rows, ServerOK, CommandInv, Moves, NoNewOk, RemovedIsDropped, Shows
<1> QED BY <1>2, <1>4, <1>5, ServerInv DEF EditProfile

(* A removal.                                                               *)
LEMMA RemoveInv ==
  ASSUME Inv, RemoveSource PROVE Inv'
<1>1. PICK s \in Source : source' = [source EXCEPT ![s] = Gone]
  BY DEF RemoveSource
<1>2. /\ \A r \in Source : source'[r] = IF r = s THEN Gone ELSE source[r]
      /\ disturbances' = disturbances /\ disturbances \in Nat
  BY <1>1, RemovedRow, InvRows DEF RemoveSource, Inv, TypeOK
<1>3. Gone.rev <= disturbances + 1 /\ UpToDate(Gone)
  BY <1>2 DEF Gone, UpToDate
<1>4. RevisionInv'
  BY <1>2, <1>3 DEF Inv, RevisionInv
<1> QED BY <1>4, RemoveStep, InvRows, ServerInv DEF RemoveSource, Inv, TypeOK

(* What a worker observes.                                                  *)
LEMMA ObserveStep ==
  ASSUME Rows, RemovedIsDropped, Observe, enc \in Picture
  PROVE  Rows' /\ Moves /\ NoNewOk /\ RemovedIsDropped'
BY DEF Observe, Rows, ServerOK, CommandInv, Moves, NoNewOk, RemovedIsDropped, Shows

(* Staff's other steps, and what a worker observes.                         *)
LEMMA StaffInv ==
  ASSUME Inv, Admit \/ Cut \/ Cancel \/ Observe PROVE Inv'
<1>1. Rows' /\ Moves /\ NoNewOk /\ RemovedIsDropped'
  BY InvRows, AdmitStep, CutStep, CancelStep, ObserveStep DEF Inv, TypeOK
<1>2. UNCHANGED <<source, tick, worker, enc, disturbances>>
  BY DEF Admit, Cut, Cancel, Observe
<1>3. RevisionInv'
  BY <1>2 DEF Inv, RevisionInv
<1> QED BY <1>1, <1>2, <1>3, ServerInv DEF Inv, TypeOK

(* The end of the session takes the worker with it.                         *)
LEMMA CloseInv ==
  ASSUME Inv, NEW how \in {"refused", "ended"}, Close(how) PROVE Inv'
<1>1. Rows' /\ RemovedIsDropped'
  BY InvRows, CloseStep DEF Inv
<1>2. RevisionInv'
  BY DEF Inv, RevisionInv, Close
<1>3. TypeOK'
  BY <1>1, Constants DEF Rows, ServerOK, Inv, TypeOK, Close, Tick, At
<1>4. WorkerInv'
  <2>1. worker' = [NoWorker EXCEPT !.adrift = worker'.adrift]
    BY DEF Close, NoWorker
  <2> QED BY <2>1 DEF Close, WorkerInv, At
<1> QED BY <1>1, <1>2, <1>3, <1>4 DEF Inv, Rows

(* What a refresh makes of a row whose projection is out of date.           *)
LEMMA TakenRow ==
  ASSUME NEW row \in Row, row.rev + 1 \in 1..MaxDisturbances + 1
  PROVE  /\ Taken(row) \in Row /\ Taken(row).removed = row.removed
         /\ UpToDate(Taken(row)) /\ Taken(row).rev = row.rev + 1
<1> DEFINE offer == IF row.offer = "none" THEN "none" ELSE "same"
           stored == (row.offer # "none")
<1>1. Taken(row) = [row EXCEPT !.offer = offer, !.stored = stored, !.rev = row.rev + 1]
  BY DEF Taken, Row
<1>2. offer \in Offer /\ stored \in BOOLEAN /\ offer = IF stored THEN "same" ELSE "none"
  BY DEF Offer
<1> HIDE DEF offer, stored
<1> QED BY <1>1, <1>2 DEF Row, UpToDate

(* A refresh brings the revisions up to date and what it answers is timely. *)
LEMMA RefreshInv ==
  ASSUME Inv, Refresh PROVE Inv'
<1>1. source \in [Source -> Row] /\ source' = Reconciled /\ disturbances' = disturbances
      /\ disturbances \in 0..MaxDisturbances
  BY DEF Refresh, TickTo, Inv, TypeOK
<1>2. ASSUME NEW s \in Source
      PROVE  /\ source'[s] \in Row /\ source'[s].removed = source[s].removed
             /\ UpToDate(source'[s]) /\ source'[s].rev <= disturbances + 1
  <2>1. CASE UpToDate(source[s])
    BY <1>1, <2>1 DEF Reconciled, Inv, RevisionInv
  <2>2. CASE ~UpToDate(source[s])
    <3>1. source[s].rev \in Nat /\ source[s].rev <= disturbances /\ source[s] \in Row
      BY <1>1, <2>2 DEF Inv, RevisionInv, Row
    <3>2. source[s].rev + 1 \in 1..MaxDisturbances + 1
      BY <1>1, <3>1
    <3>3. source'[s] = Taken(source[s])
      BY <1>1, <2>2 DEF Reconciled
    <3>4. /\ source'[s] \in Row /\ source'[s].removed = source[s].removed
          /\ UpToDate(source'[s]) /\ source'[s].rev = source[s].rev + 1
      BY <3>1, <3>2, <3>3, TakenRow
    <3> QED BY <1>1, <3>1, <3>4
  <2> QED BY <2>1, <2>2
<1>3. source' \in [Source -> Row]
  BY <1>1, <1>2 DEF Reconciled
<1>4. RevisionInv'
  BY <1>1, <1>2 DEF RevisionInv
<1>5. Rows' /\ RemovedIsDropped'
  BY <1>2, <1>3 DEF Refresh, Inv, TypeOK, Rows, ServerOK, CommandInv, RemovedIsDropped, Shows
<1>6. PICK cfg : /\ tick' = cfg
                 /\ cfg = [pc |-> "configured", items |-> Listed(Reconciled), intent |-> intent,
                           seq |-> intentSeq, pending |-> pending, promoting |-> Promoting]
  BY DEF Refresh, TickTo
<1>7. cfg \in Configuration
  <2>1. Listed(Reconciled) \in SUBSET Item /\ Promoting \in BOOLEAN
    BY DEF Listed, Promoting
  <2> QED BY <1>6, <2>1 DEF Inv, TypeOK, Configuration
<1>8. TypeOK'
  BY <1>1, <1>5, <1>6, <1>7 DEF Refresh, Rows, ServerOK, Inv, TypeOK, Tick
<1>9. WorkerInv'
  <2>1. tick.pc # "gone"
    BY DEF Refresh
  <2>2. PICK w \in Worker : w = worker
    BY InvRows
  <2>3. Fit(w) /\ (w.op = NoOp => OnIntent(w))
    BY <2>1, <2>2 DEF Inv, WorkerInv
  <2>4. Timely(w, cfg)
    <3>1. cfg.seq = intentSeq /\ cfg.intent = intent
      BY <1>6
    <3> QED BY <2>3, <3>1 DEF Timely, Fit, Agree, Fits, Inv, TypeOK
  <2>5. UNCHANGED <<worker, command, last, pending, intent, intentSeq>>
    BY DEF Refresh
  <2>6. tick'.pc = "configured"
    BY <1>6
  <2> QED BY <1>6, <2>2, <2>3, <2>4, <2>5, <2>6
      DEF WorkerInv, Fit, Good, Agree, Fits, Shown, Acked, OnIntent, Timely
<1> QED BY <1>4, <1>5, <1>8, <1>9 DEF Inv, Rows
-----------------------------------------------------------------------------
(* The worker's steps.                                                      *)

(* Disturbances only leave more room for revisions.                         *)
LEMMA RevisionKept ==
  ASSUME Inv, UNCHANGED source, disturbances' \in {disturbances, disturbances + 1}
  PROVE  RevisionInv'
<1> SUFFICES ASSUME NEW s \in Source
             PROVE  /\ source[s].rev <= disturbances' + 1
                    /\ ~UpToDate(source[s]) => source[s].rev <= disturbances'
  BY DEF RevisionInv
<1>1. source[s].rev \in Nat /\ disturbances \in Nat
  BY DEF Inv, TypeOK, Row
<1> QED BY <1>1 DEF Inv, RevisionInv

(* A step that leaves the rows alone and the worker's operation the same.   *)
LEMMA LocalInv ==
  ASSUME Inv, UNCHANGED rows, tick' \in {tick, At("idle")}, enc' \in Picture,
         disturbances' \in {disturbances, disturbances + 1} \cap 0..MaxDisturbances,
         tick.pc # "gone", worker' \in Worker, Fit(worker'),
         worker'.op = NoOp => OnIntent(worker'),
         tick'.pc = "configured" /\ worker'.op # NoOp =>
           /\ worker.op # NoOp
           /\ worker'.op.seq = worker.op.seq /\ worker'.op.target = worker.op.target
  PROVE  Inv'
<1>1. UNCHANGED <<source, command, last, pending, intent, intentSeq, record, open>>
  BY DEF rows
<1>2. RevisionInv'
  BY <1>1, RevisionKept
<1>3. CommandInv' /\ RemovedIsDropped'
  BY <1>1 DEF Inv, CommandInv, RemovedIsDropped, Shows
<1>4. TypeOK'
  BY <1>1 DEF Inv, TypeOK, Tick, At
<1>5. WorkerInv'
  <2>1. PICK w \in Worker : w = worker'
    OBVIOUS
  <2>2. Fit(w)'
    BY <1>1, <2>1 DEF Fit, Good, Agree, Fits, Shown, Acked, OnIntent
  <2>3. tick'.pc = "configured" => Timely(w, tick)'
    <3>1. tick'.pc = "configured" => tick' = tick
      BY DEF At
    <3> QED BY <1>1, <2>1, <3>1 DEF Timely, Inv, WorkerInv
  <2>4. tick'.pc # "gone"
    BY DEF At
  <2> QED BY <2>1, <2>2, <2>3, <2>4
      DEF WorkerInv, Fit, Good, Agree, Fits, Shown, Acked, OnIntent, Timely
<1> QED BY <1>2, <1>3, <1>4, <1>5 DEF Inv

(* A tick: apply, begin, and advance or follow the schedule.                *)
LEMMA AdvanceInv ==
  ASSUME Inv, Advance PROVE Inv'
<1>1. PICK w0 \in Worker : w0 = worker
  BY InvRows
<1>2. PICK cfg \in Configuration : cfg = tick
  BY InvRows DEF Advance, Tick, At
<1>3. Rows /\ Fit(w0) /\ Timely(w0, cfg)
  BY <1>1, <1>2, InvRows DEF Advance, Inv, WorkerInv
<1> DEFINE applied == Configured(w0, cfg)
           w == IF pending = 0 THEN applied
                ELSE Begin(applied, pending, command[pending].target, Promoting)
<1>4. applied \in Worker /\ Fit(applied)
  BY <1>3, ConfiguredFits
<1>5. w \in Worker /\ Fit(w)
  <2> HIDE DEF applied
  <2> QED BY <1>3, <1>4, BeginFits
<1>6. IF w.op = NoOp THEN worker' \in Unpiloted(w)
      ELSE \E ready \in BOOLEAN : worker' = AdvanceOperation(w, enc, ready)
  BY <1>1, <1>2 DEF Advance
<1> HIDE DEF w
<1>7. enc \in Picture
  BY DEF Inv, TypeOK
<1>8. worker' \in Worker /\ Fit(worker') /\ (worker'.op = NoOp => OnIntent(worker'))
  <2>1. CASE w.op = NoOp
    BY <1>3, <1>5, <1>6, <2>1, UnpilotedFits
  <2>2. CASE w.op # NoOp
    <3>1. PICK ready \in BOOLEAN : worker' = AdvanceOperation(w, enc, ready)
      BY <1>6, <2>2
    <3> QED BY <1>3, <1>5, <1>7, <2>2, <3>1, AdvanceFits
  <2> QED BY <2>1, <2>2
<1>9. tick' = At("idle") /\ UNCHANGED <<rows, enc, disturbances>> /\ tick.pc # "gone"
  BY DEF Advance, TickTo
<1> QED BY <1>7, <1>8, <1>9, LocalInv DEF At, Inv, TypeOK

(* A worker that ends leaves only its requests.                             *)
LEMMA FenceInv ==
  ASSUME Inv, Fence PROVE Inv'
<1>1. UNCHANGED <<source, command, last, pending, intent, intentSeq, record, open, disturbances>>
  BY DEF Fence, rows
<1>2. tick' = At("gone") /\ worker' = [NoWorker EXCEPT !.adrift = worker.adrift] /\ enc' = Slate
  BY DEF Fence
<1>3. worker' \in Worker /\ worker'.adrift = worker.adrift
  BY <1>2, Constants DEF Inv, TypeOK, Worker
<1>4. TypeOK'
  BY <1>1, <1>2, <1>3, Constants DEF Inv, TypeOK, Tick
<1>5. RevisionInv'
  BY <1>1, RevisionKept
<1>6. CommandInv' /\ RemovedIsDropped'
  BY <1>1 DEF Inv, CommandInv, RemovedIsDropped, Shows
<1>7. WorkerInv'
  BY <1>2, <1>3 DEF WorkerInv, At
<1> QED BY <1>4, <1>5, <1>6, <1>7 DEF Inv

(* A frame of another picture.                                              *)
LEMMA EncodeInv ==
  ASSUME Inv, Encode PROVE Inv'
<1>1. UNCHANGED <<rows, tick, worker, disturbances>> /\ tick.pc # "gone"
  BY DEF Encode, Alive
<1>2. enc' \in Picture
  BY DEF Encode, Inv, TypeOK, Worker
<1>3. worker \in Worker /\ Fit(worker) /\ (worker.op = NoOp => OnIntent(worker))
  BY <1>1, InvRows DEF Inv, WorkerInv
<1> QED BY <1>1, <1>2, <1>3, LocalInv DEF Inv, TypeOK

(* A deadline.                                                              *)
LEMMA LapseInv ==
  ASSUME Inv, Lapse PROVE Inv'
<1>1. PICK w \in Worker : w = worker
  BY InvRows
<1>2. tick.pc # "gone"
  BY DEF Lapse, Inv, WorkerInv, NoWorker
<1>3. Fit(w) /\ w.op # NoOp
  BY <1>1, <1>2 DEF Lapse, Inv, WorkerInv
<1>4. worker' = [w EXCEPT !.op.late = TRUE]
  BY <1>1 DEF Lapse
<1>5. worker' \in Worker /\ Fit(worker') /\ worker'.op # NoOp
      /\ worker'.op.seq = w.op.seq /\ worker'.op.target = w.op.target
  BY <1>3, <1>4, InvRows, LapseFits
<1> QED BY <1>1, <1>2, <1>3, <1>5, LocalInv DEF Lapse, Inv, TypeOK

(* A lost request or answer.                                                *)
LEMMA TimeOutInv ==
  ASSUME Inv, TimeOut PROVE Inv'
<1>1. PICK w \in Worker : w = worker
  BY InvRows
<1>2. tick.pc # "gone"
  BY DEF TimeOut, Inv, WorkerInv, NoWorker
<1>3. Fit(w) /\ w.rpc # NoRpc /\ w.op # NoOp
  BY <1>1, <1>2 DEF TimeOut, Inv, WorkerInv, Fit, Good, NoOp, Seq
<1>4. worker' = [w EXCEPT !.rpc = NoRpc,
                   !.adrift = IF w.rpc.at = "sent" THEN @ \cup {Sent(w)} ELSE @]
  BY <1>1 DEF TimeOut
<1>5. worker' \in Worker /\ Fit(worker') /\ worker'.op = w.op
  BY <1>3, <1>4, InvRows, LostFits
<1> QED BY <1>1, <1>2, <1>3, <1>5, LocalInv DEF TimeOut, Disturb, Inv, TypeOK

(* The handlers leave the sources alone.                                    *)
LEMMA SourcesKept ==
  ASSUME NEW r, NEW answer, Handle(r, answer) PROVE source' = source
BY DEF Handle, HandleBegin, HandlePromote, HandleAck, Settle, Decline, rows

(* A request was handled, and the worker still fits.                        *)
LEMMA AnswerInv ==
  ASSUME Inv, NEW r \in Request, NEW answer, Handle(r, answer), Answered(r, answer),
         UNCHANGED <<tick, enc, disturbances>>, worker' \in Worker, WorkerInv'
  PROVE  Inv'
<1>1. RevisionInv'
  BY SourcesKept, RevisionKept DEF Inv, TypeOK
<1>2. TypeOK'
  BY DEF Inv, TypeOK, Answered, Rows, ServerOK
<1> QED BY <1>1, <1>2 DEF Inv, Answered, Rows

(* A request is handled while the worker waits for it.                      *)
LEMMA DeliverInv ==
  ASSUME Inv, Deliver PROVE Inv'
<1>1. PICK w \in Worker : w = worker
  BY InvRows
<1>2. PICK answer \in Answer :
        /\ Handle(Sent(w), answer)
        /\ worker' = [w EXCEPT !.rpc.at = IF answer = "ok" THEN "ok" ELSE "refused"]
  BY <1>1 DEF Deliver
<1>3. w.rpc.at = "sent" /\ UNCHANGED <<tick, enc, disturbances>>
  BY <1>1 DEF Deliver
<1>4. w.rpc # NoRpc /\ tick.pc # "gone"
  BY <1>1, <1>3 DEF Inv, WorkerInv, NoWorker, NoRpc
<1>5. Fit(w) /\ w.op # NoOp
  BY <1>1, <1>4 DEF Inv, WorkerInv, Fit, Good, NoOp, Seq
<1> DEFINE r == Sent(w)
           at == IF answer = "ok" THEN "ok" ELSE "refused"
           rpc == [w.rpc EXCEPT !.at = at]
           v == [w EXCEPT !.rpc = rpc]
<1>6. /\ r \in Request /\ r.seq = w.op.seq /\ r.kind = w.rpc.kind
      /\ r.ack.how = "shown" => w.op.ack.how = "shown"
  BY <1>4, <1>5, SentFacts DEF Fit, Sent
<1> HIDE DEF r
<1>7. Answered(r, answer)
  BY <1>2, <1>6, HandleStep, InvRows DEF Inv, r
<1>8. \A c \in Seq : command'[c].outcome = "ok" => Acked(w, c)
  BY <1>6, <1>7 DEF Answered, Acked
<1>9. Fit(w)' /\ (tick.pc = "configured" => Timely(w, tick)')
  BY <1>1, <1>3, <1>4, <1>7, <1>8, WorkerKeeps DEF Answered
<1>10. rpc \in Rpc /\ rpc.at = at /\ rpc.kind = w.rpc.kind
  BY DEF Worker, Rpc
<1>11. worker' = v
  BY <1>2 DEF Worker
<1> HIDE DEF rpc, v
<1>12. /\ v \in Worker /\ v.op = w.op /\ v.rpc = rpc /\ v.adrift = w.adrift
       /\ SameShow(w, v)
  BY <1>10 DEF v, Worker, SameShow
<1>13. rpc.at = "ok" /\ rpc.kind = "promote" => w.op.seq <= intentSeq'
  BY <1>6, <1>7, <1>10 DEF Answered
<1>14. Good(v)
  BY <1>5, <1>12 DEF Fit, Good
<1>15. Agree(v)'
  BY <1>9, <1>12, <1>13 DEF Fit, Agree, Fits, SameShow
<1>16. Shown(v)'
  BY <1>9, <1>12 DEF Fit, Shown, Acked, OnIntent, SameShow
<1>17. tick.pc = "configured" => Timely(v, tick)'
  BY <1>9, <1>12 DEF Timely
<1>18. WorkerInv'
  BY <1>3, <1>4, <1>5, <1>11, <1>12, <1>14, <1>15, <1>16, <1>17
     DEF WorkerInv, Fit, Good, Agree, Fits, Shown, Acked, OnIntent, Timely
<1> QED BY <1>2, <1>3, <1>6, <1>7, <1>11, <1>12, <1>18, AnswerInv DEF r

(* A request is handled that nobody waits for, a worker being there or not. *)
LEMMA DeliverLateInv ==
  ASSUME Inv, DeliverLate PROVE Inv'
<1>1. PICK w \in Worker : w = worker
  BY InvRows
<1>2. PICK r \in w.adrift, answer \in Answer :
        Handle(r, answer) /\ worker' = [w EXCEPT !.adrift = @ \ {r}]
  BY <1>1 DEF DeliverLate
<1>3. UNCHANGED <<tick, enc, disturbances>> /\ r \in Request
  BY DEF DeliverLate, Worker
<1>4. Answered(r, answer)
  BY <1>2, <1>3, HandleStep, InvRows DEF Inv
<1> DEFINE v == [w EXCEPT !.adrift = @ \ {r}]
<1>5. /\ v \in Worker /\ v.op = w.op /\ v.rpc = w.rpc /\ v.adrift = w.adrift \ {r}
      /\ SameShow(w, v)
  BY DEF Worker, SameShow
<1> HIDE DEF v
<1>6. worker' = v
  BY <1>2 DEF v
<1>7. CASE tick.pc = "gone"
  <2>1. w = [NoWorker EXCEPT !.adrift = w.adrift]
    BY <1>1, <1>7 DEF Inv, WorkerInv
  <2>2. v = [NoWorker EXCEPT !.adrift = v.adrift]
    BY <1>5, <2>1 DEF v, NoWorker, Worker
  <2>3. WorkerInv'
    BY <1>3, <1>6, <1>7, <2>2 DEF WorkerInv
  <2> QED BY <1>2, <1>3, <1>4, <1>5, <1>6, <2>3, AnswerInv
<1>8. CASE tick.pc # "gone"
  <2>1. \A c \in Seq : command'[c].outcome = "ok" => Acked(w, c)
    BY <1>2, <1>4 DEF Answered, Acked
  <2>2. /\ Fit(w)' /\ (w.op = NoOp => OnIntent(w))
        /\ tick.pc = "configured" => Timely(w, tick)'
    BY <1>1, <1>3, <1>4, <1>8, <2>1, WorkerKeeps DEF Answered
  <2>3. Good(v)
    BY <1>5, <2>2 DEF Fit, Good
  <2>4. Agree(v)'
    BY <1>5, <2>2 DEF Fit, Agree, Fits, SameShow
  <2>5. Shown(v)'
    BY <1>5, <2>2 DEF Fit, Shown, Acked, OnIntent, SameShow
  <2>6. v.op = NoOp => OnIntent(v)
    BY <1>5, <2>2 DEF OnIntent, SameShow
  <2>7. tick.pc = "configured" => Timely(v, tick)'
    BY <1>5, <2>2 DEF Timely
  <2>8. WorkerInv'
    BY <1>3, <1>5, <1>6, <1>8, <2>3, <2>4, <2>5, <2>6, <2>7
       DEF WorkerInv, Fit, Good, Agree, Fits, Shown, Acked, OnIntent, Timely
  <2> QED BY <1>2, <1>3, <1>4, <1>5, <1>6, <2>8, AnswerInv
<1> QED BY <1>7, <1>8

(* The worker takes in an answer.                                           *)
LEMMA ReceiveInv ==
  ASSUME Inv, Receive PROVE Inv'
<1>1. PICK w0 \in Worker : w0 = worker
  BY InvRows
<1>2. w0.rpc.at \in {"ok", "refused"} /\ UNCHANGED <<rows, tick, enc, disturbances>>
  BY <1>1 DEF Receive
<1>3. w0.rpc # NoRpc /\ tick.pc # "gone"
  BY <1>1, <1>2 DEF Inv, WorkerInv, NoWorker, NoRpc
<1>4. Rows /\ Fit(w0) /\ w0.op # NoOp
  BY <1>1, <1>3, InvRows DEF Inv, WorkerInv, Fit, Good, NoOp, Seq
<1> DEFINE w == [w0 EXCEPT !.rpc = NoRpc]
           shown == InView(w, w.op.target.show)
           begun == [w EXCEPT !.op.begun = TRUE]
           told == [w EXCEPT !.op.promoted = TRUE]
           promoted == Commit(told, IntentFor(w.op.target), w.op.seq, shown)
<1>5. w \in Worker /\ Fit(w) /\ w.op = w0.op
  BY <1>4, AnsweredFits
<1>6. \/ worker' = Keep(Forget(w), {})
      \/ \E ready \in BOOLEAN : worker' = AdvanceOperation(begun, w0.rpc.seen, ready)
      \/ /\ w0.rpc.at = "ok" /\ w0.rpc.kind = "promote"
         /\ \E picture \in {shown, Slate} : worker' = [promoted EXCEPT !.sel = picture]
  BY <1>1 DEF Receive
<1> HIDE DEF w
<1> SUFFICES /\ worker' \in Worker /\ Fit(worker') /\ (worker'.op = NoOp => OnIntent(worker'))
             /\ worker'.op # NoOp => /\ worker'.op.seq = w0.op.seq
                                     /\ worker'.op.target = w0.op.target
  BY <1>1, <1>2, <1>3, <1>4, LocalInv DEF Inv, TypeOK
<1>7. shown \in Picture /\ shown \in {w.op.target.show, Slate}
  BY <1>5, InViewFacts, IntentType DEF Worker, Operation, Intent
<1> HIDE DEF shown
<1>8. CASE worker' = Keep(Forget(w), {})
  <2>1. Forget(w) \in Worker /\ Fit(Forget(w)) /\ Forget(w).op = NoOp
    BY <1>4, <1>5, ForgetFacts, ForgetFits DEF Fit, Good
  <2>2. PICK f \in Worker : f = Forget(w)
    BY <2>1
  <2>3. Keep(f, {}) \in Worker /\ Fit(Keep(f, {})) /\ Keep(f, {}).op = NoOp
    BY <1>4, <2>1, <2>2, KeepFits
  <2>4. PICK p \in {f.sel, Slate} : /\ p # Slate => p \in {f.cur} \cup {}
                                    /\ Keep(f, {}) = [f EXCEPT !.sel = p]
    BY <2>1, <2>2, KeepFacts DEF Fit
  <2>5. OnIntent(Keep(f, {}))
    BY <2>1, <2>2, <2>4 DEF OnIntent, Worker, Fit, Agree
  <2> QED BY <1>8, <2>2, <2>3, <2>5
<1>9. CASE \E ready \in BOOLEAN : worker' = AdvanceOperation(begun, w0.rpc.seen, ready)
  <2>1. /\ begun \in Worker /\ Fit(begun) /\ begun.op # NoOp
        /\ begun.op.seq = w0.op.seq /\ begun.op.target = w0.op.target
    BY <1>4, <1>5, BegunFits
  <2>2. w0.rpc.seen \in Picture
    BY DEF Worker, Rpc
  <2>3. PICK ready \in BOOLEAN : worker' = AdvanceOperation(begun, w0.rpc.seen, ready)
    BY <1>9
  <2> HIDE DEF begun
  <2> QED BY <1>4, <2>1, <2>2, <2>3, AdvanceFits
<1>10. CASE /\ w0.rpc.at = "ok" /\ w0.rpc.kind = "promote"
            /\ \E picture \in {shown, Slate} : worker' = [promoted EXCEPT !.sel = picture]
  <2>1. w.op # NoOp /\ w.op.seq <= intentSeq
    BY <1>4, <1>5, <1>10 DEF Fit, Agree, Fits
  <2>2. /\ told \in Worker /\ Fit(told) /\ told.op # NoOp
        /\ told.op.seq = w.op.seq /\ told.op.target = w.op.target
    BY <1>4, <1>5, <2>1, PromoteFits
  <2> HIDE DEF told
  <2>3. /\ promoted \in Worker /\ Fit(promoted) /\ promoted.op = told.op
        /\ promoted.seq = w.op.seq /\ promoted.intent = IntentFor(w.op.target)
    BY <1>4, <1>7, <2>1, <2>2, CommitFits DEF SameOperation
  <2> HIDE DEF promoted
  <2>4. PICK picture \in {w.op.target.show, Slate} : worker' = [promoted EXCEPT !.sel = picture]
    BY <1>7, <1>10
  <2>5. /\ promoted.op # NoOp /\ promoted.op.seq <= intentSeq
        /\ promoted.seq = promoted.op.seq /\ promoted.intent = IntentFor(promoted.op.target)
        /\ picture \in {promoted.op.target.show, Slate}
    BY <2>1, <2>2, <2>3, <2>4
  <2>6. worker' \in Worker /\ Fit(worker') /\ worker'.op = promoted.op
    BY <1>4, <2>3, <2>4, <2>5, SelectFits
  <2> QED BY <1>5, <2>2, <2>3, <2>6
<1> QED BY <1>6, <1>8, <1>9, <1>10
-----------------------------------------------------------------------------
(* The theorems.                                                            *)

(* Every step keeps the invariant.                                          *)
LEMMA NextInv == Inv /\ [Next]_vars => Inv'
<1> SUFFICES ASSUME Inv, [Next]_vars PROVE Inv'
  OBVIOUS
<1>1. CASE EditProfile
  BY <1>1, EditInv
<1>2. CASE RemoveSource
  BY <1>2, RemoveInv
<1>3. CASE Admit \/ Cut \/ Cancel \/ Observe
  BY <1>3, StaffInv
<1>4. CASE StopSession
  BY <1>4, CloseInv DEF StopSession
<1>5. CASE EndSession
  BY <1>5, CloseInv DEF EndSession
<1>6. CASE Refresh
  BY <1>6, RefreshInv
<1>7. CASE Advance
  BY <1>7, AdvanceInv
<1>8. CASE Fence
  BY <1>8, FenceInv
<1>9. CASE Encode
  BY <1>9, EncodeInv
<1>10. CASE Deliver
  BY <1>10, DeliverInv
<1>11. CASE Receive
  BY <1>11, ReceiveInv
<1>12. CASE TimeOut
  BY <1>12, TimeOutInv
<1>13. CASE DeliverLate
  BY <1>13, DeliverLateInv
<1>14. CASE Lapse
  BY <1>14, LapseInv
<1>15. CASE UNCHANGED vars
  <2>1. UNCHANGED <<source, command, last, pending, intent, intentSeq, record, open, tick, worker,
                    enc, disturbances>>
    BY <1>15 DEF vars, rows
  <2> QED BY <2>1
          DEF Inv, TypeOK, RevisionInv, CommandInv, RemovedIsDropped, Shows, WorkerInv,
              Fit, Good, Agree, Fits, Shown, Acked, OnIntent, Timely
<1> QED BY <1>1, <1>2, <1>3, <1>4, <1>5, <1>6, <1>7, <1>8, <1>9, <1>10, <1>11, <1>12, <1>13,
           <1>14, <1>15 DEF Next

(* So it always holds.                                                      *)
LEMMA AlwaysInv == Spec => []Inv
<1> QED BY InitInv, NextInv, PTL DEF Spec

(* Every reachable state is well typed; with it, a source never gets more   *)
(* revisions than its profile had edits, however often workers refresh.     *)
THEOREM TypeCorrect == Spec => []TypeOK
<1>1. Inv => TypeOK
  BY DEF Inv
<1> QED BY <1>1, AlwaysInv, PTL

(* The session of an open broadcast names the one command that is open, in  *)
(* whatever order cuts, cancellations, removals and late requests come.     *)
THEOREM OnePending == Spec => []PendingIsOpen
<1>1. Inv => PendingIsOpen
  <2>1. Inv => \A c \in Seq : pending = c <=> command[c].outcome = "open"
    BY DEF Inv, CommandInv
  <2> QED BY <2>1 DEF PendingIsOpen
<1> QED BY <1>1, AlwaysInv, PTL

(* A take that was refused before it was promoted is never committed, not   *)
(* even by a request that arrives after the worker gave it up.              *)
THEOREM NoRefusedIntent == Spec => []RefusedNeverCommits
<1>1. Inv => RefusedNeverCommits
  <2>1. Inv => \A c \in Seq : command[c].outcome # "absent" /\ intentSeq = c
                                => command[c].phase = "promoting"
    BY DEF Inv, CommandInv
  <2> QED BY <2>1 DEF RefusedNeverCommits
<1> QED BY <1>1, AlwaysInv, PTL

(* A removed source is neither committed nor about to be.                   *)
THEOREM RemovalHolds == Spec => []RemovedIsDropped
<1>1. Inv => RemovedIsDropped
  BY DEF Inv
<1> QED BY <1>1, AlwaysInv, PTL

(* Worker and session at one sequence number mean the same intent; ahead,   *)
(* the worker shows nothing but the slate.                                  *)
THEOREM OneIntent == Spec => []SameIntent
<1>1. Inv => SameIntent
  <2> SUFFICES ASSUME Inv, Alive PROVE /\ worker.seq = intentSeq => worker.intent = intent
                                       /\ worker.seq > intentSeq => /\ worker.intent = Slate
                                                                    /\ worker.sel = Slate
    BY DEF SameIntent
  <2>1. Agree(worker)
    BY DEF Alive, Inv, WorkerInv, Fit
  <2> QED BY <2>1 DEF Agree
<1> QED BY <1>1, AlwaysInv, PTL

(* A worker with nothing to prepare shows what the session committed, or    *)
(* holds: no stale revision and no source of an earlier intent.             *)
THEOREM Follows == Spec => []ShowsIntent
<1>1. Inv => ShowsIntent
  <2> SUFFICES ASSUME Inv, Alive, worker.seq = intentSeq, worker.op = NoOp, intent # Automatic
               PROVE  worker.sel \in {intent, Slate}
    BY DEF ShowsIntent
  <2>1. Agree(worker) /\ OnIntent(worker)
    BY DEF Alive, Inv, WorkerInv, Fit
  <2> QED BY <2>1 DEF Agree, OnIntent
<1> QED BY <1>1, AlwaysInv, PTL

(* An operation the server confirmed and nothing replaced was taken in by   *)
(* the worker that runs, and is what it selects or waits to select.         *)
THEOREM Confirmed == Spec => []ConfirmedOnAir
<1>1. Inv => ConfirmedOnAir
  <2> SUFFICES ASSUME Inv, NEW c \in Seq, command[c].outcome = "ok", intentSeq = c, Alive
               PROVE  worker.seq >= c /\ (intent # Automatic => worker.sel \in {intent, Slate})
    BY DEF ConfirmedOnAir
  <2>1. PICK w \in Worker : w = worker
    BY InvRows
  <2>2. Agree(w) /\ Shown(w)
    BY <2>1 DEF Alive, Inv, WorkerInv, Fit
  <2>3. w.seq >= c /\ (w.seq = c => OnIntent(w))
    BY <2>2 DEF Shown, Acked
  <2>4. w.seq > c => w.sel = Slate
    BY <2>2 DEF Agree
  <2>5. w.seq = c \/ w.seq > c
    BY <2>3 DEF Worker, Seq
  <2> QED BY <2>1, <2>2, <2>3, <2>4, <2>5 DEF Agree, OnIntent
<1> QED BY <1>1, AlwaysInv, PTL
=============================================================================
