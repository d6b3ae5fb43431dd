------------------------ MODULE PayinCallbackProofs ------------------------
(***************************************************************************)
(* What PayinCallback guarantees for any number of orders, workers and     *)
(* faults, on top of PayinOrderProofs.  The argument is about stamps: the  *)
(* one a row bears, and the one a sender is about to write.  Both may be   *)
(* stale, since an order that lapsed may have been paid in the meantime,   *)
(* but neither ever says more than was queued; and a stamp of a status     *)
(* that has passed is one that the backstop looks for.                     *)
(***************************************************************************)
EXTENDS PayinCallback, PayinOrderProofs

Queued(o, word) == \E i \in DOMAIN outbox : outbox[i].order = o /\ outbox[i].word = word

\* The word is the order's status, or was, before a payment that came late.
Timely(o, word) == word = callbackStatus(row[o].status) \/ Paid(o)

\* What a stamp of a final order says is so.
Truthful(o, stamp) ==
  /\ stamp.word # "none" => Timely(o, stamp.word)
  /\ stamp.kind = "sent" => stamp.word # "none" /\ Queued(o, stamp.word)
  /\ stamp.kind = "skipped" /\ HasTarget => stamp.word # "none" /\ stamp.word \notin Subscribed

\* A row is stamped only when it is final.
Stamped(o) == /\ Truthful(o, row[o].meta.callback)
              /\ ~Final(o) => row[o].meta.callback = NoStamp

\* A worker that does not send has no stamp in hand; one that does has read a final order.
Carries(w) ==
  LET s == send[w]
      o == call[w].order
  IN  /\ ~Sending(w) => s = Unsent
      /\ s.at = "start" => s.stamp = NoStamp
      /\ s.at # "start" => Final(o)
      /\ s.at = "queue" => s.stamp.kind = "sent" /\ s.stamp.word # "none" /\ Timely(o, s.stamp.word)
      /\ s.at = "stamp" => Truthful(o, s.stamp)

\* advance-vpa reads an open order, which bears no stamp yet.
Rotates(c) == c.pc = "rotate" => c.meta.callback = NoStamp

\* "Captured" is queued and heard of paid orders only.
SaidRightly == /\ \A i \in DOMAIN outbox : outbox[i].word = "Captured" => Paid(outbox[i].order)
               /\ \A o \in paidTold : Paid(o)

\* The inductive invariant.
CallbackInv == /\ Inv /\ CallbackTypeOK /\ SaidRightly
               /\ \A o \in Order : Stamped(o)
               /\ \A w \in Worker : Carries(w) /\ Rotates(call[w])

-----------------------------------------------------------------------------
(***************************************************************************)
(* Statuses and words.                                                     *)
(***************************************************************************)
LEMMA WordsOfStatus ==
  /\ \A s \in Status : callbackStatus(s) \in Word
  /\ \A s \in Status : callbackStatus(s) = "Captured" <=> s = "SUCCESS"
BY DEF callbackStatus, Status, Word

LEMMA StatusTyped == ASSUME Inv PROVE \A o \in Order : row[o].status \in Status
BY RowTypes DEF Inv, TypeOK

LEMMA StampTyped ==
  ASSUME Inv, NEW o \in Order
  PROVE  /\ row[o] \in Row /\ row[o].meta.callback \in Stamp
         /\ row[o].meta.callback.kind \in {"none", "sent", "skipped", "not queued"}
         /\ row[o].meta.callback.word \in Word \cup {"none"}
<1>1. row[o] \in Row
  BY DEF Inv, TypeOK
<1>2. row[o].meta \in Meta
  BY <1>1, RowTypes
<1> QED BY <1>1, <1>2 DEF Meta, Stamp

LEMMA UnsentIs == Unsent.at = "start" /\ Unsent.stamp = NoStamp
                  /\ Unsent \in [at : {"start", "queue", "stamp"}, stamp : Stamp]
BY DEF Unsent, NoStamp, Stamp

LEMMA OutboxTyped ==
  ASSUME CallbackTypeOK
  PROVE  /\ DOMAIN outbox = 1..Len(outbox) /\ Len(outbox) \in Nat
         /\ \A i \in DOMAIN outbox : outbox[i] \in OutboxRow
<1>1. outbox \in Seq(OutboxRow)
  BY DEF CallbackTypeOK
<1>2. DOMAIN outbox = 1..Len(outbox) /\ Len(outbox) \in Nat
  BY <1>1
<1>3. \A i \in 1..Len(outbox) : outbox[i] \in OutboxRow
  BY <1>1
<1> QED BY <1>2, <1>3

\* What may become of an order's status: it is closed once, and paid for good.
LaterStatus(o) == /\ Final(o) => Final(o)' /\ (row'[o].status = row[o].status \/ Paid(o)')
                  /\ Paid(o) => Paid(o)'

LEMMA StatusesMove ==
  ASSUME Inv, [Promise!Next]_(Promise!promiseVars)
  PROVE  \A o \in Order : LaterStatus(o)
<1> DEFINE st == [p \in Order |-> row[p].status]
           pw == [p \in Order |-> row[p].rrn]
<1>1. \A o \in Order : st[o] = row[o].status /\ st'[o] = row'[o].status
  OBVIOUS
<1>2. SUFFICES ASSUME NEW o \in Order
               PROVE  \/ st'[o] = st[o]
                      \/ st[o] = "PENDING"
                      \/ st[o] # "SUCCESS" /\ st'[o] = "SUCCESS"
  BY <1>1, <1>2, StatusTyped DEF LaterStatus, Final, Paid, Terminal, Status
<1>3. ASSUME NEW p \in Order, NEW s \in {"FAILED", "EXPIRED"}, Promise!Close(p, s)
      PROVE  st'[o] = st[o] \/ st[o] = "PENDING"
  BY <1>3 DEF Promise!Close
<1>4. ASSUME NEW p \in Order, NEW r \in Ref, Promise!Pay(p, r)
      PROVE  st'[o] = st[o] \/ (st[o] # "SUCCESS" /\ st'[o] = "SUCCESS")
  BY <1>4 DEF Promise!Pay
<1>5. CASE UNCHANGED Promise!promiseVars
  BY <1>5 DEF Promise!promiseVars
<1> QED BY <1>3, <1>4, <1>5 DEF Promise!Next

\* What was said of an order stays true while orders move and the outbox grows.
Grows == \A o \in Order : \A word : Queued(o, word) => Queued(o, word)'

LEMMA TruthStays ==
  ASSUME NEW o \in Order, LaterStatus(o), Final(o), Grows, NEW stamp, Truthful(o, stamp)
  PROVE  Truthful(o, stamp)'
BY DEF Truthful, Timely, LaterStatus, Grows

LEMMA NoStampIsTrue ==
  ASSUME NEW o
  PROVE  Truthful(o, NoStamp) /\ Truthful(o, NoStamp)'
BY DEF Truthful, NoStamp

\* A sender carries what it carried while others move.
LEMMA CarriesStays ==
  ASSUME CallbackInv, NEW w \in Worker, call'[w] = call[w], send'[w] = send[w],
         \A o \in Order : LaterStatus(o), Grows
  PROVE  Carries(w)' /\ Rotates(call[w])'
<1>1. Carries(w) /\ Rotates(call[w])
  BY DEF CallbackInv
<1>2. CASE ~Sending(w)
  <2>1. send'[w] = Unsent /\ ~Sending(w)'
    BY <1>1, <1>2 DEF Carries, Sending
  <2> QED BY <1>1, <2>1, UnsentIs DEF Carries, Rotates
<1>3. CASE Sending(w)
  <2>1. call[w].order \in Order
    BY <1>3 DEF CallbackInv, Inv, TypeOK, Sending
  <2>2. LaterStatus(call[w].order)
    BY <2>1
  <2>3. send[w].at = "stamp" => Truthful(call[w].order, send[w].stamp)'
    BY <1>1, <2>1, <2>2, TruthStays DEF Carries
  <2>4. (Carries(w))'
    <3>1. (~Sending(w) => send[w] = Unsent)' /\ (send[w].at = "start" => send[w].stamp = NoStamp)'
      BY <1>1, <1>3 DEF Carries, Sending
    <3>2. (send[w].at # "start" => Final(call[w].order))'
      BY <1>1, <2>2 DEF Carries, LaterStatus, Final
    <3>3. (send[w].at = "queue" => /\ send[w].stamp.kind = "sent" /\ send[w].stamp.word # "none"
                                   /\ Timely(call[w].order, send[w].stamp.word))'
      BY <1>1, <2>2 DEF Carries, LaterStatus, Timely, Paid
    <3>4. (send[w].at = "stamp" => Truthful(call[w].order, send[w].stamp))'
      BY <2>3 DEF Truthful, Queued, Timely, Paid
    <3> QED BY <3>1, <3>2, <3>3, <3>4 DEF Carries
  <2> QED BY <1>1, <2>4 DEF Rotates
<1> QED BY <1>2, <1>3

\* A row keeps its stamp, or loses it.
StampsKept == \A o \in Order : row'[o].meta.callback \in {row[o].meta.callback, NoStamp}

LEMMA StampedStays ==
  ASSUME CallbackInv, NEW o \in Order, LaterStatus(o), Grows, StampsKept
  PROVE  Stamped(o)'
<1>1. Stamped(o)
  BY DEF CallbackInv
<1>2. CASE row'[o].meta.callback = NoStamp
  BY <1>2, NoStampIsTrue DEF Stamped, Truthful, Queued, Timely, Paid
<1>3. CASE row'[o].meta.callback = row[o].meta.callback /\ row[o].meta.callback # NoStamp
  <2>1. Final(o) /\ Final(o)'
    BY <1>1, <1>3 DEF Stamped, LaterStatus
  <2>2. Truthful(o, row[o].meta.callback)'
    BY <1>1, <1>3, <2>1, TruthStays DEF Stamped, Truthful, Queued, Timely, Paid
  <2> QED BY <1>3, <2>1, <2>2 DEF Stamped
<1> QED BY <1>2, <1>3 DEF StampsKept

LEMMA SaidStays ==
  ASSUME CallbackInv, \A o \in Order : LaterStatus(o), UNCHANGED <<outbox, paidTold>>
  PROVE  SaidRightly' /\ Grows
<1>1. \A i \in DOMAIN outbox : outbox[i].order \in Order
  BY OutboxTyped DEF CallbackInv, OutboxRow
<1>2. paidTold \subseteq Order
  BY DEF CallbackInv, CallbackTypeOK
<1> QED BY <1>1, <1>2 DEF CallbackInv, SaidRightly, LaterStatus, Grows, Queued, Paid

-----------------------------------------------------------------------------
(***************************************************************************)
(* A step of an order's request.  It never stamps a row, nor moves a       *)
(* request that sends, but to end it.                                      *)
(***************************************************************************)
OnlyEnds(v) == call'[v] = call[v] \/ ~Sending(v) \/ ~Sending(v)'

RequestStep == /\ StampsKept
               /\ \A v \in Worker : OnlyEnds(v) /\ Rotates(call[v])'

\* Another worker's step.
LEMMA OthersRest ==
  ASSUME CallbackInv, NEW w \in Worker, \A v \in Worker \ {w} : call'[v] = call[v],
         OnlyEnds(w), Rotates(call[w])', StampsKept
  PROVE  RequestStep
BY DEF RequestStep, OnlyEnds, CallbackInv, Rotates

LEMMA OneCallChanges ==
  ASSUME CallbackInv, NEW w \in Worker, NEW c, call' = [call EXCEPT ![w] = c]
  PROVE  call'[w] = c /\ \A v \in Worker \ {w} : call'[v] = call[v]
BY DEF CallbackInv, Inv, TypeOK

LEMMA OnePasses ==
  ASSUME CallbackInv, NEW w \in Worker, NEW c, call' = [call EXCEPT ![w] = c],
         ~Sending(w), c.pc # "rotate", StampsKept
  PROVE  RequestStep
<1>1. call'[w] = c /\ \A v \in Worker \ {w} : call'[v] = call[v]
  BY OneCallChanges
<1>2. OnlyEnds(w) /\ Rotates(call[w])'
  BY <1>1 DEF OnlyEnds, Rotates
<1> QED BY <1>1, <1>2, OthersRest

LEMMA RowsRest ==
  ASSUME CallbackInv, UNCHANGED row
  PROVE  StampsKept
BY DEF StampsKept

LEMMA AnsweredEnds ==
  ASSUME NEW c, NEW r
  PROVE  Answered(c, r).pc = "done" /\ Idle.pc = "idle"
BY DEF Answered, Idle

LEMMA AfterReadSendsNot ==
  ASSUME NEW c \in Call
  PROVE  AfterRead(c).pc \in {"idle", "done", "dupcheck", "write"}
BY AnsweredEnds DEF AfterRead, Call

LEMMA OneRowChanges ==
  ASSUME CallbackInv, NEW o \in Order, NEW n, row' = [row EXCEPT ![o] = n],
         n.meta.callback \in {row[o].meta.callback, NoStamp}
  PROVE  StampsKept
BY DEF StampsKept, CallbackInv, Inv, TypeOK

LEMMA ConfirmsKeepStamps ==
  ASSUME CallbackInv, NEW w \in Worker, ConfirmWrite(w)
  PROVE  RequestStep
<1> DEFINE c == call[w]
           o == c.order
           new == Confirmed(row[o], c)
           notify == [Answered(c, "confirmed") EXCEPT !.pc = "notify"]
<1>1. c \in Call /\ c.pc = "write" /\ o \in Order /\ row[o] \in Row
  BY DEF ConfirmWrite, CallbackInv, Inv, TypeOK
<1>2. new.meta.callback = row[o].meta.callback
  BY <1>1 DEF Confirmed, Row, Meta
<1>3. notify.pc = "notify"
  BY DEF Answered, Idle
<1>4. ~Sending(w)
  BY <1>1 DEF Sending
<1>5. CASE row' = [row EXCEPT ![o] = new] /\ call' = [call EXCEPT ![w] = notify]
  <2> HIDE DEF new, notify
  <2>1. StampsKept
    BY <1>1, <1>2, <1>5, OneRowChanges
  <2> QED BY <1>3, <1>4, <1>5, <2>1, OnePasses
<1>6. ASSUME NEW r, UNCHANGED row, Answer(w, r)
      PROVE  RequestStep
  <2>1. call' = [call EXCEPT ![w] = Answered(call[w], r)]
    BY <1>6 DEF Answer
  <2> QED BY <1>4, <1>6, <2>1, RowsRest, AnsweredEnds, OnePasses
<1>7. CASE UNCHANGED row /\ call' = [call EXCEPT ![w].pc = "reread", ![w].retried = TRUE]
  <2> DEFINE d == [c EXCEPT !.pc = "reread", !.retried = TRUE]
  <2>1. d.pc = "reread" /\ call' = [call EXCEPT ![w] = d]
    BY <1>1, <1>7 DEF CallbackInv, Inv, TypeOK, Call
  <2> HIDE DEF d
  <2> QED BY <1>4, <1>7, <2>1, RowsRest, OnePasses
<1> QED BY <1>5, <1>6, <1>7 DEF ConfirmWrite

LEMMA ReadsKeepStamps ==
  ASSUME CallbackInv, NEW w \in Worker, ConfirmRead(w) \/ ConfirmReread(w) \/ ConfirmDupCheck(w)
  PROVE  RequestStep
<1>1. StampsKept /\ ~Sending(w)
  BY RowsRest DEF ConfirmRead, ConfirmReread, ConfirmDupCheck, Sending
<1>2. CASE ConfirmRead(w)
  <2>1. PICK o \in Order, out \in Outcome, u \in Ref \cup {NoRef}, e \in Evidence :
          call' = [call EXCEPT ![w] = AfterRead([Idle EXCEPT !.order = o, !.outcome = out,
                                                             !.utr = u, !.evidence = e])]
    BY <1>2 DEF ConfirmRead
  <2> DEFINE c == [Idle EXCEPT !.order = o, !.outcome = out, !.utr = u, !.evidence = e]
  <2>2. c \in Call
    BY IdleType DEF Call, Outcome, Status
  <2> HIDE DEF c
  <2>3. AfterRead(c).pc \in {"idle", "done", "dupcheck", "write"}
    BY <2>2, AfterReadSendsNot
  <2>4. call' = [call EXCEPT ![w] = AfterRead(c)]
    BY <2>1 DEF c
  <2> QED BY <1>1, <2>3, <2>4, OnePasses
<1>3. CASE ConfirmReread(w)
  <2>1. AfterRead(call[w]).pc \in {"idle", "done", "dupcheck", "write"}
    BY AfterReadSendsNot DEF CallbackInv, Inv, TypeOK
  <2>2. call' = [call EXCEPT ![w] = AfterRead(call[w])]
    BY <1>3 DEF ConfirmReread
  <2> QED BY <1>1, <2>1, <2>2, OnePasses
<1>4. CASE ConfirmDupCheck(w)
  <2> DEFINE d == [call[w] EXCEPT !.pc = "write"]
  <2>1. call[w] \in Call
    BY DEF CallbackInv, Inv, TypeOK
  <2>2. d.pc = "write"
    BY <2>1 DEF Call
  <2>3. \/ call' = [call EXCEPT ![w] = Answered(call[w], "duplicate")]
        \/ call' = [call EXCEPT ![w] = d]
    BY <1>4 DEF ConfirmDupCheck, Answer, CallbackInv, Inv, TypeOK
  <2>4. Answered(call[w], "duplicate").pc = "done"
    BY AnsweredEnds
  <2> HIDE DEF d
  <2> QED BY <1>1, <2>2, <2>3, <2>4, OnePasses
<1> QED BY <1>2, <1>3, <1>4

LEMMA ResolversKeepStamps ==
  ASSUME CallbackInv, NEW w \in Worker, ResolveWrite(w) \/ \E o \in Order : ResolveRead(w, o)
  PROVE  RequestStep
<1>1. ~Sending(w)
  BY DEF ResolveWrite, ResolveRead, Sending
<1>2. CASE ResolveWrite(w)
  <2> DEFINE c == call[w]
             o == c.order
             new == [row[o] EXCEPT !.status = c.outcome,
                                   !.rrn = IF c.outcome = "SUCCESS" THEN genRrn[o] ELSE @]
             end == [Idle EXCEPT !.pc = "notify", !.order = o]
  <2>1. o \in Order /\ row[o] \in Row
    BY <1>2 DEF ResolveWrite, CallbackInv, Inv, TypeOK
  <2>2. new.meta.callback = row[o].meta.callback
    BY <2>1 DEF Row
  <2>3. end.pc = "notify"
    BY DEF Idle
  <2>4. \/ row' = [row EXCEPT ![o] = new] /\ call' = [call EXCEPT ![w] = end]
        \/ UNCHANGED row /\ call' = [call EXCEPT ![w] = Idle]
    BY <1>2, <2>1 DEF ResolveWrite, Over, CallbackInv, Inv, TypeOK
  <2> HIDE DEF new, end
  <2>5. StampsKept
    BY <2>1, <2>2, <2>4, OneRowChanges, RowsRest
  <2> QED BY <1>1, <2>3, <2>4, <2>5, AnsweredEnds, OnePasses
<1>3. ASSUME NEW o \in Order, ResolveRead(w, o) PROVE RequestStep
  <2> DEFINE c == [Idle EXCEPT !.pc = "resolve", !.order = o, !.outcome = resolveKatanaStatus(o)]
  <2>1. c.pc = "resolve"
    BY DEF Idle
  <2>2. call' = [call EXCEPT ![w] = c] /\ UNCHANGED row
    BY <1>3 DEF ResolveRead
  <2> HIDE DEF c
  <2> QED BY <1>1, <2>1, <2>2, RowsRest, OnePasses
<1> QED BY <1>2, <1>3

LEMMA ProofsKeepStamps ==
  ASSUME CallbackInv, NEW w \in Worker, ProofRead(w) \/ ProofPark(w)
  PROVE  RequestStep
<1>1. ~Sending(w)
  BY DEF ProofRead, ProofPark, Sending
<1>2. CASE ProofRead(w)
  <2>1. PICK o \in Order : call' = [call EXCEPT ![w] = [Idle EXCEPT !.pc = "park", !.order = o]]
    BY <1>2 DEF ProofRead
  <2> DEFINE c == [Idle EXCEPT !.pc = "park", !.order = o]
  <2>2. c.pc = "park"
    BY DEF Idle
  <2>3. call' = [call EXCEPT ![w] = c] /\ StampsKept
    BY <1>2, <2>1, RowsRest DEF ProofRead
  <2> HIDE DEF c
  <2> QED BY <1>1, <2>2, <2>3, OnePasses
<1>3. CASE ProofPark(w)
  <2> DEFINE o == call[w].order
             new == [row[o] EXCEPT !.meta.review = "PROOF_SUBMITTED"]
  <2>1. o \in Order /\ row[o] \in Row
    BY <1>3 DEF ProofPark, CallbackInv, Inv, TypeOK
  <2>2. new.meta.callback = row[o].meta.callback
    BY <2>1 DEF Row, Meta
  <2>3. UNCHANGED row \/ row' = [row EXCEPT ![o] = new]
    BY <1>3, <2>1 DEF ProofPark, CallbackInv, Inv, TypeOK
  <2>4. call' = [call EXCEPT ![w] = Idle]
    BY <1>3 DEF ProofPark, Over
  <2> HIDE DEF new
  <2>5. StampsKept
    BY <2>1, <2>2, <2>3, OneRowChanges, RowsRest
  <2> QED BY <1>1, <2>4, <2>5, AnsweredEnds, OnePasses
<1> QED BY <1>2, <1>3

\* advance-vpa may take a stamp away, but writes none.
LEMMA RotationsWriteNoStamp ==
  ASSUME CallbackInv, NEW w \in Worker, RotateRead(w) \/ RotateWrite(w)
  PROVE  RequestStep
<1>1. ~Sending(w)
  BY DEF RotateRead, RotateWrite, Sending
<1>2. CASE RotateRead(w)
  <2>1. PICK o \in Order : /\ ~Final(o)
                           /\ call' = [call EXCEPT ![w] = [Idle EXCEPT !.pc = "rotate", !.order = o,
                                                                       !.meta = row[o].meta]]
    BY <1>2 DEF RotateRead
  <2> DEFINE c == [Idle EXCEPT !.pc = "rotate", !.order = o, !.meta = row[o].meta]
  <2>2. c.pc = "rotate" /\ c.meta.callback = NoStamp
    BY <2>1 DEF Idle, CallbackInv, Stamped
  <2>3. call' = [call EXCEPT ![w] = c] /\ StampsKept
    BY <1>2, <2>1, RowsRest DEF RotateRead
  <2> HIDE DEF c
  <2> QED BY <1>1, <2>2, <2>3, OneCallChanges, OthersRest DEF OnlyEnds, Rotates
<1>3. CASE RotateWrite(w)
  <2> DEFINE c == call[w]
             o == c.order
             m == [c.meta EXCEPT !.ready = @ - 1]
             new == [row[o] EXCEPT !.meta = m]
  <2>1. o \in Order /\ row[o] \in Row /\ c \in Call /\ c.pc = "rotate"
    BY <1>3 DEF RotateWrite, CallbackInv, Inv, TypeOK
  <2>2. c.meta.callback = NoStamp
    BY <2>1 DEF CallbackInv, Rotates
  <2>3. new.meta.callback = NoStamp
    <3>1. m.callback = NoStamp
      BY <2>1, <2>2 DEF Call, Meta
    <3> HIDE DEF m
    <3> QED BY <2>1, <3>1 DEF Row
  <2>4. row' = [row EXCEPT ![o] = new] /\ call' = [call EXCEPT ![w] = Idle]
    BY <1>3, <2>1 DEF RotateWrite, Over, CallbackInv, Inv, TypeOK
  <2> HIDE DEF new
  <2>5. StampsKept
    BY <2>1, <2>3, <2>4, OneRowChanges
  <2> QED BY <1>1, <2>4, <2>5, AnsweredEnds, OnePasses
<1> QED BY <1>2, <1>3

LEMMA RequestSteps ==
  ASSUME CallbackInv, OrderNext
  PROVE  RequestStep
<1>1. ASSUME NEW w \in Worker, Over(w), UNCHANGED row
      PROVE  RequestStep
  BY <1>1, RowsRest, OneCallChanges, AnsweredEnds, OthersRest DEF Over, OnlyEnds, Rotates, Sending
<1>2. ASSUME NEW o \in Order, Aging(o)
      PROVE  RequestStep
  BY <1>2, RowsRest DEF Aging, RequestStep, OnlyEnds, CallbackInv, Rotates
<1>3. ASSUME NEW w \in Worker, Step(w)
      PROVE  RequestStep
  BY <1>1, <1>3, ReadsKeepStamps, ConfirmsKeepStamps, ResolversKeepStamps, ProofsKeepStamps,
     RotationsWriteNoStamp DEF Step, Return
<1>4. ASSUME NEW w \in Worker, Request(w)
      PROVE  RequestStep
  BY <1>4, ReadsKeepStamps, ResolversKeepStamps, ProofsKeepStamps, RotationsWriteNoStamp DEF Request
<1> QED BY <1>1, <1>2, <1>3, <1>4 DEF OrderNext, Crash

LEMMA OrderStepOK ==
  ASSUME CallbackInv, OrderNext, UNCHANGED <<outbox, lastTold, paidTold>>,
         send' = [w \in Worker |-> IF call'[w].pc = "notify" THEN send[w] ELSE Unsent]
  PROVE  CallbackInv' /\ [Promise!Next]_(Promise!promiseVars)
<1>1. Inv' /\ [Promise!Next]_(Promise!promiseVars)
  BY NextOK DEF CallbackInv, Next, StepsWell
<1>2. \A o \in Order : LaterStatus(o)
  BY <1>1, StatusesMove DEF CallbackInv
<1>3. RequestStep
  BY RequestSteps
<1>4. SaidRightly' /\ Grows
  BY <1>2, SaidStays
<1>5. \A o \in Order : Stamped(o)'
  BY <1>2, <1>3, <1>4, StampedStays DEF RequestStep
<1>6. ASSUME NEW v \in Worker
      PROVE  Carries(v)' /\ Rotates(call[v])'
  <2>1. Carries(v) /\ OnlyEnds(v) /\ Rotates(call[v])'
    BY <1>3 DEF CallbackInv, RequestStep
  <2>2. CASE call'[v] = call[v]
    <3>1. send'[v] = send[v]
      BY <2>1, <2>2 DEF Carries, Sending
    <3> QED BY <1>2, <1>4, <2>2, <3>1, CarriesStays
  <2>3. CASE call'[v] # call[v]
    <3>1. send'[v] = Unsent
      BY <2>1, <2>3 DEF Carries, OnlyEnds, Sending
    <3> QED BY <2>1, <3>1, UnsentIs DEF Carries
  <2> QED BY <2>2, <2>3
<1>7. CallbackTypeOK'
  BY UnsentIs DEF CallbackInv, CallbackTypeOK
<1> QED BY <1>1, <1>4, <1>5, <1>6, <1>7 DEF CallbackInv

-----------------------------------------------------------------------------
(***************************************************************************)
(* The steps of a sender, the backstop and the deliveries.                 *)
(***************************************************************************)
\* A step that leaves the statuses and references of the orders alone.
StatusesRest == \A o \in Order : row'[o].status = row[o].status /\ row'[o].rrn = row[o].rrn

LEMMA RestingOrders ==
  ASSUME CallbackInv, StatusesRest
  PROVE  (\A o \in Order : LaterStatus(o)) /\ [Promise!Next]_(Promise!promiseVars)
<1>1. \A o \in Order : LaterStatus(o)
  BY DEF StatusesRest, LaterStatus, Final, Paid
<1>2. UNCHANGED Promise!promiseVars
  BY DEF StatusesRest, Promise!promiseVars
<1> QED BY <1>1, <1>2

\* Nothing that PayinOrder speaks of changes, but for the count of faults.
LEMMA OrdersStay ==
  ASSUME Inv, UNCHANGED <<row, due, call>>, faults' \in 0..MaxFaults
  PROVE  Inv'
<1>1. RowsMove /\ Rows' /\ row' \in [Order -> Row]
  BY RowKept
<1>2. \A v \in Worker : Knows(call[v])' /\ Honest(call[v])' /\ Silent(call[v])'
  BY <1>1, KnowledgeStays
<1> QED BY <1>1, <1>2 DEF Inv, Requests, TypeOK

\* One sender moves on; the others, and what was said before, stay.
LEMMA SenderMoves ==
  ASSUME CallbackInv, Inv', CallbackTypeOK', StatusesRest, Grows, SaidRightly',
         NEW w \in Worker,
         \A v \in Worker \ {w} : call'[v] = call[v] /\ send'[v] = send[v],
         Carries(w)', Rotates(call[w])',
         \A o \in Order : Stamped(o)'
  PROVE  CallbackInv' /\ [Promise!Next]_(Promise!promiseVars)
<1>1. (\A o \in Order : LaterStatus(o)) /\ [Promise!Next]_(Promise!promiseVars)
  BY RestingOrders
<1>2. \A v \in Worker : Carries(v)' /\ Rotates(call[v])'
  BY <1>1, CarriesStays
<1> QED BY <1>1, <1>2 DEF CallbackInv

LEMMA StampsRest ==
  ASSUME CallbackInv, UNCHANGED row, Grows
  PROVE  StatusesRest /\ (\A o \in Order : Stamped(o)') /\ \A o \in Order : LaterStatus(o)
<1>1. StatusesRest
  BY DEF StatusesRest
<1> QED BY <1>1, RestingOrders, StampedStays DEF StampsKept

LEMMA SendWritten ==
  ASSUME CallbackTypeOK, NEW w \in Worker, NEW s, send' = [send EXCEPT ![w] = s]
  PROVE  send'[w] = s /\ \A v \in Worker \ {w} : send'[v] = send[v]
BY DEF CallbackTypeOK

LEMMA SendTyped ==
  ASSUME CallbackTypeOK, NEW w \in Worker,
         NEW s \in [at : {"start", "queue", "stamp"}, stamp : Stamp], send' = [send EXCEPT ![w] = s]
  PROVE  send' \in [Worker -> [at : {"start", "queue", "stamp"}, stamp : Stamp]]
BY DEF CallbackTypeOK

\* A sender that ends.
LEMMA SenderEnds ==
  ASSUME CallbackInv, NEW w \in Worker, Finished(w)
  PROVE  /\ call'[w] = Idle /\ send'[w] = Unsent
         /\ \A v \in Worker \ {w} : call'[v] = call[v] /\ send'[v] = send[v]
         /\ send' \in [Worker -> [at : {"start", "queue", "stamp"}, stamp : Stamp]]
         /\ Carries(w)' /\ Rotates(call[w])'
<1>1. call' = [call EXCEPT ![w] = Idle] /\ send' = [send EXCEPT ![w] = Unsent] /\ CallbackTypeOK
  BY DEF Finished, Over, CallbackInv
<1>2. call'[w] = Idle /\ \A v \in Worker \ {w} : call'[v] = call[v]
  BY <1>1, OneCallChanges
<1>3. send'[w] = Unsent /\ \A v \in Worker \ {w} : send'[v] = send[v]
  BY <1>1, SendWritten
<1>4. send' \in [Worker -> [at : {"start", "queue", "stamp"}, stamp : Stamp]]
  BY <1>1, UnsentIs, SendTyped
<1>5. Carries(w)' /\ Rotates(call[w])'
  BY <1>2, <1>3, UnsentIs DEF Carries, Rotates, Idle, Sending
<1> QED BY <1>2, <1>3, <1>4, <1>5

\* A sender that goes on, with a stamp in hand, to a statement at.
LEMMA SenderGoes ==
  ASSUME CallbackInv, NEW w \in Worker, Sending(w),
         NEW at \in {"queue", "stamp"}, NEW kind, NEW word, Goes(w, at, kind, word),
         [kind |-> kind, word |-> word] \in Stamp, UNCHANGED row, Final(call[w].order),
         at = "queue" => kind = "sent" /\ word # "none" /\ Timely(call[w].order, word),
         at = "stamp" => Truthful(call[w].order, [kind |-> kind, word |-> word])'
  PROVE  /\ send' \in [Worker -> [at : {"start", "queue", "stamp"}, stamp : Stamp]]
         /\ \A v \in Worker \ {w} : call'[v] = call[v] /\ send'[v] = send[v]
         /\ Carries(w)' /\ Rotates(call[w])'
<1> DEFINE stamp == [kind |-> kind, word |-> word]
           s == [at |-> at, stamp |-> stamp]
<1>1. send' = [send EXCEPT ![w] = s] /\ UNCHANGED call /\ CallbackTypeOK
  BY DEF Goes, CallbackInv
<1>2. s \in [at : {"start", "queue", "stamp"}, stamp : Stamp] /\ s.at = at /\ s.stamp = stamp
      /\ stamp.kind = kind /\ stamp.word = word
  OBVIOUS
<1> HIDE DEF s, stamp
<1>3. send'[w] = s /\ \A v \in Worker \ {w} : send'[v] = send[v]
  BY <1>1, SendWritten
<1>4. send' \in [Worker -> [at : {"start", "queue", "stamp"}, stamp : Stamp]]
  BY <1>1, <1>2, SendTyped
<1>5. at = "stamp" => Truthful(call[w].order, stamp)'
  BY DEF stamp
<1>6. Carries(w)'
  <2>1. (~Sending(w) => send[w] = Unsent)' /\ (send[w].at = "start" => send[w].stamp = NoStamp)'
    BY <1>1, <1>2, <1>3 DEF Sending
  <2>2. (send[w].at # "start" => Final(call[w].order))'
    BY <1>1 DEF Final
  <2>3. (send[w].at = "queue" => /\ send[w].stamp.kind = "sent" /\ send[w].stamp.word # "none"
                                 /\ Timely(call[w].order, send[w].stamp.word))'
    BY <1>1, <1>2, <1>3 DEF Timely, Paid
  <2>4. (send[w].at = "stamp" => Truthful(call[w].order, send[w].stamp))'
    BY <1>1, <1>2, <1>3, <1>5 DEF Truthful, Queued, Timely, Paid
  <2> QED BY <2>1, <2>2, <2>3, <2>4 DEF Carries
<1>7. Rotates(call[w])'
  BY <1>1 DEF Rotates, Sending
<1> QED BY <1>1, <1>3, <1>4, <1>6, <1>7

LEMMA SendReadOK ==
  ASSUME CallbackInv, NEW w \in Worker, SendRead(w)
  PROVE  CallbackInv' /\ [Promise!Next]_(Promise!promiseVars)
<1> DEFINE o == call[w].order
           word == callbackStatus(row[o].status)
           told == payinCallbackSent(row[o].meta.callback, row[o].status)
<1>1. o \in Order /\ Sending(w) /\ UNCHANGED <<row, due, faults, outbox, lastTold, paidTold>>
  BY DEF SendRead, Sending, CallbackInv, Inv, TypeOK
<1>2. word \in Word /\ Timely(o, word) /\ word # "none"
  BY <1>1, StatusTyped, WordsOfStatus DEF CallbackInv, Timely, Word
<1>3. Grows /\ SaidRightly'
  BY <1>1 DEF Grows, Queued, CallbackInv, SaidRightly, Paid
<1>4. StatusesRest /\ \A p \in Order : Stamped(p)'
  BY <1>1, <1>3, StampsRest
<1>5. CASE Finished(w)
  <2>1. Inv'
    BY <1>1, <1>5, OverOK DEF Finished, StepsWell, CallbackInv, Inv, TypeOK
  <2>2. CallbackTypeOK'
    BY <1>1, <1>5, SenderEnds DEF CallbackInv, CallbackTypeOK
  <2> QED BY <1>3, <1>4, <1>5, <2>1, <2>2, SenderEnds, SenderMoves
<1>6. ASSUME NEW at \in {"queue", "stamp"}, NEW kind, NEW said, Goes(w, at, kind, said),
             [kind |-> kind, word |-> said] \in Stamp, Final(o),
             at = "queue" => kind = "sent" /\ said # "none" /\ Timely(o, said),
             at = "stamp" => Truthful(o, [kind |-> kind, word |-> said])'
      PROVE  CallbackInv' /\ [Promise!Next]_(Promise!promiseVars)
  <2>1. /\ send' \in [Worker -> [at : {"start", "queue", "stamp"}, stamp : Stamp]]
        /\ \A v \in Worker \ {w} : call'[v] = call[v] /\ send'[v] = send[v]
        /\ Carries(w)' /\ Rotates(call[w])'
    BY <1>1, <1>6, SenderGoes
  <2>2. Inv'
    BY <1>1, <1>6, OrdersStay DEF Goes, CallbackInv, Inv, TypeOK
  <2>3. CallbackTypeOK'
    BY <1>1, <2>1 DEF CallbackInv, CallbackTypeOK
  <2> QED BY <1>3, <1>4, <2>1, <2>2, <2>3, SenderMoves
<1>7. CASE Final(o) /\ ~HasTarget /\ Goes(w, "stamp", "skipped", "none")
  <2> DEFINE s == [kind |-> "skipped", word |-> "none"]
  <2>1. s \in Stamp /\ Truthful(o, s)'
    BY <1>7 DEF Stamp, Truthful
  <2> QED BY <1>6, <1>7, <2>1
<1>8. PICK said \in Word : said = word
  BY <1>2
<1>9. Timely(o, said) /\ said # "none"
  BY <1>2, <1>8
<1>10. CASE Final(o) /\ said \notin Subscribed /\ Goes(w, "stamp", "skipped", said)
  <2> DEFINE s == [kind |-> "skipped", word |-> said]
  <2>1. s \in Stamp
    BY DEF Stamp
  <2>2. Timely(o, said)'
    BY <1>1, <1>9, <1>10 DEF Timely, Paid, Goes
  <2>3. Truthful(o, s)'
    BY <1>9, <1>10, <2>2 DEF Truthful
  <2> QED BY <1>6, <1>10, <2>1, <2>3
<1>11. CASE Final(o) /\ Goes(w, "queue", "sent", said)
  <2>1. [kind |-> "sent", word |-> said] \in Stamp
    BY DEF Stamp
  <2> QED BY <1>6, <1>9, <1>11, <2>1
<1> QED BY <1>5, <1>7, <1>8, <1>10, <1>11 DEF SendRead

\* A row is queued: what was queued before is still there, and so is the new one.
LEMMA Appended ==
  ASSUME CallbackTypeOK, NEW r \in OutboxRow, outbox' = Append(outbox, r)
  PROVE  /\ outbox' \in Seq(OutboxRow) /\ Grows /\ Queued(r.order, r.word)'
         /\ \A i \in DOMAIN outbox' : outbox'[i] = r \/ (i \in DOMAIN outbox /\ outbox'[i] = outbox[i])
<1>1. outbox \in Seq(OutboxRow) /\ DOMAIN outbox = 1..Len(outbox) /\ Len(outbox) \in Nat
  BY OutboxTyped DEF CallbackTypeOK
<1>2. outbox' \in Seq(OutboxRow) /\ Len(outbox') = Len(outbox) + 1
  BY <1>1
<1>3. DOMAIN outbox' = 1..Len(outbox')
  BY <1>2
<1>4. \A i \in 1..Len(outbox) : outbox'[i] = outbox[i]
  BY <1>1
<1>5. outbox'[Len(outbox) + 1] = r
  BY <1>1
<1>6. Grows
  BY <1>1, <1>2, <1>3, <1>4 DEF Grows, Queued
<1>7. Queued(r.order, r.word)'
  BY <1>1, <1>2, <1>3, <1>5 DEF Queued
<1> QED BY <1>1, <1>2, <1>3, <1>4, <1>5, <1>6, <1>7

LEMMA SendQueueOK ==
  ASSUME CallbackInv, NEW w \in Worker, SendQueue(w)
  PROVE  CallbackInv' /\ [Promise!Next]_(Promise!promiseVars)
<1>1. PICK o \in Order, word \in Word \cup {"none"} : o = call[w].order /\ word = send[w].stamp.word
  BY DEF SendQueue, Sending, CallbackInv, Inv, TypeOK, CallbackTypeOK, Stamp
<1>2. Sending(w) /\ Final(o) /\ word # "none" /\ Timely(o, word)
      /\ UNCHANGED <<row, due, lastTold, paidTold>>
  BY <1>1 DEF SendQueue, CallbackInv, Carries
<1>3. word \in Word
  BY <1>2
<1>4. Timely(o, word)'
  BY <1>2 DEF Timely, Paid
<1>5. ASSUME NEW kind, NEW said, Goes(w, "stamp", kind, said), [kind |-> kind, word |-> said] \in Stamp,
             Truthful(o, [kind |-> kind, word |-> said])', Grows, SaidRightly',
             outbox' \in Seq(OutboxRow), faults' \in 0..MaxFaults
      PROVE  CallbackInv' /\ [Promise!Next]_(Promise!promiseVars)
  <2>1. /\ send' \in [Worker -> [at : {"start", "queue", "stamp"}, stamp : Stamp]]
        /\ \A v \in Worker \ {w} : call'[v] = call[v] /\ send'[v] = send[v]
        /\ Carries(w)' /\ Rotates(call[w])'
    <3>1. Truthful(call[w].order, [kind |-> kind, word |-> said])'
      BY <1>1, <1>5 DEF Goes
    <3> QED BY <1>1, <1>2, <1>5, <3>1, SenderGoes
  <2>2. Inv'
    BY <1>2, <1>5, OrdersStay DEF Goes, CallbackInv
  <2>3. CallbackTypeOK'
    BY <1>2, <1>5, <2>1 DEF CallbackInv, CallbackTypeOK
  <2>4. StatusesRest /\ \A p \in Order : Stamped(p)'
    BY <1>2, <1>5, StampsRest
  <2> QED BY <1>5, <2>1, <2>2, <2>3, <2>4, SenderMoves
<1>6. CASE /\ outbox' = Append(outbox, [order |-> o, word |-> word, status |-> "PENDING"])
           /\ Goes(w, "stamp", "sent", word) /\ UNCHANGED faults
  <2> DEFINE r == [order |-> o, word |-> word, status |-> "PENDING"]
  <2>1. r \in OutboxRow /\ r.order = o /\ r.word = word
    BY <1>3 DEF OutboxRow
  <2> HIDE DEF r
  <2>2. outbox' = Append(outbox, r)
    BY <1>6 DEF r
  <2>3. /\ outbox' \in Seq(OutboxRow) /\ Grows /\ Queued(o, word)'
        /\ \A i \in DOMAIN outbox' : \/ outbox'[i].order = o /\ outbox'[i].word = word
                                     \/ i \in DOMAIN outbox /\ outbox'[i] = outbox[i]
    <3>1. Queued(r.order, r.word)'
      BY <2>1, <2>2, Appended DEF CallbackInv
    <3>2. Queued(o, word)'
      BY <2>1, <3>1 DEF Queued, r
    <3> QED BY <2>1, <2>2, <3>2, Appended DEF CallbackInv
  <2>4. word = "Captured" => Paid(o)
    BY <1>2, StatusTyped, WordsOfStatus DEF Timely, CallbackInv, Paid
  <2>5. SaidRightly'
    BY <1>2, <2>3, <2>4 DEF CallbackInv, SaidRightly, Paid
  <2>6. [kind |-> "sent", word |-> word] \in Stamp
    BY <1>3 DEF Stamp
  <2>7. Truthful(o, [kind |-> "sent", word |-> word])'
    BY <1>2, <1>4, <2>3 DEF Truthful
  <2> QED BY <1>5, <1>6, <2>3, <2>5, <2>6, <2>7 DEF CallbackInv, Inv, TypeOK
<1>7. CASE faults < MaxFaults /\ faults' = faults + 1 /\ Goes(w, "stamp", "not queued", "none")
           /\ UNCHANGED outbox
  <2>1. Grows /\ SaidRightly'
    BY <1>2, <1>7 DEF Grows, Queued, CallbackInv, SaidRightly, Paid
  <2>2. [kind |-> "not queued", word |-> "none"] \in Stamp
        /\ Truthful(o, [kind |-> "not queued", word |-> "none"])'
    BY DEF Stamp, Truthful
  <2>3. faults' \in 0..MaxFaults
    <3>1. faults \in 0..MaxFaults /\ MaxFaults \in Nat
      BY OrderAssumption DEF CallbackInv, Inv, TypeOK
    <3>2. faults < MaxFaults /\ faults' = faults + 1
      BY <1>7
    <3> QED BY <3>1, <3>2
  <2>4. outbox' \in Seq(OutboxRow)
    BY <1>7 DEF CallbackInv, CallbackTypeOK
  <2> QED BY <1>5, <1>7, <2>1, <2>2, <2>3, <2>4
<1> QED BY <1>1, <1>6, <1>7 DEF SendQueue

\* The stamp is written, whatever became of the order in the meantime.
LEMMA SendStampOK ==
  ASSUME CallbackInv, NEW w \in Worker, SendStamp(w)
  PROVE  CallbackInv' /\ [Promise!Next]_(Promise!promiseVars)
<1>1. PICK o \in Order, stamp \in Stamp : o = call[w].order /\ stamp = send[w].stamp
  BY DEF SendStamp, Sending, CallbackInv, Inv, TypeOK, CallbackTypeOK
<1>2. Final(o) /\ Truthful(o, stamp) /\ Finished(w) /\ UNCHANGED <<due, outbox, lastTold, paidTold>>
  BY <1>1 DEF SendStamp, CallbackInv, Carries
<1>3. faults' \in 0..MaxFaults
  BY OrderAssumption DEF SendStamp, CallbackInv, Inv, TypeOK
<1>4. Grows
  BY <1>2 DEF Grows, Queued
<1>5. CallbackTypeOK'
  BY <1>2, SenderEnds DEF CallbackInv, CallbackTypeOK
<1>6. CASE row' = [row EXCEPT ![o].meta.callback = stamp]
  <2> DEFINE new == [row[o] EXCEPT !.meta.callback = stamp]
  <2>1. row' = [row EXCEPT ![o] = new] /\ row \in [Order -> Row] /\ row[o] \in Row
    BY <1>6 DEF CallbackInv, Inv, TypeOK
  <2>2. /\ new \in Row /\ new.status = row[o].status /\ new.rrn = row[o].rrn
        /\ new.meta.confirmation = row[o].meta.confirmation /\ new.meta.callback = stamp
    BY <2>1 DEF Row, Meta
  <2> HIDE DEF new
  <2>3. row'[o] = new /\ \A p \in Order \ {o} : row'[p] = row[p]
    BY <2>1
  <2>4. StatusesRest
    BY <2>2, <2>3 DEF StatusesRest
  <2>5. /\ Moves(row[o], new)
        /\ o \in HeldOrder => new.status # "EXPIRED"
        /\ new.meta.confirmation = "live" => o \in LiveOrder
        /\ new.meta.confirmation = "test" => o \notin LiveOrder
    BY <2>2 DEF Moves, CallbackInv, Inv, Rows, ModesNeverCross, HeldNeverExpires
  <2>6. row' \in [Order -> Row] /\ RowsMove /\ Rows'
    BY <2>1, <2>2, <2>5, RowWritten DEF CallbackInv
  <2>7. Inv'
    <3>1. call' \in [Worker -> Call]
      BY <1>2, IdleType DEF Finished, Over, CallbackInv, Inv, TypeOK
    <3> QED BY <1>2, <1>3, <2>6, <3>1, SenderEnds, RequestEnds, RequestMoves
            DEF CallbackInv, Inv, TypeOK
  <2>8. SaidRightly'
    BY <1>2, <2>4, SaidStays, RestingOrders
  <2>9. ASSUME NEW p \in Order
        PROVE  Stamped(p)'
    <3>1. LaterStatus(p) /\ Stamped(p)
      BY <2>4, RestingOrders DEF CallbackInv
    <3>2. CASE p = o
      <4>1. Truthful(o, stamp)'
        BY <1>2, <1>4, <3>1, <3>2, TruthStays
      <4> QED BY <1>2, <2>2, <2>3, <3>1, <3>2, <4>1 DEF Stamped, LaterStatus, Truthful, Queued, Timely, Paid
    <3>3. CASE p # o
      <4>1. row'[p] = row[p]
        BY <2>3, <3>3
      <4>2. Truthful(p, row[p].meta.callback)'
        BY <1>2, <3>1, <4>1 DEF Stamped, Truthful, Queued, Timely, Paid
      <4> QED BY <3>1, <4>1, <4>2 DEF Stamped, Final, Truthful, Queued, Timely, Paid
    <3> QED BY <3>2, <3>3
  <2> QED BY <1>2, <1>4, <1>5, <2>4, <2>7, <2>8, <2>9, SenderEnds, SenderMoves
<1>7. CASE UNCHANGED row
  <2>1. StatusesRest /\ \A p \in Order : Stamped(p)'
    BY <1>4, <1>7, StampsRest
  <2>2. SaidRightly'
    BY <1>2, <2>1, SaidStays, RestingOrders
  <2>3. Inv'
    BY <1>2, <1>3, <1>7, OverOK DEF Finished, StepsWell, CallbackInv
  <2> QED BY <1>2, <1>4, <1>5, <2>1, <2>2, <2>3, SenderEnds, SenderMoves
<1> QED BY <1>1, <1>6, <1>7 DEF SendStamp

LEMMA BackstopOK ==
  ASSUME CallbackInv, NEW w \in Worker, NEW o \in Order, Backstop(w, o)
  PROVE  CallbackInv' /\ [Promise!Next]_(Promise!promiseVars)
<1> DEFINE c == [Idle EXCEPT !.pc = "notify", !.order = o]
<1>1. /\ call[w].pc = "idle" /\ call' = [call EXCEPT ![w] = c]
      /\ UNCHANGED <<row, due, send, outbox, lastTold, paidTold>>
  BY DEF Backstop, callbackVars
<1>2. c \in Call /\ c.pc = "notify" /\ c.order = o /\ c.reply = "none"
  BY IdleType DEF Idle, Call, PC
<1> HIDE DEF c
<1>3. faults' \in 0..MaxFaults
  BY OrderAssumption DEF Backstop, CallbackInv, Inv, TypeOK
<1>4. call' \in [Worker -> Call] /\ call'[w] = c /\ \A v \in Worker \ {w} : call'[v] = call[v]
  BY <1>1, <1>2, CallWritten DEF CallbackInv
<1>5. Knows(call[w])' /\ Honest(call[w])' /\ Silent(call[w])'
  BY <1>2, <1>4 DEF Knows, Honest, Silent, ConfirmPC
<1>6. Inv'
  BY <1>1, <1>2, <1>3, <1>4, <1>5, RowKept, RequestMoves DEF CallbackInv, Inv, TypeOK
<1>7. Grows /\ SaidRightly'
  BY <1>1 DEF Grows, Queued, CallbackInv, SaidRightly, Paid
<1>8. StatusesRest /\ \A p \in Order : Stamped(p)'
  BY <1>1, <1>7, StampsRest
<1>9. send'[w] = Unsent
  BY <1>1 DEF CallbackInv, Carries, Sending
<1>10. Carries(w)' /\ Rotates(call[w])'
  BY <1>2, <1>4, <1>9, UnsentIs DEF Carries, Rotates
<1>11. CallbackTypeOK'
  BY <1>1 DEF CallbackInv, CallbackTypeOK
<1> QED BY <1>1, <1>4, <1>6, <1>7, <1>8, <1>10, <1>11, SenderMoves

LEMMA DeliveryOK ==
  ASSUME CallbackInv, NEW i \in DOMAIN outbox, Deliver(i) \/ DeliverUnmarked(i)
  PROVE  CallbackInv' /\ [Promise!Next]_(Promise!promiseVars)
<1> DEFINE r == [outbox[i] EXCEPT !.status = "DELIVERED"]
<1>1. /\ UNCHANGED <<row, due, call, send>>
      /\ lastTold' = [lastTold EXCEPT ![outbox[i].order] = outbox[i].word]
      /\ paidTold' = paidTold \cup (IF outbox[i].word = "Captured" THEN {outbox[i].order} ELSE {})
  BY DEF Deliver, DeliverUnmarked, Accepted, vars
<1>2. faults' \in 0..MaxFaults
  BY OrderAssumption DEF Deliver, DeliverUnmarked, vars, CallbackInv, Inv, TypeOK
<1>3. outbox[i] \in OutboxRow /\ outbox \in Seq(OutboxRow)
  BY OutboxTyped DEF CallbackInv, CallbackTypeOK
<1>4. outbox[i].order \in Order /\ outbox[i].word \in Word
  BY <1>3 DEF OutboxRow
<1>5. r \in OutboxRow /\ r.order = outbox[i].order /\ r.word = outbox[i].word
  BY <1>3 DEF OutboxRow
<1>6. UNCHANGED outbox \/ outbox' = [outbox EXCEPT ![i] = r]
  BY DEF Deliver, DeliverUnmarked
<1> HIDE DEF r
<1>7. /\ outbox' \in Seq(OutboxRow) /\ DOMAIN outbox' = DOMAIN outbox
      /\ \A j \in DOMAIN outbox : outbox'[j].order = outbox[j].order /\ outbox'[j].word = outbox[j].word
  <2>1. CASE UNCHANGED outbox
    BY <1>3, <2>1
  <2>2. CASE outbox' = [outbox EXCEPT ![i] = r]
    BY <1>3, <1>5, <2>2
  <2> QED BY <1>6, <2>1, <2>2
<1>8. Grows
  BY <1>7 DEF Grows, Queued
<1>9. SaidRightly'
  BY <1>1, <1>7 DEF CallbackInv, SaidRightly, Paid
<1>10. CallbackTypeOK'
  BY <1>1, <1>4, <1>7 DEF CallbackInv, CallbackTypeOK
<1>11. Inv'
  BY <1>1, <1>2, OrdersStay DEF CallbackInv
<1>12. StatusesRest /\ (\A p \in Order : Stamped(p)') /\ \A p \in Order : LaterStatus(p)
  BY <1>1, <1>8, StampsRest
<1>13. \A v \in Worker : Carries(v)' /\ Rotates(call[v])'
  BY <1>1, <1>8, <1>12, CarriesStays
<1> QED BY <1>9, <1>10, <1>11, <1>12, <1>13, RestingOrders DEF CallbackInv

-----------------------------------------------------------------------------
(***************************************************************************)
(* The theorems.                                                           *)
(***************************************************************************)
LEMMA CallbackInitOK == CallbackInit => CallbackInv /\ Promise!Init
<1> SUFFICES ASSUME CallbackInit PROVE CallbackInv /\ Promise!Init
  OBVIOUS
<1>1. Inv /\ Promise!Init
  BY InitOK DEF CallbackInit
<1>2. CallbackTypeOK
  BY UnsentIs DEF CallbackInit, CallbackTypeOK
<1>3. SaidRightly
  BY DEF CallbackInit, SaidRightly
<1>4. \A o \in Order : row[o].meta.callback = NoStamp
  BY DEF CallbackInit, Init, NewRow
<1>5. \A o \in Order : Stamped(o)
  BY <1>4, NoStampIsTrue DEF Stamped
<1>6. \A w \in Worker : Carries(w) /\ Rotates(call[w])
  BY UnsentIs DEF CallbackInit, Init, Carries, Rotates, Sending, Idle
<1> QED BY <1>1, <1>2, <1>3, <1>5, <1>6 DEF CallbackInv

LEMMA CallbackNextOK ==
  CallbackInv /\ [CallbackNext]_allVars => CallbackInv' /\ [Promise!Next]_(Promise!promiseVars)
<1> SUFFICES ASSUME CallbackInv, [CallbackNext]_allVars
             PROVE  CallbackInv' /\ [Promise!Next]_(Promise!promiseVars)
  OBVIOUS
<1>1. ASSUME NEW w \in Worker, Send(w)
      PROVE  CallbackInv' /\ [Promise!Next]_(Promise!promiseVars)
  BY <1>1, SendReadOK, SendQueueOK, SendStampOK DEF Send
<1>2. CASE UNCHANGED allVars
  <2>1. UNCHANGED <<row, due, call, faults, send, outbox, lastTold, paidTold>>
    BY <1>2 DEF allVars, vars, callbackVars
  <2>2. Grows /\ SaidRightly' /\ CallbackTypeOK'
    BY <2>1 DEF Grows, Queued, CallbackInv, SaidRightly, Paid, CallbackTypeOK
  <2>3. Inv'
    BY <2>1, OrdersStay DEF CallbackInv, Inv, TypeOK
  <2>4. StatusesRest /\ (\A o \in Order : Stamped(o)') /\ \A o \in Order : LaterStatus(o)
    BY <2>1, <2>2, StampsRest
  <2>5. \A v \in Worker : Carries(v)' /\ Rotates(call[v])'
    BY <2>1, <2>2, <2>4, CarriesStays
  <2> QED BY <2>2, <2>3, <2>4, <2>5, RestingOrders DEF CallbackInv
<1> QED BY <1>1, <1>2, OrderStepOK, BackstopOK, DeliveryOK DEF CallbackNext

\* The invariant, of every state the orders and their senders reach.
THEOREM CallbackInvariance == CallbackSpec => []CallbackInv
BY CallbackInitOK, CallbackNextOK, PTL DEF CallbackSpec

\* Type correctness of the senders, the outbox and what was told, for any number of them.
THEOREM CallbackTypesHold == CallbackSpec => []CallbackTypeOK
<1>1. CallbackInv => CallbackTypeOK
  BY DEF CallbackInv
<1> QED BY <1>1, CallbackInvariance, PTL

\* "Captured" is only ever said of a paid order, by a row of the outbox, by a sender about to
\* queue one or by what the merchant heard: sendPayinCallback reads the status once and queues
\* later, and no status leaves SUCCESS in between.
THEOREM CapturedOfThePaid == CallbackSpec => []CapturedIsTrue
<1>1. ASSUME CallbackInv PROVE CapturedIsTrue
  <2>1. ASSUME NEW w \in Worker, Sending(w), send[w].stamp.word = "Captured"
        PROVE  Paid(call[w].order)
    <3>1. /\ call[w].order \in Order /\ row[call[w].order].status \in Status
          /\ send[w].at \in {"start", "queue", "stamp"}
      BY <1>1, <2>1, StatusTyped DEF CallbackInv, CallbackTypeOK, Inv, TypeOK, Sending
    <3>2. Timely(call[w].order, "Captured")
      BY <1>1, <2>1, <3>1 DEF CallbackInv, Carries, Truthful, NoStamp
    <3> QED BY <3>1, <3>2, WordsOfStatus DEF Timely, Paid
  <2> QED BY <1>1, <2>1 DEF CallbackInv, SaidRightly, CapturedIsTrue
<1> QED BY <1>1, CallbackInvariance, PTL

\* A row stamped "sent" was queued with that word: a stamp follows its row, and advance-vpa,
\* which may write a stamp away, never brings one back.
THEOREM StampsAreBacked == CallbackSpec => []SentMeansQueued
<1>1. CallbackInv => SentMeansQueued
  BY DEF CallbackInv, Stamped, Truthful, Queued, SentMeansQueued
<1> QED BY <1>1, CallbackInvariance, PTL

LEMMA StampsTell == CallbackInv => NothingForgotten
<1> SUFFICES ASSUME CallbackInv, NEW o \in Order, Final(o), HasTarget,
                    callbackStatus(row[o].status) \in Subscribed, ~Owed(o)
             PROVE  Told(o)
  BY DEF NothingForgotten
<1> DEFINE stamp == row[o].meta.callback
<1>1. /\ stamp.kind \in {"none", "sent", "skipped", "not queued"}
      /\ stamp.word \in Word \cup {"none"} /\ row[o].status \in Status
  BY StampTyped, StatusTyped DEF CallbackInv
<1>2. Truthful(o, stamp)
  BY DEF CallbackInv, Stamped
<1>3. stamp.kind \in {"sent", "skipped"} /\ (Paid(o) => stamp.word \notin {"Expired", "Failed"})
  BY <1>1 DEF Owed
<1>4. stamp.word # "none"
  BY <1>2, <1>3 DEF Truthful
<1>5. stamp.word = callbackStatus(row[o].status)
  <2>1. CASE Paid(o)
    BY <1>1, <1>3, <1>4, <2>1, WordsOfStatus DEF Word, Paid
  <2>2. CASE ~Paid(o)
    BY <1>2, <1>4, <2>2 DEF Truthful, Timely
  <2> QED BY <2>1, <2>2
<1>6. stamp.kind = "sent"
  BY <1>2, <1>3, <1>5 DEF Truthful
<1> QED BY <1>2, <1>5, <1>6 DEF Truthful, Queued, Told

\* No final order is ever forgotten: whatever died, failed to be queued, was stamped late or was
\* written over by advance-vpa, its current status is queued or the sweep's backstop selects it.
THEOREM NobodyForgotten == CallbackSpec => []NothingForgotten
BY StampsTell, CallbackInvariance, PTL

\* No sender and no stamp breaks the promise of the orders: the composed system keeps it too.
THEOREM CallbackRefinement == CallbackSpec => KeepsPromise
BY CallbackInitOK, CallbackNextOK, CallbackInvariance, PTL
   DEF CallbackSpec, KeepsPromise, Promise!Spec
=============================================================================
