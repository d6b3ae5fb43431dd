-------------------------- MODULE PayinOrderProofs --------------------------
(***************************************************************************)
(* What PayinOrder guarantees for any number of orders, workers and        *)
(* references.  The argument is one inductive invariant: what a worker     *)
(* that is between two statements still knows of the order it handles      *)
(* (Knows), and what an order's row says about itself and about the other  *)
(* rows.  A worker's knowledge survives the others' steps because a status *)
(* moves one way only: out of PENDING once, and into SUCCESS for good.     *)
(***************************************************************************)
EXTENDS PayinOrder, TLAPS

ConfirmPC == {"dupcheck", "write", "reread"}

\* What holds of a request under way, whatever the other workers do.
Knows(c) ==
  /\ c.pc \in ConfirmPC => c.outcome \in Outcome /\ ModeAgrees(c.evidence, c.order)
  /\ c.pc = "dupcheck" => c.outcome = "SUCCESS" /\ c.utr # NoRef
  /\ c.pc \in {"dupcheck", "write"} => ~Locked(c.seen, c.outcome)
  /\ c.pc \in {"dupcheck", "write"} /\ c.seen # "PENDING" =>
       row[c.order].status \in {c.seen, "SUCCESS"}
  /\ c.pc \in ConfirmPC /\ c.retried => Final(c.order)
  /\ c.pc \in {"dupcheck", "write"} /\ c.retried => c.seen # "PENDING"
  /\ c.pc = "resolve" => /\ c.outcome \in Terminal
                         /\ c.order \notin HeldOrder
                         /\ c.order \in LiveOrder => c.outcome # "SUCCESS"
  /\ c.pc = "rotate" => /\ c.meta.ready > 0
                        /\ c.meta.confirmation = "live" => c.order \in LiveOrder
                        /\ c.meta.confirmation = "test" => c.order \notin LiveOrder

\* What its answer says is so: the three properties about replies, of one request.
Honest(c) ==
  /\ c.pc = "done" /\ c.reply = "changed" /\ c.outcome = "SUCCESS" => Paid(c.order)
  /\ c.reply \in {"confirmed", "replay"} /\ c.outcome = "SUCCESS" => Paid(c.order)
  /\ c.reply = "duplicate" => \E p \in Order \ {c.order} :
       /\ SameMode(c.order, p) /\ Paid(p)
       /\ row[p].rrn \in {c.utr, genRrn[c.order]}

\* The answer is given when the request is over, so a request under way has none.
Silent(c) == c.pc \notin {"done", "notify"} => c.reply = "none"

Requests == \A w \in Worker : Knows(call[w]) /\ Honest(call[w]) /\ Silent(call[w])

\* OneReferenceOneOrder, said of the rows.
OnePaidRow == \A o, p \in LiveOrder : Paid(o) /\ Paid(p) /\ row[o].rrn = row[p].rrn => o = p

\* What holds of the rows, one by one and together.
Rows == ModesNeverCross /\ HeldNeverExpires /\ PaidHasReference /\ OnePaidRow

\* The inductive invariant.
Inv == TypeOK /\ Requests /\ Rows

\* What a step may do to an order: leave it as it is, close it, or pay it.
Moves(r, n) ==
  \/ n.status = r.status /\ n.rrn = r.rrn
  \/ r.status = "PENDING" /\ n.status \in {"FAILED", "EXPIRED"} /\ n.rrn = r.rrn
  \/ r.status # "SUCCESS" /\ n.status = "SUCCESS" /\ n.rrn \in Ref

RowsMove == \A o \in Order : Moves(row[o], row'[o])

-----------------------------------------------------------------------------
(***************************************************************************)
(* Types.                                                                  *)
(***************************************************************************)
LEMMA RowTypes ==
  ASSUME NEW r \in Row
  PROVE  /\ r.status \in Status /\ r.rrn \in Ref \cup {NoRef} /\ r.meta \in Meta
         /\ \A s \in Status : [r EXCEPT !.status = s] \in Row
         /\ \A s \in Status, u \in Ref \cup {NoRef} : [r EXCEPT !.status = s, !.rrn = u] \in Row
         /\ \A m \in Meta : [r EXCEPT !.meta = m] \in Row
         /\ [r EXCEPT !.meta.review = "PROOF_SUBMITTED"] \in Row
BY DEF Row, Meta

LEMMA NewRowType == NewRow \in Row
BY OrderAssumption DEF NewRow, Row, Meta, Status, NoStamp, Stamp, Word

LEMMA IdleType == Idle \in Call
BY NewRowType DEF Idle, Call, PC, Reply, Status, Evidence, Row

LEMMA AnsweredType ==
  ASSUME NEW c \in Call, NEW r \in Reply
  PROVE  Answered(c, r) \in Call
BY IdleType DEF Answered, Call, PC

LEMMA AfterReadType ==
  ASSUME TypeOK, NEW c \in Call, c.order \in Order
  PROVE  AfterRead(c) \in Call /\ (AfterRead(c).pc # "idle" => AfterRead(c).order \in Order)
<1>1. row[c.order].status \in Status
  BY RowTypes DEF TypeOK
<1>2. Answered(c, "replay") \in Call
  BY AnsweredType DEF Reply
<1>2a. Answered(c, "replay").order = c.order
  BY DEF Answered, Idle
<1>3. \A p \in {"dupcheck", "write"} :
        [c EXCEPT !.pc = p, !.seen = row[c.order].status] \in Call
  BY <1>1 DEF Call, PC
<1>4. CASE ~ModeAgrees(c.evidence, c.order)
  BY <1>4, IdleType DEF AfterRead, Idle
<1>5. CASE ModeAgrees(c.evidence, c.order) /\ Locked(row[c.order].status, c.outcome)
  BY <1>5, <1>2, <1>2a, IdleType DEF AfterRead, Idle
<1>6. CASE ModeAgrees(c.evidence, c.order) /\ ~Locked(row[c.order].status, c.outcome)
  BY <1>6, <1>3 DEF AfterRead, Call
<1> QED BY <1>4, <1>5, <1>6

LEMMA ConfirmedType ==
  ASSUME NEW r \in Row, NEW c \in Call, c.order \in Order
  PROVE  Confirmed(r, c) \in Row
<1>1. genRrn[c.order] \in Ref
  BY OrderAssumption
<1>2. c.outcome \in Status /\ c.utr \in Ref \cup {NoRef} /\ c.evidence \in Evidence
  BY DEF Call
<1> QED BY <1>1, <1>2 DEF Confirmed, Row, Meta

LEMMA IdleKnows ==
  /\ Knows(Idle) /\ Honest(Idle) /\ Silent(Idle)
  /\ Knows(Idle)' /\ Honest(Idle)' /\ Silent(Idle)'
BY DEF Knows, Honest, Silent, Idle, ConfirmPC

-----------------------------------------------------------------------------
(***************************************************************************)
(* Steps, seen from the rows and from the other requests.                  *)
(***************************************************************************)
\* One order is written, and it is left as it is, closed or paid with a reference that no
\* other live order was paid with: the rows stay sound and the step is one of the promise.
LEMMA RowWritten ==
  ASSUME Inv, NEW o \in Order, NEW n \in Row, row' = [row EXCEPT ![o] = n],
         Moves(row[o], n),
         o \in HeldOrder => n.status # "EXPIRED",
         n.meta.confirmation = "live" => o \in LiveOrder,
         n.meta.confirmation = "test" => o \notin LiveOrder,
         n.status = "SUCCESS" /\ row[o].status # "SUCCESS" =>
           \A p \in LiveOrder \ {o} : o \in LiveOrder /\ Paid(p) => row[p].rrn # n.rrn
  PROVE  row' \in [Order -> Row] /\ RowsMove /\ Rows' /\ [Promise!Next]_(Promise!promiseVars)
<1>1. row \in [Order -> Row] /\ row' \in [Order -> Row]
  BY DEF Inv, TypeOK
<1>2. row'[o] = n /\ \A p \in Order \ {o} : row'[p] = row[p]
  BY <1>1
<1>3. RowsMove
  BY <1>1, <1>2 DEF RowsMove, Moves
<1>4. ModesNeverCross' /\ HeldNeverExpires'
  BY <1>1, <1>2, OrderAssumption DEF Inv, Rows, ModesNeverCross, HeldNeverExpires
<1>5. PaidHasReference'
  BY <1>1, <1>2, OrderAssumption DEF Inv, Rows, PaidHasReference, Paid, Moves, Row
<1>6. OnePaidRow'
  BY <1>1, <1>2, OrderAssumption DEF Inv, Rows, OnePaidRow, Paid, Moves
<1>7. [Promise!Next]_(Promise!promiseVars)
  <2> DEFINE st == [p \in Order |-> row[p].status]
             pw == [p \in Order |-> row[p].rrn]
  <2>1. st' = [st EXCEPT ![o] = n.status] /\ pw' = [pw EXCEPT ![o] = n.rrn]
    BY <1>1, <1>2
  <2>2. CASE n.status = row[o].status /\ n.rrn = row[o].rrn
    <3>1. st' = st /\ pw' = pw
      BY <2>1, <2>2
    <3> QED BY <3>1 DEF Promise!promiseVars
  <2>3. CASE row[o].status = "PENDING" /\ n.status \in {"FAILED", "EXPIRED"} /\ n.rrn = row[o].rrn
    <3>1. Promise!Close(o, n.status)
      BY <2>1, <2>3 DEF Promise!Close
    <3> QED BY <3>1, <2>3 DEF Promise!Next
  <2>4. CASE row[o].status # "SUCCESS" /\ n.status = "SUCCESS" /\ n.rrn \in Ref
    <3>1. Promise!Pay(o, n.rrn)
      BY <2>1, <2>4, OrderAssumption DEF Promise!Pay, Promise!PaidBy, Paid
    <3> QED BY <3>1, <2>4 DEF Promise!Next
  <2> QED BY <2>2, <2>3, <2>4 DEF Moves
<1> QED BY <1>1, <1>3, <1>4, <1>5, <1>6, <1>7 DEF Rows

\* No order is written.
LEMMA RowKept ==
  ASSUME Inv, UNCHANGED row
  PROVE  row' \in [Order -> Row] /\ RowsMove /\ Rows' /\ [Promise!Next]_(Promise!promiseVars)
<1>1. RowsMove
  BY DEF RowsMove, Moves
<1>2. Rows'
  BY DEF Inv, Rows, ModesNeverCross, HeldNeverExpires, PaidHasReference, OnePaidRow, Paid
<1> QED BY <1>1, <1>2 DEF Inv, TypeOK, Promise!promiseVars

\* What a request knew and answered stays so while others write.
LEMMA KnowledgeStays ==
  ASSUME Inv, RowsMove, row' \in [Order -> Row], NEW v \in Worker, call'[v] = call[v]
  PROVE  Knows(call[v])' /\ Honest(call[v])' /\ Silent(call[v])'
<1>1. Knows(call[v]) /\ Honest(call[v]) /\ Silent(call[v]) /\ call[v] \in Call
      /\ (call[v].pc # "idle" => call[v].order \in Order)
  BY DEF Inv, Requests, TypeOK
<1>2. \A o \in Order : /\ row[o].status \in Status
                       /\ row[o].status = "SUCCESS" => row'[o].status = "SUCCESS"
                                                       /\ row'[o].rrn = row[o].rrn
                       /\ row[o].status \in Terminal => row'[o].status \in {row[o].status, "SUCCESS"}
  BY RowTypes DEF RowsMove, Moves, Inv, TypeOK, Terminal, Status
<1>3. Knows(call[v])'
  BY <1>1, <1>2 DEF Knows, Final, ConfirmPC, Terminal, Status, Locked
<1>4. Honest(call[v])'
  BY <1>1, <1>2 DEF Honest, Silent, Paid
<1>5. Silent(call[v])'
  BY <1>1 DEF Silent
<1> QED BY <1>3, <1>4, <1>5

\* One request moves on.
LEMMA RequestMoves ==
  ASSUME Inv, row' \in [Order -> Row], RowsMove, Rows',
         due' \in SUBSET Order, faults' \in 0..MaxFaults,
         call' \in [Worker -> Call], NEW w \in Worker,
         \A v \in Worker \ {w} : call'[v] = call[v],
         call'[w].pc # "idle" => call'[w].order \in Order,
         Knows(call[w])', Honest(call[w])', Silent(call[w])'
  PROVE  Inv'
<1>1. \A v \in Worker : call'[v].pc # "idle" => call'[v].order \in Order
  BY DEF Inv, TypeOK
<1>2. Requests'
  BY KnowledgeStays DEF Requests
<1> QED BY <1>1, <1>2 DEF Inv, TypeOK

LEMMA RequestEnds ==
  ASSUME NEW w, call'[w] = Idle
  PROVE  /\ call'[w].pc = "idle"
         /\ Knows(call[w])' /\ Honest(call[w])' /\ Silent(call[w])'
BY DEF Knows, Honest, Silent, Idle, ConfirmPC

LEMMA CallWritten ==
  ASSUME Inv, NEW w \in Worker, NEW c \in Call, call' = [call EXCEPT ![w] = c]
  PROVE  /\ call' \in [Worker -> Call] /\ call'[w] = c
         /\ \A v \in Worker \ {w} : call'[v] = call[v]
BY DEF Inv, TypeOK

\* What a request knows when it has read its order.
LEMMA AfterReadKnows ==
  ASSUME Inv, UNCHANGED row, NEW w \in Worker, NEW c \in Call, call'[w] = AfterRead(c),
         c.order \in Order, c.outcome \in Outcome, c.reply = "none",
         c.retried => Final(c.order)
  PROVE  Knows(call[w])' /\ Honest(call[w])' /\ Silent(call[w])'
<1>1. CASE ~ModeAgrees(c.evidence, c.order)
  BY <1>1, RequestEnds DEF AfterRead
<1>2. CASE ModeAgrees(c.evidence, c.order) /\ Locked(row[c.order].status, c.outcome)
  <2>1. CASE row[c.order].status # c.outcome
    BY <1>2, <2>1, RequestEnds DEF AfterRead
  <2>2. CASE row[c.order].status = c.outcome
    <3>1. call'[w] = Answered(c, "replay")
      BY <1>2, <2>2 DEF AfterRead
    <3>2. /\ call'[w].pc = "done" /\ call'[w].reply = "replay"
          /\ call'[w].outcome = c.outcome /\ call'[w].order = c.order
      BY <3>1 DEF Answered, Idle
    <3> QED BY <3>2, <2>2 DEF Knows, Honest, Silent, ConfirmPC, Paid
  <2> QED BY <2>1, <2>2
<1>3. CASE ModeAgrees(c.evidence, c.order) /\ ~Locked(row[c.order].status, c.outcome)
  <2>1. call'[w] = [c EXCEPT !.pc = IF c.outcome = "SUCCESS" /\ c.utr # NoRef
                                    THEN "dupcheck" ELSE "write",
                             !.seen = row[c.order].status]
    BY <1>3 DEF AfterRead
  <2>2. /\ call'[w].pc \in {"dupcheck", "write"} /\ call'[w].seen = row[c.order].status
        /\ call'[w].pc = "dupcheck" => c.outcome = "SUCCESS" /\ c.utr # NoRef
        /\ call'[w].order = c.order /\ call'[w].outcome = c.outcome /\ call'[w].utr = c.utr
        /\ call'[w].evidence = c.evidence /\ call'[w].retried = c.retried
        /\ call'[w].reply = "none"
    BY <2>1 DEF Call
  <2>3. Knows(call[w])'
    BY <1>3, <2>2 DEF Knows, ConfirmPC, Final, Terminal, Locked, ModeAgrees, Reviving
  <2> QED BY <2>2, <2>3 DEF Honest, Silent
<1> QED BY <1>1, <1>2, <1>3

-----------------------------------------------------------------------------
(***************************************************************************)
(* The actions, one by one.                                                *)
(***************************************************************************)
StepsWell == Inv' /\ [Promise!Next]_(Promise!promiseVars)

LEMMA ConfirmReadOK ==
  ASSUME Inv, NEW w \in Worker, ConfirmRead(w)
  PROVE  StepsWell
<1>1. PICK o \in Order, out \in Outcome, u \in Ref \cup {NoRef}, e \in Evidence :
        call' = [call EXCEPT ![w] = AfterRead([Idle EXCEPT !.order = o, !.outcome = out,
                                                           !.utr = u, !.evidence = e])]
  BY DEF ConfirmRead
<1> DEFINE c == [Idle EXCEPT !.order = o, !.outcome = out, !.utr = u, !.evidence = e]
<1>2. c \in Call
  BY IdleType DEF Call, Outcome, Status
<1>3. /\ c.order = o /\ c.outcome = out /\ c.reply = "none" /\ c.retried = FALSE
  BY DEF Idle
<1>4. UNCHANGED <<row, due, faults>>
  BY DEF ConfirmRead
<1> HIDE DEF c
<1>5. AfterRead(c) \in Call /\ (AfterRead(c).pc # "idle" => AfterRead(c).order \in Order)
  BY <1>2, <1>3, AfterReadType DEF Inv
<1>6. call' = [call EXCEPT ![w] = AfterRead(c)]
  BY <1>1 DEF c
<1>7. /\ call' \in [Worker -> Call] /\ call'[w] = AfterRead(c)
      /\ \A v \in Worker \ {w} : call'[v] = call[v]
  BY <1>5, <1>6, CallWritten
<1>8. Knows(call[w])' /\ Honest(call[w])' /\ Silent(call[w])'
  BY <1>2, <1>3, <1>4, <1>7, AfterReadKnows
<1> QED BY <1>4, <1>5, <1>7, <1>8, RowKept, RequestMoves DEF StepsWell, Inv, TypeOK

LEMMA ConfirmRereadOK ==
  ASSUME Inv, NEW w \in Worker, ConfirmReread(w)
  PROVE  StepsWell
<1> DEFINE c == call[w]
<1>1. c \in Call /\ c.pc = "reread" /\ c.order \in Order
  BY DEF ConfirmReread, Inv, TypeOK
<1>2. c.outcome \in Outcome /\ c.reply = "none" /\ (c.retried => Final(c.order))
  BY <1>1 DEF Inv, Requests, Knows, Silent, ConfirmPC
<1>3. UNCHANGED <<row, due, faults>> /\ call' = [call EXCEPT ![w] = AfterRead(c)]
  BY DEF ConfirmReread
<1> HIDE DEF c
<1>4. AfterRead(c) \in Call /\ (AfterRead(c).pc # "idle" => AfterRead(c).order \in Order)
  BY <1>1, AfterReadType DEF Inv
<1>5. /\ call' \in [Worker -> Call] /\ call'[w] = AfterRead(c)
      /\ \A v \in Worker \ {w} : call'[v] = call[v]
  BY <1>3, <1>4, CallWritten
<1>6. Knows(call[w])' /\ Honest(call[w])' /\ Silent(call[w])'
  BY <1>1, <1>2, <1>3, <1>5, AfterReadKnows
<1> QED BY <1>3, <1>4, <1>5, <1>6, RowKept, RequestMoves DEF StepsWell, Inv, TypeOK

LEMMA AnsweredDuplicate ==
  ASSUME NEW c
  PROVE  LET a == Answered(c, "duplicate")
         IN  /\ a.pc = "done" /\ a.reply = "duplicate"
             /\ a.order = c.order /\ a.utr = c.utr /\ a.outcome = c.outcome
BY DEF Answered, Idle

LEMMA ConfirmDupCheckOK ==
  ASSUME Inv, NEW w \in Worker, ConfirmDupCheck(w)
  PROVE  StepsWell
<1> DEFINE c == call[w]
<1>1. c \in Call /\ c.pc = "dupcheck" /\ c.order \in Order /\ UNCHANGED <<row, due, faults>>
  BY DEF ConfirmDupCheck, Inv, TypeOK
<1>2. Knows(c) /\ Silent(c)
  BY DEF Inv, Requests
<1>3. CASE CarriedElsewhere(c.order, c.utr)
  <2>1. call' = [call EXCEPT ![w] = Answered(c, "duplicate")]
    BY <1>3 DEF ConfirmDupCheck, Answer
  <2>2. Answered(c, "duplicate") \in Call
    BY <1>1, AnsweredType DEF Reply
  <2>3. /\ call' \in [Worker -> Call] /\ call'[w] = Answered(c, "duplicate")
        /\ \A v \in Worker \ {w} : call'[v] = call[v]
    BY <2>1, <2>2, CallWritten
  <2>4. \E p \in Order \ {c.order} : SameMode(c.order, p) /\ Paid(p) /\ row[p].rrn = c.utr
    BY <1>1, <1>2, <1>3
       DEF CarriedElsewhere, Inv, Rows, PaidHasReference, Knows
  <2>5. Knows(call[w])' /\ Honest(call[w])' /\ Silent(call[w])'
    BY <1>1, <2>3, <2>4, AnsweredDuplicate
       DEF Knows, Honest, Silent, ConfirmPC, SameMode, Paid
  <2> QED BY <1>1, <2>3, <2>5, AnsweredDuplicate, RowKept, RequestMoves
          DEF StepsWell, Inv, TypeOK
<1>4. CASE ~CarriedElsewhere(c.order, c.utr)
  <2>1. call' = [call EXCEPT ![w] = [c EXCEPT !.pc = "write"]]
    BY <1>4 DEF ConfirmDupCheck
  <2>2. [c EXCEPT !.pc = "write"] \in Call
    BY <1>1 DEF Call, PC
  <2>3. /\ call' \in [Worker -> Call] /\ call'[w] = [c EXCEPT !.pc = "write"]
        /\ \A v \in Worker \ {w} : call'[v] = call[v]
    BY <2>1, <2>2, CallWritten
  <2>4. Knows(call[w])' /\ Honest(call[w])' /\ Silent(call[w])' /\ call'[w].order = c.order
    BY <1>1, <1>2, <2>3
       DEF Knows, Honest, Silent, ConfirmPC, Call, Final, Locked, Terminal, ModeAgrees
  <2> QED BY <1>1, <2>3, <2>4, RowKept, RequestMoves DEF StepsWell, Inv, TypeOK
<1> QED BY <1>3, <1>4

LEMMA ConfirmWriteOK ==
  ASSUME Inv, NEW w \in Worker, ConfirmWrite(w)
  PROVE  StepsWell
<1> DEFINE c == call[w]
           o == c.order
           new == Confirmed(row[o], c)
<1>1. c \in Call /\ c.pc = "write" /\ o \in Order /\ row[o] \in Row
      /\ UNCHANGED <<due, faults>>
  BY DEF ConfirmWrite, Inv, TypeOK
<1>2. Knows(c) /\ Silent(c)
  BY DEF Inv, Requests
<1>3. new \in Row
  BY <1>1, ConfirmedType
<1>4. /\ new.status = c.outcome /\ new.meta.confirmation = c.evidence
      /\ c.outcome # "SUCCESS" => new.rrn = row[o].rrn
      /\ c.outcome = "SUCCESS" => new.rrn \in Ref /\ new.rrn \in {c.utr, genRrn[o]}
  BY <1>1, OrderAssumption DEF Confirmed, Row, Meta, Call
<1>5. c.outcome \in Outcome /\ ModeAgrees(c.evidence, o) /\ ~Locked(c.seen, c.outcome)
  BY <1>1, <1>2 DEF Knows, ConfirmPC
<1>6. CASE row[o].status = c.seen /\ ~IndexRefuses(o, new.status, new.rrn)
           /\ row' = [row EXCEPT ![o] = new]
           /\ call' = [call EXCEPT ![w] = [Answered(c, "confirmed") EXCEPT !.pc = "notify"]]
  <2>1. Moves(row[o], new)
    BY <1>1, <1>4, <1>5, <1>6, RowTypes
       DEF Moves, Locked, Reviving, Terminal, Status, Outcome
  <2>2. row' \in [Order -> Row] /\ RowsMove /\ Rows' /\ [Promise!Next]_(Promise!promiseVars)
    <3>1. o \in HeldOrder => new.status # "EXPIRED"
      BY <1>4, <1>5 DEF Outcome
    <3>2. /\ new.meta.confirmation = "live" => o \in LiveOrder
          /\ new.meta.confirmation = "test" => o \notin LiveOrder
      BY <1>4, <1>5 DEF ModeAgrees
    <3>3. new.status = "SUCCESS" /\ row[o].status # "SUCCESS" =>
            \A p \in LiveOrder \ {o} : o \in LiveOrder /\ Paid(p) => row[p].rrn # new.rrn
      BY <1>6 DEF IndexRefuses
    <3> HIDE DEF new
    <3> QED BY <1>1, <1>3, <1>6, <2>1, <3>1, <3>2, <3>3, RowWritten
  <2>3. Answered(c, "confirmed") \in Call
    BY <1>1, AnsweredType DEF Reply
  <2>4. [Answered(c, "confirmed") EXCEPT !.pc = "notify"] \in Call
    BY <2>3 DEF Call, PC
  <2>5. LET a == [Answered(c, "confirmed") EXCEPT !.pc = "notify"]
        IN  a.pc = "notify" /\ a.reply = "confirmed" /\ a.order = o /\ a.outcome = c.outcome
    BY DEF Answered, Idle
  <2>6. /\ call' \in [Worker -> Call]
        /\ call'[w] = [Answered(c, "confirmed") EXCEPT !.pc = "notify"]
        /\ \A v \in Worker \ {w} : call'[v] = call[v]
    BY <1>6, <2>4, CallWritten
  <2>7. row'[o].status = c.outcome
    BY <1>1, <1>4, <1>6 DEF Inv, TypeOK
  <2>8. Knows(call[w])' /\ Honest(call[w])' /\ Silent(call[w])'
    BY <1>1, <2>5, <2>6, <2>7 DEF Knows, Honest, Silent, ConfirmPC, Paid
  <2> QED BY <1>1, <2>2, <2>5, <2>6, <2>8, RequestMoves DEF StepsWell, Inv, TypeOK
<1>7. CASE row[o].status = c.seen /\ IndexRefuses(o, new.status, new.rrn)
           /\ Answer(w, "duplicate") /\ UNCHANGED row
  <2>1. Answered(c, "duplicate") \in Call
    BY <1>1, AnsweredType DEF Reply
  <2>2. /\ call' \in [Worker -> Call] /\ call'[w] = Answered(c, "duplicate")
        /\ \A v \in Worker \ {w} : call'[v] = call[v]
    BY <1>7, <2>1, CallWritten DEF Answer
  <2>3. \E p \in Order \ {o} : SameMode(o, p) /\ Paid(p) /\ row[p].rrn \in {c.utr, genRrn[o]}
    BY <1>4, <1>7, OrderAssumption DEF IndexRefuses, SameMode
  <2>4. Knows(call[w])' /\ Honest(call[w])' /\ Silent(call[w])'
    BY <1>1, <1>7, <2>2, <2>3, AnsweredDuplicate
       DEF Knows, Honest, Silent, ConfirmPC, SameMode, Paid
  <2> QED BY <1>1, <1>7, <2>2, <2>4, AnsweredDuplicate, RowKept, RequestMoves
          DEF StepsWell, Inv, TypeOK
<1>8. CASE row[o].status # c.seen /\ MayRetry(c) /\ UNCHANGED row
           /\ call' = [call EXCEPT ![w] = [c EXCEPT !.pc = "reread", !.retried = TRUE]]
  <2>1. [c EXCEPT !.pc = "reread", !.retried = TRUE] \in Call
    BY <1>1 DEF Call, PC
  <2>2. /\ call' \in [Worker -> Call] /\ call'[w] = [c EXCEPT !.pc = "reread", !.retried = TRUE]
        /\ \A v \in Worker \ {w} : call'[v] = call[v]
    BY <1>8, <2>1, CallWritten
  <2>3. Final(o)
    BY <1>1, <1>2, <1>8, RowTypes DEF Knows, Final, Terminal, Locked, Status, Call
  <2>4. Knows(call[w])' /\ Honest(call[w])' /\ Silent(call[w])' /\ call'[w].order = o
    BY <1>1, <1>2, <1>5, <1>8, <2>2, <2>3
       DEF Knows, Honest, Silent, ConfirmPC, Call, Final, ModeAgrees
  <2> QED BY <1>1, <1>8, <2>2, <2>4, RowKept, RequestMoves DEF StepsWell, Inv, TypeOK
<1>9. CASE row[o].status # c.seen /\ ~MayRetry(c) /\ Answer(w, "changed") /\ UNCHANGED row
  <2>1. Answered(c, "changed") \in Call
    BY <1>1, AnsweredType DEF Reply
  <2>2. /\ call' \in [Worker -> Call] /\ call'[w] = Answered(c, "changed")
        /\ \A v \in Worker \ {w} : call'[v] = call[v]
    BY <1>9, <2>1, CallWritten DEF Answer
  <2>3. LET a == Answered(c, "changed")
        IN  a.pc = "done" /\ a.reply = "changed" /\ a.order = o /\ a.outcome = c.outcome
    BY DEF Answered, Idle
  <2>4. Paid(o)
    BY <1>1, <1>2, <1>9 DEF Knows, ConfirmPC, MayRetry, Paid, Call
  <2>5. Knows(call[w])' /\ Honest(call[w])' /\ Silent(call[w])'
    BY <1>1, <1>9, <2>2, <2>3, <2>4 DEF Knows, Honest, Silent, ConfirmPC, Paid
  <2> QED BY <1>1, <1>9, <2>2, <2>3, <2>5, RowKept, RequestMoves DEF StepsWell, Inv, TypeOK
<1> QED BY <1>6, <1>7, <1>8, <1>9 DEF ConfirmWrite

\* A request that ends and leaves nothing behind.
LEMMA OverOK ==
  ASSUME Inv, NEW w \in Worker, Over(w), UNCHANGED <<row, due>>, faults' \in 0..MaxFaults
  PROVE  StepsWell
<1>1. /\ call' \in [Worker -> Call] /\ call'[w] = Idle
      /\ \A v \in Worker \ {w} : call'[v] = call[v]
  BY IdleType, CallWritten DEF Over
<1> QED BY <1>1, RequestEnds, RowKept, RequestMoves DEF StepsWell, Inv, TypeOK

\* A request that starts by reading an order, without an answer to give.
LEMMA StartOK ==
  ASSUME Inv, NEW w \in Worker, NEW c \in Call, call' = [call EXCEPT ![w] = c],
         UNCHANGED <<row, due, faults>>,
         c.pc \in {"resolve", "park", "rotate"}, c.order \in Order, c.reply = "none", Knows(c)
  PROVE  StepsWell
<1>1. /\ call' \in [Worker -> Call] /\ call'[w] = c
      /\ \A v \in Worker \ {w} : call'[v] = call[v]
  BY CallWritten
<1>2. Knows(call[w])' /\ Honest(call[w])' /\ Silent(call[w])'
  BY <1>1 DEF Knows, Honest, Silent, ConfirmPC
<1> QED BY <1>1, <1>2, RowKept, RequestMoves DEF StepsWell, Inv, TypeOK

LEMMA ResolveReadOK ==
  ASSUME Inv, NEW w \in Worker, NEW o \in Order, ResolveRead(w, o)
  PROVE  StepsWell
<1> DEFINE c == [Idle EXCEPT !.pc = "resolve", !.order = o, !.outcome = resolveKatanaStatus(o)]
<1>1. row[o].status = "PENDING" /\ resolveKatanaStatus(o) # "PENDING" /\ o \notin HeldOrder
  BY RowTypes DEF ResolveRead, Final, Terminal, Status, autoResolvePaused, Inv, TypeOK
<1>2. decideKatanaStatus(o) \in Status /\ (o \in LiveOrder => decideKatanaStatus(o) = "PENDING")
  BY OrderAssumption DEF decideKatanaStatus, Status
<1>3. resolveKatanaStatus(o) \in Terminal
      /\ (o \in LiveOrder => resolveKatanaStatus(o) # "SUCCESS")
  BY <1>1, <1>2 DEF resolveKatanaStatus, Terminal, Status
<1>4. c \in Call
  BY <1>3, IdleType DEF Call, PC, Terminal
<1>5. c.pc = "resolve" /\ c.order = o /\ c.reply = "none" /\ c.outcome = resolveKatanaStatus(o)
  BY DEF Idle
<1>6. Knows(c)
  BY <1>1, <1>3, <1>5 DEF Knows, ConfirmPC
<1> QED BY <1>4, <1>5, <1>6, StartOK DEF ResolveRead

LEMMA ResolveWriteOK ==
  ASSUME Inv, NEW w \in Worker, ResolveWrite(w)
  PROVE  StepsWell
<1> DEFINE c == call[w]
           o == c.order
           new == [row[o] EXCEPT !.status = c.outcome,
                                 !.rrn = IF c.outcome = "SUCCESS" THEN genRrn[o] ELSE @]
           end == [Idle EXCEPT !.pc = "notify", !.order = o]
<1>1. /\ c \in Call /\ c.pc = "resolve" /\ o \in Order /\ row[o] \in Row
      /\ UNCHANGED <<due, faults>>
  BY DEF ResolveWrite, Inv, TypeOK
<1>2. /\ c.outcome \in Terminal /\ o \notin HeldOrder
      /\ o \in LiveOrder => c.outcome # "SUCCESS"
  BY <1>1 DEF Inv, Requests, Knows
<1>3. CASE /\ StillOpen(o) /\ row' = [row EXCEPT ![o] = new] /\ call' = [call EXCEPT ![w] = end]
  <2>1. row[o].status = "PENDING"
    BY <1>1, <1>3, RowTypes DEF StillOpen, Final, Terminal, Status
  <2>2. /\ new \in Row /\ new.status = c.outcome /\ new.meta = row[o].meta
        /\ c.outcome = "SUCCESS" => new.rrn = genRrn[o]
        /\ c.outcome # "SUCCESS" => new.rrn = row[o].rrn
    BY <1>1, <1>2, OrderAssumption DEF Row, Terminal
  <2>3. Moves(row[o], new)
    BY <1>1, <1>2, <2>1, <2>2, OrderAssumption DEF Moves, Terminal, Status
  <2>4. row' \in [Order -> Row] /\ RowsMove /\ Rows' /\ [Promise!Next]_(Promise!promiseVars)
    <3>1. /\ new.meta.confirmation = "live" => o \in LiveOrder
          /\ new.meta.confirmation = "test" => o \notin LiveOrder
      BY <1>1, <2>2 DEF Inv, Rows, ModesNeverCross
    <3>2. new.status = "SUCCESS" => o \notin LiveOrder
      BY <1>2, <2>2
    <3> HIDE DEF new
    <3> QED BY <1>1, <1>2, <1>3, <2>2, <2>3, <3>1, <3>2, RowWritten
  <2>5. end \in Call /\ end.pc = "notify" /\ end.order = o /\ end.reply = "none"
    BY <1>1, IdleType DEF Idle, Call, PC
  <2>6. /\ call' \in [Worker -> Call] /\ call'[w] = end
        /\ \A v \in Worker \ {w} : call'[v] = call[v]
    BY <1>3, <2>5, CallWritten
  <2>7. Knows(call[w])' /\ Honest(call[w])' /\ Silent(call[w])'
    BY <2>5, <2>6 DEF Knows, Honest, Silent, ConfirmPC
  <2> QED BY <1>1, <2>4, <2>5, <2>6, <2>7, RequestMoves DEF StepsWell, Inv, TypeOK
<1>4. CASE ~StillOpen(o) /\ Over(w) /\ UNCHANGED row
  BY <1>1, <1>4, OverOK DEF Inv, TypeOK
<1> QED BY <1>3, <1>4 DEF ResolveWrite

LEMMA ProofReadOK ==
  ASSUME Inv, NEW w \in Worker, ProofRead(w)
  PROVE  StepsWell
<1>1. PICK o \in Order : call' = [call EXCEPT ![w] = [Idle EXCEPT !.pc = "park", !.order = o]]
  BY DEF ProofRead
<1> DEFINE c == [Idle EXCEPT !.pc = "park", !.order = o]
<1>2. c \in Call /\ c.pc = "park" /\ c.order = o /\ c.reply = "none"
  BY IdleType DEF Idle, Call, PC
<1>3. Knows(c)
  BY <1>2 DEF Knows, ConfirmPC
<1> QED BY <1>1, <1>2, <1>3, StartOK DEF ProofRead

LEMMA ProofParkOK ==
  ASSUME Inv, NEW w \in Worker, ProofPark(w)
  PROVE  StepsWell
<1> DEFINE o == call[w].order
           new == [row[o] EXCEPT !.meta.review = "PROOF_SUBMITTED"]
<1>1. o \in Order /\ row[o] \in Row /\ Over(w) /\ UNCHANGED <<due, faults>>
  BY DEF ProofPark, Inv, TypeOK
<1>2. CASE Final(o)
  BY <1>1, <1>2, OverOK DEF ProofPark, Inv, TypeOK
<1>3. CASE ~Final(o)
  <2>1. row' = [row EXCEPT ![o] = new]
    BY <1>3 DEF ProofPark
  <2>2. /\ new \in Row /\ new.status = row[o].status /\ new.rrn = row[o].rrn
        /\ new.meta.confirmation = row[o].meta.confirmation
    BY <1>1 DEF Row, Meta
  <2>3. /\ Moves(row[o], new)
        /\ o \in HeldOrder => new.status # "EXPIRED"
        /\ new.meta.confirmation = "live" => o \in LiveOrder
        /\ new.meta.confirmation = "test" => o \notin LiveOrder
    BY <1>1, <2>2 DEF Moves, Inv, Rows, ModesNeverCross, HeldNeverExpires
  <2> HIDE DEF new
  <2>4. row' \in [Order -> Row] /\ RowsMove /\ Rows' /\ [Promise!Next]_(Promise!promiseVars)
    BY <1>1, <2>1, <2>2, <2>3, RowWritten
  <2>5. /\ call' \in [Worker -> Call] /\ call'[w] = Idle
        /\ \A v \in Worker \ {w} : call'[v] = call[v]
    BY <1>1, IdleType, CallWritten DEF Over
  <2> QED BY <1>1, <2>4, <2>5, RequestEnds, RequestMoves DEF StepsWell, Inv, TypeOK
<1> QED BY <1>2, <1>3

LEMMA RotateReadOK ==
  ASSUME Inv, NEW w \in Worker, RotateRead(w)
  PROVE  StepsWell
<1>1. PICK o \in Order :
        /\ row[o].meta.ready > 0
        /\ call' = [call EXCEPT ![w] = [Idle EXCEPT !.pc = "rotate", !.order = o,
                                                    !.meta = row[o].meta]]
  BY DEF RotateRead
<1> DEFINE c == [Idle EXCEPT !.pc = "rotate", !.order = o, !.meta = row[o].meta]
<1>2. row[o].meta \in Meta
  BY RowTypes DEF Inv, TypeOK
<1>3. c \in Call
  BY <1>2, IdleType DEF Call, PC
<1>4. c.pc = "rotate" /\ c.order = o /\ c.meta = row[o].meta /\ c.reply = "none"
  BY DEF Idle
<1>5. Knows(c)
  BY <1>1, <1>4 DEF Knows, ConfirmPC, Inv, Rows, ModesNeverCross
<1> QED BY <1>1, <1>3, <1>4, <1>5, StartOK DEF RotateRead

LEMMA RotateWriteOK ==
  ASSUME Inv, NEW w \in Worker, RotateWrite(w)
  PROVE  StepsWell
<1> DEFINE c == call[w]
           o == c.order
           m == [c.meta EXCEPT !.ready = @ - 1]
           new == [row[o] EXCEPT !.meta = m]
<1>1. /\ c \in Call /\ o \in Order /\ row[o] \in Row /\ c.pc = "rotate"
      /\ Over(w) /\ UNCHANGED <<due, faults>> /\ row' = [row EXCEPT ![o] = new]
  BY DEF RotateWrite, Inv, TypeOK
<1>2. /\ c.meta \in Meta /\ c.meta.ready > 0
      /\ c.meta.confirmation = "live" => o \in LiveOrder
      /\ c.meta.confirmation = "test" => o \notin LiveOrder
  BY <1>1 DEF Inv, Requests, Knows, Call
<1>3. m \in Meta /\ m.confirmation = c.meta.confirmation
  BY <1>2, OrderAssumption DEF Meta
<1>4. new \in Row /\ new.status = row[o].status /\ new.rrn = row[o].rrn /\ new.meta = m
  BY <1>1, <1>3 DEF Row
<1>5. Moves(row[o], new) /\ (o \in HeldOrder => new.status # "EXPIRED")
  BY <1>4 DEF Moves, Inv, Rows, HeldNeverExpires
<1> HIDE DEF new, m
<1>6. row' \in [Order -> Row] /\ RowsMove /\ Rows' /\ [Promise!Next]_(Promise!promiseVars)
  BY <1>1, <1>2, <1>3, <1>4, <1>5, RowWritten
<1>7. /\ call' \in [Worker -> Call] /\ call'[w] = Idle
      /\ \A v \in Worker \ {w} : call'[v] = call[v]
  BY <1>1, IdleType, CallWritten DEF Over
<1> QED BY <1>1, <1>6, <1>7, RequestEnds, RequestMoves DEF StepsWell, Inv, TypeOK

LEMMA EndOK ==
  ASSUME Inv, NEW w \in Worker, Return(w) \/ Notified(w) \/ Crash(w)
  PROVE  StepsWell
<1>1. Over(w) /\ UNCHANGED <<row, due>>
  BY DEF Return, Notified, Crash
<1>2. faults' \in 0..MaxFaults
  BY OrderAssumption DEF Return, Notified, Crash, Inv, TypeOK
<1> QED BY <1>1, <1>2, OverOK

\* Nothing but the clock, or nothing at all.
LEMMA RequestsStay ==
  ASSUME Inv, UNCHANGED <<row, call, faults>>, due' \in SUBSET Order
  PROVE  StepsWell
<1>1. \A v \in Worker : Knows(call[v])' /\ Honest(call[v])' /\ Silent(call[v])'
  BY RowKept, KnowledgeStays
<1> QED BY <1>1, RowKept DEF StepsWell, Inv, Requests, TypeOK

-----------------------------------------------------------------------------
(***************************************************************************)
(* The theorems.                                                           *)
(***************************************************************************)
LEMMA InitOK == Init => Inv /\ Promise!Init
<1> SUFFICES ASSUME Init PROVE Inv /\ Promise!Init
  OBVIOUS
<1>1. NewRow.status = "PENDING" /\ NewRow.rrn = NoRef /\ NewRow.meta.confirmation = "none"
  BY DEF NewRow
<1>2. \A o \in Order : row[o] = NewRow
  BY DEF Init
<1>3. TypeOK
  BY NewRowType, IdleType, OrderAssumption DEF Init, TypeOK, Idle
<1>4. Requests
  BY IdleKnows DEF Init, Requests
<1>5. Rows
  BY <1>1, <1>2, OrderAssumption
     DEF Rows, ModesNeverCross, HeldNeverExpires, PaidHasReference, OnePaidRow, Paid
<1>6. Promise!Init
  BY <1>1, <1>2 DEF Promise!Init
<1> QED BY <1>3, <1>4, <1>5, <1>6 DEF Inv

LEMMA NextOK == Inv /\ [Next]_vars => StepsWell
<1> SUFFICES ASSUME Inv, [Next]_vars PROVE StepsWell
  OBVIOUS
<1>1. ASSUME NEW w \in Worker, Step(w) PROVE StepsWell
  BY <1>1, ConfirmRereadOK, ConfirmDupCheckOK, ConfirmWriteOK, ResolveWriteOK, ProofParkOK,
     RotateWriteOK, EndOK DEF Step
<1>2. ASSUME NEW w \in Worker, Request(w) PROVE StepsWell
  BY <1>2, ConfirmReadOK, ProofReadOK, RotateReadOK, ResolveReadOK DEF Request
<1>3. ASSUME NEW w \in Worker, Crash(w) \/ Notified(w) PROVE StepsWell
  BY <1>3, EndOK
<1>4. ASSUME NEW o \in Order, Aging(o) PROVE StepsWell
  BY <1>4, RequestsStay DEF Aging, Inv, TypeOK
<1>5. CASE UNCHANGED vars
  BY <1>5, RequestsStay DEF vars, Inv, TypeOK
<1> QED BY <1>1, <1>2, <1>3, <1>4, <1>5 DEF Next, OrderNext

\* The invariant, of every state an order system reaches.
THEOREM Invariance == Spec => []Inv
<1>1. Inv /\ [Next]_vars => Inv'
  BY NextOK DEF StepsWell
<1> QED BY InitOK, <1>1, PTL DEF Spec

\* Type correctness of the rows and of every request under way, for any number of either.
THEOREM TypeCorrect == Spec => []TypeOK
<1>1. Inv => TypeOK
  BY DEF Inv
<1> QED BY <1>1, Invariance, PTL

\* One retry of confirmKatanaOrder is enough: a payment that is given up because "the order
\* changed while it was being confirmed" was given up on a paid order, however many requests
\* fought over it.
THEOREM NoPaymentBounces == Spec => []NoBouncedPayment
<1>1. Inv => NoBouncedPayment
  BY DEF Inv, Requests, Honest, NoBouncedPayment
<1> QED BY <1>1, Invariance, PTL

\* Whoever was told that a payment is confirmed, or was before, finds the order paid.
THEOREM ConfirmationIsTrue == Spec => []ConfirmedMeansPaid
<1>1. Inv => ConfirmedMeansPaid
  BY DEF Inv, Requests, Honest, ConfirmedMeansPaid
<1> QED BY <1>1, Invariance, PTL

\* A payment is refused as a duplicate only when another order of the same mode was paid with
\* its reference, through the check before the write or the index under it.
THEOREM DuplicatesAreReal == Spec => []DuplicateIsReal
<1>1. Inv => DuplicateIsReal
  BY DEF Inv, Requests, Honest, DuplicateIsReal
<1> QED BY <1>1, Invariance, PTL

\* A confirmation never crosses modes, though advance-vpa writes back a meta it read earlier.
THEOREM ModesStayApart == Spec => []ModesNeverCross
<1>1. Inv => ModesNeverCross
  BY DEF Inv, Rows
<1> QED BY <1>1, Invariance, PTL

\* A held order is never expired, by any resolver on any snapshot.
THEOREM HoldsHold == Spec => []HeldNeverExpires
<1>1. Inv => HeldNeverExpires
  BY DEF Inv, Rows
<1> QED BY <1>1, Invariance, PTL

\* An order carries a bank reference exactly when it is paid.
THEOREM ReferenceIffPaid == Spec => []PaidHasReference
<1>1. Inv => PaidHasReference
  BY DEF Inv, Rows
<1> QED BY <1>1, Invariance, PTL

\* One bank reference pays one live order: the duplicate check and the index together, against
\* any number of concurrent confirmations.
THEOREM OneReferencePaysOnce == Spec => []OneReferenceOneOrder
<1>1. ASSUME OnePaidRow PROVE OneReferenceOneOrder
  BY <1>1, OrderAssumption
     DEF OnePaidRow, Paid, OneReferenceOneOrder, Promise!OneReferenceOneOrder
<1>2. Inv => OneReferenceOneOrder
  BY <1>1 DEF Inv, Rows
<1> QED BY <1>2, Invariance, PTL

\* Refinement: the handlers, step by step, do what PayinPromise promises.
THEOREM Refinement == Spec => KeepsPromise
<1>1. Inv /\ [Next]_vars => [Promise!Next]_(Promise!promiseVars)
  BY NextOK DEF StepsWell
<1> QED BY InitOK, Invariance, <1>1, PTL DEF Spec, KeepsPromise, Promise!Spec

\* A payment is final: no handler changes a paid order's status or reference again.
THEOREM PaymentIsFinal == Spec => PaidIsFinal
<1>1. ASSUME Promise!Next, NEW o \in Order, Paid(o)
      PROVE  Paid(o)' /\ row'[o].rrn = row[o].rrn
  <2> DEFINE st == [p \in Order |-> row[p].status]
             pw == [p \in Order |-> row[p].rrn]
  <2>1. st[o] = "SUCCESS"
    BY <1>1 DEF Paid
  <2>2. ASSUME NEW p \in Order, NEW s \in {"FAILED", "EXPIRED"}, Promise!Close(p, s)
        PROVE  st'[o] = "SUCCESS" /\ pw'[o] = pw[o]
    BY <2>1, <2>2 DEF Promise!Close
  <2>3. ASSUME NEW p \in Order, NEW r \in Ref, Promise!Pay(p, r)
        PROVE  st'[o] = "SUCCESS" /\ pw'[o] = pw[o]
    BY <2>1, <2>3 DEF Promise!Pay
  <2>4. st'[o] = "SUCCESS" /\ pw'[o] = pw[o]
    BY <1>1, <2>2, <2>3 DEF Promise!Next
  <2> QED BY <2>4 DEF Paid
<1>2. Promise!Next => Promise!StaysPaid
  BY <1>1 DEF Promise!StaysPaid, Paid
<1>3. Promise!Spec => PaidIsFinal
  BY <1>2, PTL DEF Promise!Spec, PaidIsFinal, Promise!PaidIsFinal
<1> QED BY Refinement, <1>3 DEF KeepsPromise
=============================================================================
