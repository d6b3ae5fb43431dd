---------------------------- MODULE PayoutProofs ----------------------------
(***************************************************************************)
(* Theorems about Payouts, for any payouts, requests, checkers, faults.    *)
(*                                                                         *)
(* The argument is an account kept of each payout.  Every permission to    *)
(* send it (an approval, or none being needed) is held by one request, or  *)
(* is the status QUEUED, or has become a transfer; so there are never more *)
(* transfers than permissions.  Every final status is told by one request. *)
(***************************************************************************)
EXTENDS Payouts, FiniteSetTheorems, TLAPS

OnGateway == {"dispatch", "block", "send", "transfer", "refuse", "lookup", "apply"}
OnQueue == {"read", "assign", "sweep", "accepted", "closed", "journal", "dropped", "rejected"}
Telling == {"tell", "claim", "enqueue", "restore"}
Ruling == {"decided", "write"}
Before == {"NONE", "CREATED", "VALIDATED", "HOLD"}

\* The requests that handle p, by where they are.
On(w, p) == call[w].order = p
Among(p, PCs) == {w \in Worker : On(w, p) /\ call[w].pc \in PCs}

\* A request that holds a permission to send p.
Permits(c, held) == \/ c.pc = "transfer"
                    \/ c.pc \in Ruling /\ c.to = "QUEUED"
                    \/ ~held /\ c.pc \in {"created", "validated"}
Permitted(p) == {w \in Worker : On(w, p) /\ Permits(call[w], row[p].held)}
Permissions(p) == IF row[p].held THEN decided[p].yes ELSE 1

One(b) == IF b THEN 1 ELSE 0

\* What a request knows of the payout it handles: the order is there, and on its route ...
Placed(w) ==
  LET c == call[w]
      p == c.order
  IN  IF c.pc = "idle" THEN c = Idle
      ELSE /\ p \in Payout
           /\ IF c.pc = "insert" THEN w \in Request ELSE row[p].status # "NONE"
           /\ c.pc \in OnGateway => row[p].provider
           /\ c.pc \in OnQueue => ~row[p].provider
           /\ c.pc \in {"assign", "sweep"} => queue[p].status # "none"

\* ... nobody else knows of it while it is being created ...
Stage(pc) == CASE pc = "created" -> "CREATED" [] pc = "validated" -> "VALIDATED" [] OTHER -> "HOLD"

Creates(w) ==
  LET c == call[w]
      p == c.order
  IN  c.pc \in Creating => /\ row[p].status = Stage(c.pc)
                           /\ c.pc = "held" => row[p].held
                           /\ w \in Request
                           /\ approval[p] = "none" /\ queue[p].status = "none"
                           /\ \A v \in Worker : On(v, p) /\ call[v].pc # "insert" => v = w

\* ... what a checker decides was put before him ...
Rules(w) ==
  LET c == call[w]
      p == c.order
  IN  /\ c.pc \in {"decide", "decided"} => approval[p] # "none" /\ c.to \in {"QUEUED", "REJECTED"}
      /\ c.pc = "write" /\ row[p].provider =>
           /\ approval[p] # "none"
           /\ \/ c.to = "QUEUED" /\ c.then = "release"
              \/ c.to = "REJECTED" /\ c.then = "tell"

\* ... a move of the queue never takes it back to its creation, and goes on to what follows it ...
Then == {"over", "release", "tell"} \cup DOMAIN QueueAfter

Moves(w) ==
  LET c == call[w]
  IN  c.pc \in {"read", "write"} => /\ c.to \notin {"NONE", "CREATED", "VALIDATED"}
                                    /\ c.then \in Then
                                    /\ c.then \in DOMAIN QueueAfter => ~row[c.order].provider

\* ... it was approved, if it has to be, before it is released ...
Releasing(c) == \/ c.pc = "release"
                \/ c.pc = "decided" /\ c.to = "QUEUED"
                \/ c.pc \in {"read", "write"} /\ c.then = "release"
Releases(w) ==
  LET p == call[w].order
  IN  Releasing(call[w]) /\ row[p].held => decided[p].yes > 0

\* ... and the gateway's answer was true when it was given.
Looks(w) ==
  LET c == call[w]
      p == c.order
  IN  /\ c.pc = "apply" => /\ bank[p] \notin {"none", "pending"} /\ c.answer # "none"
                           /\ c.answer = "success" => bank[p] \in {"success", "reversed"}
      /\ c.pc \in {"lookup", "apply"} => c.seen \in {"SUBMITTED", "COMPLETED", "FAILED"}
      /\ c.pc \in {"claim", "enqueue", "restore"} => c.word # "none"

Knows(w) == Placed(w) /\ Creates(w) /\ Rules(w) /\ Moves(w) /\ Releases(w) /\ Looks(w)

\* What is true of a payout whoever handles it.
Ordered(p) ==
  /\ row[p].status = "NONE" => transfers[p] = 0 /\ queue[p].status = "none" /\ approval[p] = "none" /\ \A d \in Word : told[p][d] = 0
  /\ ~row[p].provider => transfers[p] = 0
  /\ row[p].provider => queue[p].status = "none"
  /\ row[p].held /\ queue[p].status # "none" => decided[p].yes > 0
  /\ approval[p] = "none" => decided[p].yes = 0 /\ decided[p].no = 0
  /\ approval[p] # "none" => row[p].held /\ row[p].status \notin {"NONE", "CREATED", "VALIDATED"}
  /\ bank[p] # "none" => transfers[p] > 0

Accounted(p) ==
  row[p].provider =>
    /\ IsFiniteSet(Permitted(p))
    /\ transfers[p] + Cardinality(Permitted(p)) + One(row[p].status = "QUEUED") <= Permissions(p)

\* How many final statuses the payout has had.
Closings(p) == IF row[p].status \in {"COMPLETED", "FAILED", "REJECTED", "CANCELLED"} THEN 1
               ELSE IF row[p].status = "REVERSED" THEN 2 ELSE 0
Callbacks(p) == told[p]["SUCCESS"] + told[p]["FAILED"] + told[p]["REJECTED"] + told[p]["REVERSED"]

Fits(d, s) == CASE d = "SUCCESS" -> s \in {"COMPLETED", "REVERSED"}
                [] d = "FAILED" -> s = "FAILED"
                [] d = "REJECTED" -> s \in {"REJECTED", "CANCELLED"}
                [] d = "REVERSED" -> s = "REVERSED"

\* Every ruling on a held payout is a decision of its own.
Ruled(p) ==
  /\ IsFiniteSet(Among(p, Ruling))
  /\ Cardinality(Among(p, Ruling)) + One(row[p].held /\ row[p].status \notin Before) <= decided[p].yes + decided[p].no
  /\ row[p].held /\ row[p].status \notin Before => approval[p] # "none"

\* Every callback, and every request about to send one, is a final status of its own.
Counted(p) ==
  /\ IsFiniteSet(Among(p, Telling))
  /\ Callbacks(p) + Cardinality(Among(p, Telling)) <= Closings(p)

\* The status agrees with what was asked of the gateway and with what the gateway did.
Honest(p) ==
  /\ row[p].status \in Before \cup {"QUEUED", "REJECTED", "CANCELLED"} =>
       transfers[p] = 0 /\ \A w \in Worker : On(w, p) => call[w].pc # "transfer"
  /\ row[p].status \in {"COMPLETED", "FAILED", "REVERSED"} => transfers[p] > 0
  /\ row[p].status = "COMPLETED" => bank[p] \in {"success", "reversed"}
  /\ row[p].status = "FAILED" => bank[p] # "pending"
  /\ \A w \in Worker : On(w, p) /\ call[w].pc = "refuse" => bank[p] = "none" /\ transfers[p] > 0

\* What was told, and is about to be told, is true; and no word is told twice.
Holding == {"claim", "enqueue", "restore"}
Holds(w, p, d) == On(w, p) /\ call[w].pc \in Holding /\ call[w].word = d
Sends(w, p, d) == On(w, p) /\ call[w].pc = "enqueue" /\ call[w].word = d

Heard(p) ==
  /\ \A d \in Word : told[p][d] > 0 => Fits(d, row[p].status)
  /\ \A w \in Worker, d \in Word : Holds(w, p, d) => Fits(d, row[p].status)
  /\ \A w \in Worker : Holds(w, p, "SUCCESS") => /\ told[p]["SUCCESS"] = 0
                                               /\ \A v \in Worker : Holds(v, p, "SUCCESS") => v = w
  /\ told[p]["SUCCESS"] <= 1 /\ told[p]["REVERSED"] <= 1
  /\ \A w \in Worker : Sends(w, p, "REVERSED") => /\ told[p]["REVERSED"] = 0
                                               /\ \A v \in Worker : Sends(v, p, "REVERSED") => v = w
  /\ (\E w \in Worker : On(w, p) /\ call[w].pc \in {"tell", "claim"}) /\
     (told[p]["REVERSED"] > 0 \/ \E w \in Worker : Sends(w, p, "REVERSED")) => row[p].callback = "REVERSED"

Fine(p) == Ruled(p) /\ Counted(p) /\ Honest(p) /\ Heard(p)

PayoutInv ==
  /\ PayoutTypeOK
  /\ \A w \in Worker : Knows(w)
  /\ \A p \in Payout : Ordered(p) /\ Accounted(p) /\ (row[p].provider /\ UndisputedPayout(p) => Fine(p))

-----------------------------------------------------------------------------
(***************************************************************************)
(* Types.                                                                  *)
(***************************************************************************)
LEMMA AtIs ==
  ASSUME NEW pc \in PC \ {"over"}, NEW p
  PROVE  /\ At(pc, p) = [pc |-> pc, order |-> p, to |-> "NONE", then |-> "over", seen |-> "NONE",
                         hint |-> FALSE, answer |-> "none", word |-> "none", prior |-> "none", count |-> 0]
         /\ p \in Payout => At(pc, p) \in Call
<1> DEFINE c == [pc |-> pc, order |-> p, to |-> "NONE", then |-> "over", seen |-> "NONE",
                 hint |-> FALSE, answer |-> "none", word |-> "none", prior |-> "none", count |-> 0]
<1>1. At(pc, p) = c
  BY DEF At, Idle
<1>2. 0 \in 0..MaxReassigns /\ "NONE" \in Status /\ "over" \in PC /\ pc \in PC
  BY PayoutAssumption DEF Status, NEXT, PC
<1>3. p \in Payout => c \in Call
  BY <1>2 DEF Call, Answer
<1> QED BY <1>1, <1>3

LEMMA IdleIs == /\ Idle \in Call /\ Idle.pc = "idle" /\ Idle.order = NoPayout /\ \A p : At("over", p) = Idle
                /\ Idle.to = "NONE"
BY PayoutAssumption DEF At, Idle, Call, PC, Status, NEXT, Answer

\* The statuses, and the fields of a row, a call and a queue item.
LEMMA Statuses == /\ Status = {"NONE", "CREATED", "VALIDATED", "QUEUED", "ASSIGNED", "ACCEPTED", "PROCESSING",
                               "PROOF_UPLOADED", "SUBMITTED", "COMPLETED", "HOLD", "REJECTED", "CANCELLED",
                               "FAILED", "REVERSED"}
                  /\ \A s \in Status : NEXT[s] \subseteq Status
BY DEF Status, NEXT

\* What transition() may go on to.
Writes(p, to, then) == [At("write", p) EXCEPT !.to = to, !.then = then]

LEMMA WritesIs ==
  ASSUME NEW p \in Payout, NEW to, NEW then
  PROVE  /\ Writes(p, to, then).pc = "write" /\ Writes(p, to, then).order = p
         /\ Writes(p, to, then).to = to /\ Writes(p, to, then).then = then
BY AtIs DEF Writes, PC

LEMMA AfterReadIs ==
  ASSUME PayoutTypeOK, NEW p \in Payout, NEW to \in Status, NEW then \in Then
  PROVE  /\ AfterRead(p, to, then) \in Call
         /\ \/ AfterRead(p, to, then) = Idle
            \/ /\ then # "over" /\ AfterRead(p, to, then) = At(then, p)
               /\ row[p].status = to \/ then \in Ignored
            \/ /\ AfterRead(p, to, then) = Writes(p, to, then)
               /\ row[p].status # to /\ to \in NEXT[row[p].status]
<1>1. then \in PC /\ (then # "over" => At(then, p) \in Call)
  BY AtIs DEF Then, PC, QueueAfter
<1>2. [At("write", p) EXCEPT !.to = to, !.then = then] \in Call
  <2>1. At("write", p) \in Call
    BY AtIs DEF PC
  <2> QED BY <2>1, <1>1 DEF Call
<1>3. row[p].status \in Status
  BY DEF PayoutTypeOK, Row
<1> QED BY <1>1, <1>2, <1>3, IdleIs DEF AfterRead, canTransition, Ignored, Writes

LEMMA TypesOf ==
  ASSUME PayoutTypeOK, NEW w \in Worker, Placed(w), call[w].pc # "idle"
  PROVE  /\ call[w] \in Call /\ call[w].order \in Payout
         /\ row[call[w].order] \in Row /\ row[call[w].order].status \in Status
         /\ \A pc \in PC : [call[w] EXCEPT !.pc = pc] \in Call
<1>1. call[w] \in Call /\ call[w].order \in Payout
  BY DEF PayoutTypeOK, Placed
<1>2. row[call[w].order] \in Row
  BY <1>1 DEF PayoutTypeOK
<1> QED BY <1>1, <1>2 DEF Row, Call

\* A request goes on, or ends.
LEMMA GotoTyped ==
  ASSUME PayoutTypeOK, NEW w \in Worker, Placed(w), call[w].pc # "idle", NEW pc \in PC, Goto(w, pc)
  PROVE  call' \in [Worker -> Call]
<1>1. At(pc, call[w].order) \in Call
  BY TypesOf, AtIs, IdleIs
<1> QED BY <1>1 DEF Goto, PayoutTypeOK

LEMMA PCs == /\ {"idle", "insert", "created", "validated", "held", "decide", "decided", "read", "write",
                 "release", "dispatch", "block", "send", "transfer", "refuse", "lookup", "apply",
                 "tell", "claim", "enqueue", "restore", "assign", "sweep", "accepted", "closed",
                 "journal", "dropped", "rejected", "over"} = PC
             /\ Then \subseteq PC
BY DEF PC, Then, QueueAfter

LEMMA Updated ==
  ASSUME NEW c \in Call
  PROVE  /\ \A pc \in PC : [c EXCEPT !.pc = pc] \in Call
         /\ \A s \in Status : /\ [c EXCEPT !.to = s] \in Call /\ [c EXCEPT !.seen = s] \in Call
                              /\ [c EXCEPT !.seen = s, !.hint = TRUE] \in Call
         /\ \A s \in Status, pc \in PC : [c EXCEPT !.to = s, !.then = pc] \in Call
         /\ \A n \in 0..MaxReassigns : [c EXCEPT !.count = n] \in Call
         /\ \A d, e \in Word \cup {"none"} : [c EXCEPT !.word = d, !.prior = e] \in Call
         /\ \A pc \in PC, a \in Answer : [c EXCEPT !.pc = pc, !.answer = a] \in Call
BY DEF Call

\* Where a request of p starts or goes on.
LEMMA Places ==
  ASSUME NEW p \in Payout
  PROVE  \A pc \in {"insert", "decide", "decided", "lookup", "assign", "sweep", "claim", "write", "read"} :
            At(pc, p) \in Call
BY AtIs DEF PC

LEMMA OnlyCall ==
  ASSUME PayoutTypeOK, call' \in [Worker -> Call], faults' \in 0..MaxFaults,
         UNCHANGED <<row, approval, queue, gateway, ledgers, decided>>
  PROVE  PayoutTypeOK'
BY DEF PayoutTypeOK, gateway, ledgers

QueueRow == [status : {"none", "QUEUED", "ASSIGNED", "ACCEPTED", "CANCELLED", "DONE"}, count : 0..MaxReassigns]

LEMMA OnlyOrder ==
  ASSUME PayoutTypeOK, call' \in [Worker -> Call], row' \in [Payout -> Row],
         approval' \in [Payout -> {"none", "PENDING", "APPROVED", "REJECTED"}],
         queue' \in [Payout -> QueueRow],
         UNCHANGED <<gateway, ledgers, decided, faults>>
  PROVE  PayoutTypeOK'
BY DEF PayoutTypeOK, gateway, ledgers, QueueRow

LEMMA Started ==
  ASSUME PayoutTypeOK, NEW w \in Worker, NEW c \in Call, Start(w, c),
         UNCHANGED <<row, approval, queue, gateway, ledgers, decided, faults>>
  PROVE  PayoutTypeOK'
<1>1. call' \in [Worker -> Call]
  BY DEF Start, PayoutTypeOK
<1> QED BY <1>1, OnlyCall DEF PayoutTypeOK

LEMMA StepsOn ==
  ASSUME NEW w \in Worker, ServerStep(w) \/ LookupUnknown(w)
  PROVE  call[w].pc # "idle"
BY DEF ServerStep, LookupUnknown, Step, CreateInsert, CreateValidated, CreateRoute,
       CreateApproval, Release, DecideWrite, Decided, TransitionRead, TransitionWrite, TellRead,
       TellClaim, TellEnqueue, TellRestore, DispatchRead, DispatchBlock, DispatchClaim, Transfer,
       DispatchRefused, Lookup, Apply, AssignWrite, SweepWrite, QueueFollows, PostJournal, QueueAfter

LEMMA ServerTypes ==
  ASSUME PayoutTypeOK, NEW w \in Worker, Placed(w) /\ Moves(w),
         ServerStep(w) \/ LookupUnknown(w) \/ Crash(w)
  PROVE  PayoutTypeOK'
<1> DEFINE c == call[w]
           p == call[w].order
           Approvals == {"none", "PENDING", "APPROVED", "REJECTED"}
<1>t. /\ row \in [Payout -> Row] /\ approval \in [Payout -> Approvals] /\ queue \in [Payout -> QueueRow]
      /\ call \in [Worker -> Call]
  BY DEF PayoutTypeOK, QueueRow
<1>1. CASE Crash(w)
  <2>1. call' \in [Worker -> Call]
    BY <1>1, <1>t, IdleIs DEF Crash, Over, Goto
  <2>2. faults' \in 0..MaxFaults
    BY <1>1, PayoutAssumption DEF Crash, PayoutTypeOK
  <2> QED BY <1>1, <2>1, <2>2, OnlyCall DEF Crash
<1> SUFFICES ASSUME ServerStep(w) \/ LookupUnknown(w) PROVE PayoutTypeOK'
  BY <1>1
<1>2. c.pc # "idle"
  BY StepsOn
<1>3. /\ c \in Call /\ p \in Payout /\ row[p] \in Row /\ row[p].status \in Status
      /\ \A pc \in PC : [c EXCEPT !.pc = pc] \in Call
  BY <1>2, TypesOf
<1>f. /\ c.pc \in PC /\ c.to \in Status /\ c.then \in PC /\ c.seen \in Status /\ c.answer \in Answer
      /\ c.word \in Word \cup {"none"} /\ c.prior \in Word \cup {"none"} /\ c.count \in 0..MaxReassigns
  BY <1>3 DEF Call
<1>4. \A pc \in PC : Goto(w, pc) => call' \in [Worker -> Call]
  BY <1>2, GotoTyped
<1>5. Over(w) => call' \in [Worker -> Call]
  BY <1>4, PCs DEF Over
<1>6. \A k \in Call : call' = [call EXCEPT ![w] = k] => call' \in [Worker -> Call]
  BY <1>t
<1>7. \A s \in Status : SetStatus(p, s) => row' \in [Payout -> Row]
  <2> SUFFICES ASSUME NEW s \in Status, SetStatus(p, s) PROVE row' \in [Payout -> Row]
    OBVIOUS
  <2>1. [row[p] EXCEPT !.status = s] \in Row
    BY <1>3 DEF Row
  <2> QED BY <2>1, <1>3, <1>t DEF SetStatus
<1>8. \A from, to \in Status, pc \in PC : MoveIf(w, from, to, pc) =>
          row' \in [Payout -> Row] /\ call' \in [Worker -> Call]
  BY <1>4, <1>5, <1>7, <1>t DEF MoveIf
<1> HIDE DEF c, p
<1>10. CASE CreateInsert(w)
  <2>1. \A gw, high \in BOOLEAN : [status |-> "CREATED", callback |-> "none", provider |-> gw, held |-> high] \in Row
    BY Statuses DEF Row
  <2>2. row' \in [Payout -> Row]
    BY <1>10, <1>t, <1>3, <2>1 DEF CreateInsert, p
  <2>3. call' \in [Worker -> Call]
    BY <1>10, <1>4, <1>5, PCs DEF CreateInsert
  <2> QED BY <1>10, <1>t, <2>2, <2>3, OnlyOrder DEF CreateInsert
<1>11. CASE CreateValidated(w)
  <2>1. row' \in [Payout -> Row] /\ call' \in [Worker -> Call]
    BY <1>11, <1>4, <1>7, PCs, Statuses DEF CreateValidated, p
  <2> QED BY <1>11, <1>t, <2>1, OnlyOrder DEF CreateValidated
<1>12. CASE CreateRoute(w)
  <2>1. row' \in [Payout -> Row] /\ call' \in [Worker -> Call]
    BY <1>12, <1>4, <1>7, PCs, Statuses DEF CreateRoute, p
  <2> QED BY <1>12, <1>t, <2>1, OnlyOrder DEF CreateRoute
<1>13. CASE CreateApproval(w)
  <2>1. approval' \in [Payout -> Approvals] /\ call' \in [Worker -> Call]
    BY <1>13, <1>t, <1>5 DEF CreateApproval
  <2> QED BY <1>13, <1>t, <2>1, OnlyOrder DEF CreateApproval
<1>14. CASE Release(w)
  <2>1. [queue[p] EXCEPT !.status = "QUEUED"] \in QueueRow
    BY <1>t, <1>3 DEF QueueRow
  <2>2. queue' \in [Payout -> QueueRow] /\ call' \in [Worker -> Call]
    BY <1>14, <1>t, <1>4, <1>5, <1>3, <2>1, PCs DEF Release, p
  <2> QED BY <1>14, <1>t, <2>2, OnlyOrder DEF Release
<1>15. CASE DecideWrite(w)
  <2>1. [At("decided", p) EXCEPT !.to = c.to] \in Call
    BY <1>3, <1>f, Places, Updated
  <2>2. call' \in [Worker -> Call]
    BY <1>15, <1>6, <2>1 DEF DecideWrite, c, p
  <2>3. approval' \in [Payout -> Approvals]
    BY <1>15, <1>t DEF DecideWrite
  <2>4. decided' \in [Payout -> [yes : Nat, no : Nat]]
    <3>1. decided \in [Payout -> [yes : Nat, no : Nat]]
      BY DEF PayoutTypeOK
    <3>2. \/ decided' = [decided EXCEPT ![p].yes = @ + 1]
          \/ decided' = [decided EXCEPT ![p].no = @ + 1]
      BY <1>15 DEF DecideWrite, p
    <3> QED BY <3>1, <3>2, <1>3
  <2> QED BY <1>15, <2>2, <2>3, <2>4 DEF DecideWrite, PayoutTypeOK, gateway, ledgers
<1>16. CASE Decided(w)
  <2>1. AfterRead(p, "QUEUED", "release") \in Call /\ AfterRead(p, "REJECTED", "tell") \in Call
    <3>1. "QUEUED" \in Status /\ "REJECTED" \in Status /\ "release" \in Then /\ "tell" \in Then
      BY Statuses DEF Then
    <3> QED BY <3>1, <1>3, AfterReadIs
  <2>2. call' \in [Worker -> Call]
    BY <1>16, <1>6, <2>1 DEF Decided, p
  <2> QED BY <1>16, <1>t, <2>2, OnlyOrder DEF Decided
<1>17. CASE TransitionRead(w)
  <2>1. c.then \in Then
    BY <1>17 DEF TransitionRead, Step, Moves, c
  <2>2. AfterRead(p, c.to, c.then) \in Call
    BY <1>3, <1>f, <2>1, AfterReadIs
  <2>3. call' \in [Worker -> Call]
    BY <1>17, <1>6, <2>2 DEF TransitionRead, c, p
  <2> QED BY <1>17, <1>t, <2>3, OnlyOrder DEF TransitionRead
<1>18. CASE TransitionWrite(w)
  <2>1. row' \in [Payout -> Row] /\ call' \in [Worker -> Call]
    BY <1>18, <1>f, <1>4, <1>7 DEF TransitionWrite, c, p
  <2> QED BY <1>18, <1>t, <2>1, OnlyOrder DEF TransitionWrite
<1>19. CASE TellRead(w)
  <2>1. publicPayoutStatus(row[p].status) \in Word \cup {"none"} /\ row[p].callback \in Word \cup {"none"}
    BY <1>3 DEF publicPayoutStatus, Word, Row
  <2>2. [At("claim", p) EXCEPT !.word = publicPayoutStatus(row[p].status), !.prior = row[p].callback] \in Call
    BY <1>3, <2>1, Places, Updated
  <2>3. call' \in [Worker -> Call]
    BY <1>19, <1>5, <1>6, <2>2 DEF TellRead, p
  <2> QED BY <1>19, <1>t, <2>3, OnlyOrder DEF TellRead
<1>20. CASE TellClaim(w)
  <2>1. [row[p] EXCEPT !.callback = c.word] \in Row
    BY <1>3, <1>f DEF Row
  <2>2. [c EXCEPT !.pc = "enqueue"] \in Call
    BY <1>3, PCs
  <2>3. row' \in [Payout -> Row] /\ call' \in [Worker -> Call]
    BY <1>20, <1>5, <1>t, <2>1, <2>2 DEF TellClaim, c, p
  <2> QED BY <1>20, <1>t, <2>3, OnlyOrder DEF TellClaim
<1>21. CASE TellEnqueue(w)
  <2>1. told' \in [Payout -> [Word -> 0..Repeated]]
    <3>1. told \in [Payout -> [Word -> 0..Repeated]]
      BY DEF PayoutTypeOK
    <3>2. \A n \in 0..Repeated : (IF n < Repeated THEN n + 1 ELSE n) \in 0..Repeated
      BY DEF Repeated
    <3> QED BY <1>21, <3>1, <3>2 DEF TellEnqueue
  <2>2. [c EXCEPT !.pc = "restore"] \in Call
    BY <1>3, PCs
  <2>3. call' \in [Worker -> Call]
    BY <1>21, <1>5, <1>t, <2>2 DEF TellEnqueue, c
  <2>4. faults' \in 0..MaxFaults
    BY <1>21, PayoutAssumption DEF TellEnqueue, PayoutTypeOK
  <2> QED BY <1>21, <2>1, <2>3, <2>4 DEF TellEnqueue, PayoutTypeOK, gateway
<1>22. CASE TellRestore(w)
  <2>1. [row[p] EXCEPT !.callback = c.prior] \in Row
    BY <1>3, <1>f DEF Row
  <2>2. row' \in [Payout -> Row] /\ call' \in [Worker -> Call]
    BY <1>22, <1>5, <1>t, <2>1 DEF TellRestore, c, p
  <2> QED BY <1>22, <1>t, <2>2, OnlyOrder DEF TellRestore
<1>23. CASE DispatchRead(w)
  <2>1. call' \in [Worker -> Call]
    BY <1>23, <1>4, <1>5, PCs DEF DispatchRead
  <2> QED BY <1>23, <1>t, <2>1, OnlyOrder DEF DispatchRead
<1>24. CASE DispatchBlock(w) \/ DispatchClaim(w) \/ DispatchRefused(w)
  <2>1. row' \in [Payout -> Row] /\ call' \in [Worker -> Call]
    BY <1>24, <1>8, PCs, Statuses DEF DispatchBlock, DispatchClaim, DispatchRefused
  <2> QED BY <1>24, <1>t, <2>1, OnlyOrder DEF DispatchBlock, DispatchClaim, DispatchRefused
<1>25. CASE Transfer(w)
  <2>1. [At("lookup", p) EXCEPT !.seen = "SUBMITTED"] \in Call
    BY <1>3, Places, Updated, Statuses
  <2>2. call' \in [Worker -> Call]
    BY <1>25, <1>4, <1>5, <1>6, <2>1, PCs DEF Transfer, NoAnswerMeans, p
  <2>3. bank' \in [Payout -> Answer \cup {"pending"}]
    <3>1. bank \in [Payout -> Answer \cup {"pending"}]
      BY DEF PayoutTypeOK
    <3> QED BY <1>25, <3>1 DEF Transfer, Answer
  <2>4. transfers' \in [Payout -> Nat]
    <3>1. transfers \in [Payout -> Nat]
      BY DEF PayoutTypeOK
    <3>2. transfers' = [transfers EXCEPT ![p] = transfers[p] + 1]
      BY <1>25 DEF Transfer, p
    <3> QED BY <3>1, <3>2, <1>3
  <2> QED BY <1>25, <2>2, <2>3, <2>4 DEF Transfer, PayoutTypeOK, ledgers
<1>26. CASE Lookup(w)
  <2>1. bank[p] \in Answer \cup {"pending"}
    BY <1>3 DEF PayoutTypeOK
  <2>2. bank[p] # "pending" => [c EXCEPT !.pc = "apply", !.answer = bank[p]] \in Call
    BY <1>3, <2>1, PCs, Updated
  <2>3. call' \in [Worker -> Call]
    BY <1>26, <1>5, <1>6, <1>t, <2>2 DEF Lookup, c, p
  <2>4. alerts' \in [Payout -> SUBSET {"NOT_FOUND", "AMOUNT_MISMATCH", "REVERSED", "SUCCESS_AFTER_FAILED"}]
    <3>1. alerts \in [Payout -> SUBSET {"NOT_FOUND", "AMOUNT_MISMATCH", "REVERSED", "SUCCESS_AFTER_FAILED"}]
      BY DEF PayoutTypeOK
    <3> QED BY <1>26, <3>1 DEF Lookup
  <2> QED BY <1>26, <2>3, <2>4 DEF Lookup, PayoutTypeOK, ledgers
<1>27. CASE LookupUnknown(w)
  <2>1. call' \in [Worker -> Call]
    BY <1>27, <1>5 DEF LookupUnknown
  <2>2. faults' \in 0..MaxFaults
    BY <1>27, PayoutAssumption DEF LookupUnknown, PayoutTypeOK
  <2> QED BY <1>27, <2>1, <2>2, OnlyCall DEF LookupUnknown
<1>28. CASE Apply(w)
  <2>1. Verdict(c).to \in Status
        /\ Verdict(c).alert \in {"none", "AMOUNT_MISMATCH", "REVERSED", "SUCCESS_AFTER_FAILED"}
    BY <1>f, Statuses DEF Verdict, PaidAfterFailed
  <2>2. row' \in [Payout -> Row] /\ call' \in [Worker -> Call]
    BY <1>28, <1>5, <1>8, <1>t, <1>f, <2>1, PCs DEF Apply, c
  <2>3. alerts' \in [Payout -> SUBSET {"NOT_FOUND", "AMOUNT_MISMATCH", "REVERSED", "SUCCESS_AFTER_FAILED"}]
    <3>1. alerts \in [Payout -> SUBSET {"NOT_FOUND", "AMOUNT_MISMATCH", "REVERSED", "SUCCESS_AFTER_FAILED"}]
      BY DEF PayoutTypeOK
    <3>2. alerts' = alerts \/ (Verdict(c).alert # "none" /\ Alert(p, Verdict(c).alert))
      BY <1>28 DEF Apply, c, p
    <3> QED BY <3>1, <3>2, <2>1 DEF Alert
  <2> QED BY <1>28, <2>2, <2>3 DEF Apply, PayoutTypeOK, ledgers
<1>29. CASE AssignWrite(w)
  <2>1. Moving(p, "ASSIGNED") \in Call
    BY <1>3, Places, Updated, Statuses DEF Moving
  <2>2. call' \in [Worker -> Call]
    BY <1>29, <1>6, <2>1 DEF AssignWrite, p
  <2>3. [queue[p] EXCEPT !.status = "ASSIGNED"] \in QueueRow
    BY <1>t, <1>3 DEF QueueRow
  <2>4. queue' \in [Payout -> QueueRow]
    BY <1>29, <1>t, <2>3 DEF AssignWrite, p
  <2> QED BY <1>29, <1>t, <2>2, <2>4, OnlyOrder DEF AssignWrite
<1>30. CASE SweepWrite(w)
  <2>1. Moving(p, "HOLD") \in Call /\ Moving(p, "QUEUED") \in Call
    BY <1>3, Places, Updated, Statuses DEF Moving
  <2>2. call' \in [Worker -> Call]
    BY <1>30, <1>6, <2>1 DEF SweepWrite, SweptOrder, p
  <2> DEFINE n == IF call[w].count < MaxReassigns THEN call[w].count + 1 ELSE MaxReassigns
  <2>3. n \in 0..MaxReassigns
    BY <1>f, PayoutAssumption DEF c
  <2>4. [status |-> "CANCELLED", count |-> n] \in QueueRow /\ [status |-> "QUEUED", count |-> n] \in QueueRow
    BY <2>3 DEF QueueRow
  <2>5. queue' = [queue EXCEPT ![p] = [status |-> "CANCELLED", count |-> n]]
        \/ queue' = [queue EXCEPT ![p] = [status |-> "QUEUED", count |-> n]]
    BY <1>30 DEF SweepWrite, p
  <2> HIDE DEF n
  <2>6. queue' \in [Payout -> QueueRow]
    BY <1>t, <1>3, <2>4, <2>5
  <2> QED BY <1>30, <1>t, <2>2, <2>6, OnlyOrder DEF SweepWrite
<1>31. CASE QueueFollows(w)
  <2>1. NextAfter[c.pc] \in PC /\ QueueAfter[c.pc] \in {"ACCEPTED", "CANCELLED", "DONE"}
    BY <1>31, PCs DEF QueueFollows, QueueAfter, NextAfter, c
  <2>2. call' \in [Worker -> Call]
    BY <1>31, <2>1, <1>4 DEF QueueFollows, c
  <2>3. [queue[p] EXCEPT !.status = QueueAfter[c.pc]] \in QueueRow
    BY <1>t, <1>3, <2>1 DEF QueueRow
  <2>4. queue' \in [Payout -> QueueRow]
    BY <1>31, <1>t, <2>3 DEF QueueFollows, c, p
  <2> QED BY <1>31, <1>t, <2>2, <2>4, OnlyOrder DEF QueueFollows
<1>32. CASE PostJournal(w)
  <2>1. call' \in [Worker -> Call]
    BY <1>32, <1>4, PCs DEF PostJournal
  <2>2. journal' \subseteq Payout /\ faults' \in 0..MaxFaults
    BY <1>32, <1>3, PayoutAssumption DEF PostJournal, PayoutTypeOK, p
  <2> QED BY <1>32, <2>1, <2>2 DEF PostJournal, PayoutTypeOK, gateway
<1> QED BY <1>10, <1>11, <1>12, <1>13, <1>14, <1>15, <1>16, <1>17, <1>18, <1>19, <1>20, <1>21, <1>22,
           <1>23, <1>24, <1>25, <1>26, <1>27, <1>28, <1>29, <1>30, <1>31, <1>32 DEF ServerStep

LEMMA TypeStep ==
  ASSUME PayoutTypeOK, \A w \in Worker : Placed(w) /\ Moves(w), [Next]_vars
  PROVE  PayoutTypeOK'
<1>0. CASE UNCHANGED vars
  BY <1>0 DEF PayoutTypeOK, vars
<1>1. ASSUME NEW w \in Request, CreateRead(w) PROVE PayoutTypeOK'
  BY <1>1, Places, Started DEF CreateRead, Worker
<1>2. ASSUME NEW w \in Request, DecideRead(w) PROVE PayoutTypeOK'
  <2>1. PICK p \in Payout, to \in {"QUEUED", "REJECTED"} : Start(w, [At("decide", p) EXCEPT !.to = to])
    BY <1>2 DEF DecideRead
  <2>2. [At("decide", p) EXCEPT !.to = to] \in Call
    BY Places, Updated, Statuses
  <2> QED BY <1>2, <2>1, <2>2, Started DEF DecideRead, Worker
<1>3. ASSUME NEW w \in Request, SyncHinted(w) PROVE PayoutTypeOK'
  <2>1. PICK p \in Payout : Start(w, [At("lookup", p) EXCEPT !.seen = row[p].status, !.hint = TRUE])
    BY <1>3 DEF SyncHinted
  <2>2. row[p].status \in Status
    BY DEF PayoutTypeOK, Row
  <2>3. [At("lookup", p) EXCEPT !.seen = row[p].status, !.hint = TRUE] \in Call
    BY <2>2, Places, Updated
  <2> QED BY <1>3, <2>1, <2>3, Started DEF SyncHinted, Worker
<1>4. ASSUME NEW w \in Request, AssignRead(w) PROVE PayoutTypeOK'
  BY <1>4, Places, Started DEF AssignRead, Worker
<1>5. ASSUME NEW w \in Request, OperatorActs(w) PROVE PayoutTypeOK'
  <2>1. PICK p \in Payout, action \in DOMAIN Wanted :
          Start(w, AfterRead(p, Wanted[action][1], Wanted[action][2]))
    BY <1>5 DEF OperatorActs
  <2>2. Wanted[action][1] \in Status /\ Wanted[action][2] \in Then
    BY Statuses DEF Wanted, Then, QueueAfter
  <2>3. AfterRead(p, Wanted[action][1], Wanted[action][2]) \in Call
    BY <2>2, AfterReadIs
  <2> QED BY <1>5, <2>1, <2>3, Started DEF OperatorActs, Worker
<1>6. ASSUME NEW p \in Payout, SyncSwept(p) PROVE PayoutTypeOK'
  <2>1. [At("lookup", p) EXCEPT !.seen = "SUBMITTED"] \in Call
    BY Places, Updated, Statuses
  <2> QED BY <1>6, <2>1, Started DEF SyncSwept, Worker
<1>7. ASSUME NEW p \in Payout, SweepRead(p) PROVE PayoutTypeOK'
  <2>1. queue[p].count \in 0..MaxReassigns
    BY DEF PayoutTypeOK
  <2>2. [At("sweep", p) EXCEPT !.count = queue[p].count] \in Call
    BY <2>1, Places, Updated
  <2> QED BY <1>7, <2>2, Started DEF SweepRead, Worker
<1>8. ASSUME NEW p \in Payout, GatewaySettles(p) \/ GatewayChangesItsMind(p) PROVE PayoutTypeOK'
  <2>1. bank' \in [Payout -> Answer \cup {"pending"}]
    BY <1>8 DEF GatewaySettles, GatewayChangesItsMind, PayoutTypeOK, Answer
  <2> QED BY <1>8, <2>1 DEF GatewaySettles, GatewayChangesItsMind, PayoutTypeOK, ledgers
<1>9. ASSUME NEW w \in Worker, ServerStep(w) \/ LookupUnknown(w) \/ Crash(w) PROVE PayoutTypeOK'
  BY <1>9, ServerTypes
<1> QED BY <1>0, <1>1, <1>2, <1>3, <1>4, <1>5, <1>6, <1>7, <1>8, <1>9 DEF Next

-----------------------------------------------------------------------------
(***************************************************************************)
(* Counting.                                                               *)
(***************************************************************************)
LEMMA Count ==
  ASSUME NEW S, IsFiniteSet(S), NEW T, NEW w, T \ {w} = S \ {w}
  PROVE  /\ IsFiniteSet(T) /\ Cardinality(S) \in Nat /\ Cardinality(T) \in Nat
         /\ Cardinality(T) + One(w \in S) = Cardinality(S) + One(w \in T)
<1>1. /\ IsFiniteSet(S \ {w}) /\ w \notin S \ {w}
      /\ Cardinality(S \ {w}) = IF w \in S THEN Cardinality(S) - 1 ELSE Cardinality(S)
  BY FS_RemoveElement
<1>2. /\ IsFiniteSet((S \ {w}) \cup {w})
      /\ Cardinality((S \ {w}) \cup {w}) = Cardinality(S \ {w}) + 1
  BY <1>1, FS_AddElement
<1>3. T = S \ {w} \/ T = (S \ {w}) \cup {w}
  OBVIOUS
<1>4. IsFiniteSet(T)
  BY <1>1, <1>2, <1>3
<1>5. Cardinality(S) \in Nat /\ Cardinality(T) \in Nat /\ Cardinality(S \ {w}) \in Nat
  BY <1>1, <1>4, FS_CardinalityType
<1>6. CASE w \in T
  BY <1>1, <1>2, <1>4, <1>5, <1>6, T = (S \ {w}) \cup {w} DEF One
<1>7. CASE w \notin T
  BY <1>1, <1>2, <1>4, <1>5, <1>7, T = S \ {w} DEF One
<1> QED BY <1>6, <1>7

LEMMA Several ==
  ASSUME NEW S, IsFiniteSet(S)
  PROVE  /\ Cardinality(S) \in Nat
         /\ Cardinality(S) = 0 => \A w : w \notin S
         /\ \A v, w : v \in S /\ w \in S /\ v # w => Cardinality(S) >= 2
         /\ \A u, v, w : u \in S /\ v \in S /\ w \in S /\ u # v /\ v # w /\ u # w => Cardinality(S) >= 3
<1>1. Cardinality(S) \in Nat /\ (Cardinality(S) = 0 => \A w : w \notin S)
  BY FS_CardinalityType, FS_EmptySet
<1>2. ASSUME NEW v, NEW w, v \in S, w \in S, v # w PROVE Cardinality(S) >= 2
  <2>1. IsFiniteSet(S \ {v}) /\ Cardinality(S \ {v}) = Cardinality(S) - 1
    BY <1>2, FS_RemoveElement
  <2>2. Cardinality(S \ {v}) \in Nat /\ Cardinality(S \ {v}) # 0
    BY <2>1, <1>2, FS_CardinalityType, FS_EmptySet
  <2> QED BY <2>1, <2>2, <1>1
<1>3. ASSUME NEW u, NEW v, NEW w, u \in S, v \in S, w \in S, u # v, v # w, u # w PROVE Cardinality(S) >= 3
  <2>1. IsFiniteSet(S \ {v}) /\ Cardinality(S \ {v}) = Cardinality(S) - 1
    BY <1>3, FS_RemoveElement
  <2>2. IsFiniteSet((S \ {v}) \ {u}) /\ Cardinality((S \ {v}) \ {u}) = Cardinality(S \ {v}) - 1
    BY <2>1, <1>3, FS_RemoveElement
  <2>3. Cardinality((S \ {v}) \ {u}) \in Nat /\ Cardinality((S \ {v}) \ {u}) # 0
    <3>1. w \in (S \ {v}) \ {u}
      BY <1>3
    <3> QED BY <3>1, <2>2, FS_CardinalityType, FS_EmptySet
  <2>4. Cardinality(S \ {v}) \in Nat
    BY <2>1, FS_CardinalityType
  <2> QED BY <2>1, <2>2, <2>3, <2>4, <1>1
<1> QED BY <1>1, <1>2, <1>3

(***************************************************************************)
(* A step is about one payout p and moves at most one request w, from and  *)
(* to p: whatever is known of the other payouts stays true.                *)
(***************************************************************************)
SameSlice(q) == /\ row'[q] = row[q] /\ approval'[q] = approval[q] /\ queue'[q] = queue[q]
                /\ bank'[q] = bank[q] /\ transfers'[q] = transfers[q]
                /\ told'[q] = told[q] /\ decided'[q] = decided[q]

Moved(w, p) == /\ \A v \in Worker : v # w => call'[v] = call[v]
               /\ \/ call'[w] = call[w]
                  \/ call[w].order \in {p, NoPayout} /\ call'[w].order \in {p, NoPayout}

Local(w, p) == Moved(w, p) /\ \A q \in Payout : q # p => SameSlice(q)

LEMMA FarCalls ==
  ASSUME NEW w \in Worker, NEW p \in Payout, Local(w, p), NEW q \in Payout, q # p
  PROVE  \A v \in Worker : /\ On(v, q)' <=> On(v, q)
                           /\ On(v, q) => call'[v] = call[v]
BY PayoutAssumption DEF Local, Moved, On

LEMMA FarSets ==
  ASSUME NEW w \in Worker, NEW p \in Payout, Local(w, p), NEW q \in Payout, q # p
  PROVE  /\ \A S : Among(q, S)' = Among(q, S)
         /\ Permitted(q)' = Permitted(q)
<1>1. row'[q] = row[q]
  BY DEF Local, SameSlice
<1>2. \A v \in Worker : (On(v, q)' <=> On(v, q)) /\ (On(v, q) => call'[v] = call[v])
  BY FarCalls
<1>3. ASSUME NEW S PROVE Among(q, S)' = Among(q, S)
  BY <1>2 DEF Among
<1>4. Permitted(q)' = Permitted(q)
  BY <1>1, <1>2 DEF Permitted, Permits
<1> QED BY <1>3, <1>4

\* What is kept of a payout that somebody handles.
Kept(p) ==
  /\ row[p].status # "NONE" => /\ row'[p].status # "NONE"
                               /\ row'[p].provider = row[p].provider /\ row'[p].held = row[p].held
  /\ approval[p] # "none" => approval'[p] # "none"
  /\ queue[p].status # "none" => queue'[p].status # "none"
  /\ decided[p].yes > 0 => decided'[p].yes > 0
  /\ bank[p] \notin {"none", "pending"} => bank'[p] \notin {"none", "pending"}
  /\ bank[p] \in {"success", "reversed"} => bank'[p] \in {"success", "reversed"}

\* Nobody else begins with a payout that is being created.
Alone(w, p) ==
  \A v \in Worker : v # w /\ On(v, p) /\ call[v].pc \in Creating =>
    /\ row'[p] = row[p] /\ approval'[p] = approval[p] /\ queue'[p] = queue[p]
    /\ call'[w].order = p => call'[w].pc = "insert"

LEMMA OthersKnow ==
  ASSUME PayoutTypeOK, \A u \in Worker : Knows(u), NEW w \in Worker, NEW p \in Payout,
         Local(w, p), Kept(p), Alone(w, p), NEW v \in Worker, v # w
  PROVE  Knows(v)'
<1>1. call'[v] = call[v]
  BY DEF Local, Moved
<1>2. Knows(v)
  OBVIOUS
<1> DEFINE q == call[v].order
<1>3. CASE call[v].pc = "idle"
  BY <1>1, <1>2, <1>3, IdleIs DEF Knows, Placed, Creates, Rules, Moves, Releases, Releasing, Looks, Creating
<1>4. CASE call[v].pc # "idle" /\ q # p
  <2>1. q \in Payout /\ SameSlice(q)
    BY <1>2, <1>4 DEF Knows, Placed, Local
  <2>2. \A r \in Payout : r # p => \A u \in Worker : (On(u, r)' <=> On(u, r)) /\ (On(u, r) => call'[u] = call[u])
    BY FarCalls
  <2>3. Placed(v)' /\ Rules(v)' /\ Moves(v)' /\ Releases(v)' /\ Looks(v)'
    BY <1>1, <1>2, <1>4, <2>1 DEF Knows, Placed, Rules, Moves, Releases, Releasing, Looks, SameSlice
  <2>4. Creates(v)'
    BY <1>1, <1>2, <1>4, <2>1, <2>2 DEF Knows, Creates, SameSlice
  <2> QED BY <2>3, <2>4 DEF Knows
<1>5. CASE call[v].pc # "idle" /\ q = p
  <2>1. Placed(v) /\ Creates(v) /\ Rules(v) /\ Moves(v) /\ Releases(v) /\ Looks(v) /\ On(v, p)
    BY <1>2, <1>5 DEF Knows, On
  <2>2. CASE call[v].pc = "insert"
    BY <1>1, <1>5, <2>1, <2>2 DEF Knows, Placed, Creates, Rules, Moves, Releases, Releasing, Looks, Creating, OnGateway, OnQueue
  <2>3. CASE call[v].pc # "insert"
    <3>1. /\ row[p].status # "NONE" /\ row'[p].status # "NONE"
          /\ row'[p].provider = row[p].provider /\ row'[p].held = row[p].held
      BY <1>5, <2>1, <2>3 DEF Placed, Kept
    <3>2. Placed(v)'
      BY <1>1, <1>5, <2>1, <3>1 DEF Placed, Kept
    <3>3. Rules(v)' /\ Moves(v)' /\ Releases(v)' /\ Looks(v)'
      BY <1>1, <1>5, <2>1, <3>1 DEF Rules, Moves, Releases, Releasing, Looks, Kept
    <3>4. Creates(v)'
      BY <1>1, <1>5, <2>1 DEF Creates, Alone, Local, Moved, On
    <3> QED BY <3>2, <3>3, <3>4 DEF Knows
  <2> QED BY <2>2, <2>3
<1> QED BY <1>3, <1>4, <1>5

-----------------------------------------------------------------------------
(***************************************************************************)
(* The account of permissions.                                             *)
(***************************************************************************)
Basic == /\ PayoutTypeOK
         /\ \A w \in Worker : Knows(w)
         /\ \A p \in Payout : Ordered(p) /\ Accounted(p)

\* What a step of w about p has to show.
Good(w, p) == Local(w, p) /\ Kept(p) /\ Alone(w, p) /\ Knows(w)' /\ Ordered(p)' /\ Accounted(p)'

LEMMA Assembled ==
  ASSUME Basic, PayoutTypeOK', NEW w \in Worker, NEW p \in Payout, Good(w, p)
  PROVE  Basic'
<1>1. \A v \in Worker : Knows(v)'
  BY OthersKnow DEF Basic, Good
<1>2. ASSUME NEW q \in Payout PROVE Ordered(q)' /\ Accounted(q)'
  <2>1. CASE q = p
    BY <2>1 DEF Good
  <2>2. CASE q # p
    <3>1. SameSlice(q) /\ Ordered(q) /\ Accounted(q) /\ Permitted(q)' = Permitted(q)
      BY <2>2, FarSets DEF Basic, Good, Local
    <3> QED BY <3>1 DEF SameSlice, Ordered, Accounted, Permissions
  <2> QED BY <2>1, <2>2
<1> QED BY <1>1, <1>2 DEF Basic

Weight(p) == One(row[p].status = "QUEUED") + transfers[p]

LEMMA Balanced ==
  ASSUME Basic, PayoutTypeOK', NEW w \in Worker, NEW p \in Payout, Local(w, p),
         row'[p].provider = row[p].provider, row'[p].held = row[p].held,
         Weight(p)' + One(On(w, p)' /\ Permits(call'[w], row'[p].held)) + Permissions(p)
           <= Weight(p) + One(On(w, p) /\ Permits(call[w], row[p].held)) + Permissions(p)'
  PROVE  Accounted(p)'
<1> SUFFICES ASSUME row[p].provider
             PROVE  /\ IsFiniteSet(Permitted(p)')
                    /\ transfers'[p] + Cardinality(Permitted(p)') + One(row'[p].status = "QUEUED") <= Permissions(p)'
  BY DEF Accounted
<1>1. /\ IsFiniteSet(Permitted(p))
      /\ transfers[p] + Cardinality(Permitted(p)) + One(row[p].status = "QUEUED") <= Permissions(p)
  BY DEF Basic, Accounted
<1>2. Permitted(p)' \ {w} = Permitted(p) \ {w}
  BY DEF Permitted, On, Local, Moved
<1>3. /\ w \in Permitted(p) <=> On(w, p) /\ Permits(call[w], row[p].held)
      /\ w \in Permitted(p)' <=> On(w, p)' /\ Permits(call'[w], row'[p].held)
  BY DEF Permitted
<1>4. /\ IsFiniteSet(Permitted(p)') /\ Cardinality(Permitted(p)) \in Nat /\ Cardinality(Permitted(p)') \in Nat
      /\ Cardinality(Permitted(p)') + One(w \in Permitted(p)) = Cardinality(Permitted(p)) + One(w \in Permitted(p)')
  BY <1>1, <1>2, Count
<1>5. Permissions(p) \in Nat /\ Permissions(p)' \in Nat /\ transfers[p] \in Nat /\ transfers'[p] \in Nat
  BY DEF Basic, PayoutTypeOK, Permissions
<1>6. /\ One(w \in Permitted(p)) = One(On(w, p) /\ Permits(call[w], row[p].held))
      /\ One(w \in Permitted(p)') = One(On(w, p)' /\ Permits(call'[w], row'[p].held))
  BY <1>3 DEF One
<1>7. \A b \in BOOLEAN : One(b) \in {0, 1}
  BY DEF One
<1> QED BY <1>1, <1>4, <1>5, <1>6, <1>7 DEF Weight, One

\* A request moves, and nothing else that matters here.
Slices == <<row, approval, queue, bank, transfers, told, decided>>

LEMMA CalmGood ==
  ASSUME Basic, PayoutTypeOK', NEW w \in Worker, NEW p \in Payout, UNCHANGED Slices, Moved(w, p),
         Alone(w, p), Knows(w)',
         On(w, p)' /\ Permits(call'[w], row[p].held) => On(w, p) /\ Permits(call[w], row[p].held)
  PROVE  Good(w, p)
<1>1. Local(w, p) /\ Kept(p)
  BY DEF Slices, Local, SameSlice, Kept
<1>2. Ordered(p)'
  BY DEF Basic, Slices, Ordered
<1>3. Accounted(p)'
  <2>1. Permissions(p)' = Permissions(p) /\ Weight(p)' = Weight(p) /\ row'[p] = row[p]
    BY DEF Slices, Permissions, Weight
  <2>2. Permissions(p) \in Nat /\ Weight(p) \in Nat
    BY DEF Basic, PayoutTypeOK, Permissions, Weight, One
  <2> QED BY <1>1, <2>1, <2>2, Balanced DEF One
<1> QED BY <1>1, <1>2, <1>3 DEF Good

LEMMA AtWork ==
  ASSUME Basic, NEW w \in Worker, NEW p \in Payout, On(w, p), call[w].pc # "insert"
  PROVE  Alone(w, p)
BY DEF Basic, Knows, Creates, Alone, On

LEMMA MovedTo ==
  ASSUME PayoutTypeOK, NEW w \in Worker, NEW p, call[w].order \in {p, NoPayout},
         NEW k, k.order \in {p, NoPayout}, call' = [call EXCEPT ![w] = k]
  PROVE  Moved(w, p) /\ call'[w] = k
BY DEF PayoutTypeOK, Moved

LEMMA IdleKnows ==
  ASSUME NEW w \in Worker, call'[w] = Idle
  PROVE  Knows(w)' /\ \A p \in Payout : ~On(w, p)'
BY IdleIs, PayoutAssumption DEF Knows, Placed, Creates, Rules, Moves, Releases, Releasing, Looks, Creating, On

LEMMA AtKnows ==
  ASSUME NEW w \in Worker, NEW p \in Payout,
         NEW pc \in {"release", "dispatch", "block", "send", "transfer", "refuse", "tell", "assign", "sweep",
                     "accepted", "closed", "journal", "dropped", "rejected"},
         call'[w] = At(pc, p),
         row'[p].status # "NONE",
         pc \in OnGateway => row'[p].provider,
         pc \in OnQueue => ~row'[p].provider,
         pc \in {"assign", "sweep"} => queue'[p].status # "none",
         pc = "release" /\ row'[p].held => decided'[p].yes > 0
  PROVE  /\ Knows(w)' /\ On(w, p)'
         /\ pc # "transfer" => ~Permits(call'[w], row[p].held)
<1>1. call'[w].pc = pc /\ call'[w].order = p
  BY AtIs DEF PC
<1>2. Placed(w)' /\ Creates(w)' /\ Rules(w)'
  BY <1>1 DEF Placed, Creates, Rules, Creating
<1>3. Moves(w)' /\ Releases(w)' /\ Looks(w)'
  BY <1>1 DEF Moves, Releases, Releasing, Looks
<1> QED BY <1>1, <1>2, <1>3 DEF Knows, On, Permits, Ruling

\* Requests and cron jobs that begin.
LEMMA StartGood ==
  ASSUME Basic, PayoutTypeOK', NEW w \in Worker, NEW p \in Payout, NEW c,
         c.order = p, Start(w, c), UNCHANGED Slices,
         Alone(w, p), ~Permits(c, row[p].held), call'[w] = c => Knows(w)'
  PROVE  Good(w, p)
<1>1. Moved(w, p) /\ call'[w] = c
  <2>1. PayoutTypeOK /\ call[w].order \in {p, NoPayout} /\ c.order \in {p, NoPayout}
    BY IdleIs DEF Start, Basic
  <2>2. call' = [call EXCEPT ![w] = c] /\ call \in [Worker -> Call]
    BY <2>1 DEF Start, PayoutTypeOK
  <2> QED BY <2>1, <2>2 DEF Moved
<1> QED BY <1>1, CalmGood

LEMMA BeginGood ==
  ASSUME Basic, PayoutTypeOK', NEW w \in Worker
  PROVE  /\ CreateRead(w) /\ w \in Request => \E p \in Payout : Good(w, p)
         /\ DecideRead(w) => \E p \in Payout : Good(w, p)
         /\ SyncHinted(w) => \E p \in Payout : Good(w, p)
         /\ AssignRead(w) => \E p \in Payout : Good(w, p)
<1>1. ASSUME CreateRead(w), w \in Request PROVE \E p \in Payout : Good(w, p)
  <2>1. PICK p \in Payout : row[p].status = "NONE" /\ Start(w, At("insert", p))
    BY <1>1 DEF CreateRead
  <2>2. At("insert", p).order = p /\ At("insert", p).pc = "insert"
    BY AtIs DEF PC
  <2>3. Alone(w, p)
    BY <2>1, <2>2, <1>1 DEF Alone, Start, CreateRead, Basic, PayoutTypeOK
  <2>4. ~Permits(At("insert", p), row[p].held)
    BY <2>2 DEF Permits, Ruling
  <2>5. call'[w] = At("insert", p) => Knows(w)'
    BY <1>1, <2>2 DEF Knows, Placed, Creates, Rules, Moves, Releases, Releasing, Looks, Creating, OnGateway, OnQueue
  <2> QED BY <1>1, <2>1, <2>2, <2>3, <2>4, <2>5, StartGood DEF CreateRead, Slices, gateway, ledgers
<1>2. ASSUME DecideRead(w) PROVE \E p \in Payout : Good(w, p)
  <2>1. PICK p \in Payout, to \in {"QUEUED", "REJECTED"} :
           Undecided(p) /\ Start(w, [At("decide", p) EXCEPT !.to = to])
    BY <1>2 DEF DecideRead
  <2> DEFINE c == [At("decide", p) EXCEPT !.to = to]
  <2>2. c.order = p /\ c.pc = "decide" /\ c.to = to
    BY AtIs DEF PC
  <2>3. approval[p] # "none" /\ row[p].status # "NONE"
    BY <2>1 DEF Undecided, Basic, Ordered
  <2> HIDE DEF c
  <2>4. Alone(w, p)
    BY <2>3 DEF Alone, Basic, Knows, Creates, On
  <2>5. ~Permits(c, row[p].held)
    BY <2>2 DEF Permits, Ruling
  <2>6. ASSUME call'[w] = c, UNCHANGED Slices PROVE Knows(w)'
    BY <2>2, <2>3, <2>6 DEF Knows, Placed, Creates, Rules, Moves, Releases, Releasing, Looks, Creating, OnGateway, OnQueue, Slices
  <2>7. UNCHANGED Slices /\ Start(w, c)
    BY <1>2, <2>1 DEF DecideRead, Slices, gateway, ledgers, c
  <2> QED BY <2>2, <2>4, <2>5, <2>6, <2>7, StartGood
<1>3. ASSUME SyncHinted(w) PROVE \E p \in Payout : Good(w, p)
  <2>1. PICK p \in Payout : /\ row[p].provider /\ row[p].status \in {"SUBMITTED", "COMPLETED", "FAILED"}
                            /\ Start(w, [At("lookup", p) EXCEPT !.seen = row[p].status, !.hint = TRUE])
    BY <1>3 DEF SyncHinted
  <2> DEFINE c == [At("lookup", p) EXCEPT !.seen = row[p].status, !.hint = TRUE]
  <2>2. c.order = p /\ c.pc = "lookup" /\ c.seen = row[p].status
    BY AtIs DEF PC
  <2> HIDE DEF c
  <2>4. Alone(w, p)
    BY <2>1 DEF Alone, Basic, Knows, Creates, On, Creating, Stage
  <2>5. ~Permits(c, row[p].held)
    BY <2>2 DEF Permits, Ruling
  <2>6. ASSUME call'[w] = c, UNCHANGED Slices PROVE Knows(w)'
    BY <2>1, <2>2, <2>6 DEF Knows, Placed, Creates, Rules, Moves, Releases, Releasing, Looks, Creating, OnGateway, OnQueue, Slices
  <2>7. UNCHANGED Slices /\ Start(w, c)
    BY <1>3, <2>1 DEF SyncHinted, Slices, gateway, ledgers, c
  <2> QED BY <2>2, <2>4, <2>5, <2>6, <2>7, StartGood
<1>4. ASSUME AssignRead(w) PROVE \E p \in Payout : Good(w, p)
  <2>1. PICK p \in Payout : queue[p].status = "QUEUED" /\ Start(w, At("assign", p))
    BY <1>4 DEF AssignRead
  <2>2. At("assign", p).order = p /\ At("assign", p).pc = "assign"
    BY AtIs DEF PC
  <2>3. row[p].status # "NONE" /\ ~row[p].provider
    BY <2>1 DEF Basic, Ordered
  <2>4. Alone(w, p)
    BY <2>1 DEF Alone, Basic, Knows, Creates, On
  <2>5. ~Permits(At("assign", p), row[p].held)
    BY <2>2 DEF Permits, Ruling
  <2>6. ASSUME call'[w] = At("assign", p), UNCHANGED Slices PROVE Knows(w)'
    BY <2>1, <2>3, <2>6, AtKnows DEF OnGateway, Slices
  <2>7. UNCHANGED Slices
    BY <1>4 DEF AssignRead, Slices, gateway, ledgers
  <2> QED BY <2>1, <2>2, <2>4, <2>5, <2>6, <2>7, StartGood
<1> QED BY <1>1, <1>2, <1>3, <1>4

LEMMA CronGood ==
  ASSUME Basic, PayoutTypeOK', NEW p \in Payout
  PROVE  SyncSwept(p) \/ SweepRead(p) => Good(Cron, p)
<1>0. Cron \in Worker
  BY DEF Worker
<1>1. ASSUME SyncSwept(p) PROVE Good(Cron, p)
  <2> DEFINE c == [At("lookup", p) EXCEPT !.seen = "SUBMITTED"]
  <2>1. row[p].provider /\ row[p].status = "SUBMITTED" /\ Start(Cron, c) /\ UNCHANGED Slices
    BY <1>1 DEF SyncSwept, Slices, gateway, ledgers
  <2>2. c.order = p /\ c.pc = "lookup" /\ c.seen = "SUBMITTED"
    BY AtIs DEF PC
  <2> HIDE DEF c
  <2>4. Alone(Cron, p)
    BY <2>1 DEF Alone, Basic, Knows, Creates, On, Creating, Stage
  <2>5. ~Permits(c, row[p].held)
    BY <2>2 DEF Permits, Ruling
  <2>6. ASSUME call'[Cron] = c, UNCHANGED Slices PROVE Knows(Cron)'
    BY <2>1, <2>2, <2>6 DEF Knows, Placed, Creates, Rules, Moves, Releases, Releasing, Looks, Creating, OnGateway, OnQueue, Slices
  <2> QED BY <1>0, <2>1, <2>2, <2>4, <2>5, <2>6, StartGood
<1>2. ASSUME SweepRead(p) PROVE Good(Cron, p)
  <2> DEFINE c == [At("sweep", p) EXCEPT !.count = queue[p].count]
  <2>1. queue[p].status = "ASSIGNED" /\ Start(Cron, c) /\ UNCHANGED Slices
    BY <1>2 DEF SweepRead, Overdue, Slices, gateway, ledgers
  <2>2. c.order = p /\ c.pc = "sweep"
    BY AtIs DEF PC
  <2>3. row[p].status # "NONE" /\ ~row[p].provider
    BY <2>1 DEF Basic, Ordered
  <2> HIDE DEF c
  <2>4. Alone(Cron, p)
    BY <2>1 DEF Alone, Basic, Knows, Creates, On
  <2>5. ~Permits(c, row[p].held)
    BY <2>2 DEF Permits, Ruling
  <2>6. ASSUME call'[Cron] = c, UNCHANGED Slices PROVE Knows(Cron)'
    BY <2>1, <2>2, <2>3, <2>6 DEF Knows, Placed, Creates, Rules, Moves, Releases, Releasing, Looks, Creating, OnGateway, OnQueue, Slices
  <2> QED BY <1>0, <2>1, <2>2, <2>4, <2>5, <2>6, StartGood
<1> QED BY <1>1, <1>2

\* Where transition() goes from its read.
LEMMA ReadKnows ==
  ASSUME Basic, NEW w \in Worker, NEW p \in Payout, NEW to \in Status, NEW then \in Then,
         UNCHANGED Slices, call'[w] = AfterRead(p, to, then), row[p].status # "NONE",
         to \notin {"NONE", "CREATED", "VALIDATED"},
         then \in DOMAIN QueueAfter => ~row[p].provider,
         then = "release" /\ row[p].held => decided[p].yes > 0,
         row[p].provider => /\ approval[p] # "none"
                            /\ \/ to = "QUEUED" /\ then = "release"
                               \/ to = "REJECTED" /\ then = "tell"
  PROVE  /\ Knows(w)' /\ call'[w].order \in {p, NoPayout}
         /\ Permits(call'[w], row[p].held) => to = "QUEUED"
<1>1. CASE AfterRead(p, to, then) = Idle
  BY <1>1, IdleKnows, IdleIs DEF Permits, Ruling
<1>2. CASE AfterRead(p, to, then) = At(then, p) /\ then # "over"
  <2>1. then \in {"release", "tell", "accepted", "closed", "dropped", "rejected"}
    BY <1>2 DEF Then, QueueAfter
  <2>2. then \in OnQueue => ~row[p].provider
    BY <2>1 DEF QueueAfter, OnQueue
  <2> QED BY <1>2, <2>1, <2>2, AtKnows, AtIs, PCs DEF OnGateway, Slices, On
<1>3. CASE AfterRead(p, to, then) = Writes(p, to, then)
  <2>1. call'[w].pc = "write" /\ call'[w].order = p /\ call'[w].to = to /\ call'[w].then = then
    BY <1>3, WritesIs
  <2>2. Placed(w)' /\ Creates(w)' /\ Looks(w)'
    BY <2>1 DEF Placed, Creates, Looks, Creating, OnGateway, OnQueue, Slices
  <2>3. Rules(w)' /\ Moves(w)' /\ Releases(w)'
    BY <2>1 DEF Rules, Moves, Releases, Releasing, Slices
  <2> QED BY <2>1, <2>2, <2>3 DEF Knows, Permits, Ruling
<1>4. PayoutTypeOK
  BY DEF Basic
<1>5. \/ AfterRead(p, to, then) = Idle
      \/ AfterRead(p, to, then) = At(then, p) /\ then # "over"
      \/ AfterRead(p, to, then) = Writes(p, to, then)
  BY <1>4, AfterReadIs
<1> QED BY <1>1, <1>2, <1>3, <1>5

LEMMA OperatorGood ==
  ASSUME Basic, PayoutTypeOK', NEW w \in Worker, OperatorActs(w)
  PROVE  \E p \in Payout : Good(w, p)
<1>1. PICK p \in Payout, action \in DOMAIN Wanted :
         /\ row[p].status # "NONE" /\ ~row[p].provider /\ ~BeingCreated(p)
         /\ Start(w, AfterRead(p, Wanted[action][1], Wanted[action][2]))
  BY DEF OperatorActs, ByHand
<1> DEFINE to == Wanted[action][1]
           then == Wanted[action][2]
<1>2. /\ to \in {"ACCEPTED", "PROCESSING", "PROOF_UPLOADED", "COMPLETED", "REJECTED", "HOLD"}
      /\ then \in {"accepted", "over", "closed", "rejected", "dropped"}
  BY DEF Wanted
<1> HIDE DEF to, then
<1>3. to \in Status /\ then \in Then
  BY <1>2, Statuses DEF Then, QueueAfter
<1>4. PayoutTypeOK /\ UNCHANGED Slices /\ call[w] = Idle /\ call' = [call EXCEPT ![w] = AfterRead(p, to, then)]
  BY <1>1 DEF Basic, OperatorActs, Slices, gateway, ledgers, Start, to, then
<1>5. call'[w] = AfterRead(p, to, then) /\ \A v \in Worker : v # w => call'[v] = call[v]
  BY <1>4 DEF PayoutTypeOK
<1>6. /\ Knows(w)' /\ call'[w].order \in {p, NoPayout}
      /\ Permits(call'[w], row[p].held) => to = "QUEUED"
  BY <1>1, <1>2, <1>3, <1>4, <1>5, ReadKnows
<1>7. Moved(w, p)
  BY <1>4, <1>5, <1>6, IdleIs DEF Moved
<1>8. Alone(w, p)
  <2>1. \A v \in Request : On(v, p) => call[v].pc \notin Creating
    BY <1>1 DEF BeingCreated, On
  <2> QED BY <1>1, <2>1 DEF Alone, Basic, Knows, Creates
<1> QED BY <1>2, <1>4, <1>6, <1>7, <1>8, CalmGood

\* Requests on their way.
LEMMA Going ==
  ASSUME PayoutTypeOK, NEW w \in Worker, NEW p \in Payout, On(w, p), NEW pc \in PC, Goto(w, pc)
  PROVE  /\ Moved(w, p) /\ call'[w] = At(pc, p)
         /\ pc # "over" => On(w, p)' /\ call'[w].pc = pc
         /\ pc = "over" => call'[w] = Idle
<1>1. At(pc, p).order \in {p, NoPayout} /\ (pc # "over" => At(pc, p).pc = pc /\ At(pc, p).order = p)
  BY AtIs, IdleIs
<1>2. call' = [call EXCEPT ![w] = At(pc, p)] /\ call \in [Worker -> Call]
  BY DEF Goto, On, PayoutTypeOK
<1> QED BY <1>1, <1>2, IdleIs DEF Moved, On

LEMMA CalmAtWork ==
  ASSUME Basic, PayoutTypeOK', NEW w \in Worker, NEW p \in Payout, On(w, p), call[w].pc # "insert",
         UNCHANGED Slices, \A v \in Worker : v # w => call'[v] = call[v],
         call'[w].order = p, Knows(w)',
         Permits(call'[w], row[p].held) => Permits(call[w], row[p].held)
  PROVE  Good(w, p)
<1>1. Moved(w, p)
  BY DEF Moved, On
<1> QED BY <1>1, AtWork, CalmGood

\* A request ends, and nothing else that matters here.
LEMMA OverGood ==
  ASSUME Basic, PayoutTypeOK', NEW w \in Worker, NEW p \in Payout, On(w, p),
         UNCHANGED Slices, Over(w)
  PROVE  Good(w, p)
<1>1. call \in [Worker -> Call]
  BY DEF Basic, PayoutTypeOK
<1>2. call' = [call EXCEPT ![w] = Idle]
  BY IdleIs DEF Over, Goto
<1>3. call'[w] = Idle /\ Moved(w, p)
  BY <1>1, <1>2, IdleIs DEF Moved, On
<1>4. Alone(w, p)
  BY <1>3, IdleIs, PayoutAssumption DEF Alone, Slices
<1> QED BY <1>3, <1>4, IdleKnows, CalmGood

\* A request goes on to a simple point of its handler.
Simple == {"release", "dispatch", "block", "send", "transfer", "refuse", "tell", "assign", "sweep",
           "accepted", "closed", "journal", "dropped", "rejected"}

LEMMA GotoGood ==
  ASSUME Basic, PayoutTypeOK', NEW w \in Worker, NEW p \in Payout, On(w, p), call[w].pc # "insert",
         row[p].status # "NONE", UNCHANGED Slices, NEW pc \in Simple \ {"transfer"}, Goto(w, pc),
         pc \in OnGateway => row[p].provider,
         pc \in OnQueue => ~row[p].provider,
         pc \in {"assign", "sweep"} => queue[p].status # "none",
         pc = "release" /\ row[p].held => decided[p].yes > 0
  PROVE  Good(w, p)
<1>1. pc \in PC /\ pc # "over" /\ PayoutTypeOK
  BY DEF Simple, PC, Basic
<1>2. Moved(w, p) /\ call'[w] = At(pc, p)
  BY <1>1, Going
<1>3. UNCHANGED row /\ UNCHANGED decided /\ UNCHANGED queue
  BY DEF Slices
<1>4. Knows(w)' /\ On(w, p)' /\ ~Permits(call'[w], row[p].held)
  BY <1>2, <1>3, AtKnows DEF Simple
<1> QED BY <1>2, <1>4, AtWork, CalmGood

LEMMA StatusSet ==
  ASSUME PayoutTypeOK, NEW p \in Payout, NEW s, SetStatus(p, s)
  PROVE  /\ row'[p].status = s /\ row'[p].provider = row[p].provider /\ row'[p].held = row[p].held
         /\ row'[p].callback = row[p].callback
         /\ \A q \in Payout : q # p => row'[q] = row[q]
<1>1. row \in [Payout -> Row] /\ row[p] \in Row
  BY DEF PayoutTypeOK
<1>2. row' = [row EXCEPT ![p].status = s]
  BY DEF SetStatus
<1> QED BY <1>1, <1>2 DEF Row

Rest == <<approval, queue, bank, transfers, told, decided>>

LEMMA StatusGood ==
  ASSUME Basic, PayoutTypeOK', NEW w \in Worker, NEW p \in Payout, On(w, p), call[w].pc # "insert",
         row[p].status # "NONE", NEW s, SetStatus(p, s), s # "NONE",
         UNCHANGED Rest, Moved(w, p), Knows(w)',
         approval[p] # "none" => s \notin {"CREATED", "VALIDATED"},
         ~(s = "QUEUED" /\ On(w, p)' /\ Permits(call'[w], row[p].held)),
         s = "QUEUED" \/ (On(w, p)' /\ Permits(call'[w], row[p].held))
           => row[p].status = "QUEUED" \/ Permits(call[w], row[p].held)
  PROVE  Good(w, p)
<1>1. /\ row'[p].status = s /\ row'[p].provider = row[p].provider /\ row'[p].held = row[p].held
      /\ \A q \in Payout : q # p => row'[q] = row[q]
  BY StatusSet DEF Basic
<1>2. Local(w, p) /\ Kept(p)
  BY <1>1 DEF Local, SameSlice, Kept, Rest
<1>3. Ordered(p)'
  BY <1>1 DEF Basic, Ordered, Rest
<1>4. Accounted(p)'
  <2>1. Permissions(p)' = Permissions(p)
    BY <1>1 DEF Permissions, Rest
  <2>2. Permissions(p) \in Nat /\ transfers[p] \in Nat
    BY DEF Basic, PayoutTypeOK, Permissions
  <2>3. Weight(p)' + One(On(w, p)' /\ Permits(call'[w], row'[p].held))
          <= Weight(p) + One(On(w, p) /\ Permits(call[w], row[p].held))
    BY <1>1, <2>2 DEF Weight, One, Rest
  <2>4. /\ Weight(p) \in Nat /\ Weight(p)' \in Nat
        /\ \A b \in BOOLEAN : One(b) \in {0, 1}
    BY <2>2 DEF Weight, One, Rest
  <2>5. /\ One(On(w, p)' /\ Permits(call'[w], row'[p].held)) \in {0, 1}
        /\ One(On(w, p) /\ Permits(call[w], row[p].held)) \in {0, 1}
    BY DEF One
  <2> QED BY <1>1, <1>2, <2>1, <2>2, <2>3, <2>4, <2>5, Balanced
<1> QED BY <1>2, <1>3, <1>4, AtWork DEF Good

LEMMA MoveGood ==
  ASSUME Basic, PayoutTypeOK', NEW w \in Worker, NEW p \in Payout, On(w, p), call[w].pc # "insert",
         row[p].status # "NONE", row[p].provider,
         NEW from, NEW to \in {"SUBMITTED", "COMPLETED", "FAILED", "CANCELLED", "REVERSED"},
         NEW pc \in {"tell", "transfer"}, MoveIf(w, from, to, pc),
         pc = "transfer" => from = "QUEUED" /\ to = "SUBMITTED",
         UNCHANGED Rest
  PROVE  Good(w, p)
<1>1. CASE UNCHANGED row /\ Over(w)
  BY <1>1, OverGood DEF Slices, Rest
<1>2. CASE row[p].status = from /\ SetStatus(p, to) /\ Goto(w, pc)
  <2>1. PayoutTypeOK /\ pc \in PC /\ pc # "over"
    BY DEF Basic, PC
  <2>2. Moved(w, p) /\ call'[w] = At(pc, p) /\ On(w, p)' /\ call'[w].pc = pc
    BY <1>2, <2>1, Going
  <2>3. row'[p].status = to /\ row'[p].provider /\ row'[p].held = row[p].held
    BY <1>2, <2>1, StatusSet
  <2>4. Knows(w)' /\ (pc # "transfer" => ~Permits(call'[w], row[p].held))
    BY <2>2, <2>3, AtKnows DEF OnQueue
  <2>5. On(w, p)' /\ Permits(call'[w], row[p].held) => row[p].status = "QUEUED"
    BY <1>2, <2>4
  <2>6. /\ to # "NONE" /\ SetStatus(p, to)
        /\ approval[p] # "none" => to \notin {"CREATED", "VALIDATED"}
        /\ ~(to = "QUEUED" /\ On(w, p)' /\ Permits(call'[w], row[p].held))
        /\ to = "QUEUED" \/ (On(w, p)' /\ Permits(call'[w], row[p].held))
              => row[p].status = "QUEUED" \/ Permits(call[w], row[p].held)
    BY <1>2, <2>5
  <2>7. Moved(w, p) /\ Knows(w)'
    BY <2>2, <2>4

  <2> QED BY <2>6, <2>7, StatusGood
<1> QED BY <1>1, <1>2 DEF MoveIf, StillAt, On

LEMMA CreateGood ==
  ASSUME Basic, PayoutTypeOK', NEW w \in Worker, NEW p \in Payout, On(w, p), CreateInsert(w)
  PROVE  Good(w, p)
<1>t. PayoutTypeOK /\ Knows(w) /\ call[w].pc = "insert"
  BY DEF Basic, CreateInsert, Step
<1>1. CASE existingPayout(p)
  BY <1>1, OverGood DEF CreateInsert, Slices, gateway, ledgers, On
<1>2. CASE ~existingPayout(p)
  <2>1. PICK gw \in BOOLEAN, high \in BOOLEAN :
          row' = [row EXCEPT ![p] = [status |-> "CREATED", callback |-> "none", provider |-> gw, held |-> high]]
    BY <1>2 DEF CreateInsert, On
  <2>2. Goto(w, "created") /\ UNCHANGED <<approval, queue, bank, transfers, told, decided>>
    BY <1>2 DEF CreateInsert, On, gateway, ledgers
  <2>3. Moved(w, p) /\ call'[w] = At("created", p) /\ On(w, p)' /\ call'[w].pc = "created"
    <3>1. "created" \in PC /\ "created" # "over"
      BY DEF PC
    <3> QED BY <1>t, <2>2, <3>1, Going
  <2>4. /\ row'[p].status = "CREATED" /\ row'[p].held = high /\ row'[p].provider = gw
        /\ \A q \in Payout : q # p => row'[q] = row[q]
    BY <2>1, <1>t DEF PayoutTypeOK
  <2>5. row[p].status = "NONE" /\ Ordered(p)
    BY <1>2 DEF existingPayout, Basic
  <2>6. Local(w, p) /\ Kept(p)
    BY <2>2, <2>3, <2>4, <2>5 DEF Local, SameSlice, Kept
  \* Whoever else has to do with the payout is about to find it there.
  <2>7. \A v \in Worker : On(v, p) => call[v].pc = "insert"
    BY <2>5, IdleIs, PayoutAssumption DEF Basic, Knows, Placed, On
  <2>8. Alone(w, p)
    BY <2>7 DEF Alone, Creating
  <2>9. Knows(w)'
    <3>1. Placed(w)'
      BY <2>3, <2>4 DEF Placed, On, OnGateway, OnQueue
    <3>2. w \in Request
      BY <1>t, IdleIs DEF Knows, Placed
    <3>3. Creates(w)'
      BY <2>2, <2>3, <2>4, <2>5, <2>6, <2>7, <3>2 DEF Creates, Stage, Local, Moved, On, Ordered
    <3>4. Rules(w)' /\ Moves(w)' /\ Releases(w)' /\ Looks(w)'
      BY <2>3 DEF Rules, Moves, Releases, Releasing, Looks
    <3> QED BY <3>1, <3>3, <3>4 DEF Knows
  <2>10. Ordered(p)'
    BY <2>2, <2>4, <2>5 DEF Ordered
  <2>11. Accounted(p)'
    <3>1. \A v \in Worker : v # w => call'[v] = call[v]
      BY <2>3 DEF Moved
    <3>2. Permitted(p)' = IF high THEN {} ELSE {w}
      BY <2>3, <2>4, <2>7, <3>1 DEF Permitted, Permits, Ruling, On
    <3>3. IsFiniteSet(Permitted(p)') /\ Cardinality(Permitted(p)') = IF high THEN 0 ELSE 1
      <4>1. CASE high
        BY <4>1, <3>2, FS_EmptySet
      <4>2. CASE ~high
        BY <4>2, <3>2, FS_Singleton
      <4> QED BY <4>1, <4>2
    <3>4. transfers'[p] = 0 /\ Permissions(p)' = IF high THEN 0 ELSE 1
      BY <2>2, <2>4, <2>5 DEF Ordered, Permissions
    <3> QED BY <2>4, <3>3, <3>4 DEF Accounted, One
  <2> QED BY <2>6, <2>8, <2>9, <2>10, <2>11 DEF Good
<1> QED BY <1>1, <1>2

LEMMA QueueGood ==
  ASSUME Basic, PayoutTypeOK', NEW w \in Worker, NEW p \in Payout, On(w, p), call[w].pc # "insert",
         row[p].status # "NONE", ~row[p].provider, UNCHANGED <<row, approval, bank, transfers, told, decided>>,
         NEW item, item.status # "none", queue' = [queue EXCEPT ![p] = item],
         queue[p].status = "none" /\ row[p].held => decided[p].yes > 0, Moved(w, p), Knows(w)'
  PROVE  Good(w, p)
<1>1. queue \in [Payout -> QueueRow]
  BY DEF Basic, PayoutTypeOK, QueueRow
<1>2. queue'[p] = item /\ \A q \in Payout : q # p => queue'[q] = queue[q]
  BY <1>1
<1>3. Local(w, p) /\ Kept(p)
  BY <1>2 DEF Local, SameSlice, Kept
<1>4. Ordered(p)' /\ Accounted(p)'
  BY <1>2 DEF Basic, Ordered, Accounted
<1> QED BY <1>3, <1>4, AtWork DEF Good

LEMMA CallbackGood ==
  ASSUME Basic, PayoutTypeOK', NEW w \in Worker, NEW p \in Payout, On(w, p), call[w].pc # "insert",
         row[p].status # "NONE", NEW word, row' = [row EXCEPT ![p].callback = word],
         UNCHANGED Rest, Moved(w, p), Knows(w)', ~Permits(call'[w], row[p].held)
  PROVE  Good(w, p)
<1>1. row \in [Payout -> Row] /\ row[p] \in Row
  BY DEF Basic, PayoutTypeOK
<1>2. /\ row'[p].status = row[p].status /\ row'[p].provider = row[p].provider /\ row'[p].held = row[p].held
      /\ \A q \in Payout : q # p => row'[q] = row[q]
  BY <1>1 DEF Row
<1>3. Local(w, p) /\ Kept(p)
  BY <1>2 DEF Local, SameSlice, Kept, Rest
<1>4. Ordered(p)'
  BY <1>2 DEF Basic, Ordered, Rest
<1>5. Accounted(p)'
  <2>1. Permissions(p)' = Permissions(p) /\ Weight(p)' = Weight(p)
    BY <1>2 DEF Permissions, Weight, Rest
  <2>2. Permissions(p) \in Nat /\ Weight(p) \in Nat
    BY DEF Basic, PayoutTypeOK, Permissions, Weight, One
  <2> QED BY <1>2, <1>3, <2>1, <2>2, Balanced DEF One
<1> QED BY <1>3, <1>4, <1>5, AtWork DEF Good

LEMMA ApprovalGood ==
  ASSUME Basic, PayoutTypeOK', NEW w \in Worker, NEW p \in Payout, On(w, p), CreateApproval(w)
  PROVE  Good(w, p)
<1>1. PayoutTypeOK /\ call[w].pc = "held" /\ row[p].status = "HOLD" /\ row[p].held
  BY DEF Basic, CreateApproval, Step, Knows, Creates, On, Creating, Stage
<1>2. approval' = [approval EXCEPT ![p] = "PENDING"] /\ Over(w) /\ UNCHANGED <<row, queue, bank, transfers, told, decided>>
  BY DEF CreateApproval, On, gateway, ledgers
<1>3. approval'[p] = "PENDING" /\ \A q \in Payout : q # p => approval'[q] = approval[q]
  BY <1>1, <1>2 DEF PayoutTypeOK
<1>4. Moved(w, p) /\ call'[w] = Idle
  <2>1. "over" \in PC
    BY PCs
  <2> QED BY <1>1, <1>2, <2>1, Going DEF Over
<1>5. Knows(w)' /\ ~On(w, p)'
  BY <1>4, IdleKnows
<1>6. Local(w, p) /\ Kept(p)
  BY <1>2, <1>3, <1>4 DEF Local, SameSlice, Kept
<1>7. Ordered(p)'
  BY <1>1, <1>2, <1>3 DEF Basic, Ordered
<1>8. Accounted(p)'
  <2>1. Permissions(p)' = Permissions(p) /\ Weight(p)' = Weight(p)
    BY <1>2 DEF Permissions, Weight
  <2>2. Permissions(p) \in Nat /\ Weight(p) \in Nat
    BY DEF Basic, PayoutTypeOK, Permissions, Weight, One
  <2> QED BY <1>2, <1>5, <1>6, <2>1, <2>2, Balanced DEF One
<1> QED BY <1>1, <1>5, <1>6, <1>7, <1>8, AtWork DEF Good

LEMMA DecideGood ==
  ASSUME Basic, PayoutTypeOK', NEW w \in Worker, NEW p \in Payout, On(w, p), DecideWrite(w)
  PROVE  /\ Good(w, p)
         /\ call'[w].pc = "decided" /\ call'[w].to = call[w].to /\ On(w, p)'
         /\ decided'[p].yes + decided'[p].no = decided[p].yes + decided[p].no + 1
<1> DEFINE to == call[w].to
           c == [At("decided", p) EXCEPT !.to = to]
<1>1. PayoutTypeOK /\ call[w].pc = "decide" /\ approval[p] # "none" /\ row[p].status # "NONE" /\ row[p].held
      /\ to \in {"QUEUED", "REJECTED"}
  BY DEF Basic, DecideWrite, Step, Knows, Rules, Placed, On, Ordered
<1>2. /\ call' = [call EXCEPT ![w] = c]
      /\ approval' = [approval EXCEPT ![p] = IF to = "QUEUED" THEN "APPROVED" ELSE "REJECTED"]
      /\ UNCHANGED <<row, queue, bank, transfers, told>>
  BY DEF DecideWrite, On, gateway, ledgers
<1>3. decided' = IF to = "QUEUED" THEN [decided EXCEPT ![p].yes = @ + 1] ELSE [decided EXCEPT ![p].no = @ + 1]
  BY DEF DecideWrite, On
<1>4. c.pc = "decided" /\ c.order = p /\ c.to = to
  BY AtIs DEF PC
<1> HIDE DEF c, to
<1>5. Moved(w, p) /\ call'[w] = c
  BY <1>1, <1>2, <1>4 DEF Moved, On, PayoutTypeOK
<1>6. approval'[p] # "none" /\ \A q \in Payout : q # p => approval'[q] = approval[q]
  BY <1>1, <1>2 DEF PayoutTypeOK
<1>7. decided \in [Payout -> [yes : Nat, no : Nat]]
  BY <1>1 DEF PayoutTypeOK
<1>8. /\ decided'[p].yes = IF to = "QUEUED" THEN decided[p].yes + 1 ELSE decided[p].yes
      /\ decided'[p].no = IF to = "QUEUED" THEN decided[p].no ELSE decided[p].no + 1
      /\ \A q \in Payout : q # p => decided'[q] = decided[q]
      /\ decided[p].yes \in Nat /\ decided[p].no \in Nat
  <2>1. CASE to = "QUEUED"
    BY <1>3, <1>7, <2>1
  <2>2. CASE to # "QUEUED"
    BY <1>3, <1>7, <2>2
  <2> QED BY <2>1, <2>2
<1>9. Knows(w)'
  <2>1. Placed(w)' /\ Creates(w)' /\ Looks(w)' /\ Moves(w)'
    BY <1>1, <1>2, <1>4, <1>5 DEF Placed, Creates, Looks, Moves, Creating, OnGateway, OnQueue
  <2>2. Rules(w)' /\ Releases(w)'
    BY <1>1, <1>2, <1>4, <1>5, <1>6, <1>8 DEF Rules, Releases, Releasing
  <2> QED BY <2>1, <2>2 DEF Knows
<1>10. Local(w, p) /\ Kept(p)
  BY <1>2, <1>5, <1>6, <1>8 DEF Local, SameSlice, Kept
<1>11. Ordered(p)'
  BY <1>1, <1>2, <1>6, <1>8 DEF Basic, Ordered
<1>12. Accounted(p)'
  <2>1. Permissions(p)' = decided'[p].yes /\ Permissions(p) = decided[p].yes /\ Weight(p)' = Weight(p)
    BY <1>1, <1>2 DEF Permissions, Weight
  <2>2. Permissions(p) \in Nat /\ Weight(p) \in Nat
    BY <1>1 DEF PayoutTypeOK, Permissions, Weight, One
  <2>3. Permits(c, row[p].held) => to = "QUEUED"
    BY <1>4 DEF Permits, Ruling
  <2>4. ~Permits(call[w], row[p].held)
    BY <1>1 DEF Permits, Ruling
  <2>5. One(On(w, p)' /\ Permits(call'[w], row'[p].held)) \in {0, 1}
        /\ (to # "QUEUED" => One(On(w, p)' /\ Permits(call'[w], row'[p].held)) = 0)
        /\ One(On(w, p) /\ Permits(call[w], row[p].held)) = 0
    BY <1>2, <1>5, <2>3, <2>4 DEF One
  <2> QED BY <1>2, <1>8, <1>10, <2>1, <2>2, <2>5, Balanced
<1>13. Good(w, p)
  BY <1>1, <1>9, <1>10, <1>11, <1>12, AtWork DEF Good
<1>14. call'[w].pc = "decided" /\ call'[w].to = call[w].to /\ On(w, p)'
  BY <1>4, <1>5 DEF On, to
<1>15. decided'[p].yes + decided'[p].no = decided[p].yes + decided[p].no + 1
  BY <1>8
<1> QED BY <1>13, <1>14, <1>15

LEMMA TransferGood ==
  ASSUME Basic, PayoutTypeOK', NEW w \in Worker, NEW p \in Payout, On(w, p), Transfer(w)
  PROVE  /\ Good(w, p)
         /\ transfers'[p] = transfers[p] + 1 /\ UNCHANGED <<row, approval, queue, told, decided>>
         /\ call'[w] = Idle \/ (On(w, p)' /\ call'[w].pc \in {"lookup", "refuse"})
         /\ call'[w].pc = "refuse" => bank' = bank
<1>1. PayoutTypeOK /\ call[w].pc = "transfer" /\ row[p].provider /\ row[p].status # "NONE"
  BY DEF Basic, Transfer, Step, Knows, Placed, On, OnGateway
<1>2. transfers' = [transfers EXCEPT ![p] = transfers[p] + 1] /\ UNCHANGED <<row, approval, queue, told, decided>>
  BY DEF Transfer, On, ledgers
<1>3. transfers \in [Payout -> Nat] /\ bank \in [Payout -> Answer \cup {"pending"}]
  BY <1>1 DEF PayoutTypeOK
<1>4. transfers'[p] = transfers[p] + 1 /\ \A q \in Payout : q # p => transfers'[q] = transfers[q]
  BY <1>2, <1>3
<1> DEFINE c == [At("lookup", p) EXCEPT !.seen = "SUBMITTED"]
<1>5. bank' = bank \/ \E b \in {"pending", "success", "failed"} :
                        bank' = [bank EXCEPT ![p] = IF @ = "none" THEN b ELSE @]
  BY DEF Transfer, On
<1>6. Over(w) \/ call' = [call EXCEPT ![w] = c] \/ (Goto(w, "refuse") /\ bank' = bank)
  BY DEF Transfer, NoAnswerMeans, Over, On
<1>7. c.pc = "lookup" /\ c.order = p /\ c.seen = "SUBMITTED"
  BY AtIs DEF PC
<1> HIDE DEF c
<1>8. \/ call'[w] = Idle
      \/ call'[w] = c
      \/ call'[w] = At("refuse", p) /\ bank' = bank
  BY <1>1, <1>6, IdleIs DEF Over, Goto, PayoutTypeOK, On
<1>9. Moved(w, p)
  <2>1. "over" \in PC /\ "refuse" \in PC
    BY PCs
  <2>2. call' = [call EXCEPT ![w] = c] => Moved(w, p)
    BY <1>1, <1>7 DEF Moved, On, PayoutTypeOK
  <2> QED BY <1>1, <1>6, <2>1, <2>2, Going DEF Over
<1>10. /\ \A q \in Payout : q # p => bank'[q] = bank[q]
       /\ bank[p] # "none" => bank'[p] = bank[p]
  BY <1>3, <1>5
<1>11. Knows(w)' /\ (On(w, p)' => ~Permits(call'[w], row[p].held))
  <2>1. CASE call'[w] = Idle
    BY <2>1, IdleKnows
  <2>2. CASE call'[w] = c
    BY <1>1, <1>2, <1>7, <2>2 DEF Knows, Placed, Creates, Rules, Moves, Releases, Releasing, Looks, Creating, OnGateway, OnQueue, Permits, Ruling
  <2>3. CASE call'[w] = At("refuse", p)
    BY <1>1, <1>2, <2>3, AtKnows DEF OnGateway, OnQueue
  <2> QED BY <1>8, <2>1, <2>2, <2>3
<1>12. Local(w, p) /\ Kept(p)
  BY <1>2, <1>4, <1>9, <1>10 DEF Local, SameSlice, Kept
<1>13. Ordered(p)'
  BY <1>1, <1>2, <1>3, <1>4 DEF Basic, Ordered
<1>14. Accounted(p)'
  <2>1. Permissions(p)' = Permissions(p) /\ Weight(p)' = Weight(p) + 1
    BY <1>2, <1>3, <1>4 DEF Permissions, Weight, One
  <2>2. Permissions(p) \in Nat /\ Weight(p) \in Nat
    BY <1>1 DEF PayoutTypeOK, Permissions, Weight, One
  <2>3. Permits(call[w], row[p].held)
    BY <1>1 DEF Permits
  <2>4. /\ One(On(w, p)' /\ Permits(call'[w], row'[p].held)) = 0
        /\ One(On(w, p) /\ Permits(call[w], row[p].held)) = 1
    BY <1>2, <1>11, <2>3 DEF One
  <2> QED BY <1>2, <1>12, <2>1, <2>2, <2>4, Balanced
<1>15. Good(w, p)
  BY <1>1, <1>11, <1>12, <1>13, <1>14, AtWork DEF Good
<1>16. /\ call'[w] = Idle \/ (On(w, p)' /\ call'[w].pc \in {"lookup", "refuse"})
       /\ call'[w].pc = "refuse" => bank' = bank
  <2>1. At("refuse", p).pc = "refuse" /\ At("refuse", p).order = p
    BY AtIs DEF PC
  <2>2. CASE call'[w] = Idle
    <3>1. call'[w].pc # "refuse"
      BY <2>2, IdleIs
    <3> QED BY <2>2, <3>1
  <2>3. CASE call'[w] = c
    BY <1>7, <2>3 DEF On
  <2>4. CASE call'[w] = At("refuse", p) /\ bank' = bank
    BY <2>1, <2>4 DEF On
  <2> QED BY <1>8, <2>2, <2>3, <2>4
<1> QED BY <1>2, <1>4, <1>15, <1>16

LEMMA ReadGood ==
  ASSUME Basic, PayoutTypeOK', NEW w \in Worker, NEW p \in Payout, On(w, p), call[w].pc # "insert",
         NEW to \in Status, NEW then \in Then, call' = [call EXCEPT ![w] = AfterRead(p, to, then)],
         UNCHANGED Slices, row[p].status # "NONE", to \notin {"NONE", "CREATED", "VALIDATED"},
         then \in DOMAIN QueueAfter => ~row[p].provider,
         then = "release" /\ row[p].held => decided[p].yes > 0,
         row[p].provider => /\ approval[p] # "none"
                            /\ \/ to = "QUEUED" /\ then = "release"
                               \/ to = "REJECTED" /\ then = "tell"
                            /\ to = "QUEUED" => Permits(call[w], row[p].held)
  PROVE  Good(w, p)
<1>1. call \in [Worker -> Call]
  BY DEF Basic, PayoutTypeOK
<1>2. call'[w] = AfterRead(p, to, then) /\ \A v \in Worker : v # w => call'[v] = call[v]
  BY <1>1
<1>3. /\ Knows(w)' /\ call'[w].order \in {p, NoPayout}
      /\ Permits(call'[w], row[p].held) => to = "QUEUED"
  BY <1>2, ReadKnows
<1>4. Moved(w, p)
  BY <1>2, <1>3 DEF Moved, On
<1>5. CASE row[p].provider
  BY <1>3, <1>4, <1>5, AtWork, CalmGood
<1>6. CASE ~row[p].provider
  <2>1. Local(w, p) /\ Kept(p)
    BY <1>4 DEF Slices, Local, SameSlice, Kept
  <2>2. Ordered(p)' /\ Accounted(p)'
    BY <1>6 DEF Basic, Slices, Ordered, Accounted
  <2> QED BY <1>3, <2>1, <2>2, AtWork DEF Good
<1> QED BY <1>5, <1>6

LEMMA MovingGood ==
  ASSUME Basic, PayoutTypeOK', NEW w \in Worker, NEW p \in Payout, On(w, p), call[w].pc # "insert",
         row[p].status # "NONE", ~row[p].provider, UNCHANGED <<row, approval, bank, transfers, told, decided>>,
         NEW to, to \notin {"NONE", "CREATED", "VALIDATED"}, call' = [call EXCEPT ![w] = Moving(p, to)],
         NEW item, item.status # "none", queue' = [queue EXCEPT ![p] = item], queue[p].status # "none"
  PROVE  Good(w, p)
<1>1. Moving(p, to).pc = "read" /\ Moving(p, to).order = p /\ Moving(p, to).to = to /\ Moving(p, to).then = "over"
  BY AtIs DEF Moving, PC
<1>2. call'[w] = Moving(p, to) /\ \A v \in Worker : v # w => call'[v] = call[v]
  BY DEF Basic, PayoutTypeOK
<1>3. Moved(w, p)
  BY <1>1, <1>2 DEF Moved, On
<1>4. Placed(w)' /\ Creates(w)' /\ Rules(w)'
  BY <1>1, <1>2 DEF Placed, Creates, Rules, Creating, OnGateway
<1>5. Moves(w)' /\ Releases(w)' /\ Looks(w)'
  BY <1>1, <1>2 DEF Moves, Releases, Releasing, Looks, Then, QueueAfter
<1>6. Knows(w)'
  BY <1>4, <1>5 DEF Knows
<1> QED BY <1>3, <1>6, QueueGood

LEMMA ServerGood ==
  ASSUME Basic, PayoutTypeOK', NEW w \in Worker, NEW p \in Payout, On(w, p), call[w].pc # "idle",
         ServerStep(w) \/ LookupUnknown(w) \/ Crash(w)
  PROVE  Good(w, p)
<1>t. /\ PayoutTypeOK /\ call \in [Worker -> Call] /\ call[w].order = p
      /\ Placed(w) /\ Creates(w) /\ Rules(w) /\ Moves(w) /\ Releases(w) /\ Looks(w)
  BY DEF Basic, PayoutTypeOK, Knows, On
<1>s. call[w].pc # "insert" => row[p].status # "NONE"
  BY <1>t DEF Placed
<1>c. call[w] \in Call
  BY <1>t
<1>o. ~ServerStep(w) => Good(w, p)
  BY OverGood DEF LookupUnknown, Crash, Slices, gateway, ledgers
<1>10. CASE CreateInsert(w)
  BY <1>10, CreateGood
<1>11. CASE CreateValidated(w)
  <2>1. /\ call[w].pc = "created" /\ SetStatus(p, "VALIDATED") /\ Goto(w, "validated") /\ UNCHANGED Rest
        /\ "validated" \in PC /\ "validated" # "over"
    BY <1>11, <1>t DEF CreateValidated, Step, Rest, gateway, ledgers, PC
  <2>2. Moved(w, p) /\ On(w, p)' /\ call'[w].pc = "validated"
    BY <1>t, <2>1, Going
  <2>3. /\ row'[p].status = "VALIDATED" /\ row'[p].held = row[p].held
        /\ approval[p] = "none" /\ UNCHANGED <<approval, queue>>
    BY <1>t, <2>1, StatusSet DEF Creates, Creating, Rest
  <2>4. Creates(w)'
    BY <1>t, <2>1, <2>2, <2>3 DEF Creates, Creating, Stage, Moved, On
  <2>5. Knows(w)'
    BY <2>2, <2>3, <2>4 DEF Knows, Placed, Rules, Moves, Releases, Releasing, Looks, OnGateway, OnQueue, On
  <2>6. Permits(call'[w], row[p].held) => Permits(call[w], row[p].held)
    BY <2>1, <2>2 DEF Permits, Ruling
  <2>7. row[p].status # "NONE" /\ call[w].pc # "insert" /\ "VALIDATED" # "NONE" /\ "VALIDATED" # "QUEUED"
    BY <1>s, <2>1
  <2> QED BY <2>1, <2>2, <2>3, <2>5, <2>6, <2>7, StatusGood
<1>12. CASE CreateRoute(w)
  <2>1. call[w].pc = "validated" /\ UNCHANGED Rest /\ "held" \in PC /\ "release" \in PC /\ row[p].status # "NONE"
    BY <1>12, <1>s DEF CreateRoute, Step, Rest, gateway, ledgers, PC
  <2>a. approval[p] = "none" /\ queue[p].status = "none" /\ UNCHANGED <<approval, queue>>
    BY <1>t, <2>1 DEF Creates, Creating, Rest
  <2>2. CASE row[p].held /\ SetStatus(p, "HOLD") /\ Goto(w, "held")
    <3>1. Moved(w, p) /\ On(w, p)' /\ call'[w].pc = "held"
      BY <1>t, <2>1, <2>2, Going
    <3>2. row'[p].status = "HOLD" /\ row'[p].held
      BY <1>t, <2>2, StatusSet
    <3>3. Creates(w)'
      BY <1>t, <2>1, <2>a, <3>1, <3>2 DEF Creates, Creating, Stage, Moved, On
    <3>4. Knows(w)'
      BY <3>1, <3>2, <3>3 DEF Knows, Placed, Rules, Moves, Releases, Releasing, Looks, OnGateway, OnQueue, On
    <3>5. ~Permits(call'[w], row[p].held) /\ "HOLD" \notin {"NONE", "QUEUED", "CREATED", "VALIDATED"}
          /\ call[w].pc # "insert"
      BY <2>1, <3>1 DEF Permits, Ruling
    <3> QED BY <2>1, <2>2, <3>1, <3>4, <3>5, StatusGood
  <2>3. CASE ~row[p].held /\ SetStatus(p, "QUEUED") /\ Goto(w, "release")
    <3>1. Moved(w, p) /\ call'[w] = At("release", p)
      BY <1>t, <2>1, <2>3, Going
    <3>2. row'[p].status = "QUEUED" /\ ~row'[p].held
      BY <1>t, <2>3, StatusSet
    <3>3. Knows(w)' /\ ~Permits(call'[w], row[p].held)
      BY <3>1, <3>2, AtKnows DEF OnGateway, OnQueue
    <3>4. Permits(call[w], row[p].held) /\ "QUEUED" \notin {"NONE", "CREATED", "VALIDATED"} /\ call[w].pc # "insert"
      BY <2>1, <2>3 DEF Permits
    <3> QED BY <2>1, <2>3, <3>1, <3>3, <3>4, StatusGood
  <2> QED BY <1>12, <1>t, <2>2, <2>3 DEF CreateRoute, approvalNeeded
<1>13. CASE CreateApproval(w)
  BY <1>13, ApprovalGood
<1>14. CASE Release(w)
  <2>1. /\ call[w].pc = "release" /\ row[p].status # "NONE"
        /\ row[p].held => decided[p].yes > 0
    BY <1>14, <1>s, <1>t DEF Release, Step, Releases, Releasing
  <2>2. CASE row[p].provider /\ Goto(w, "dispatch") /\ UNCHANGED queue
    <3>1. UNCHANGED Slices
      BY <1>14, <2>2 DEF Release, Slices, gateway, ledgers
    <3>2. "dispatch" \in Simple \ {"transfer"} /\ "dispatch" \notin OnQueue
      BY DEF Simple, OnQueue
    <3> QED BY <2>1, <2>2, <3>1, <3>2, GotoGood
  <2>3. CASE ~row[p].provider /\ UNCHANGED queue /\ Over(w)
    <3>1. UNCHANGED Slices
      BY <1>14, <2>3 DEF Release, Slices, gateway, ledgers
    <3> QED BY <2>3, <3>1, OverGood
  <2>4. CASE ~row[p].provider /\ queue' = [queue EXCEPT ![p].status = "QUEUED"] /\ Over(w)
    <3>1. "over" \in PC
      BY PCs
    <3>2. Moved(w, p) /\ call'[w] = Idle
      BY <1>t, <2>4, <3>1, Going DEF Over
    <3>3. Knows(w)'
      BY <3>2, IdleKnows
    <3>4. UNCHANGED <<row, approval, bank, transfers, told, decided>>
      BY <1>14 DEF Release, gateway, ledgers
    <3> DEFINE item == [queue[p] EXCEPT !.status = "QUEUED"]
    <3>5. queue' = [queue EXCEPT ![p] = item]
      BY <2>4
    <3>6. item.status # "none"
      BY <1>t DEF PayoutTypeOK, QueueRow
    <3> HIDE DEF item
    <3> QED BY <2>1, <2>4, <3>2, <3>3, <3>4, <3>5, <3>6, QueueGood
  <2> QED BY <1>14, <1>t, <2>2, <2>3, <2>4 DEF Release
<1>15. CASE DecideWrite(w)
  BY <1>15, DecideGood
<1>16. CASE Decided(w)
  <2>1. /\ call[w].pc = "decided" /\ row[p].status # "NONE" /\ approval[p] # "none" /\ UNCHANGED Slices
    BY <1>16, <1>s, <1>t DEF Decided, Step, Rules, Slices, gateway, ledgers
  <2>2. /\ {"QUEUED", "REJECTED"} \subseteq Status /\ {"release", "tell"} \subseteq Then
        /\ "release" \notin DOMAIN QueueAfter /\ "tell" \notin DOMAIN QueueAfter
    BY Statuses DEF Then, QueueAfter
  <2>3. CASE call[w].to = "QUEUED" /\ call' = [call EXCEPT ![w] = AfterRead(p, "QUEUED", "release")]
    <3>1. Permits(call[w], row[p].held) /\ (row[p].held => decided[p].yes > 0)
      BY <1>t, <2>1, <2>3 DEF Permits, Ruling, Releases, Releasing
    <3> QED BY <2>1, <2>2, <2>3, <3>1, ReadGood
  <2>4. CASE call' = [call EXCEPT ![w] = AfterRead(p, "REJECTED", "tell")]
    <3>1. call[w].pc # "insert" /\ "tell" # "release" /\ "REJECTED" # "QUEUED"
      BY <2>1
    <3> QED BY <2>1, <2>2, <2>4, <3>1, ReadGood
  <2> QED BY <1>16, <1>t, <2>3, <2>4 DEF Decided
<1>17. CASE TransitionRead(w)
  <2>1. /\ call[w].pc = "read" /\ row[p].status # "NONE" /\ ~row[p].provider /\ UNCHANGED Slices
        /\ call' = [call EXCEPT ![w] = AfterRead(p, call[w].to, call[w].then)]
    BY <1>17, <1>s, <1>t DEF TransitionRead, Step, Placed, OnQueue, Slices, gateway, ledgers
  <2>2. call[w].to \in Status /\ call[w].then \in Then /\ call[w].to \notin {"NONE", "CREATED", "VALIDATED"}
    BY <1>t, <1>c, <2>1 DEF Moves, Call
  <2>3. call[w].then = "release" /\ row[p].held => decided[p].yes > 0
    BY <1>t, <2>1 DEF Releases, Releasing
  <2> QED BY <2>1, <2>2, <2>3, ReadGood
<1>18. CASE TransitionWrite(w)
  <2> DEFINE to == call[w].to
             then == call[w].then
  <2>1. /\ call[w].pc = "write" /\ row[p].status # "NONE" /\ UNCHANGED Rest
        /\ SetStatus(p, to) /\ Goto(w, then)
    BY <1>18, <1>s, <1>t DEF TransitionWrite, Step, Rest, gateway, ledgers
  <2>2. /\ then \in Then /\ to \notin {"NONE", "CREATED", "VALIDATED"}
        /\ then \in DOMAIN QueueAfter => ~row[p].provider
        /\ then = "release" /\ row[p].held => decided[p].yes > 0
    BY <1>t, <2>1 DEF Moves, Releases, Releasing
  <2>3. to = "QUEUED" => Permits(call[w], row[p].held)
    BY <2>1 DEF Permits, Ruling
  <2>4. \E k \in Status, m \in Then : k = to /\ m = then
    BY <1>c, <2>2 DEF Call
  <2> HIDE DEF to, then
  <2>5. PICK k \in Status, m \in Then : k = to /\ m = then
    BY <2>4
  <2>6. m \in PC /\ (m = "over" \/ m \in {"release", "tell", "accepted", "closed", "dropped", "rejected"})
    BY PCs DEF Then, QueueAfter
  <2>7. Moved(w, p) /\ call'[w] = At(m, p) /\ (m = "over" => call'[w] = Idle)
    BY <1>t, <2>1, <2>5, <2>6, Going
  <2>8. /\ row'[p].status = k /\ row'[p].provider = row[p].provider /\ row'[p].held = row[p].held
        /\ UNCHANGED decided
    BY <1>t, <2>1, <2>5, StatusSet DEF Rest
  <2>9. Knows(w)' /\ ~(On(w, p)' /\ Permits(call'[w], row[p].held))
    <3>1. CASE m = "over"
      BY <3>1, <2>7, IdleKnows
    <3>2. CASE m # "over"
      <4>1. m \in OnQueue => ~row[p].provider
        BY <2>2, <2>5, <2>6, <3>2 DEF OnQueue, QueueAfter
      <4> QED BY <2>2, <2>5, <2>6, <2>7, <2>8, <3>2, <4>1, AtKnows DEF OnGateway
    <3> QED BY <3>1, <3>2
  <2>10. SetStatus(p, k) /\ k \notin {"NONE", "CREATED", "VALIDATED"} /\ call[w].pc # "insert"
         /\ (k = "QUEUED" => Permits(call[w], row[p].held))
    BY <2>1, <2>2, <2>3, <2>5
  <2> QED BY <2>1, <2>7, <2>9, <2>10, StatusGood
<1>19. CASE TellRead(w)
  <2>1. call[w].pc = "tell" /\ row[p].status # "NONE" /\ UNCHANGED Slices
    BY <1>19, <1>s DEF TellRead, Step, Slices, gateway, ledgers
  <2> DEFINE word == publicPayoutStatus(row[p].status)
             c == [At("claim", p) EXCEPT !.word = word, !.prior = row[p].callback]
  <2>2. Over(w) \/ (word # "none" /\ call' = [call EXCEPT ![w] = c])
    BY <1>19, <1>t DEF TellRead
  <2>3. c.pc = "claim" /\ c.order = p /\ c.word = word
    BY AtIs DEF PC
  <2> HIDE DEF c, word
  <2>4. CASE word # "none" /\ call' = [call EXCEPT ![w] = c]
    <3>0. call'[w] = c /\ \A v \in Worker : v # w => call'[v] = call[v]
      BY <1>t, <2>4
    <3>1. Knows(w)'
      BY <2>1, <2>3, <2>4, <3>0 DEF Knows, Placed, Creates, Rules, Moves, Releases, Releasing, Looks, Creating, OnGateway, OnQueue, Slices
    <3>2. ~Permits(c, row[p].held)
      BY <2>3 DEF Permits, Ruling
    <3> QED BY <2>1, <2>3, <3>0, <3>1, <3>2, CalmAtWork
  <2> QED BY <2>1, <2>2, <2>4, OverGood
<1>20. CASE TellClaim(w)
  <2>1. call[w].pc = "claim" /\ row[p].status # "NONE" /\ UNCHANGED Rest /\ call[w].word # "none"
    BY <1>20, <1>s, <1>t DEF TellClaim, Step, Rest, gateway, ledgers, Looks
  <2>2. CASE UNCHANGED row /\ Over(w)
    BY <2>1, <2>2, OverGood DEF Slices, Rest
  <2>3. CASE row' = [row EXCEPT ![p].callback = call[w].word] /\ call' = [call EXCEPT ![w].pc = "enqueue"]
    <3>1. /\ call'[w].pc = "enqueue" /\ call'[w].order = p /\ call'[w].word # "none"
          /\ \A v \in Worker : v # w => call'[v] = call[v]
      BY <1>t, <1>c, <2>1, <2>3 DEF Call
    <3>2. Moved(w, p) /\ ~Permits(call'[w], row[p].held)
      BY <1>t, <3>1 DEF Moved, Permits, Ruling
    <3>3. row'[p].status # "NONE"
      BY <1>t, <2>1, <2>3 DEF PayoutTypeOK, Row
    <3>4. Knows(w)'
      BY <3>1, <3>3 DEF Knows, Placed, Creates, Rules, Moves, Releases, Releasing, Looks, Creating, OnGateway, OnQueue
    <3> QED BY <2>1, <2>3, <3>2, <3>4, CallbackGood
  <2> QED BY <1>20, <1>t, <2>2, <2>3 DEF TellClaim
<1>21. CASE TellEnqueue(w)
  <2>1. call[w].pc = "enqueue" /\ row[p].status # "NONE" /\ call[w].word # "none"
        /\ UNCHANGED <<row, approval, queue, bank, transfers, decided>>
    BY <1>21, <1>s, <1>t DEF TellEnqueue, Step, gateway, Looks
  <2>2. CASE UNCHANGED told /\ call' = [call EXCEPT ![w].pc = "restore"]
    <3> DEFINE c == [call[w] EXCEPT !.pc = "restore"]
    <3>1. c.pc = "restore" /\ c.order = p /\ c.word # "none" /\ call' = [call EXCEPT ![w] = c]
      BY <1>t, <1>c, <2>1, <2>2 DEF Call
    <3> HIDE DEF c
    <3>2. UNCHANGED Slices
      BY <2>1, <2>2 DEF Slices
    <3>0. call'[w] = c /\ \A v \in Worker : v # w => call'[v] = call[v]
      BY <1>t, <3>1
    <3>3. Knows(w)'
      BY <2>1, <3>0, <3>1 DEF Knows, Placed, Creates, Rules, Moves, Releases, Releasing, Looks, Creating, OnGateway, OnQueue
    <3>4. ~Permits(c, row[p].held)
      BY <3>1 DEF Permits, Ruling
    <3> QED BY <2>1, <3>0, <3>1, <3>2, <3>3, <3>4, CalmAtWork
  <2>3. CASE Over(w) /\ \A q \in Payout : q # p => told'[q] = told[q]
    <3>1. "over" \in PC
      BY PCs
    <3>2. Moved(w, p) /\ call'[w] = Idle
      BY <1>t, <2>3, <3>1, Going DEF Over
    <3>3. Knows(w)' /\ ~On(w, p)'
      BY <3>2, IdleKnows
    <3>4. Local(w, p) /\ Kept(p)
      BY <2>1, <2>3, <3>2 DEF Local, SameSlice, Kept
    <3>5. Ordered(p)'
      BY <2>1 DEF Basic, Ordered
    <3>6. Accounted(p)'
      <4>1. Permissions(p)' = Permissions(p) /\ Weight(p)' = Weight(p)
        BY <2>1 DEF Permissions, Weight
      <4>2. Permissions(p) \in Nat /\ Weight(p) \in Nat
        BY <1>t DEF PayoutTypeOK, Permissions, Weight, One
      <4> QED BY <2>1, <3>3, <3>4, <4>1, <4>2, Balanced DEF One
    <3> QED BY <2>1, <3>3, <3>4, <3>5, <3>6, AtWork DEF Good
  <2>4. told' = [told EXCEPT ![p][call[w].word] = IF @ < Repeated THEN @ + 1 ELSE @]
          => \A q \in Payout : q # p => told'[q] = told[q]
    BY <1>t DEF PayoutTypeOK
  <2> QED BY <1>21, <1>t, <2>2, <2>3, <2>4 DEF TellEnqueue
<1>22. CASE TellRestore(w)
  <2>1. call[w].pc = "restore" /\ row[p].status # "NONE" /\ UNCHANGED Rest /\ "over" \in PC
        /\ row' = [row EXCEPT ![p].callback = call[w].prior] /\ Over(w)
    BY <1>22, <1>s, <1>t, PCs DEF TellRestore, Step, Rest, gateway, ledgers
  <2>2. Moved(w, p) /\ call'[w] = Idle
    BY <1>t, <2>1, Going DEF Over
  <2>3. Knows(w)' /\ ~Permits(call'[w], row[p].held)
    BY <2>2, IdleKnows, IdleIs DEF Permits, Ruling
  <2> QED BY <2>1, <2>2, <2>3, CallbackGood
<1>23. CASE DispatchRead(w)
  <2>1. call[w].pc = "dispatch" /\ row[p].status # "NONE" /\ UNCHANGED Slices /\ row[p].provider
    BY <1>23, <1>s, <1>t DEF DispatchRead, Step, Slices, gateway, ledgers, Placed, OnGateway
  <2>2. Over(w) \/ \E pc \in {"block", "send"} : Goto(w, pc)
    BY <1>23 DEF DispatchRead
  <2>3. ASSUME NEW pc \in {"block", "send"}, Goto(w, pc) PROVE Good(w, p)
    <3>1. pc \in Simple \ {"transfer"} /\ pc \notin OnQueue /\ pc # "release"
      BY DEF Simple, OnQueue
    <3> QED BY <2>1, <2>3, <3>1, GotoGood
  <2> QED BY <2>1, <2>2, <2>3, OverGood
<1>24. CASE DispatchBlock(w) \/ DispatchClaim(w) \/ DispatchRefused(w)
  <2>1. row[p].status # "NONE" /\ UNCHANGED Rest /\ row[p].provider /\ call[w].pc # "insert"
    BY <1>24, <1>s, <1>t DEF DispatchBlock, DispatchClaim, DispatchRefused, Step, Rest, gateway, ledgers, Placed, OnGateway
  <2>2. \/ MoveIf(w, "QUEUED", "CANCELLED", "tell")
        \/ MoveIf(w, "QUEUED", "SUBMITTED", "transfer")
        \/ MoveIf(w, "SUBMITTED", "FAILED", "tell")
    BY <1>24 DEF DispatchBlock, DispatchClaim, DispatchRefused
  <2> QED BY <2>1, <2>2, MoveGood
<1>25. CASE Transfer(w)
  BY <1>25, TransferGood
<1>26. CASE Lookup(w)
  <2>1. /\ call[w].pc = "lookup" /\ row[p].status # "NONE" /\ UNCHANGED Slices /\ row[p].provider
        /\ call[w].seen \in {"SUBMITTED", "COMPLETED", "FAILED"}
    BY <1>26, <1>s, <1>t DEF Lookup, Step, Slices, ledgers, Placed, OnGateway, Looks
  <2>2. CASE bank[p] \notin {"none", "pending"} /\ call' = [call EXCEPT ![w].pc = "apply", ![w].answer = bank[p]]
    <3> DEFINE c == [call[w] EXCEPT !.pc = "apply", !.answer = bank[p]]
    <3>1. c.pc = "apply" /\ c.order = p /\ c.answer = bank[p] /\ c.seen = call[w].seen /\ call' = [call EXCEPT ![w] = c]
      BY <1>t, <1>c, <2>2 DEF Call
    <3> HIDE DEF c
    <3>0. call'[w] = c /\ \A v \in Worker : v # w => call'[v] = call[v]
      BY <1>t, <3>1
    <3>2. Knows(w)'
      BY <2>1, <2>2, <3>0, <3>1 DEF Knows, Placed, Creates, Rules, Moves, Releases, Releasing, Looks, Creating, OnGateway, OnQueue, Slices
    <3>3. ~Permits(c, row[p].held)
      BY <3>1 DEF Permits, Ruling
    <3> QED BY <2>1, <3>0, <3>1, <3>2, <3>3, CalmAtWork
  <2> QED BY <1>26, <1>t, <2>1, <2>2, OverGood DEF Lookup
<1>28. CASE Apply(w)
  <2>1. /\ call[w].pc = "apply" /\ row[p].status # "NONE" /\ UNCHANGED Rest /\ row[p].provider
        /\ call[w].seen \in {"SUBMITTED", "COMPLETED", "FAILED"}
    BY <1>28, <1>s, <1>t DEF Apply, Step, Rest, ledgers, Placed, OnGateway, Looks
  <2> DEFINE to == Verdict(call[w]).to
  <2>2. to = call[w].seen \/ to \in {"COMPLETED", "FAILED", "REVERSED"}
    BY <2>1 DEF Verdict, PaidAfterFailed
  <2>3. CASE UNCHANGED row /\ Over(w)
    BY <2>1, <2>3, OverGood DEF Slices, Rest
  <2>4. CASE to # call[w].seen /\ MoveIf(w, call[w].seen, to, "tell")
    <3> HIDE DEF to
    <3>1. \E k \in {"COMPLETED", "FAILED", "REVERSED"}, from \in Status : k = to /\ from = call[w].seen
      BY <1>c, <2>2, <2>4 DEF Call
    <3>2. PICK k \in {"COMPLETED", "FAILED", "REVERSED"}, from \in Status : k = to /\ from = call[w].seen
      BY <3>1
    <3>3. MoveIf(w, from, k, "tell") /\ call[w].pc # "insert"
      BY <2>1, <2>4, <3>2
    <3> QED BY <2>1, <3>3, MoveGood
  <2> QED BY <1>28, <2>3, <2>4 DEF Apply
<1>29. CASE AssignWrite(w)
  <2>1. call[w].pc = "assign" /\ row[p].status # "NONE" /\ ~row[p].provider /\ queue[p].status # "none"
        /\ UNCHANGED <<row, approval, bank, transfers, told, decided>>
    BY <1>29, <1>s, <1>t DEF AssignWrite, Step, gateway, ledgers, Placed, OnQueue
  <2> DEFINE item == [queue[p] EXCEPT !.status = "ASSIGNED"]
  <2>2. queue' = [queue EXCEPT ![p] = item] /\ call' = [call EXCEPT ![w] = Moving(p, "ASSIGNED")]
    BY <1>29, <1>t DEF AssignWrite
  <2>3. item.status # "none" /\ "ASSIGNED" \notin {"NONE", "CREATED", "VALIDATED"} /\ call[w].pc # "insert"
    BY <1>t, <2>1 DEF PayoutTypeOK, QueueRow
  <2> HIDE DEF item
  <2> QED BY <2>1, <2>2, <2>3, MovingGood
<1>30. CASE SweepWrite(w)
  <2>1. call[w].pc = "sweep" /\ row[p].status # "NONE" /\ ~row[p].provider /\ queue[p].status # "none"
        /\ UNCHANGED <<row, approval, bank, transfers, told, decided>>
    BY <1>30, <1>s, <1>t DEF SweepWrite, Step, gateway, ledgers, Placed, OnQueue
  <2> DEFINE n == IF call[w].count < MaxReassigns THEN call[w].count + 1 ELSE MaxReassigns
             gone == [status |-> "CANCELLED", count |-> n]
             back == [status |-> "QUEUED", count |-> n]
  <2>2. \/ queue' = [queue EXCEPT ![p] = gone] /\ call' = [call EXCEPT ![w] = Moving(p, "HOLD")]
        \/ queue' = [queue EXCEPT ![p] = back] /\ call' = [call EXCEPT ![w] = Moving(p, "QUEUED")]
    BY <1>30, <1>t DEF SweepWrite, SweptOrder
  <2>3. gone.status # "none" /\ back.status # "none" /\ call[w].pc # "insert"
        /\ "HOLD" \notin {"NONE", "CREATED", "VALIDATED"} /\ "QUEUED" \notin {"NONE", "CREATED", "VALIDATED"}
    BY <2>1
  <2> HIDE DEF gone, back
  <2> QED BY <2>1, <2>2, <2>3, MovingGood
<1>31. CASE QueueFollows(w)
  <2> DEFINE pc == call[w].pc
  <2>1. /\ pc \in DOMAIN QueueAfter /\ row[p].status # "NONE" /\ ~row[p].provider /\ pc # "insert"
        /\ UNCHANGED <<row, approval, bank, transfers, told, decided>>
    BY <1>31, <1>s, <1>t DEF QueueFollows, gateway, ledgers, Placed, OnQueue, QueueAfter
  <2>2. /\ queue' = IF queue[p].status = "none" THEN queue ELSE [queue EXCEPT ![p].status = QueueAfter[pc]]
        /\ Goto(w, NextAfter[pc])
    BY <1>31, <1>t DEF QueueFollows
  <2>3. /\ QueueAfter[pc] \in {"ACCEPTED", "DONE", "CANCELLED"}
        /\ NextAfter[pc] \in {"over", "journal", "tell"}
    BY <2>1 DEF QueueAfter, NextAfter
  <2>4. PICK m \in {"over", "journal", "tell"} : m = NextAfter[pc]
    BY <2>3
  <2>5. m \in PC
    BY PCs
  <2>6. Moved(w, p) /\ call'[w] = At(m, p) /\ (m = "over" => call'[w] = Idle)
    BY <1>t, <2>2, <2>4, <2>5, Going
  <2>7. Knows(w)'
    <3>1. CASE m = "over"
      BY <3>1, <2>6, IdleKnows
    <3>2. CASE m # "over"
      <4>1. row'[p].status # "NONE" /\ ~row'[p].provider
        BY <2>1
      <4> QED BY <2>6, <3>2, <4>1, AtKnows DEF OnGateway
    <3> QED BY <3>1, <3>2
  <2>8. CASE queue[p].status = "none"
    <3>1. UNCHANGED queue
      BY <2>2, <2>8
    <3>2. Local(w, p) /\ Kept(p)
      BY <2>1, <2>6, <3>1 DEF Local, SameSlice, Kept
    <3>3. Ordered(p)' /\ Accounted(p)'
      BY <2>1, <3>1 DEF Basic, Ordered, Accounted
    <3> QED BY <2>1, <2>7, <3>2, <3>3, AtWork DEF Good
  <2>9. CASE queue[p].status # "none"
    <3>1. queue' = [queue EXCEPT ![p] = [queue[p] EXCEPT !.status = QueueAfter[pc]]]
      BY <2>2, <2>9
    <3>2. [queue[p] EXCEPT !.status = QueueAfter[pc]].status # "none"
      BY <1>t, <2>3 DEF PayoutTypeOK, QueueRow
    <3> QED BY <2>1, <2>6, <2>7, <2>9, <3>1, <3>2, QueueGood
  <2> QED BY <2>8, <2>9
<1>32. CASE PostJournal(w)
  <2>1. /\ call[w].pc = "journal" /\ row[p].status # "NONE" /\ UNCHANGED Slices /\ Goto(w, "tell")
        /\ "tell" \in Simple \ {"transfer"} /\ "tell" \notin OnGateway /\ "tell" \notin OnQueue
    BY <1>32, <1>s DEF PostJournal, Step, Slices, gateway, Simple, OnGateway, OnQueue
  <2> QED BY <2>1, GotoGood
<1> QED BY <1>o, <1>10, <1>11, <1>12, <1>13, <1>14, <1>15, <1>16, <1>17, <1>18, <1>19, <1>20, <1>21, <1>22, <1>23,
           <1>24, <1>25, <1>26, <1>28, <1>29, <1>30, <1>31, <1>32 DEF ServerStep

LEMMA GatewayStep ==
  ASSUME Basic, PayoutTypeOK', NEW p \in Payout, GatewaySettles(p) \/ GatewayChangesItsMind(p)
  PROVE  /\ Basic' /\ UNCHANGED <<row, approval, queue, transfers, told, decided, call>>
         /\ \A q \in Payout : q # p => bank'[q] = bank[q]
         /\ bank[p] # "none" /\ bank'[p] \notin {"none", "pending"}
         /\ bank[p] \in {"success", "reversed"} => bank'[p] \in {"success", "reversed"}
<1>1. UNCHANGED <<row, approval, queue, transfers, told, decided, call>>
  BY DEF GatewaySettles, GatewayChangesItsMind, ledgers
<1>2. /\ \A q \in Payout : q # p => bank'[q] = bank[q]
      /\ bank[p] # "none" /\ bank'[p] \notin {"none", "pending"}
      /\ bank[p] \in {"success", "reversed"} => bank'[p] \in {"success", "reversed"}
  BY DEF GatewaySettles, GatewayChangesItsMind, Basic, PayoutTypeOK
<1>3. ASSUME NEW w \in Worker PROVE Knows(w)'
  <2>1. Placed(w)' /\ Creates(w)' /\ Rules(w)' /\ Moves(w)' /\ Releases(w)'
    BY <1>1 DEF Basic, Knows, Placed, Creates, On, Rules, Moves, Releases
  <2>2. Looks(w)'
    BY <1>1, <1>2 DEF Basic, Knows, Looks, Placed
  <2> QED BY <2>1, <2>2 DEF Knows
<1>4. ASSUME NEW q \in Payout PROVE Ordered(q)' /\ Accounted(q)'
  <2>1. Permitted(q)' = Permitted(q)
    BY <1>1 DEF Permitted, On
  <2>2. bank'[q] # "none" => bank[q] # "none"
    BY <1>2
  <2> QED BY <1>1, <2>1, <2>2 DEF Basic, Ordered, Accounted, Permissions
<1> QED BY <1>1, <1>2, <1>3, <1>4 DEF Basic

LEMMA BasicInit == Init => Basic
<1> SUFFICES ASSUME Init PROVE Basic
  OBVIOUS
<1>1. PayoutTypeOK
  BY Statuses, IdleIs, PayoutAssumption DEF Init, PayoutTypeOK, Row, Answer, Word, Repeated
<1>2. \A w \in Worker : call[w] = Idle
  BY DEF Init
<1>3. \A w \in Worker : Knows(w)
  BY <1>2, IdleIs DEF Knows, Placed, Creates, Rules, Moves, Releases, Releasing, Looks, Creating
<1>4. ASSUME NEW p \in Payout PROVE Ordered(p) /\ Accounted(p)
  BY <1>2 DEF Init, Ordered, Accounted
<1> QED BY <1>1, <1>3, <1>4 DEF Basic

\* Every step is about one payout.
LEMMA EveryStep ==
  ASSUME Basic, PayoutTypeOK', Next
  PROVE  \/ \E w \in Worker, p \in Payout : Good(w, p)
         \/ \E p \in Payout : GatewaySettles(p) \/ GatewayChangesItsMind(p)
<1>1. ASSUME NEW w \in Request, CreateRead(w) \/ DecideRead(w) \/ SyncHinted(w) \/ AssignRead(w) \/ OperatorActs(w)
      PROVE  \E p \in Payout : Good(w, p)
  <2>1. w \in Worker
    BY DEF Worker
  <2> QED BY <1>1, <2>1, BeginGood, OperatorGood
<1>2. ASSUME NEW p \in Payout, SyncSwept(p) \/ SweepRead(p) PROVE Good(Cron, p)
  BY <1>2, CronGood
<1>3. ASSUME NEW w \in Worker, ServerStep(w) \/ LookupUnknown(w) \/ Crash(w)
      PROVE  \E p \in Payout : Good(w, p)
  <2>1. Placed(w)
    BY DEF Basic, Knows
  <2>2. call[w].pc # "idle"
    BY <1>3, <2>1, StepsOn DEF Crash, Placed
  <2>3. call[w].order \in Payout
    BY <2>1, <2>2 DEF Placed
  <2>4. PICK p \in Payout : On(w, p)
    BY <2>3 DEF On
  <2> QED BY <1>3, <2>2, <2>4, ServerGood
<1>4. Cron \in Worker /\ Request \subseteq Worker
  BY DEF Worker
<1> QED BY <1>1, <1>2, <1>3, <1>4 DEF Next

LEMMA BasicStep ==
  ASSUME Basic, [Next]_vars
  PROVE  PayoutTypeOK' /\ Basic'
<1>1. PayoutTypeOK'
  BY TypeStep DEF Basic, Knows
<1>2. CASE UNCHANGED vars
  <2>1. \A p \in Payout : Permitted(p)' = Permitted(p)
    BY <1>2 DEF vars, Permitted, On
  <2>2. \A p \in Payout : Ordered(p)' /\ Accounted(p)'
    BY <1>2, <2>1 DEF vars, Basic, Ordered, Accounted, Permissions
  <2>3. \A w \in Worker : Knows(w)'
    BY <1>2 DEF vars, Basic, Knows, Placed, Creates, On, Rules, Moves, Releases, Looks
  <2> QED BY <1>1, <2>2, <2>3 DEF Basic
<1>3. CASE Next
  BY <1>1, <1>3, EveryStep, Assembled, GatewayStep
<1> QED BY <1>1, <1>2, <1>3

LEMMA BasicHolds == Spec => []Basic
<1>1. Basic /\ [Next]_vars => Basic'
  BY BasicStep
<1> QED BY BasicInit, <1>1, PTL DEF Spec

(***************************************************************************)
(* The first theorems: types, the permissions, the checker.                *)
(***************************************************************************)
\* The tables and the requests hold what the columns and the handlers allow.
THEOREM TypesHold == Spec => []PayoutTypeOK
BY BasicHolds, PTL DEF Basic

LEMMA BasicSends == Basic => SentOncePerApproval /\ HeldNeedsApproval
<1> SUFFICES ASSUME Basic, NEW p \in Payout
             PROVE  /\ transfers[p] <= IF decided[p].yes > 1 THEN decided[p].yes ELSE 1
                    /\ row[p].held /\ (transfers[p] > 0 \/ queue[p].status # "none") => decided[p].yes > 0
  BY DEF SentOncePerApproval, HeldNeedsApproval
<1>1. transfers[p] \in Nat /\ decided[p].yes \in Nat /\ Ordered(p) /\ Accounted(p)
  BY DEF Basic, PayoutTypeOK
<1>2. CASE row[p].provider
  <2>1. IsFiniteSet(Permitted(p)) /\ Cardinality(Permitted(p)) \in Nat
    BY <1>1, <1>2, FS_CardinalityType DEF Accounted
  <2>2. transfers[p] <= Permissions(p)
    BY <1>1, <1>2, <2>1 DEF Accounted, One, Permissions
  <2> QED BY <1>1, <1>2, <2>2 DEF Ordered, Permissions
<1>3. CASE ~row[p].provider
  BY <1>1, <1>3 DEF Ordered
<1> QED BY <1>2, <1>3

\* A payout is sent to its gateway at most once, and once more only for each further approval
\* (dispatchProviderPayout): neither a repeated create request, nor a crash, a lost answer, a
\* webhook or a sweep sends it again, however many of them there are.
THEOREM SentOnce == Spec => []SentOncePerApproval
BY BasicHolds, BasicSends, PTL

\* A payout that needs approval is neither sent to a gateway nor queued for an operator before a
\* checker approved it (createPayout, decideApproval).
THEOREM HeldUntilApproved == Spec => []HeldNeedsApproval
BY BasicHolds, BasicSends, PTL

-----------------------------------------------------------------------------
(***************************************************************************)
(* A gateway payout about which at most one decision was written.          *)
(***************************************************************************)
\* A step of w about p, before and after which p is such a payout.
Usual(w, p) ==
  /\ Basic /\ PayoutTypeOK' /\ Local(w, p) /\ Knows(w)'
  /\ row[p].provider /\ row'[p].provider /\ row'[p].held = row[p].held
  /\ UndisputedPayout(p) /\ UndisputedPayout(p)'
  /\ Fine(p)

\* Where w is, as a number.
Is(w, p, S) == IF On(w, p) /\ call[w].pc \in S THEN 1 ELSE 0

LEMMA CountAmong ==
  ASSUME NEW w \in Worker, NEW p \in Payout, Local(w, p), NEW S, IsFiniteSet(Among(p, S))
  PROVE  /\ IsFiniteSet(Among(p, S)') /\ Cardinality(Among(p, S)) \in Nat /\ Cardinality(Among(p, S)') \in Nat
         /\ Cardinality(Among(p, S)') + Is(w, p, S) = Cardinality(Among(p, S)) + Is(w, p, S)'
<1>1. Among(p, S)' \ {w} = Among(p, S) \ {w}
  BY DEF Among, On, Local, Moved
<1>2. One(w \in Among(p, S)) = Is(w, p, S)
  BY DEF Among, Is, One
<1>3. One(w \in Among(p, S)') = Is(w, p, S)'
  BY DEF Among, Is, One
<1> QED BY <1>1, <1>2, <1>3, Count

LEMMA Numbers ==
  ASSUME PayoutTypeOK, NEW p \in Payout
  PROVE  /\ transfers[p] \in Nat /\ decided[p].yes \in Nat /\ decided[p].no \in Nat
         /\ \A d \in Word : told[p][d] \in 0..2
         /\ Callbacks(p) \in Nat /\ Closings(p) \in {0, 1, 2}
         /\ row[p] \in Row /\ row[p].status \in Status
         /\ \A w \in Worker : \A S : Is(w, p, S) \in {0, 1}
<1>1. \A d \in Word : told[p][d] \in 0..2
  BY DEF PayoutTypeOK, Repeated
<1>2. Callbacks(p) \in Nat
  BY <1>1 DEF Callbacks, Word
<1>3. row[p] \in Row /\ row[p].status \in Status
  BY DEF PayoutTypeOK, Row
<1> QED BY <1>1, <1>2, <1>3 DEF PayoutTypeOK, Closings, Is

\* Before its first final status nobody is told anything of a payout.
LEMMA NothingTold ==
  ASSUME PayoutTypeOK, NEW p \in Payout, Counted(p), Closings(p) = 0
  PROVE  /\ \A d \in Word : told[p][d] = 0
         /\ \A v \in Worker : On(v, p) => call[v].pc \notin Telling
<1>1. Callbacks(p) \in Nat /\ \A d \in Word : told[p][d] \in 0..2
  BY Numbers
<1>2. Cardinality(Among(p, Telling)) \in Nat /\ IsFiniteSet(Among(p, Telling))
  BY FS_CardinalityType DEF Counted
<1>3. Callbacks(p) = 0 /\ Cardinality(Among(p, Telling)) = 0
  BY <1>1, <1>2 DEF Counted
<1>4. \A d \in Word : told[p][d] = 0
  <2>1. /\ told[p]["SUCCESS"] \in 0..2 /\ told[p]["FAILED"] \in 0..2
        /\ told[p]["REJECTED"] \in 0..2 /\ told[p]["REVERSED"] \in 0..2
    BY <1>1 DEF Word
  <2>2. told[p]["SUCCESS"] + told[p]["FAILED"] + told[p]["REJECTED"] + told[p]["REVERSED"] = 0
    BY <1>3 DEF Callbacks
  <2>3. /\ told[p]["SUCCESS"] = 0 /\ told[p]["FAILED"] = 0
        /\ told[p]["REJECTED"] = 0 /\ told[p]["REVERSED"] = 0
    BY <2>1, <2>2
  <2> QED BY <2>3 DEF Word
<1>5. \A v : v \notin Among(p, Telling)
  BY <1>2, <1>3, Several
<1> QED BY <1>4, <1>5 DEF Among

\* A ruling on a payout finds it on hold: it was not ruled on before.
LEMMA RulingFinds ==
  ASSUME PayoutTypeOK, NEW p \in Payout, Ruled(p), Ordered(p), UndisputedPayout(p),
         NEW w \in Worker, On(w, p), call[w].pc \in Ruling, approval[p] # "none"
  PROVE  row[p].status = "HOLD"
<1>1. Cardinality(Among(p, Ruling)) \in Nat /\ Cardinality(Among(p, Ruling)) # 0
  <2>1. w \in Among(p, Ruling)
    BY DEF Among
  <2> QED BY <2>1, Several DEF Ruled
<1>2. decided[p].yes \in Nat /\ decided[p].no \in Nat
  BY Numbers
<1>3. ~(row[p].held /\ row[p].status \notin Before)
  BY <1>1, <1>2 DEF Ruled, UndisputedPayout, One
<1> QED BY <1>3 DEF Ordered, Before

\* Parts of Fine that a step keeps because it has nothing to do with them.
LEMMA RuledKept ==
  ASSUME NEW w \in Worker, NEW p \in Payout, Usual(w, p), UNCHANGED decided,
         approval[p] # "none" => approval'[p] # "none",
         row'[p].held /\ row'[p].status \notin Before => row[p].status \notin Before,
         Is(w, p, Ruling)' <= Is(w, p, Ruling)
  PROVE  Ruled(p)'
<1>1. /\ IsFiniteSet(Among(p, Ruling)') /\ Cardinality(Among(p, Ruling)) \in Nat /\ Cardinality(Among(p, Ruling)') \in Nat
      /\ Cardinality(Among(p, Ruling)') + Is(w, p, Ruling) = Cardinality(Among(p, Ruling)) + Is(w, p, Ruling)'
  BY CountAmong DEF Usual, Fine, Ruled
<1>2. Is(w, p, Ruling) \in {0, 1} /\ Is(w, p, Ruling)' \in {0, 1}
  BY DEF Is
<1>3. decided[p].yes \in Nat /\ decided[p].no \in Nat
  BY Numbers DEF Usual, Basic
<1>4. row'[p].held /\ row'[p].status \notin Before => row[p].held /\ row[p].status \notin Before
  BY DEF Usual
<1> QED BY <1>1, <1>2, <1>3, <1>4 DEF Usual, Fine, Ruled, One

LEMMA CountedKept ==
  ASSUME NEW w \in Worker, NEW p \in Payout, Usual(w, p),
         Callbacks(p)' + Closings(p) + Is(w, p, Telling)' <= Callbacks(p) + Closings(p)' + Is(w, p, Telling)
  PROVE  Counted(p)'
<1>1. /\ IsFiniteSet(Among(p, Telling)') /\ Cardinality(Among(p, Telling)) \in Nat /\ Cardinality(Among(p, Telling)') \in Nat
      /\ Cardinality(Among(p, Telling)') + Is(w, p, Telling) = Cardinality(Among(p, Telling)) + Is(w, p, Telling)'
  BY CountAmong DEF Usual, Fine, Counted
<1>2. Is(w, p, Telling) \in {0, 1} /\ Is(w, p, Telling)' \in {0, 1}
  BY DEF Is
<1>3. Callbacks(p) \in Nat /\ Callbacks(p)' \in Nat /\ Closings(p) \in Nat /\ Closings(p)' \in Nat
  <2>1. Callbacks(p) \in Nat /\ Closings(p) \in {0, 1, 2}
    BY Numbers DEF Usual, Basic
  <2>2. \A d \in Word : told'[p][d] \in 0..2
    BY DEF Usual, PayoutTypeOK, Repeated
  <2>3. Callbacks(p)' \in Nat
    BY <2>2 DEF Callbacks, Word
  <2> QED BY <2>1, <2>3 DEF Closings
<1> QED BY <1>1, <1>2, <1>3 DEF Usual, Fine, Counted

\* A request that newly tells of p is only about to look.
LEMMA HeardFresh ==
  ASSUME NEW w \in Worker, NEW p \in Payout, Usual(w, p), Closings(p) = 0, UNCHANGED told,
         call'[w].order = p /\ call'[w].pc \in Telling => call'[w].pc = "tell"
  PROVE  Heard(p)'
<1>1. /\ \A d \in Word : told'[p][d] = 0
      /\ \A v \in Worker : On(v, p) => call[v].pc \notin Telling
  BY NothingTold DEF Usual, Basic, Fine
<1>2. \A v \in Worker, d \in Word : ~Holds(v, p, d)' /\ ~Sends(v, p, d)'
  BY <1>1 DEF Holds, Sends, Holding, Telling, On, Usual, Local, Moved
<1>3. "SUCCESS" \in Word /\ "REVERSED" \in Word
  BY DEF Word
<1> QED BY <1>1, <1>2, <1>3 DEF Heard

\* Nothing is told, and nobody newly tells.
LEMMA HeardKept ==
  ASSUME NEW w \in Worker, NEW p \in Payout, Usual(w, p), UNCHANGED told,
         row'[p].callback = row[p].callback, row'[p].status = row[p].status,
         call'[w].order = p /\ call'[w].pc \in Telling =>
            /\ On(w, p) /\ call[w].pc \in Telling /\ call'[w].word = call[w].word
            /\ call'[w].pc \in {"restore"} /\ call[w].pc = "enqueue"
  PROVE  Heard(p)'
<1>1. \A v \in Worker : \A d : /\ Holds(v, p, d)' => Holds(v, p, d)
                               /\ Sends(v, p, d)' => Sends(v, p, d)
  BY DEF Holds, Sends, Holding, Telling, On, Usual, Local, Moved
<1>2. \A v \in Worker : On(v, p)' /\ call'[v].pc \in {"tell", "claim"} => On(v, p) /\ call[v].pc \in {"tell", "claim"}
  BY DEF Telling, On, Usual, Local, Moved
<1>3. Heard(p)
  BY DEF Usual, Fine
<1> QED BY <1>1, <1>2, <1>3 DEF Heard

LEMMA HonestKept ==
  ASSUME NEW w \in Worker, NEW p \in Payout, Usual(w, p), row'[p].status = row[p].status,
         transfers'[p] = transfers[p], bank'[p] = bank[p],
         call'[w].order = p => call'[w].pc \notin {"transfer", "refuse"}
  PROVE  Honest(p)'
<1>1. \A v \in Worker : On(v, p)' /\ call'[v].pc \in {"transfer", "refuse"} => On(v, p) /\ call'[v] = call[v]
  BY DEF On, Usual, Local, Moved
<1>2. Honest(p)
  BY DEF Usual, Fine
<1> QED BY <1>1, <1>2 DEF Honest

LEMMA CalmFine ==
  ASSUME NEW w \in Worker, NEW p \in Payout, Usual(w, p), UNCHANGED <<row, bank, transfers, told, decided>>,
         approval[p] # "none" => approval'[p] # "none",
         Is(w, p, Ruling)' <= Is(w, p, Ruling),
         call'[w].order = p => call'[w].pc \notin Telling \cup {"transfer", "refuse"}
  PROVE  Fine(p)'
<1>1. Is(w, p, Telling)' = 0 /\ Is(w, p, Telling) \in {0, 1}
  BY DEF Is, On
<1>2. Callbacks(p)' = Callbacks(p) /\ Closings(p)' = Closings(p) /\ Callbacks(p) \in Nat /\ Closings(p) \in {0, 1, 2}
  BY Numbers DEF Callbacks, Closings, Usual, Basic
<1>3. Ruled(p)'
  BY RuledKept
<1>4. Counted(p)'
  BY <1>1, <1>2, CountedKept
<1>5. Honest(p)'
  BY HonestKept
<1>6. Heard(p)'
  BY HeardKept
<1> QED BY <1>3, <1>4, <1>5, <1>6 DEF Fine

\* Before its first final status a payout changes its status.
LEMMA EarlyFine ==
  ASSUME NEW w \in Worker, NEW p \in Payout, Usual(w, p), UNCHANGED Rest, Closings(p) = 0,
         row'[p].held /\ row'[p].status \notin Before => row[p].status \notin Before,
         Is(w, p, Ruling)' = 0,
         call'[w].order = p /\ call'[w].pc \in Telling => call'[w].pc = "tell" /\ Closings(p)' = 1,
         Honest(p)'
  PROVE  Fine(p)'
<1>1. Is(w, p, Telling) \in {0, 1} /\ Is(w, p, Ruling) \in {0, 1}
  BY DEF Is
<1>2. Callbacks(p)' = Callbacks(p) /\ Callbacks(p) \in Nat /\ Closings(p)' \in {0, 1, 2}
  BY Numbers DEF Callbacks, Closings, Usual, Basic, Rest
<1>3. Is(w, p, Telling)' <= Closings(p)' /\ Is(w, p, Telling)' \in {0, 1}
  BY <1>2 DEF Is, On
<1>4. Ruled(p)'
  BY <1>1, RuledKept DEF Rest
<1>5. Counted(p)'
  BY <1>1, <1>2, <1>3, CountedKept
<1>6. Heard(p)'
  BY HeardFresh DEF Rest
<1> QED BY <1>4, <1>5, <1>6 DEF Fine

LEMMA CreatingFine ==
  ASSUME NEW w \in Worker, NEW p \in Payout, Usual(w, p), UNCHANGED Rest,
         row[p].status \in {"CREATED", "VALIDATED"}, row'[p].status \in {"VALIDATED", "HOLD", "QUEUED"},
         row'[p].status = "QUEUED" => ~row[p].held,
         call'[w].pc \in {"validated", "held", "release"}
  PROVE  Fine(p)'
<1>1. Closings(p) = 0 /\ Is(w, p, Ruling)' = 0 /\ call'[w].pc \notin Telling \cup {"transfer", "refuse"}
  BY DEF Closings, Is, Ruling, Telling
<1>2. row'[p].held /\ row'[p].status \notin Before => row[p].status \notin Before
  BY DEF Usual, Before
<1>3. Honest(p)'
  <2>1. \A v \in Worker : On(v, p)' /\ call'[v].pc \in {"transfer", "refuse"} => On(v, p) /\ call'[v] = call[v]
    BY <1>1 DEF On, Usual, Local, Moved
  <2>2. Honest(p) /\ row[p].status \in Before
    BY DEF Usual, Fine, Before
  <2> QED BY <2>1, <2>2 DEF Honest, Before, Rest
<1> QED BY <1>1, <1>2, <1>3, EarlyFine

LEMMA RulingFine ==
  ASSUME NEW w \in Worker, NEW p \in Payout, Usual(w, p), UNCHANGED Rest, On(w, p), call[w].pc = "write",
         SetStatus(p, call[w].to), Goto(w, call[w].then)
  PROVE  Fine(p)'
<1>1. PayoutTypeOK /\ Knows(w) /\ Ruled(p) /\ Ordered(p) /\ UndisputedPayout(p) /\ row[p].provider
  BY DEF Usual, Basic, Fine
<1>2. /\ approval[p] # "none"
      /\ \/ call[w].to = "QUEUED" /\ call[w].then = "release"
         \/ call[w].to = "REJECTED" /\ call[w].then = "tell"
  BY <1>1 DEF Knows, Rules, On
<1>3. row[p].status = "HOLD"
  BY <1>1, <1>2, RulingFinds DEF Ruling
<1>4. row'[p].status = call[w].to
  BY <1>1, StatusSet
<1>5. call'[w].pc = call[w].then /\ On(w, p)'
  <2>1. "release" \in PC /\ "tell" \in PC
    BY PCs
  <2>2. CASE call[w].then = "release"
    BY <1>1, <2>1, <2>2, Going
  <2>3. CASE call[w].then = "tell"
    BY <1>1, <2>1, <2>3, Going
  <2> QED BY <1>2, <2>2, <2>3
<1>6. Is(w, p, Ruling) = 1 /\ Is(w, p, Ruling)' = 0
  BY <1>2, <1>5 DEF Is, Ruling
<1>7. Ruled(p)'
  <2>1. /\ IsFiniteSet(Among(p, Ruling)') /\ Cardinality(Among(p, Ruling)) \in Nat /\ Cardinality(Among(p, Ruling)') \in Nat
        /\ Cardinality(Among(p, Ruling)') + 1 = Cardinality(Among(p, Ruling))
    BY <1>1, <1>6, CountAmong DEF Usual, Ruled
  <2>2. decided[p].yes \in Nat /\ decided[p].no \in Nat
    BY <1>1, Numbers
  <2>3. Cardinality(Among(p, Ruling)) <= decided[p].yes + decided[p].no
    BY <1>1, <1>3, <2>1, <2>2 DEF Ruled, One, Before
  <2>4. /\ decided'[p] = decided[p] /\ approval'[p] # "none"
        /\ One(row'[p].held /\ row'[p].status \notin Before) \in {0, 1}
    BY <1>2 DEF Rest, One
  <2> QED BY <2>1, <2>2, <2>3, <2>4 DEF Ruled
<1>8. Closings(p) = 0 /\ (call[w].to = "REJECTED" => Closings(p)' = 1) /\ Closings(p)' \in {0, 1}
  BY <1>2, <1>3, <1>4 DEF Closings
<1>9. Counted(p)'
  <2>1. Callbacks(p)' = Callbacks(p) /\ Callbacks(p) \in Nat
    BY <1>1, Numbers DEF Callbacks, Rest
  <2>2. Is(w, p, Telling)' <= Closings(p)' /\ Is(w, p, Telling) = 0 /\ Is(w, p, Telling)' \in {0, 1}
    BY <1>2, <1>5, <1>8 DEF Is, Telling
  <2> QED BY <1>8, <2>1, <2>2, CountedKept
<1>10. Heard(p)'
  <2>1. call'[w].pc \in Telling => call'[w].pc = "tell"
    BY <1>2, <1>5 DEF Telling
  <2> QED BY <1>8, <2>1, HeardFresh DEF Rest
<1>11. Honest(p)'
  <2>1. \A v \in Worker : On(v, p)' /\ call'[v].pc \in {"transfer", "refuse"} => On(v, p) /\ call'[v] = call[v]
    BY <1>2, <1>5 DEF On, Usual, Local, Moved
  <2>2. Honest(p)
    BY DEF Usual, Fine
  <2> QED BY <1>2, <1>3, <1>4, <2>1, <2>2 DEF Honest, Before, Rest
<1> QED BY <1>7, <1>9, <1>10, <1>11 DEF Fine

LEMMA DecidedFine ==
  ASSUME NEW w \in Worker, NEW p \in Payout, Usual(w, p), UNCHANGED Slices, On(w, p), call[w].pc = "decided",
         Decided(w)
  PROVE  Fine(p)'
<1>1. PayoutTypeOK /\ Knows(w) /\ Ruled(p) /\ Ordered(p) /\ UndisputedPayout(p)
  BY DEF Usual, Basic, Fine
<1>2. approval[p] # "none"
  BY <1>1 DEF Knows, Rules, On
<1>3. row[p].status = "HOLD"
  BY <1>1, <1>2, RulingFinds DEF Ruling
<1>4. /\ AfterRead(p, "QUEUED", "release") = Writes(p, "QUEUED", "release")
      /\ AfterRead(p, "REJECTED", "tell") = Writes(p, "REJECTED", "tell")
  BY <1>3 DEF AfterRead, Writes, canTransition, NEXT
<1>5. call'[w] = AfterRead(p, "QUEUED", "release") \/ call'[w] = AfterRead(p, "REJECTED", "tell")
  BY <1>1 DEF Decided, On, PayoutTypeOK
<1>6. call'[w].pc = "write"
  BY <1>4, <1>5, WritesIs
<1>7. Is(w, p, Ruling)' <= Is(w, p, Ruling) /\ call'[w].pc \notin Telling \cup {"transfer", "refuse"}
  BY <1>6 DEF Is, Ruling, Telling
<1> QED BY <1>7, CalmFine DEF Slices

LEMMA DecideFine ==
  ASSUME NEW w \in Worker, NEW p \in Payout, Usual(w, p), On(w, p), DecideWrite(w)
  PROVE  Fine(p)'
<1>1. /\ call[w].pc = "decide" /\ call'[w].pc = "decided"
      /\ decided'[p].yes + decided'[p].no = decided[p].yes + decided[p].no + 1
      /\ On(w, p)' /\ UNCHANGED <<row, bank, transfers, told>>
  BY DecideGood DEF Usual, DecideWrite, Step, gateway, ledgers
<1>2. approval'[p] # "none"
  BY DEF DecideWrite, On, Usual, Basic, PayoutTypeOK
<1>3. /\ Is(w, p, Ruling) = 0 /\ Is(w, p, Ruling)' = 1 /\ Is(w, p, Telling) = 0 /\ Is(w, p, Telling)' = 0
      /\ call'[w].pc \notin Telling \cup {"transfer", "refuse"}
  BY <1>1 DEF Is, Ruling, Telling
<1>4. Ruled(p)'
  <2>1. /\ IsFiniteSet(Among(p, Ruling)') /\ Cardinality(Among(p, Ruling)) \in Nat /\ Cardinality(Among(p, Ruling)') \in Nat
        /\ Cardinality(Among(p, Ruling)') = Cardinality(Among(p, Ruling)) + 1
    BY <1>3, CountAmong DEF Usual, Fine, Ruled
  <2>2. decided[p].yes \in Nat /\ decided[p].no \in Nat
    BY Numbers DEF Usual, Basic
  <2>3. Cardinality(Among(p, Ruling)) + One(row[p].held /\ row[p].status \notin Before) <= decided[p].yes + decided[p].no
    BY DEF Usual, Fine, Ruled
  <2>4. row' = row /\ One(row[p].held /\ row[p].status \notin Before) \in {0, 1}
    BY <1>1 DEF One
  <2> QED BY <1>1, <1>2, <2>1, <2>2, <2>3, <2>4 DEF Ruled
<1>5. Counted(p)'
  <2>1. Callbacks(p)' = Callbacks(p) /\ Closings(p)' = Closings(p) /\ Callbacks(p) \in Nat /\ Closings(p) \in {0, 1, 2}
    BY <1>1, Numbers DEF Callbacks, Closings, Usual, Basic
  <2> QED BY <1>3, <2>1, CountedKept
<1>6. Honest(p)' /\ Heard(p)'
  BY <1>1, <1>3, HonestKept, HeardKept
<1> QED BY <1>4, <1>5, <1>6 DEF Fine

\* A payout with one final status that somebody is telling was not told yet, and nobody else tells it.
LEMMA TellAlone ==
  ASSUME PayoutTypeOK, NEW p \in Payout, Counted(p), Closings(p) = 1,
         NEW w \in Worker, On(w, p), call[w].pc \in Telling
  PROVE  /\ \A d \in Word : told[p][d] = 0
         /\ \A v \in Worker : On(v, p) /\ call[v].pc \in Telling => v = w
<1>1. Callbacks(p) \in Nat /\ \A d \in Word : told[p][d] \in 0..2
  BY Numbers
<1>2. IsFiniteSet(Among(p, Telling)) /\ w \in Among(p, Telling)
  BY DEF Counted, Among
<1>3. Cardinality(Among(p, Telling)) \in Nat /\ Cardinality(Among(p, Telling)) # 0
  BY <1>2, Several
<1>4. Callbacks(p) = 0 /\ Cardinality(Among(p, Telling)) = 1
  BY <1>1, <1>3 DEF Counted
<1>5. \A d \in Word : told[p][d] = 0
  <2>1. /\ told[p]["SUCCESS"] \in 0..2 /\ told[p]["FAILED"] \in 0..2
        /\ told[p]["REJECTED"] \in 0..2 /\ told[p]["REVERSED"] \in 0..2
    BY <1>1 DEF Word
  <2>2. told[p]["SUCCESS"] + told[p]["FAILED"] + told[p]["REJECTED"] + told[p]["REVERSED"] = 0
    BY <1>4 DEF Callbacks
  <2>3. /\ told[p]["SUCCESS"] = 0 /\ told[p]["FAILED"] = 0
        /\ told[p]["REJECTED"] = 0 /\ told[p]["REVERSED"] = 0
    BY <2>1, <2>2
  <2> QED BY <2>3 DEF Word
<1>6. ASSUME NEW v \in Worker, On(v, p), call[v].pc \in Telling PROVE v = w
  <2>1. v \in Among(p, Telling)
    BY <1>6 DEF Among
  <2>2. v # w => Cardinality(Among(p, Telling)) >= 2
    BY <1>2, <2>1, Several
  <2> QED BY <1>3, <1>4, <2>2
<1> QED BY <1>5, <1>6

\* A reversed payout is told of at most twice: three who tell it, or two and a callback of the
\* reversal, would be too many.
LEMMA TellCrowd ==
  ASSUME PayoutTypeOK, NEW p \in Payout, Counted(p), Heard(p),
         NEW w \in Worker, On(w, p), call[w].pc \in {"enqueue", "restore", "claim"},
         NEW v \in Worker, On(v, p), call[v].pc \in {"tell", "claim"}, v # w,
         call[w].pc = "claim" => call[w].word # "REVERSED",
         call[w].pc # "enqueue"
  PROVE  told[p]["REVERSED"] = 0 /\ \A u \in Worker : ~Sends(u, p, "REVERSED")
<1>1. Callbacks(p) \in Nat /\ Closings(p) \in {0, 1, 2} /\ told[p]["REVERSED"] \in 0..2
      /\ (told[p]["REVERSED"] > 0 => Callbacks(p) > 0)
  <2>1. /\ told[p]["SUCCESS"] \in 0..2 /\ told[p]["FAILED"] \in 0..2
        /\ told[p]["REJECTED"] \in 0..2 /\ told[p]["REVERSED"] \in 0..2
    BY Numbers DEF Word
  <2> QED BY <2>1, Numbers DEF Callbacks
<1>2. /\ IsFiniteSet(Among(p, Telling)) /\ w \in Among(p, Telling) /\ v \in Among(p, Telling)
      /\ \A u \in Worker : Sends(u, p, "REVERSED") => u \in Among(p, Telling) /\ u # v /\ u # w
  BY DEF Counted, Among, Sends, On, Telling
<1>3. Cardinality(Among(p, Telling)) \in Nat /\ Cardinality(Among(p, Telling)) >= 2
  BY <1>2, Several
<1>4. ASSUME NEW u \in Worker, Sends(u, p, "REVERSED") PROVE FALSE
  <2>1. Cardinality(Among(p, Telling)) >= 3
    BY <1>2, <1>4, Several
  <2> QED BY <1>1, <1>3, <2>1 DEF Counted
<1>5. told[p]["REVERSED"] = 0
  BY <1>1, <1>3 DEF Counted
<1> QED BY <1>4, <1>5

LEMMA TellReadFine ==
  ASSUME NEW w \in Worker, NEW p \in Payout, Usual(w, p), On(w, p), call[w].pc = "tell", UNCHANGED Slices,
         On(w, p)', call'[w].pc = "claim", call'[w].word = publicPayoutStatus(row[p].status),
         call'[w].word # "none"
  PROVE  Fine(p)'
<1>1. PayoutTypeOK /\ Counted(p) /\ Heard(p)
  BY DEF Usual, Basic, Fine
<1>2. /\ Is(w, p, Telling) = 1 /\ Is(w, p, Telling)' = 1 /\ Is(w, p, Ruling) = 0 /\ Is(w, p, Ruling)' = 0
      /\ call'[w].pc \notin {"transfer", "refuse"}
  BY DEF Is, Ruling, Telling
<1>3. Callbacks(p)' = Callbacks(p) /\ Closings(p)' = Closings(p) /\ Callbacks(p) \in Nat /\ Closings(p) \in {0, 1, 2}
  BY <1>1, Numbers DEF Callbacks, Closings, Slices
<1>4. Ruled(p)' /\ Counted(p)' /\ Honest(p)'
  BY <1>2, <1>3, RuledKept, CountedKept, HonestKept DEF Slices
<1>5. row[p].status \in Status
  BY <1>1, Numbers
<1>6. /\ Fits(call'[w].word, row[p].status)
      /\ call'[w].word = "SUCCESS" => row[p].status = "COMPLETED"
  BY <1>5 DEF publicPayoutStatus, Fits
<1>7. \A v \in Worker : v # w => \A d : (Holds(v, p, d)' <=> Holds(v, p, d)) /\ (Sends(v, p, d)' <=> Sends(v, p, d))
  BY DEF Holds, Sends, On, Usual, Local, Moved
<1>8. /\ \A d : ~Sends(w, p, d)'
      /\ \A d : Holds(w, p, d)' => d = call'[w].word
  BY DEF Holds, Sends
<1>9. (\E v \in Worker : On(v, p)' /\ call'[v].pc \in {"tell", "claim"})
        => \E v \in Worker : On(v, p) /\ call[v].pc \in {"tell", "claim"}
  OBVIOUS
<1>10. ASSUME Holds(w, p, "SUCCESS")'
       PROVE  told[p]["SUCCESS"] = 0 /\ \A v \in Worker : Holds(v, p, "SUCCESS")' => v = w
  <2>1. row[p].status = "COMPLETED"
    BY <1>6, <1>8, <1>10
  <2>2. /\ \A d \in Word : told[p][d] = 0
        /\ \A v \in Worker : On(v, p) /\ call[v].pc \in Telling => v = w
    BY <1>1, <2>1, TellAlone DEF Closings, Telling
  <2>3. \A v \in Worker : Holds(v, p, "SUCCESS")' => v = w
    BY <1>7, <2>2 DEF Holds, Holding, Telling
  <2> QED BY <2>2, <2>3 DEF Word
<1>11. ASSUME NEW v \in Worker, Holds(v, p, "SUCCESS")'
       PROVE  told[p]["SUCCESS"] = 0 /\ \A u \in Worker : Holds(u, p, "SUCCESS")' => u = v
  <2>1. CASE Holds(w, p, "SUCCESS")'
    BY <1>10, <1>11, <2>1
  <2>2. CASE ~Holds(w, p, "SUCCESS")'
    BY <1>1, <1>7, <1>11, <2>2 DEF Heard
  <2> QED BY <2>1, <2>2
<1>12. \A v \in Worker, d \in Word : Holds(v, p, d)' => Fits(d, row[p].status)
  BY <1>1, <1>6, <1>7, <1>8 DEF Heard
<1>13. \A v \in Worker : Sends(v, p, "REVERSED")' => Sends(v, p, "REVERSED")
  BY <1>7, <1>8
<1>14. told' = told /\ row' = row
  BY DEF Slices
<1>15. Heard(p)'
  BY <1>1, <1>9, <1>11, <1>12, <1>13, <1>14 DEF Heard
<1> QED BY <1>4, <1>15 DEF Fine

LEMMA TellClaimFine ==
  ASSUME NEW w \in Worker, NEW p \in Payout, Usual(w, p), On(w, p), call[w].pc = "claim", UNCHANGED Rest,
         On(w, p)', call'[w].pc = "enqueue", call'[w].word = call[w].word, call[w].word \in Word,
         row[p].callback # call[w].word, row'[p].callback = call[w].word, row'[p].status = row[p].status
  PROVE  Fine(p)'
<1>1. PayoutTypeOK /\ Counted(p) /\ Heard(p)
  BY DEF Usual, Basic, Fine
<1>2. /\ Is(w, p, Telling) = 1 /\ Is(w, p, Telling)' = 1 /\ Is(w, p, Ruling) = 0 /\ Is(w, p, Ruling)' = 0
      /\ call'[w].pc \notin {"transfer", "refuse"}
  BY DEF Is, Ruling, Telling
<1>3. Callbacks(p)' = Callbacks(p) /\ Closings(p)' = Closings(p) /\ Callbacks(p) \in Nat /\ Closings(p) \in {0, 1, 2}
  BY <1>1, Numbers DEF Callbacks, Closings, Rest
<1>4. Ruled(p)' /\ Counted(p)' /\ Honest(p)'
  <2>1. Ruled(p)'
    BY <1>2, RuledKept DEF Rest
  <2>2. Counted(p)'
    BY <1>2, <1>3, CountedKept
  <2>3. Honest(p)'
    BY <1>2, HonestKept DEF Rest
  <2> QED BY <2>1, <2>2, <2>3
<1>5. \A v \in Worker : /\ v # w => \A d : (Holds(v, p, d)' <=> Holds(v, p, d)) /\ (Sends(v, p, d)' <=> Sends(v, p, d))
                        /\ v # w => (On(v, p)' <=> On(v, p)) /\ call'[v] = call[v]
  BY DEF Holds, Sends, On, Usual, Local, Moved
<1>6. \A d : Holds(w, p, d)' <=> Holds(w, p, d)
  BY DEF Holds, Holding
<1>7. \A v \in Worker : \A d : Holds(v, p, d)' <=> Holds(v, p, d)
  BY <1>5, <1>6
<1>8. \A d : Sends(w, p, d)' => d = call[w].word
  BY DEF Sends
<1>9. told' = told /\ row'[p].status = row[p].status
  BY DEF Rest
<1>10. ASSUME NEW v \in Worker, Sends(v, p, "REVERSED")'
       PROVE  told[p]["REVERSED"] = 0 /\ \A u \in Worker : Sends(u, p, "REVERSED")' => u = v
  <2>1. CASE call[w].word = "REVERSED"
    <3>1. told[p]["REVERSED"] \in 0..2
      BY <1>1, Numbers DEF Word
    <3>2. ~(told[p]["REVERSED"] > 0 \/ \E u \in Worker : Sends(u, p, "REVERSED"))
      BY <1>1, <2>1 DEF Heard
    <3> QED BY <1>5, <1>10, <3>1, <3>2
  <2>2. CASE call[w].word # "REVERSED"
    <3>1. \A u \in Worker : Sends(u, p, "REVERSED")' => Sends(u, p, "REVERSED")
      BY <1>5, <1>8, <2>2
    <3> QED BY <1>1, <1>10, <3>1 DEF Heard
  <2> QED BY <2>1, <2>2
<1>11. ASSUME NEW v \in Worker, On(v, p)', call'[v].pc \in {"tell", "claim"},
              told[p]["REVERSED"] > 0 \/ \E u \in Worker : Sends(u, p, "REVERSED")',
              call[w].word # "REVERSED"
       PROVE  FALSE
  <2>1. v # w
    BY <1>11
  <2>2. On(v, p) /\ call[v].pc \in {"tell", "claim"}
    BY <1>5, <1>11, <2>1
  <2>3. told[p]["REVERSED"] = 0 /\ \A u \in Worker : ~Sends(u, p, "REVERSED")
    BY <1>1, <1>11, <2>1, <2>2, TellCrowd
  <2>4. \A u \in Worker : ~Sends(u, p, "REVERSED")'
    BY <1>5, <1>8, <1>11, <2>3
  <2> QED BY <1>11, <2>3, <2>4
<1>12. Heard(p)'
  <2>1. /\ \A d \in Word : told'[p][d] > 0 => Fits(d, row'[p].status)
        /\ \A v \in Worker, d \in Word : Holds(v, p, d)' => Fits(d, row'[p].status)
        /\ \A v \in Worker : Holds(v, p, "SUCCESS")' => /\ told'[p]["SUCCESS"] = 0
                                                        /\ \A u \in Worker : Holds(u, p, "SUCCESS")' => u = v
        /\ told'[p]["SUCCESS"] <= 1 /\ told'[p]["REVERSED"] <= 1
    BY <1>1, <1>7, <1>9 DEF Heard
  <2>2. \A v \in Worker : Sends(v, p, "REVERSED")' => /\ told'[p]["REVERSED"] = 0
                                                      /\ \A u \in Worker : Sends(u, p, "REVERSED")' => u = v
    BY <1>9, <1>10
  <2>3. (\E v \in Worker : On(v, p)' /\ call'[v].pc \in {"tell", "claim"})
           /\ (told'[p]["REVERSED"] > 0 \/ \E v \in Worker : Sends(v, p, "REVERSED")')
           => row'[p].callback = "REVERSED"
    BY <1>9, <1>11
  <2> QED BY <2>1, <2>2, <2>3 DEF Heard
<1> QED BY <1>4, <1>12 DEF Fine

\* The callback is queued.
LEMMA TellQueued ==
  ASSUME NEW w \in Worker, NEW p \in Payout, Usual(w, p), On(w, p), call[w].pc = "enqueue",
         UNCHANGED <<row, approval, queue, bank, transfers, decided>>, call'[w] = Idle,
         NEW word \in Word, call[w].word = word,
         told' = [told EXCEPT ![p][word] = IF @ < Repeated THEN @ + 1 ELSE @]
  PROVE  Fine(p)'
<1>1. PayoutTypeOK /\ Counted(p) /\ Heard(p)
  BY DEF Usual, Basic, Fine
<1>2. ~On(w, p)' /\ call'[w].pc = "idle"
  BY IdleIs, PayoutAssumption DEF On
<1>3. /\ Is(w, p, Telling) = 1 /\ Is(w, p, Telling)' = 0 /\ Is(w, p, Ruling) = 0 /\ Is(w, p, Ruling)' = 0
  BY <1>2 DEF Is, Ruling, Telling
<1>4. told \in [Payout -> [Word -> 0..2]]
  BY <1>1 DEF PayoutTypeOK, Repeated
<1>5. \A d \in Word : told'[p][d] = IF d = word /\ told[p][d] < 2 THEN told[p][d] + 1 ELSE told[p][d]
  BY <1>4 DEF Repeated
<1>6. Callbacks(p) \in Nat /\ Callbacks(p)' \in Nat /\ Callbacks(p)' <= Callbacks(p) + 1
  <2>1. /\ told[p]["SUCCESS"] \in 0..2 /\ told[p]["FAILED"] \in 0..2
        /\ told[p]["REJECTED"] \in 0..2 /\ told[p]["REVERSED"] \in 0..2
    BY <1>4 DEF Word
  <2>2. word \in {"SUCCESS", "FAILED", "REJECTED", "REVERSED"}
    BY DEF Word
  <2> DEFINE next(d) == told'[p][d]
             more(d) == IF d = word /\ told[p][d] < 2 THEN told[p][d] + 1 ELSE told[p][d]
  <2>3. /\ next("SUCCESS") = more("SUCCESS") /\ next("FAILED") = more("FAILED")
        /\ next("REJECTED") = more("REJECTED") /\ next("REVERSED") = more("REVERSED")
    BY <1>5 DEF Word
  <2>4. Callbacks(p) \in Nat /\ Callbacks(p)' \in Nat
    BY <2>1, <2>3 DEF Callbacks
  <2>5. CASE word = "SUCCESS"
    BY <2>1, <2>3, <2>5 DEF Callbacks
  <2>6. CASE word = "FAILED"
    BY <2>1, <2>3, <2>6 DEF Callbacks
  <2>7. CASE word = "REJECTED"
    BY <2>1, <2>3, <2>7 DEF Callbacks
  <2>8. CASE word = "REVERSED"
    BY <2>1, <2>3, <2>8 DEF Callbacks
  <2> QED BY <2>2, <2>4, <2>5, <2>6, <2>7, <2>8
<1>7. Closings(p)' = Closings(p) /\ Closings(p) \in {0, 1, 2}
  BY <1>1, Numbers DEF Closings
<1>8. Ruled(p)'
  BY <1>3, RuledKept
<1>9. Counted(p)'
  BY <1>3, <1>6, <1>7, CountedKept
<1>10. Honest(p)'
  <2>1. \A v \in Worker : On(v, p)' => On(v, p) /\ call'[v] = call[v]
    BY <1>2 DEF On, Usual, Local, Moved
  <2>2. Honest(p)
    BY DEF Usual, Fine
  <2> QED BY <2>1, <2>2 DEF Honest
<1>11. \A v \in Worker : \A d : /\ Holds(v, p, d)' => Holds(v, p, d) /\ v # w
                                /\ Sends(v, p, d)' => Sends(v, p, d) /\ v # w
  BY <1>2 DEF Holds, Sends, On, Usual, Local, Moved
<1>12. Holds(w, p, word) /\ Sends(w, p, word)
  BY DEF Holds, Sends, Holding
<1>13. /\ \A v \in Worker : On(v, p)' /\ call'[v].pc \in {"tell", "claim"} => On(v, p) /\ call[v].pc \in {"tell", "claim"}
  BY <1>2 DEF On, Usual, Local, Moved
<1>14. \A d \in Word : told'[p][d] > 0 => Fits(d, row[p].status)
  BY <1>1, <1>4, <1>5, <1>12 DEF Heard
<1>15. /\ \A v \in Worker : Holds(v, p, "SUCCESS")' => word # "SUCCESS"
       /\ \A v \in Worker : Sends(v, p, "REVERSED")' => word # "REVERSED"
  BY <1>1, <1>11, <1>12 DEF Heard
<1>16. /\ word = "SUCCESS" => told[p]["SUCCESS"] = 0
       /\ word = "REVERSED" => told[p]["REVERSED"] = 0
  BY <1>1, <1>12 DEF Heard
<1>17. /\ told'[p]["SUCCESS"] = IF word = "SUCCESS" THEN 1 ELSE told[p]["SUCCESS"]
       /\ told'[p]["REVERSED"] = IF word = "REVERSED" THEN 1 ELSE told[p]["REVERSED"]
  BY <1>5, <1>16 DEF Word
<1>18. told'[p]["REVERSED"] > 0 \/ (\E v \in Worker : Sends(v, p, "REVERSED")')
         => told[p]["REVERSED"] > 0 \/ \E v \in Worker : Sends(v, p, "REVERSED")
  BY <1>11, <1>12, <1>17
<1>19. Heard(p)'
  <2>1. \A v \in Worker, d \in Word : Holds(v, p, d)' => Fits(d, row'[p].status)
    BY <1>1, <1>11 DEF Heard
  <2>2. \A v \in Worker : Holds(v, p, "SUCCESS")' => /\ told'[p]["SUCCESS"] = 0
                                                     /\ \A u \in Worker : Holds(u, p, "SUCCESS")' => u = v
    BY <1>1, <1>11, <1>15, <1>17 DEF Heard
  <2>3. told'[p]["SUCCESS"] <= 1 /\ told'[p]["REVERSED"] <= 1
    BY <1>1, <1>17 DEF Heard
  <2>4. \A v \in Worker : Sends(v, p, "REVERSED")' => /\ told'[p]["REVERSED"] = 0
                                                      /\ \A u \in Worker : Sends(u, p, "REVERSED")' => u = v
    BY <1>1, <1>11, <1>15, <1>17 DEF Heard
  <2>5. (\E v \in Worker : On(v, p)' /\ call'[v].pc \in {"tell", "claim"})
           /\ (told'[p]["REVERSED"] > 0 \/ \E v \in Worker : Sends(v, p, "REVERSED")')
           => row'[p].callback = "REVERSED"
    BY <1>1, <1>13, <1>18 DEF Heard
  <2> QED BY <1>14, <2>1, <2>2, <2>3, <2>4, <2>5 DEF Heard
<1> QED BY <1>8, <1>9, <1>10, <1>19 DEF Fine

\* It could not be queued.
LEMMA TellFailed ==
  ASSUME NEW w \in Worker, NEW p \in Payout, Usual(w, p), On(w, p), call[w].pc = "enqueue", UNCHANGED Slices,
         On(w, p)', call'[w].pc = "restore", call'[w].word = call[w].word
  PROVE  Fine(p)'
<1>1. PayoutTypeOK
  BY DEF Usual, Basic
<1>2. /\ Is(w, p, Telling) = 1 /\ Is(w, p, Telling)' = 1 /\ Is(w, p, Ruling) = 0 /\ Is(w, p, Ruling)' = 0
      /\ call'[w].pc \notin {"transfer", "refuse"} /\ call[w].pc \in Telling
  BY DEF Is, Ruling, Telling
<1>3. Callbacks(p)' = Callbacks(p) /\ Closings(p)' = Closings(p) /\ Callbacks(p) \in Nat /\ Closings(p) \in {0, 1, 2}
  BY <1>1, Numbers DEF Callbacks, Closings, Slices
<1>4. Ruled(p)'
  BY <1>2, RuledKept DEF Slices
<1>5. Counted(p)'
  BY <1>2, <1>3, CountedKept
<1>6. Honest(p)'
  BY <1>2, HonestKept DEF Slices
<1>7. Heard(p)'
  BY <1>2, HeardKept DEF Slices
<1> QED BY <1>4, <1>5, <1>6, <1>7 DEF Fine

\* The callback status that was read is put back.
LEMMA TellRestored ==
  ASSUME NEW w \in Worker, NEW p \in Payout, Usual(w, p), On(w, p), call[w].pc = "restore", UNCHANGED Rest,
         row'[p].status = row[p].status, call'[w] = Idle
  PROVE  Fine(p)'
<1>1. PayoutTypeOK /\ Counted(p) /\ Heard(p)
  BY DEF Usual, Basic, Fine
<1>2. ~On(w, p)' /\ call'[w].pc = "idle"
  BY IdleIs, PayoutAssumption DEF On
<1>3. /\ Is(w, p, Telling) = 1 /\ Is(w, p, Telling)' = 0 /\ Is(w, p, Ruling) = 0 /\ Is(w, p, Ruling)' = 0
  BY <1>2 DEF Is, Ruling, Telling
<1>4. Callbacks(p)' = Callbacks(p) /\ Closings(p)' = Closings(p) /\ Callbacks(p) \in Nat /\ Closings(p) \in {0, 1, 2}
  BY <1>1, Numbers DEF Callbacks, Closings, Rest
<1>5. Ruled(p)'
  BY <1>3, RuledKept DEF Rest
<1>6. Counted(p)'
  BY <1>3, <1>4, CountedKept
<1>7. Honest(p)'
  BY <1>2, HonestKept DEF Rest
<1>8. \A v \in Worker : \A d : /\ Holds(v, p, d)' => Holds(v, p, d)
                               /\ Sends(v, p, d)' => Sends(v, p, d)
  BY <1>2 DEF Holds, Sends, On, Usual, Local, Moved
<1>9. ASSUME NEW v \in Worker, On(v, p)', call'[v].pc \in {"tell", "claim"}
      PROVE  told[p]["REVERSED"] = 0 /\ \A u \in Worker : ~Sends(u, p, "REVERSED")
  <2>1. v # w /\ On(v, p) /\ call[v].pc \in {"tell", "claim"}
    BY <1>2, <1>9 DEF On, Usual, Local, Moved
  <2> QED BY <1>1, <2>1, TellCrowd
<1>10. told' = told
  BY DEF Rest
<1>11. Heard(p)'
  <2>1. told[p]["REVERSED"] \in 0..2
    BY <1>1, Numbers DEF Word
  <2>2. ~((\E v \in Worker : On(v, p)' /\ call'[v].pc \in {"tell", "claim"})
           /\ (told'[p]["REVERSED"] > 0 \/ \E v \in Worker : Sends(v, p, "REVERSED")'))
    BY <1>8, <1>9, <1>10, <2>1
  <2> QED BY <1>1, <1>8, <1>10, <2>2 DEF Heard
<1> QED BY <1>5, <1>6, <1>7, <1>11 DEF Fine

\* The gateway's route moves a payout that has no final status yet.
LEMMA RouteFine ==
  ASSUME NEW w \in Worker, NEW p \in Payout, Usual(w, p), On(w, p), UNCHANGED Rest, SetStatus(p, row'[p].status),
         \/ /\ row[p].status = "QUEUED" /\ row'[p].status = "CANCELLED" /\ call'[w].pc = "tell"
         \/ /\ row[p].status = "QUEUED" /\ row'[p].status = "SUBMITTED" /\ call'[w].pc = "transfer"
         \/ /\ row[p].status = "SUBMITTED" /\ row'[p].status = "COMPLETED" /\ call'[w].pc = "tell"
            /\ bank[p] \in {"success", "reversed"}
         \/ /\ row[p].status = "SUBMITTED" /\ row'[p].status = "FAILED" /\ call'[w].pc = "tell"
            /\ bank[p] # "pending" /\ transfers[p] > 0
  PROVE  Fine(p)'
<1>1. Closings(p) = 0 /\ Is(w, p, Ruling)' = 0 /\ row[p].status \notin Before
      /\ (call'[w].pc \in Telling => call'[w].pc = "tell" /\ Closings(p)' = 1)
  BY DEF Closings, Is, Ruling, Telling, Before
<1>2. Honest(p) /\ Ordered(p)
  BY DEF Usual, Fine, Basic
<1>3. \A v \in Worker : v # w => call'[v] = call[v]
  BY DEF Usual, Local, Moved
<1>4. \A v \in Worker : On(v, p)' /\ call'[v].pc = "refuse" => On(v, p) /\ call[v].pc = "refuse"
  BY <1>3 DEF On
<1>5. call'[w].pc = "tell" => \A v \in Worker : On(v, p)' /\ call'[v].pc = "transfer" => On(v, p) /\ call[v].pc = "transfer"
  BY <1>3 DEF On
<1>6. Honest(p)'
  <2>1. \A v \in Worker : On(v, p)' /\ call'[v].pc = "refuse" => bank'[p] = "none" /\ transfers'[p] > 0
    BY <1>2, <1>4 DEF Honest, Rest
  <2>2. row'[p].status \in Before \cup {"QUEUED", "REJECTED", "CANCELLED"} =>
          transfers'[p] = 0 /\ \A v \in Worker : On(v, p)' => call'[v].pc # "transfer"
    BY <1>2, <1>5 DEF Honest, Rest, Before
  <2>3. bank[p] # "none" => transfers[p] > 0
    BY <1>2 DEF Ordered
  <2> QED BY <2>1, <2>2, <2>3 DEF Honest, Rest
<1> QED BY <1>1, <1>6, EarlyFine

\* A completed payout is reversed: all that was told of it until then is its success.
LEMMA ReversedFine ==
  ASSUME NEW w \in Worker, NEW p \in Payout, Usual(w, p), On(w, p), call[w].pc = "apply", UNCHANGED Rest,
         row[p].status = "COMPLETED", row'[p].status = "REVERSED", call'[w].pc = "tell"
  PROVE  Fine(p)'
<1>1. PayoutTypeOK /\ Counted(p) /\ Heard(p) /\ Honest(p)
  BY DEF Usual, Basic, Fine
<1>2. /\ Is(w, p, Telling) = 0 /\ Is(w, p, Telling)' \in {0, 1} /\ Is(w, p, Ruling) = 0 /\ Is(w, p, Ruling)' = 0
  BY DEF Is, Ruling, Telling
<1>3. Callbacks(p)' = Callbacks(p) /\ Closings(p)' = 2 /\ Callbacks(p) \in Nat /\ Closings(p) = 1
  BY <1>1, Numbers DEF Callbacks, Closings, Rest
<1>4. Ruled(p)'
  BY <1>2, RuledKept DEF Rest, Before
<1>5. Counted(p)'
  BY <1>2, <1>3, CountedKept
<1>6. Honest(p)'
  <2>1. \A v \in Worker : On(v, p)' /\ call'[v].pc \in {"transfer", "refuse"} => On(v, p) /\ call'[v] = call[v]
    BY DEF On, Usual, Local, Moved
  <2> QED BY <1>1, <2>1 DEF Honest, Before, Rest
<1>7. \A v \in Worker : \A d : /\ Holds(v, p, d)' => Holds(v, p, d)
                               /\ Sends(v, p, d)' => Sends(v, p, d)
  BY DEF Holds, Sends, Holding, On, Usual, Local, Moved
<1>8. \A d \in Word : Fits(d, "COMPLETED") => Fits(d, "REVERSED") /\ d = "SUCCESS"
  BY DEF Word, Fits
<1>9. \A v \in Worker : ~Sends(v, p, "REVERSED")
  BY <1>1, <1>8 DEF Heard, Sends, Holds, Holding, Word
<1>10. told[p]["REVERSED"] = 0 /\ told[p]["REVERSED"] \in 0..2
  <2>1. told[p]["REVERSED"] \in 0..2 /\ "REVERSED" \in Word
    BY <1>1, Numbers DEF Word
  <2> QED BY <1>1, <1>8, <2>1 DEF Heard
<1>11. told' = told
  BY DEF Rest
<1>12. Heard(p)'
  <2>1. \A d \in Word : told'[p][d] > 0 => Fits(d, row'[p].status)
    BY <1>1, <1>8, <1>11 DEF Heard
  <2>2. \A v \in Worker, d \in Word : Holds(v, p, d)' => Fits(d, row'[p].status)
    BY <1>1, <1>7, <1>8 DEF Heard
  <2>3. \A v \in Worker : Holds(v, p, "SUCCESS")' => /\ told'[p]["SUCCESS"] = 0
                                                     /\ \A u \in Worker : Holds(u, p, "SUCCESS")' => u = v
    BY <1>1, <1>7, <1>11 DEF Heard
  <2>4. told'[p]["SUCCESS"] <= 1 /\ told'[p]["REVERSED"] <= 1
    BY <1>1, <1>11 DEF Heard
  <2>5. (\A v \in Worker : ~Sends(v, p, "REVERSED")') /\ ~(told'[p]["REVERSED"] > 0)
    BY <1>7, <1>9, <1>10, <1>11
  <2> QED BY <2>1, <2>2, <2>3, <2>4, <2>5 DEF Heard
<1> QED BY <1>4, <1>5, <1>6, <1>12 DEF Fine

\* The one request that has the permission asks the gateway to pay.
LEMMA TransferFine ==
  ASSUME NEW w \in Worker, NEW p \in Payout, Usual(w, p), On(w, p), Transfer(w)
  PROVE  Fine(p)'
<1>1. /\ transfers'[p] = transfers[p] + 1 /\ UNCHANGED <<row, approval, queue, told, decided>>
      /\ call'[w] = Idle \/ (On(w, p)' /\ call'[w].pc \in {"lookup", "refuse"})
      /\ call'[w].pc = "refuse" => bank' = bank
      /\ call[w].pc = "transfer"
  BY TransferGood DEF Usual, Transfer, Step
<1>2. PayoutTypeOK /\ Ordered(p) /\ Accounted(p) /\ Honest(p) /\ UndisputedPayout(p) /\ row[p].provider
  BY DEF Usual, Basic, Fine
<1>3. transfers[p] = 0
  <2>1. w \in Permitted(p)
    BY <1>1 DEF Permitted, Permits
  <2>2. IsFiniteSet(Permitted(p)) /\ Cardinality(Permitted(p)) \in Nat /\ Cardinality(Permitted(p)) # 0
    BY <1>2, <2>1, Several DEF Accounted
  <2>3. transfers[p] \in Nat /\ decided[p].yes \in Nat /\ decided[p].no \in Nat
    BY <1>2, Numbers
  <2>4. Permissions(p) \in Nat /\ Permissions(p) <= 1
    BY <1>2, <2>3 DEF Permissions, UndisputedPayout
  <2>5. One(row[p].status = "QUEUED") \in {0, 1}
    BY DEF One
  <2> QED BY <1>2, <2>2, <2>3, <2>4, <2>5 DEF Accounted
<1>4. bank[p] = "none" /\ row[p].status \notin {"COMPLETED", "FAILED", "REVERSED"}
      /\ row[p].status \notin Before \cup {"QUEUED", "REJECTED", "CANCELLED"}
      /\ \A v \in Worker : On(v, p) => call[v].pc # "refuse"
  BY <1>1, <1>2, <1>3 DEF Ordered, Honest
<1>5. call'[w].pc \in {"idle", "lookup", "refuse"}
  BY <1>1, IdleIs
<1>6. /\ Is(w, p, Telling) = 0 /\ Is(w, p, Telling)' = 0 /\ Is(w, p, Ruling) = 0 /\ Is(w, p, Ruling)' = 0
      /\ call'[w].pc \notin Telling
  BY <1>1, <1>5 DEF Is, Ruling, Telling
<1>7. Callbacks(p)' = Callbacks(p) /\ Closings(p)' = Closings(p) /\ Callbacks(p) \in Nat /\ Closings(p) \in {0, 1, 2}
  BY <1>1, <1>2, Numbers DEF Callbacks, Closings
<1>8. Ruled(p)'
  BY <1>1, <1>6, RuledKept
<1>9. Counted(p)'
  BY <1>6, <1>7, CountedKept
<1>10. Heard(p)'
  BY <1>1, <1>6, HeardKept
<1>11. Honest(p)'
  <2>1. \A v \in Worker : v # w => call'[v] = call[v]
    BY DEF Usual, Local, Moved
  <2>2. \A v \in Worker : On(v, p)' /\ call'[v].pc = "refuse" => bank'[p] = "none" /\ transfers'[p] > 0
    BY <1>1, <1>3, <1>4, <2>1 DEF On
  <2> QED BY <1>1, <1>4, <2>2 DEF Honest
<1> QED BY <1>8, <1>9, <1>10, <1>11 DEF Fine

\* The gateway's own steps.
LEMMA GatewayFine ==
  ASSUME Basic, PayoutTypeOK', NEW p \in Payout, GatewaySettles(p) \/ GatewayChangesItsMind(p),
         NEW q \in Payout, Fine(q)
  PROVE  Fine(q)'
<1>1. /\ UNCHANGED <<row, approval, queue, transfers, told, decided, call>>
      /\ \A r \in Payout : r # p => bank'[r] = bank[r]
      /\ bank[p] # "none" /\ bank'[p] \notin {"none", "pending"}
      /\ bank[p] \in {"success", "reversed"} => bank'[p] \in {"success", "reversed"}
  BY GatewayStep
<1>2. \A S : Among(q, S)' = Among(q, S)
  BY <1>1 DEF Among, On
<1>3. Ruled(q)' /\ Counted(q)'
  BY <1>1, <1>2 DEF Fine, Ruled, Counted, Callbacks, Closings
<1>4. Heard(q)'
  BY <1>1 DEF Fine, Heard, Holds, Sends, On
<1>5. Honest(q)'
  <2>1. CASE q = p
    BY <1>1, <2>1 DEF Fine, Honest, On
  <2>2. CASE q # p
    BY <1>1, <2>2 DEF Fine, Honest, On
  <2> QED BY <2>1, <2>2
<1> QED BY <1>3, <1>4, <1>5 DEF Fine

\* A payout that has just been inserted.
LEMMA NewFine ==
  ASSUME Basic, PayoutTypeOK', NEW w \in Worker, NEW p \in Payout, Local(w, p), On(w, p), UNCHANGED Rest,
         row[p].status = "NONE", row'[p].status = "CREATED", call'[w].pc = "created"
  PROVE  Fine(p)'
<1>1. \A v \in Worker : On(v, p) => call[v].pc = "insert"
  BY IdleIs, PayoutAssumption DEF Basic, Knows, Placed, On
<1>2. \A v \in Worker : On(v, p)' => call'[v].pc \in {"insert", "created"}
  BY <1>1 DEF On, Local, Moved
<1>3. Among(p, Ruling)' = {} /\ Among(p, Telling)' = {}
  BY <1>2 DEF Among, Ruling, Telling
<1>4. IsFiniteSet({}) /\ Cardinality({}) = 0
  BY FS_EmptySet
<1>5. transfers'[p] = 0 /\ \A d \in Word : told'[p][d] = 0
  BY DEF Basic, Ordered, Rest
<1>6. Callbacks(p)' = 0 /\ Closings(p)' = 0
  BY <1>5 DEF Callbacks, Closings, Word
<1>7. decided'[p].yes \in Nat /\ decided'[p].no \in Nat
  BY DEF PayoutTypeOK
<1>8. Ruled(p)'
  BY <1>3, <1>4, <1>7 DEF Ruled, One, Before
<1>9. Counted(p)'
  BY <1>3, <1>4, <1>6 DEF Counted
<1>10. Honest(p)'
  BY <1>2, <1>5 DEF Honest
<1>11. Heard(p)'
  <2>1. \A v \in Worker : \A d : ~Holds(v, p, d)' /\ ~Sends(v, p, d)'
    BY <1>2 DEF Holds, Sends, Holding
  <2> QED BY <1>5, <2>1 DEF Heard, Word
<1> QED BY <1>8, <1>9, <1>10, <1>11 DEF Fine

\* What a step about another payout keeps.
LEMMA FarFine ==
  ASSUME NEW w \in Worker, NEW p \in Payout, Local(w, p), NEW q \in Payout, q # p, Fine(q)
  PROVE  Fine(q)'
<1>1. /\ \A v \in Worker : (On(v, q)' <=> On(v, q)) /\ (On(v, q) => call'[v] = call[v])
      /\ \A S : Among(q, S)' = Among(q, S)
  BY FarCalls, FarSets
<1>2. SameSlice(q)
  BY DEF Local
<1>3. Ruled(q)' /\ Counted(q)'
  BY <1>1, <1>2 DEF Fine, Ruled, Counted, Callbacks, Closings, SameSlice
<1>4. Honest(q)'
  BY <1>1, <1>2 DEF Fine, Honest, SameSlice
<1>5. \A v \in Worker : \A d : (Holds(v, q, d)' <=> Holds(v, q, d)) /\ (Sends(v, q, d)' <=> Sends(v, q, d))
  BY <1>1 DEF Holds, Sends
<1>6. (\E v \in Worker : On(v, q)' /\ call'[v].pc \in {"tell", "claim"})
        => \E v \in Worker : On(v, q) /\ call[v].pc \in {"tell", "claim"}
  BY <1>1
<1>7. Heard(q)'
  BY <1>2, <1>5, <1>6 DEF Fine, Heard, SameSlice
<1> QED BY <1>3, <1>4, <1>7 DEF Fine

\* A request ends.
LEMMA EndFine ==
  ASSUME NEW w \in Worker, NEW p \in Payout, Usual(w, p), UNCHANGED <<row, bank, transfers, told, decided>>,
         approval[p] # "none" => approval'[p] # "none", call'[w] = Idle
  PROVE  Fine(p)'
<1>1. ~On(w, p)'
  BY IdleIs, PayoutAssumption DEF On
<1>2. Is(w, p, Ruling)' = 0 /\ Is(w, p, Ruling) \in {0, 1}
  BY <1>1 DEF Is
<1> QED BY <1>1, <1>2, CalmFine DEF On

\* A request goes on, or begins, and neither rules on p nor tells of it.
LEMMA GoFine ==
  ASSUME NEW w \in Worker, NEW p \in Payout, Usual(w, p), UNCHANGED <<row, approval, bank, transfers, told, decided>>,
         call'[w].order = p => call'[w].pc \notin Telling \cup Ruling \cup {"transfer", "refuse"}
  PROVE  Fine(p)'
<1>1. Is(w, p, Ruling)' = 0 /\ Is(w, p, Ruling) \in {0, 1}
  BY DEF Is, On
<1> QED BY <1>1, CalmFine

LEMMA MoveIfFine ==
  ASSUME NEW w \in Worker, NEW p \in Payout, Usual(w, p), On(w, p), UNCHANGED Rest,
         NEW from, NEW to, NEW pc \in PC \ {"over"}, MoveIf(w, from, to, pc)
  PROVE  \/ Fine(p)'
         \/ /\ row[p].status = from /\ row'[p].status = to /\ call'[w].pc = pc
            /\ SetStatus(p, row'[p].status)
<1>1. PayoutTypeOK /\ "over" \in PC
  BY PCs DEF Usual, Basic
<1>2. CASE UNCHANGED row /\ Over(w)
  <2>1. call'[w] = Idle
    BY <1>1, <1>2, Going DEF Over
  <2> QED BY <1>2, <2>1, EndFine DEF Rest
<1>3. CASE row[p].status = from /\ SetStatus(p, to) /\ Goto(w, pc)
  <2>1. call'[w].pc = pc
    BY <1>1, <1>3, Going
  <2>2. row'[p].status = to
    BY <1>1, <1>3, StatusSet
  <2> QED BY <1>3, <2>1, <2>2
<1> QED BY <1>2, <1>3 DEF MoveIf, StillAt, On

LEMMA BeginFine ==
  ASSUME NEW w \in Worker, NEW p \in Payout, Usual(w, p),
         \/ CreateRead(w) \/ DecideRead(w) \/ SyncHinted(w) \/ AssignRead(w) \/ OperatorActs(w)
         \/ w = Cron /\ \E q \in Payout : SyncSwept(q) \/ SweepRead(q)
  PROVE  Fine(p)'
<1>1. PayoutTypeOK /\ call \in [Worker -> Call] /\ row[p].provider
  BY DEF Usual, Basic, PayoutTypeOK
<1>2. UNCHANGED <<row, approval, bank, transfers, told, decided>>
  BY DEF CreateRead, DecideRead, SyncHinted, AssignRead, OperatorActs, SyncSwept, SweepRead, gateway, ledgers
<1>3. ASSUME NEW c, c.pc \in {"insert", "decide", "lookup", "assign", "sweep"}, Start(w, c)
      PROVE  Fine(p)'
  <2>1. call'[w] = c
    BY <1>1, <1>3 DEF Start
  <2>2. call'[w].pc \notin Telling \cup Ruling \cup {"transfer", "refuse"}
    BY <1>3, <2>1 DEF Telling, Ruling
  <2> QED BY <1>2, <2>2, GoFine
<1>4. CASE OperatorActs(w)
  <2>1. PICK q \in Payout, action \in DOMAIN Wanted :
           ~row[q].provider /\ Start(w, AfterRead(q, Wanted[action][1], Wanted[action][2]))
    BY <1>4 DEF OperatorActs, ByHand
  <2>2. Wanted[action][1] \in Status /\ Wanted[action][2] \in Then
    BY Statuses DEF Wanted, Then, QueueAfter
  <2>3. call'[w] = AfterRead(q, Wanted[action][1], Wanted[action][2])
    BY <1>1, <2>1 DEF Start
  <2>4. call'[w].order \in {q, NoPayout}
    <3>1. AfterRead(q, Wanted[action][1], Wanted[action][2]).order \in {q, NoPayout}
      BY <1>1, <2>2, AfterReadIs, AtIs, IdleIs, WritesIs DEF Then, PC, QueueAfter
    <3> QED BY <2>3, <3>1
  <2>5. call'[w].order # p
    BY <1>1, <2>1, <2>4, PayoutAssumption
  <2> QED BY <1>2, <2>5, GoFine
<1>5. CASE CreateRead(w)
  <2>1. PICK q \in Payout : Start(w, At("insert", q))
    BY <1>5 DEF CreateRead
  <2>2. At("insert", q).pc = "insert"
    BY AtIs DEF PC
  <2> QED BY <1>3, <2>1, <2>2
<1>6. CASE DecideRead(w)
  <2>1. PICK q \in Payout, to \in {"QUEUED", "REJECTED"} : Start(w, [At("decide", q) EXCEPT !.to = to])
    BY <1>6 DEF DecideRead
  <2> DEFINE c == [At("decide", q) EXCEPT !.to = to]
  <2>2. c.pc = "decide" /\ Start(w, c)
    BY <2>1, AtIs DEF PC
  <2> HIDE DEF c
  <2> QED BY <1>3, <2>2
<1>7. CASE SyncHinted(w)
  <2>1. PICK q \in Payout : Start(w, [At("lookup", q) EXCEPT !.seen = row[q].status, !.hint = TRUE])
    BY <1>7 DEF SyncHinted
  <2> DEFINE c == [At("lookup", q) EXCEPT !.seen = row[q].status, !.hint = TRUE]
  <2>2. c.pc = "lookup" /\ Start(w, c)
    BY <2>1, AtIs DEF PC
  <2> HIDE DEF c
  <2> QED BY <1>3, <2>2
<1>8. CASE AssignRead(w)
  <2>1. PICK q \in Payout : Start(w, At("assign", q))
    BY <1>8 DEF AssignRead
  <2>2. At("assign", q).pc = "assign"
    BY AtIs DEF PC
  <2> QED BY <1>3, <2>1, <2>2
<1>9. CASE w = Cron /\ \E q \in Payout : SyncSwept(q) \/ SweepRead(q)
  <2>1. PICK q \in Payout : SyncSwept(q) \/ SweepRead(q)
    BY <1>9
  <2> DEFINE c == [At("lookup", q) EXCEPT !.seen = "SUBMITTED"]
             d == [At("sweep", q) EXCEPT !.count = queue[q].count]
  <2>2. c.pc = "lookup" /\ d.pc = "sweep" /\ (Start(w, c) \/ Start(w, d))
    BY <1>9, <2>1, AtIs DEF SyncSwept, SweepRead, PC
  <2> HIDE DEF c, d
  <2> QED BY <1>3, <2>2
<1> QED BY <1>4, <1>5, <1>6, <1>7, <1>8, <1>9

LEMMA ServerFine ==
  ASSUME NEW w \in Worker, NEW p \in Payout, Usual(w, p), On(w, p), call[w].pc # "insert", call[w].pc # "idle",
         ServerStep(w) \/ LookupUnknown(w) \/ Crash(w)
  PROVE  Fine(p)'
<1>t. /\ PayoutTypeOK /\ call \in [Worker -> Call] /\ call[w].order = p /\ row[p].provider
      /\ Placed(w) /\ Creates(w) /\ Rules(w) /\ Moves(w) /\ Releases(w) /\ Looks(w)
  BY DEF Usual, Basic, PayoutTypeOK, Knows, On
<1>c. call[w] \in Call /\ "over" \in PC
  BY <1>t, PCs
<1>o. Over(w) => call'[w] = Idle
  BY <1>t, <1>c, Going DEF Over
<1>q. call[w].pc \notin OnQueue
  BY <1>t DEF Placed
<1>0. CASE LookupUnknown(w) \/ Crash(w)
  BY <1>0, <1>o, EndFine DEF LookupUnknown, Crash, gateway, ledgers
<1>1. CASE CreateInsert(w) \/ TransitionRead(w) \/ AssignWrite(w) \/ SweepWrite(w) \/ QueueFollows(w) \/ PostJournal(w)
  BY <1>1, <1>q DEF CreateInsert, TransitionRead, AssignWrite, SweepWrite, QueueFollows, PostJournal, Step, OnQueue, QueueAfter
<1>2. CASE CreateValidated(w)
  <2>1. /\ call[w].pc = "created" /\ SetStatus(p, "VALIDATED") /\ Goto(w, "validated") /\ UNCHANGED Rest
        /\ "validated" \in PC /\ "validated" # "over"
    BY <1>2, <1>t DEF CreateValidated, Step, Rest, gateway, ledgers, PC
  <2>2. call'[w].pc = "validated" /\ row'[p].status = "VALIDATED" /\ row[p].status = "CREATED"
    BY <1>t, <2>1, Going, StatusSet DEF Creates, Creating, Stage
  <2> QED BY <2>1, <2>2, CreatingFine
<1>3. CASE CreateRoute(w)
  <2>1. /\ call[w].pc = "validated" /\ UNCHANGED Rest /\ "held" \in PC /\ "release" \in PC
        /\ row[p].status = "VALIDATED"
    BY <1>3, <1>t DEF CreateRoute, Step, Rest, gateway, ledgers, PC, Creates, Creating, Stage
  <2>2. CASE row[p].held /\ SetStatus(p, "HOLD") /\ Goto(w, "held")
    <3>1. call'[w].pc = "held" /\ row'[p].status = "HOLD"
      BY <1>t, <2>1, <2>2, Going, StatusSet
    <3> QED BY <2>1, <3>1, CreatingFine
  <2>3. CASE ~row[p].held /\ SetStatus(p, "QUEUED") /\ Goto(w, "release")
    <3>1. call'[w].pc = "release" /\ row'[p].status = "QUEUED"
      BY <1>t, <2>1, <2>3, Going, StatusSet
    <3> QED BY <2>1, <2>3, <3>1, CreatingFine
  <2> QED BY <1>3, <1>t, <2>2, <2>3 DEF CreateRoute, approvalNeeded
<1>4. CASE CreateApproval(w)
  <2>1. approval'[p] = "PENDING" /\ call'[w] = Idle /\ UNCHANGED <<row, bank, transfers, told, decided>>
    BY <1>4, <1>t, <1>o DEF CreateApproval, PayoutTypeOK, gateway, ledgers
  <2> QED BY <2>1, EndFine
<1>5. CASE Release(w)
  <2>1. Goto(w, "dispatch") /\ UNCHANGED <<row, approval, bank, transfers, told, decided>>
    BY <1>5, <1>t DEF Release, gateway, ledgers
  <2>2. call'[w].pc = "dispatch"
    BY <1>t, <2>1, Going DEF PC
  <2>3. call'[w].pc \notin Telling \cup Ruling \cup {"transfer", "refuse"}
    BY <2>2 DEF Telling, Ruling
  <2> QED BY <2>1, <2>3, GoFine
<1>6. CASE DecideWrite(w)
  BY <1>6, DecideFine
<1>7. CASE Decided(w)
  <2>1. UNCHANGED Slices /\ call[w].pc = "decided"
    BY <1>7 DEF Decided, Step, Slices, gateway, ledgers
  <2> QED BY <1>7, <2>1, DecidedFine
<1>8. CASE TransitionWrite(w)
  <2>1. /\ call[w].pc = "write" /\ SetStatus(p, call[w].to) /\ Goto(w, call[w].then) /\ UNCHANGED Rest
    BY <1>8, <1>t DEF TransitionWrite, Step, Rest, gateway, ledgers
  <2> QED BY <2>1, RulingFine
<1>9. CASE TellRead(w)
  <2> DEFINE word == publicPayoutStatus(row[p].status)
  <2>1. call[w].pc = "tell" /\ UNCHANGED Slices
    BY <1>9 DEF TellRead, Step, Slices, gateway, ledgers
  <2>2. CASE Over(w)
    BY <2>1, <2>2, <1>o, EndFine DEF Slices
  <2>3. CASE word # "none" /\ call' = [call EXCEPT ![w] = [At("claim", p) EXCEPT !.word = word, !.prior = row[p].callback]]
    <3> DEFINE c == [At("claim", p) EXCEPT !.word = word, !.prior = row[p].callback]
    <3>1. c.pc = "claim" /\ c.order = p /\ c.word = word
      BY AtIs DEF PC
    <3> HIDE DEF c, word
    <3>2. call'[w] = c
      BY <1>t, <2>3 DEF c
    <3>3. On(w, p)' /\ call'[w].pc = "claim" /\ call'[w].word = word
      BY <3>1, <3>2 DEF On
    <3> QED BY <2>1, <2>3, <3>3, TellReadFine DEF word
  <2> QED BY <1>9, <1>t, <2>2, <2>3 DEF TellRead
<1>10. CASE TellClaim(w)
  <2>1. call[w].pc = "claim" /\ UNCHANGED Rest /\ call[w].word \in Word
    <3>1. call[w].pc = "claim" /\ UNCHANGED Rest
      BY <1>10 DEF TellClaim, Step, Rest, gateway, ledgers
    <3> QED BY <1>t, <1>c, <3>1 DEF Looks, Call
  <2>2. CASE Over(w) /\ UNCHANGED row
    BY <2>1, <2>2, <1>o, EndFine DEF Rest
  <2>3. CASE /\ row[p].callback # call[w].word /\ row' = [row EXCEPT ![p].callback = call[w].word]
             /\ call' = [call EXCEPT ![w].pc = "enqueue"]
    <3>1. On(w, p)' /\ call'[w].pc = "enqueue" /\ call'[w].word = call[w].word
      BY <1>t, <1>c, <2>3 DEF On, Call
    <3>2. row'[p].callback = call[w].word /\ row'[p].status = row[p].status
      BY <1>t, <2>3 DEF PayoutTypeOK, Row
    <3> QED BY <2>1, <2>3, <3>1, <3>2, TellClaimFine
  <2> QED BY <1>10, <1>t, <2>2, <2>3 DEF TellClaim, Claimable
<1>11. CASE TellEnqueue(w)
  <2>1. call[w].pc = "enqueue" /\ UNCHANGED <<row, approval, queue, bank, transfers, decided>>
    BY <1>11 DEF TellEnqueue, Step, gateway
  <2>2. call[w].word \in Word
    BY <1>t, <1>c, <2>1 DEF Looks, Call
  <2>3. CASE told' = [told EXCEPT ![p][call[w].word] = IF @ < Repeated THEN @ + 1 ELSE @] /\ Over(w)
    BY <2>1, <2>2, <2>3, <1>o, TellQueued
  <2>4. CASE call' = [call EXCEPT ![w].pc = "restore"] /\ UNCHANGED told
    <3>1. On(w, p)' /\ call'[w].pc = "restore" /\ call'[w].word = call[w].word /\ UNCHANGED Slices
      BY <1>t, <1>c, <2>1, <2>4 DEF On, Call, Slices
    <3> QED BY <2>1, <3>1, TellFailed
  <2> QED BY <1>11, <1>t, <2>3, <2>4 DEF TellEnqueue
<1>12. CASE TellRestore(w)
  <2>1. call[w].pc = "restore" /\ UNCHANGED Rest /\ row' = [row EXCEPT ![p].callback = call[w].prior] /\ call'[w] = Idle
    BY <1>12, <1>t, <1>o DEF TellRestore, Step, Rest, gateway, ledgers
  <2>2. row'[p].status = row[p].status
    BY <1>t, <2>1 DEF PayoutTypeOK, Row
  <2> QED BY <2>1, <2>2, TellRestored
<1>13. CASE DispatchRead(w)
  <2>1. UNCHANGED <<row, approval, bank, transfers, told, decided>>
    BY <1>13 DEF DispatchRead, gateway, ledgers
  <2>2. CASE Over(w)
    BY <2>1, <2>2, <1>o, EndFine
  <2>3. ASSUME NEW pc \in {"block", "send"}, Goto(w, pc) PROVE Fine(p)'
    <3>1. call'[w].pc = pc
      BY <1>t, <2>3, Going DEF PC
    <3>2. call'[w].pc \notin Telling \cup Ruling \cup {"transfer", "refuse"}
      BY <3>1 DEF Telling, Ruling
    <3> QED BY <2>1, <3>2, GoFine
  <2> QED BY <1>13, <2>2, <2>3 DEF DispatchRead
<1>14. CASE DispatchBlock(w)
  <2>1. MoveIf(w, "QUEUED", "CANCELLED", "tell") /\ UNCHANGED Rest /\ "tell" \in PC \ {"over"}
    BY <1>14 DEF DispatchBlock, Rest, gateway, ledgers, PC
  <2> QED BY <2>1, MoveIfFine, RouteFine
<1>15. CASE DispatchClaim(w)
  <2>1. MoveIf(w, "QUEUED", "SUBMITTED", "transfer") /\ UNCHANGED Rest /\ "transfer" \in PC \ {"over"}
    BY <1>15 DEF DispatchClaim, Rest, gateway, ledgers, PC
  <2> QED BY <2>1, MoveIfFine, RouteFine
<1>16. CASE DispatchRefused(w)
  <2>1. MoveIf(w, "SUBMITTED", "FAILED", "tell") /\ UNCHANGED Rest /\ "tell" \in PC \ {"over"} /\ call[w].pc = "refuse"
    BY <1>16 DEF DispatchRefused, Step, Rest, gateway, ledgers, PC
  <2>2. bank[p] # "pending" /\ transfers[p] > 0
    BY <2>1 DEF Usual, Fine, Honest
  <2> QED BY <2>1, <2>2, MoveIfFine, RouteFine
<1>17. CASE Transfer(w)
  BY <1>17, TransferFine
<1>18. CASE Lookup(w)
  <2>1. UNCHANGED <<row, approval, bank, transfers, told, decided>>
    BY <1>18 DEF Lookup, ledgers
  <2>2. CASE Over(w)
    BY <2>1, <2>2, <1>o, EndFine
  <2>3. CASE call' = [call EXCEPT ![w].pc = "apply", ![w].answer = bank[p]]
    <3>1. call'[w].pc = "apply"
      BY <1>t, <1>c, <2>3 DEF Call
    <3>2. call'[w].pc \notin Telling \cup Ruling \cup {"transfer", "refuse"}
      BY <3>1 DEF Telling, Ruling
    <3> QED BY <2>1, <3>2, GoFine
  <2> QED BY <1>18, <1>t, <2>2, <2>3 DEF Lookup
<1>19. CASE Apply(w)
  <2>1. /\ call[w].pc = "apply" /\ UNCHANGED Rest /\ "tell" \in PC \ {"over"}
    BY <1>19 DEF Apply, Step, Rest, ledgers, PC
  <2>2. CASE UNCHANGED row /\ Over(w)
    BY <2>1, <2>2, <1>o, EndFine DEF Rest
  <2> DEFINE to == Verdict(call[w]).to
             seen == call[w].seen
  <2>3. CASE to # seen /\ MoveIf(w, seen, to, "tell")
    <3>1. \/ seen = "SUBMITTED" /\ to = "COMPLETED" /\ call[w].answer = "success"
          \/ seen = "SUBMITTED" /\ to = "FAILED"
          \/ seen = "COMPLETED" /\ to = "REVERSED"
      BY <1>t, <2>1, <2>3 DEF Verdict, PaidAfterFailed, Looks
    <3>2. /\ bank[p] \notin {"none", "pending"} /\ transfers[p] > 0
          /\ call[w].answer = "success" => bank[p] \in {"success", "reversed"}
      BY <1>t, <2>1 DEF Looks, Usual, Basic, Ordered
    <3> HIDE DEF to, seen
    <3>3. \/ Fine(p)'
          \/ /\ row[p].status = seen /\ row'[p].status = to /\ call'[w].pc = "tell"
             /\ SetStatus(p, row'[p].status)
      BY <2>1, <2>3, MoveIfFine
    <3>4. CASE seen = "COMPLETED" /\ to = "REVERSED"
      BY <2>1, <3>3, <3>4, ReversedFine
    <3>5. CASE seen = "SUBMITTED"
      BY <2>1, <3>1, <3>2, <3>3, <3>5, RouteFine
    <3> QED BY <3>1, <3>4, <3>5
  <2> QED BY <1>19, <2>2, <2>3 DEF Apply
<1> QED BY <1>0, <1>1, <1>2, <1>3, <1>4, <1>5, <1>6, <1>7, <1>8, <1>9, <1>10, <1>11, <1>12, <1>13, <1>14, <1>15,
           <1>16, <1>17, <1>18, <1>19 DEF ServerStep

-----------------------------------------------------------------------------
(***************************************************************************)
(* The invariant, and the theorems it gives.                               *)
(***************************************************************************)
AllFine == \A p \in Payout : row[p].provider /\ UndisputedPayout(p) => Fine(p)

LEMMA UsualStep ==
  ASSUME Basic, Basic', AllFine, NEW w \in Worker, NEW p \in Payout, Good(w, p),
         row'[p].provider = row[p].provider, row'[p].held = row[p].held,
         decided'[p].yes + decided'[p].no >= decided[p].yes + decided[p].no,
         row'[p].provider /\ UndisputedPayout(p)' => (Usual(w, p) => Fine(p)')
  PROVE  AllFine'
<1>1. \A q \in Payout : q # p => /\ row'[q] = row[q] /\ decided'[q] = decided[q]
                                 /\ Fine(q) => Fine(q)'
  BY FarFine DEF Good, Local, SameSlice
<1>2. \A q \in Payout : q # p /\ row'[q].provider /\ UndisputedPayout(q)' => Fine(q)'
  BY <1>1 DEF AllFine, UndisputedPayout
<1>3. ASSUME row'[p].provider, UndisputedPayout(p)' PROVE Fine(p)'
  <2>1. decided[p].yes \in Nat /\ decided[p].no \in Nat /\ decided'[p].yes \in Nat /\ decided'[p].no \in Nat
    BY DEF Basic, PayoutTypeOK
  <2>2. UndisputedPayout(p)
    BY <1>3, <2>1 DEF UndisputedPayout
  <2>3. Usual(w, p)
    BY <1>3, <2>2 DEF Usual, AllFine, Good, Basic
  <2> QED BY <1>3, <2>3
<1> QED BY <1>2, <1>3 DEF AllFine

LEMMA DecidedStays ==
  ASSUME NEW w \in Worker, ServerStep(w) \/ LookupUnknown(w) \/ Crash(w), ~DecideWrite(w)
  PROVE  UNCHANGED decided
BY DEF ServerStep, LookupUnknown, Crash, CreateInsert, CreateValidated, CreateRoute,
       CreateApproval, Release, Decided, TransitionRead, TransitionWrite, TellRead,
       TellClaim, TellEnqueue, TellRestore, DispatchRead, DispatchBlock, DispatchClaim, Transfer,
       DispatchRefused, Lookup, Apply, AssignWrite, SweepWrite, QueueFollows, PostJournal

LEMMA FineStep ==
  ASSUME Basic, Basic', AllFine, Next
  PROVE  AllFine'
<1>t. PayoutTypeOK /\ PayoutTypeOK' /\ Cron \in Worker /\ Request \subseteq Worker
      /\ \A p \in Payout : /\ decided[p].yes \in Nat /\ decided[p].no \in Nat
                           /\ decided'[p].yes \in Nat /\ decided'[p].no \in Nat
  BY DEF Basic, PayoutTypeOK, Worker
<1>1. ASSUME NEW w \in Request, CreateRead(w) \/ DecideRead(w) \/ SyncHinted(w) \/ AssignRead(w) \/ OperatorActs(w)
      PROVE  AllFine'
  <2>1. PICK p \in Payout : Good(w, p)
    BY <1>t, <1>1, BeginGood, OperatorGood
  <2>2. UNCHANGED <<row, decided>>
    BY <1>1 DEF CreateRead, DecideRead, SyncHinted, AssignRead, OperatorActs
  <2>3. Usual(w, p) => Fine(p)'
    BY <1>t, <1>1, BeginFine
  <2> QED BY <1>t, <2>1, <2>2, <2>3, UsualStep
<1>2. ASSUME NEW p \in Payout, SyncSwept(p) \/ SweepRead(p) PROVE AllFine'
  <2>1. Good(Cron, p)
    BY <1>t, <1>2, CronGood
  <2>2. UNCHANGED <<row, decided>>
    BY <1>2 DEF SyncSwept, SweepRead
  <2>3. Usual(Cron, p) => Fine(p)'
    BY <1>t, <1>2, BeginFine
  <2> QED BY <1>t, <2>1, <2>2, <2>3, UsualStep
<1>3. ASSUME NEW w \in Worker, ServerStep(w) \/ LookupUnknown(w) \/ Crash(w) PROVE AllFine'
  <2>1. Placed(w) /\ (call[w].pc = "idle" => call[w] = Idle)
    BY DEF Basic, Knows, Placed
  <2>2. call[w].pc # "idle"
    BY <1>3, <2>1, StepsOn DEF Crash
  <2>3. call[w].order \in Payout
    BY <2>1, <2>2 DEF Placed
  <2>4. PICK p \in Payout : On(w, p)
    BY <2>3 DEF On
  <2>5. Good(w, p)
    BY <1>t, <1>3, <2>2, <2>4, ServerGood
  <2>6. CASE call[w].pc # "insert"
    <3>1. row[p].status # "NONE"
      BY <2>1, <2>2, <2>4, <2>6 DEF Placed, On
    <3>2. row'[p].provider = row[p].provider /\ row'[p].held = row[p].held
      BY <2>5, <3>1 DEF Good, Kept
    <3>3. decided'[p].yes + decided'[p].no >= decided[p].yes + decided[p].no
      <4>1. CASE DecideWrite(w)
        BY <1>t, <2>4, <4>1, DecideGood
      <4>2. CASE ~DecideWrite(w)
        BY <1>t, <1>3, <4>2, DecidedStays
      <4> QED BY <4>1, <4>2
    <3>4. Usual(w, p) => Fine(p)'
      BY <1>3, <2>2, <2>4, <2>6, ServerFine
    <3> QED BY <2>5, <3>2, <3>3, <3>4, UsualStep
  <2>7. CASE call[w].pc = "insert"
    <3>1. CreateInsert(w) \/ Crash(w)
      BY <1>3, <2>7 DEF ServerStep, LookupUnknown, Step, CreateValidated, CreateRoute,
           CreateApproval, Release, DecideWrite, Decided, TransitionRead, TransitionWrite, TellRead,
           TellClaim, TellEnqueue, TellRestore, DispatchRead, DispatchBlock, DispatchClaim, Transfer,
           DispatchRefused, Lookup, Apply, AssignWrite, SweepWrite, QueueFollows, PostJournal, QueueAfter
    <3>2. UNCHANGED Rest
      BY <3>1 DEF CreateInsert, Crash, Rest, gateway, ledgers
    <3>3. CASE UNCHANGED row /\ Over(w)
      <4>1. call'[w] = Idle
        BY <1>t, <2>4, <3>3, Going, PCs DEF Over
      <4>2. Usual(w, p) => Fine(p)'
        BY <3>2, <3>3, <4>1, EndFine DEF Rest
      <4>3. UNCHANGED decided
        BY <3>2 DEF Rest
      <4> QED BY <1>t, <2>5, <3>3, <4>2, <4>3, UsualStep
    <3>4. CASE CreateInsert(w) /\ ~existingPayout(p)
      <4>1. PICK gw \in BOOLEAN, high \in BOOLEAN :
              row' = [row EXCEPT ![p] = [status |-> "CREATED", callback |-> "none", provider |-> gw, held |-> high]]
        BY <2>4, <3>4 DEF CreateInsert, On
      <4>2. Goto(w, "created") /\ "created" \in PC /\ row[p].status = "NONE"
        BY <2>4, <3>4 DEF CreateInsert, On, existingPayout, PC
      <4>3. call'[w].pc = "created" /\ row'[p].status = "CREATED"
        <5>1. call'[w].pc = "created"
          BY <1>t, <2>4, <4>2, Going
        <5>2. row'[p].status = "CREATED"
          BY <1>t, <4>1 DEF PayoutTypeOK
        <5> QED BY <5>1, <5>2
      <4>4. Fine(p)'
        BY <1>t, <2>4, <2>5, <3>2, <4>2, <4>3, NewFine DEF Good
      <4>5. \A q \in Payout : q # p => /\ row'[q] = row[q] /\ decided'[q] = decided[q]
                                       /\ Fine(q) => Fine(q)'
        BY <2>5, FarFine DEF Good, Local, SameSlice
      <4> QED BY <4>4, <4>5 DEF AllFine, UndisputedPayout
    <3> QED BY <2>4, <3>1, <3>3, <3>4 DEF CreateInsert, Crash, On
  <2> QED BY <2>6, <2>7
<1>4. ASSUME NEW p \in Payout, GatewaySettles(p) \/ GatewayChangesItsMind(p) PROVE AllFine'
  <2>1. UNCHANGED <<row, decided>>
    BY <1>t, <1>4, GatewayStep
  <2>2. \A q \in Payout : Fine(q) => Fine(q)'
    BY <1>t, <1>4, GatewayFine
  <2> QED BY <2>1, <2>2 DEF AllFine, UndisputedPayout
<1> QED BY <1>1, <1>2, <1>3, <1>4 DEF Next

LEMMA FineInit == Init => AllFine
BY DEF Init, AllFine

LEMMA FineStutter ==
  ASSUME AllFine, UNCHANGED vars
  PROVE  AllFine'
<1>1. \A p \in Payout : \A S : Among(p, S)' = Among(p, S)
  BY DEF vars, Among, On
<1>2. ASSUME NEW p \in Payout, Fine(p) PROVE Fine(p)'
  <2>1. Ruled(p)' /\ Counted(p)'
    BY <1>1, <1>2 DEF vars, Fine, Ruled, Counted, Callbacks, Closings
  <2>2. Honest(p)' /\ Heard(p)'
    BY <1>2 DEF vars, Fine, Honest, Heard, Holds, Sends, On
  <2> QED BY <2>1, <2>2 DEF Fine
<1> QED BY <1>2 DEF vars, AllFine, UndisputedPayout

LEMMA AllFineHolds == Spec => [](Basic /\ AllFine)
<1>1. Init => Basic /\ AllFine
  BY BasicInit, FineInit
<1>2. Basic /\ AllFine /\ [Next]_vars => Basic' /\ AllFine'
  BY BasicStep, FineStep, FineStutter
<1> QED BY <1>1, <1>2, PTL DEF Spec

LEMMA PayoutHolds == Spec => []PayoutInv
<1>1. Basic /\ AllFine => PayoutInv
  BY DEF Basic, AllFine, PayoutInv
<1> QED BY <1>1, AllFineHolds, PTL

LEMMA FineMeans ==
  ASSUME PayoutInv
  PROVE  ClosedByTheGateway /\ EachWordOnce /\ OneVerdict
<1> SUFFICES ASSUME NEW p \in Payout, row[p].provider, UndisputedPayout(p)
             PROVE  /\ row[p].status = "COMPLETED" => bank[p] \in {"success", "reversed"}
                    /\ row[p].status = "FAILED" => bank[p] # "pending"
                    /\ row[p].status \in {"REJECTED", "CANCELLED"} => transfers[p] = 0
                    /\ \A d \in Word : told[p][d] <= 1
                    /\ told[p]["SUCCESS"] > 0 => told[p]["FAILED"] = 0 /\ told[p]["REJECTED"] = 0
  BY DEF ClosedByTheGateway, EachWordOnce, OneVerdict
<1>1. PayoutTypeOK /\ Honest(p) /\ Heard(p) /\ Counted(p)
  BY DEF PayoutInv, Fine
<1>2. /\ told[p]["SUCCESS"] \in 0..2 /\ told[p]["FAILED"] \in 0..2
      /\ told[p]["REJECTED"] \in 0..2 /\ told[p]["REVERSED"] \in 0..2
  BY <1>1, Numbers DEF Word
<1>3. \A d \in Word : told[p][d] > 0 => Fits(d, row[p].status)
  BY <1>1 DEF Heard
<1>4. told[p]["SUCCESS"] > 0 => told[p]["FAILED"] = 0 /\ told[p]["REJECTED"] = 0
  BY <1>2, <1>3 DEF Fits, Word
<1>5. Callbacks(p) <= Closings(p)
  <2>1. Cardinality(Among(p, Telling)) \in Nat
    BY <1>1, Several DEF Counted
  <2>2. Callbacks(p) \in Nat /\ Closings(p) \in {0, 1, 2}
    BY <1>1, Numbers
  <2> QED BY <1>1, <2>1, <2>2 DEF Counted
<1>6. told[p]["FAILED"] <= 1 /\ told[p]["REJECTED"] <= 1
  <2>1. told[p]["FAILED"] > 0 \/ told[p]["REJECTED"] > 0 => Closings(p) = 1
    BY <1>2, <1>3 DEF Fits, Word, Closings
  <2> QED BY <1>2, <1>5, <2>1 DEF Callbacks
<1>7. \A d \in Word : told[p][d] <= 1
  BY <1>1, <1>6 DEF Heard, Word
<1> QED BY <1>1, <1>4, <1>7 DEF Honest

\* A gateway payout is closed by what became of its transfer (the look-ups of syncProviderPayout,
\* a definite refusal) and by nothing else: never FAILED while it may still be paid.
THEOREM ClosedRightly == Spec => []ClosedByTheGateway
BY PayoutHolds, FineMeans, PTL

\* The callbacks for a gateway payout repeat no word, however many webhooks, sweeps and failed
\* enqueues there are (sendPayoutCallback, moveIf).
THEOREM ToldOnce == Spec => []EachWordOnce
BY PayoutHolds, FineMeans, PTL

\* The merchant is never told both that a gateway payout went through and that it did not.
THEOREM ToldOneVerdict == Spec => []OneVerdict
BY PayoutHolds, FineMeans, PTL

\* Which steps change the status of a gateway payout, and what they find.
Open == {"NONE", "CREATED", "VALIDATED", "HOLD", "QUEUED", "SUBMITTED"}
Proceeds(p) == \/ row'[p].status = row[p].status
               \/ row[p].status \in Open
               \/ row[p].status = "COMPLETED" /\ row'[p].status = "REVERSED"

LEMMA ServerProceeds ==
  ASSUME Basic, Basic', AllFine, NEW w \in Worker, NEW p \in Payout, On(w, p), call[w].pc # "idle",
         row[p].provider, UndisputedPayout(p),
         ServerStep(w) \/ LookupUnknown(w) \/ Crash(w)
  PROVE  Proceeds(p)
<1>t. /\ PayoutTypeOK /\ call[w].order = p /\ Fine(p) /\ Ordered(p)
      /\ Placed(w) /\ Creates(w) /\ Rules(w) /\ Looks(w)
  BY DEF Basic, Knows, On, AllFine
<1>1. CASE CreateInsert(w)
  BY <1>1, <1>t DEF CreateInsert, existingPayout, Proceeds, Open
<1>2. CASE CreateValidated(w) \/ CreateRoute(w)
  BY <1>2, <1>t DEF CreateValidated, CreateRoute, Step, Creates, Creating, Stage, Proceeds, Open
<1>3. CASE TransitionWrite(w)
  <2>1. call[w].pc = "write" /\ approval[p] # "none"
    BY <1>3, <1>t DEF TransitionWrite, Step, Rules
  <2>2. row[p].status = "HOLD"
    BY <1>t, <2>1, RulingFinds DEF Fine, Ruling
  <2> QED BY <2>2 DEF Proceeds, Open
<1>4. CASE TellClaim(w) \/ TellRestore(w)
  <2>1. PICK word : row' = [row EXCEPT ![p].callback = word] \/ UNCHANGED row
    BY <1>4, <1>t DEF TellClaim, TellRestore
  <2>2. row'[p].status = row[p].status
    BY <1>t, <2>1 DEF PayoutTypeOK, Row
  <2> QED BY <2>2 DEF Proceeds
<1>5. CASE DispatchBlock(w) \/ DispatchClaim(w) \/ DispatchRefused(w)
  <2>1. row[p].status \in {"QUEUED", "SUBMITTED"} \/ UNCHANGED row
    BY <1>5, <1>t DEF DispatchBlock, DispatchClaim, DispatchRefused, MoveIf, StillAt
  <2> QED BY <2>1 DEF Proceeds, Open
<1>6. CASE Apply(w)
  <2>1. call[w].seen \in {"SUBMITTED", "COMPLETED", "FAILED"}
    BY <1>6, <1>t DEF Apply, Step, Looks
  <2> DEFINE to == Verdict(call[w]).to
             seen == call[w].seen
  <2>2. UNCHANGED row \/ (to # seen /\ row[p].status = seen /\ SetStatus(p, to))
    BY <1>6, <1>t DEF Apply, MoveIf, StillAt
  <2>3. to # seen => seen = "SUBMITTED" \/ (seen = "COMPLETED" /\ to = "REVERSED")
    BY <2>1 DEF Verdict, PaidAfterFailed
  <2> HIDE DEF to, seen
  <2>4. SetStatus(p, to) => row'[p].status = to
    BY <1>t, StatusSet
  <2> QED BY <2>2, <2>3, <2>4 DEF Proceeds, Open
<1>7. CASE LookupUnknown(w) \/ Crash(w)
  BY <1>7 DEF LookupUnknown, Crash, Proceeds
<1>8. CASE \/ CreateApproval(w) \/ Release(w) \/ DecideWrite(w) \/ Decided(w) \/ TransitionRead(w)
           \/ TellRead(w) \/ TellEnqueue(w) \/ DispatchRead(w) \/ Transfer(w) \/ Lookup(w)
           \/ AssignWrite(w) \/ SweepWrite(w) \/ QueueFollows(w) \/ PostJournal(w)
  <2>1. UNCHANGED row
    BY <1>8 DEF CreateApproval, Release, DecideWrite, Decided, TransitionRead, TellRead, TellEnqueue,
                DispatchRead, Transfer, Lookup, AssignWrite, SweepWrite, QueueFollows, PostJournal
  <2> QED BY <2>1 DEF Proceeds
<1> QED BY <1>1, <1>2, <1>3, <1>4, <1>5, <1>6, <1>7, <1>8 DEF ServerStep

LEMMA EveryProceeds ==
  ASSUME Basic, Basic', AllFine, [Next]_vars, NEW p \in Payout, row[p].provider, UndisputedPayout(p)
  PROVE  Proceeds(p)
<1>1. CASE UNCHANGED row
  BY <1>1 DEF Proceeds
<1>2. ASSUME NEW w \in Worker, ServerStep(w) \/ LookupUnknown(w) \/ Crash(w)
      PROVE  Proceeds(p)
  <2>1. Placed(w) /\ PayoutTypeOK'
    BY DEF Basic, Knows
  <2>2. call[w].pc # "idle"
    BY <1>2, <2>1, StepsOn DEF Crash, Placed
  <2>3. call[w].order \in Payout
    BY <2>1, <2>2 DEF Placed
  <2>4. PICK q \in Payout : On(w, q)
    BY <2>3 DEF On
  <2>5. CASE q = p
    BY <1>2, <2>2, <2>4, <2>5, ServerProceeds
  <2>6. CASE q # p
    <3>1. Good(w, q)
      BY <1>2, <2>1, <2>2, <2>4, ServerGood
    <3>2. row'[p] = row[p]
      BY <2>6, <3>1 DEF Good, Local, SameSlice
    <3> QED BY <3>2 DEF Proceeds
  <2> QED BY <2>5, <2>6
<1>3. CASE ~UNCHANGED row
  <2>1. Next
    BY <1>3 DEF vars
  <2>2. \E w \in Worker : ServerStep(w) \/ LookupUnknown(w) \/ Crash(w)
    BY <1>3, <2>1 DEF Next, CreateRead, DecideRead, SyncHinted, AssignRead, OperatorActs, SyncSwept, SweepRead,
       GatewaySettles, GatewayChangesItsMind
  <2> QED BY <1>2, <2>2
<1> QED BY <1>1, <1>3

\* No step takes a gateway payout out of a final status, but a completed one into a reversal:
\* every update of its status is guarded by the status it leaves, or rules on a payout on hold.
THEOREM FinalIsFinal == Spec => FinalStays
<1> DEFINE Stays == \A p \in Payout : row[p].provider /\ UndisputedPayout(p) /\ UndisputedPayout(p)' =>
                      /\ row[p].status \in {"FAILED", "REJECTED", "CANCELLED", "REVERSED"}
                           => row'[p].status = row[p].status
                      /\ row[p].status = "COMPLETED" => row'[p].status \in {"COMPLETED", "REVERSED"}
<1>1. ASSUME Basic /\ AllFine, Basic', [Next]_vars PROVE Stays
  BY <1>1, EveryProceeds DEF Proceeds, Open
<1>2. (Basic /\ AllFine) /\ (Basic /\ AllFine)' /\ [Next]_vars => [Stays]_vars
  BY <1>1
<1> QED BY <1>2, AllFineHolds, PTL DEF Spec, FinalStays
=============================================================================
