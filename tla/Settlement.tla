----------------------------- MODULE Settlement -----------------------------
(***************************************************************************)
(* The settlement engine of one banker (lib/settlement-engine-store): paid *)
(* pay-ins are put on the ledger (lib/ledger-sync), a settlement           *)
(* instruction takes an amount out of the payable balance under the        *)
(* banker's lock and asks the banker, by a settlement request, to pay it;  *)
(* the engine then follows that request and posts the journals.            *)
(*                                                                         *)
(* Every statement is a transaction of its own.  After its reads a handler *)
(* is a list of statements, and a worker carries out one at a time; the    *)
(* cron process, staff and a second run of the engine may interleave at    *)
(* every one, or die there.  postJournal is one transaction and does       *)
(* nothing under an idempotency key it has seen.                           *)
(***************************************************************************)
EXTENDS SettlementAmounts, Sequences, FiniteSets

CONSTANTS Cycle,       \* idempotency keys of settlements the scheduled cycles raise
          Manual,      \* idempotency keys of settlements staff raise
          Asked,       \* gross amounts staff ask for
          Payin,       \* live pay-in orders
          Late,        \* those paid after the cycle's cut-off
          Amount,      \* the amount of a pay-in
          Card, Rate, Limits,      \* rate card, approved settlement config
          Worker,      \* processes that run the engine's functions at once
          NoWorker,
          Duties,      \* bound: what each of them is there for
          Buttons,     \* the actions people take on settlement requests
          Followed,    \* bound: the others end when their request is raised
          MaxFaults    \* bound: processes that die, statements that fail

Key == Cycle \cup Manual

VARIABLES payin,       \* vendor_payin_orders: is it paid, and stamped ledger_posted_at?
          posted,      \* the idempotency keys of the journals on the ledger
          balances,    \* account_balances: their lines summed by account, debits positive
          instr,       \* settlement_instructions, by key
          request,     \* provider_branch_settlements.status of an instruction's request
          hold,        \* settlement_reserve_holds.state
          lock,        \* who holds the banker's advisory lock
          call,        \* what each worker is doing
          reopened,    \* history: requests whose outcome was taken back
          orphans,     \* history: instructions whose process died before the first journal
          faults

requests == <<request, reopened>>
tables == <<payin, posted, balances, instr, hold>>
control == <<lock, orphans, faults>>
vars == <<payin, posted, balances, instr, request, hold, lock, call, reopened, orphans, faults>>

NEXT == [NONE |-> {}, PENDING |-> {"INITIATED", "HELD", "CANCELLED"},
         INITIATED |-> {"IN_TRANSIT", "SETTLED", "FAILED", "HELD"},
         IN_TRANSIT |-> {"SETTLED", "FAILED", "HELD"},
         HELD |-> {"PENDING", "INITIATED", "IN_TRANSIT", "FAILED", "CANCELLED"},
         SETTLED |-> {"REVERSED"}, FAILED |-> {}, REVERSED |-> {}, CANCELLED |-> {}]
State == DOMAIN NEXT

AnyMove(from, to, heldFrom) == TRUE                   \* mutant
canMove(from, to, heldFrom) ==
  /\ to \in NEXT[from]
  /\ from = "HELD" /\ to \in {"PENDING", "INITIATED", "IN_TRANSIT"} => to = heldFrom
  /\ from = "HELD" /\ to = "CANCELLED" => heldFrom = "PENDING"
  /\ from = "HELD" /\ to = "FAILED" => heldFrom \in {"INITIATED", "IN_TRANSIT"}

Button(from, to) == [from |-> from, to |-> to]

\* The two older routes, /utr and /verify (a verification is what CONFIRM does).
SubmitUTR == Button({"REQUESTED", "REJECTED"}, "UTR_SUBMITTED")
RejectUTR == Button({"UTR_SUBMITTED"}, "REJECTED")

\* lib/settlement-fsm, for bank transfers; without the buttons that leave the status as it is, and
\* without REPORT_PARTIAL, which does what DISPUTE does.
Unpaid == {"INSUFFICIENT_BALANCE", "INVALID_BENEFICIARY"}
Received == {"PAID", "PARTIALLY_PAID", "UTR_SUBMITTED"}
TRANSITIONS ==
  [ACCEPT    |-> Button({"REQUESTED"}, "ACCEPTED"),
   REJECT    |-> Button({"REQUESTED", "ACCEPTED"}, "REJECTED"),
   HOLD      |-> Button({"REQUESTED", "ACCEPTED", "PROCESSING"}, "ON_HOLD"),
   RESUME    |-> Button({"ON_HOLD"}, "ACCEPTED"),
   START     |-> Button({"ACCEPTED"}, "PROCESSING"),
   MARK_PAID |-> Button({"PROCESSING"}, "PAID"),
   MARK_PARTIAL |-> Button({"PROCESSING"}, "PARTIALLY_PAID"),
   MARK_FAILED  |-> Button({"PROCESSING"}, "FAILED"),
   MARK_INSUFFICIENT  |-> Button({"REQUESTED", "ACCEPTED", "PROCESSING"}, "INSUFFICIENT_BALANCE"),
   MARK_INVALID_BENEF |-> Button({"REQUESTED", "ACCEPTED", "PROCESSING"}, "INVALID_BENEFICIARY"),
   ESCALATE  |-> Button({"REQUESTED", "ACCEPTED", "PROCESSING", "ON_HOLD", "INSUFFICIENT_BALANCE"}, "ESCALATED"),
   RESUBMIT  |-> Button({"REJECTED", "CORRECTION_REQUIRED", "FAILED"} \cup Unpaid, "PROCESSING"),
   CANCEL    |-> Button({"REQUESTED", "ACCEPTED"} \cup Unpaid, "CANCELLED"),
   CONFIRM   |-> Button(Received, "VERIFIED"),
   DISPUTE   |-> Button(Received, "CORRECTION_REQUIRED"),
   PROCESS_ESCALATED |-> Button({"ESCALATED"}, "PROCESSING"),
   RECONCILE |-> Button({"VERIFIED"}, "RECONCILED"),
   REVERSE   |-> Button({"PAID", "VERIFIED", "PARTIALLY_PAID"}, "REVERSED"),
   REASSIGN  |-> Button({"REQUESTED", "REJECTED", "ESCALATED"} \cup Unpaid, "REQUESTED"),
   COMPLIANCE |-> Button({"REQUESTED", "ACCEPTED", "PROCESSING", "PAID"}, "COMPLIANCE_REVIEW"),
   UTR       |-> SubmitUTR,
   VERIFY_NO |-> RejectUTR]

ASSUME SettlementAssumption ==
  /\ Card \in RateCard /\ Rate \in Rates /\ Limits \in [min_payout : Nat, max_payout : Nat]
  /\ Amount \in Nat \ {0} /\ Asked \subseteq Nat \ {0} /\ Late \subseteq Payin /\ IsFiniteSet(Payin)
  /\ Cycle \cap Manual = {} /\ NoWorker \notin Worker
  /\ Buttons \subseteq DOMAIN TRANSITIONS /\ Followed \subseteq Key
  /\ MaxFaults \in Nat

RequestStatus == {"REQUESTED"} \cup {TRANSITIONS[b].to : b \in DOMAIN TRANSITIONS}

Failing == {"REJECTED", "CANCELLED", "FAILED"} \cup Unpaid
Closing == {"VERIFIED", "RECONCILED"}

\* What a request's status means for the instruction; "none": nothing.
stateForBranchStatus(s) == CASE s \in Received -> "IN_TRANSIT"
                             [] s \in Closing -> "SETTLED"
                             [] s \in Failing -> "FAILED"
                             [] s = "REVERSED" -> "REVERSED"
                             [] s \in {"ON_HOLD", "COMPLIANCE_REVIEW", "ESCALATED"} -> "HELD"
                             [] OTHER -> "none"

-----------------------------------------------------------------------------
\* The ledger: the lines a journal writes on the banker's accounts.
AmountsOf(k) == instr[k].amounts

Lines(j) ==
  LET k == j[2]
  IN  CASE j[1] = "collected" -> collectedLines(Amount)
        [] j[1] = "initiated" -> initiatedLines(AmountsOf(k))
        [] j[1] = "settled" -> settledLines(AmountsOf(k).net)
        [] j[1] \in {"failed", "cancelled"} -> reversed(initiatedLines(AmountsOf(k)))
        [] j[1] = "reversed" -> Both(reversed(settledLines(AmountsOf(k).net)),
                                     reversed(initiatedLines(AmountsOf(k))))
        [] j[1] = "released" -> reserveReleaseLines(AmountsOf(k).reserve)
Journal == {"collected", "initiated", "settled", "failed", "cancelled", "reversed", "released"}

payable == -balances["payable"]
paidSince == Amount * Cardinality({p \in Late : <<"collected", p>> \in posted})

-----------------------------------------------------------------------------
\* Statements.  "must": the handler stops when the guarded update finds nothing.
Post(type) == [do |-> "post", what |-> type, to |-> "NONE", must |-> FALSE]
Move(from, to) == [do |-> "move", what |-> from, to |-> to, must |-> TRUE]
Try(from, to) == [Move(from, to) EXCEPT !.must = FALSE]
Do(what) == [do |-> what, what |-> "NONE", to |-> "NONE", must |-> FALSE]

Idle == [pc |-> "idle", key |-> "none", seen |-> "NONE", heldFrom |-> "NONE", amount |-> 0, todo |-> <<>>]
Doing(k, todo) == IF todo = <<>> THEN Idle ELSE [Idle EXCEPT !.pc = "run", !.key = k, !.todo = todo]
At(pc, k) == [Idle EXCEPT !.pc = pc, !.key = k]

Becomes(w, c) == call' = [call EXCEPT ![w] = c]
Start(w, c) == call[w] = Idle /\ Becomes(w, c)
Over(w) == Becomes(w, Idle)
Step(w, pc) == call[w].pc = pc
Next1(w) == Becomes(w, Doing(call[w].key, Tail(call[w].todo)))      \* on to the next statement

Running(w, what) == call[w].pc = "run" /\ Head(call[w].todo).do = what

\* PENDING -> INITIATED.  Without an active beneficiary the instruction is held.
PostFirst == <<Post("initiated")>>                    \* under the lock
InitiateScripts ==
  {<<Post("initiated"), Do("request"), Do("reserve"), Move("PENDING", "INITIATED")>>,
   <<Post("initiated"), Move("PENDING", "HELD")>>}

Init == /\ payin = [p \in Payin |-> "open"]
        /\ posted = {} /\ balances = NoLines
        /\ instr = [k \in Key |-> [state |-> "NONE", heldFrom |-> "NONE", linked |-> FALSE, amounts |-> NoAmounts]]
        /\ request = [k \in Key |-> "none"]
        /\ hold = [k \in Key |-> "none"]
        /\ lock = NoWorker
        /\ call = [w \in Worker |-> Idle]
        /\ reopened = {} /\ orphans = {}
        /\ faults = 0

-----------------------------------------------------------------------------
PayinPaid(p) == /\ payin[p] = "open" /\ payin' = [payin EXCEPT ![p] = "paid"]
                /\ UNCHANGED <<posted, balances, instr, hold, requests, control, call>>

\* ledger-sync, one order of a batch: its journal, and only then its stamp.
StampFirst == <<Do("stamp"), Post("collected")>>      \* mutant
SyncScript == <<Post("collected"), Do("stamp")>>

SyncPayins(w, p) ==
  /\ "sync" \in Duties[w]
  /\ payin[p] = "paid" /\ Start(w, Doing(p, SyncScript))
  /\ UNCHANGED <<tables, requests, control>>

(***************************************************************************)
(* raiseInstruction.  A scheduled cycle is raised if its key is not there  *)
(* yet; staff may repeat theirs.  From the look-up of the key to the first *)
(* journal the banker's lock is held.                                      *)
(***************************************************************************)
\* (A repeat for one past PENDING only returns it.)
Due(k) == instr[k].state = "NONE" \/ (k \in Manual /\ instr[k].state = "PENDING")

RaiseStart(w) ==
  /\ \E k \in Key \cap Duties[w] : Due(k) /\ Start(w, At("lock", k))
  /\ UNCHANGED <<tables, requests, control>>

AlwaysFree == TRUE                                    \* mutant: no lock
BankerLockFree == lock = NoWorker

RaiseLock(w) ==
  LET k == call[w].key
  IN  /\ Step(w, "lock") /\ BankerLockFree
      /\ \/ instr[k].state = "NONE" /\ Becomes(w, At("balance", k)) /\ lock' = w
         \/ /\ instr[k].state = "PENDING"             \* raised before: only its request is left to do
            /\ \E s \in InitiateScripts : Becomes(w, Doing(k, s))
            /\ UNCHANGED lock
         \/ instr[k].state \notin {"NONE", "PENDING"} /\ Over(w) /\ UNCHANGED lock
      /\ UNCHANGED <<tables, requests, orphans, faults>>

RaiseBalance(w) ==
  /\ Step(w, "balance")
  /\ \E balance \in {payable} : Becomes(w, [At("insert", call[w].key) EXCEPT !.amount = balance])
  /\ UNCHANGED <<tables, requests, control>>

\* Staff ask for an amount, or for all there is.
GrossFor(k, balance) ==
  LET available == cycleGross(balance, 0, [Limits EXCEPT !.min_payout = 0])
  IN  IF k \in Cycle THEN {cycleGross(balance, paidSince, Limits)}
      ELSE {g \in Asked \cup {available} : g <= available /\ g >= Limits.min_payout}

UnderTheLock(s) == PostFirst \o <<Do("unlock")>> \o s

\* paidSince is read and the instruction inserted; in between, nobody else uses what was read.
RaiseInsert(w) ==
  LET c == call[w]
      possible == {g \in GrossFor(c.key, c.amount) : g > 0 /\ ~Refused(settlementAmounts(g, Card, Rate))}
  IN  /\ Step(w, "insert")
      /\ \/ /\ \E g \in possible : instr' = [instr EXCEPT ![c.key].state = "PENDING",
                                                                          ![c.key].amounts = settlementAmounts(g, Card, Rate)]
            /\ \E s \in InitiateScripts : Becomes(w, Doing(c.key, UnderTheLock(s)))
            /\ UNCHANGED lock
         \/ /\ c.key \in Manual \/ possible = {}     \* nothing to settle, or more asked than there is
            /\ Over(w) /\ lock' = NoWorker /\ UNCHANGED instr
      /\ UNCHANGED <<payin, posted, balances, hold, requests, orphans, faults>>

(***************************************************************************)
(* followRequests and applyRequestStatus: the instruction's row is read,   *)
(* then its request's, and the two decide the statements.                  *)
(***************************************************************************)
FollowRead(w, k) ==
  LET i == instr[k]
  IN  /\ "follow" \in Duties[w]
      /\ i.linked /\ i.state \in {"INITIATED", "IN_TRANSIT", "HELD", "SETTLED"}
      /\ Start(w, [At("status", k) EXCEPT !.seen = i.state, !.heldFrom = i.heldFrom])
      /\ UNCHANGED <<tables, requests, control>>

\* An instruction that must pass through other states first: the moves, and where it is then.
NothingBefore(seen, heldFrom, want) == [moves |-> <<>>, at |-> seen]      \* mutant
Before(seen, heldFrom, want) ==
  CASE want = "SETTLED" /\ seen = "INITIATED" ->
         [moves |-> <<Move("INITIATED", "IN_TRANSIT")>>, at |-> "IN_TRANSIT"]
    [] want = "SETTLED" /\ seen = "HELD" /\ heldFrom = "INITIATED" ->
         [moves |-> <<Move("HELD", "INITIATED"), Try("INITIATED", "IN_TRANSIT")>>, at |-> "IN_TRANSIT"]
    [] want = "IN_TRANSIT" /\ seen = "HELD" /\ heldFrom = "INITIATED" ->
         [moves |-> <<Move("HELD", "INITIATED")>>, at |-> "INITIATED"]
    [] want = "SETTLED" /\ seen = "HELD" /\ heldFrom # "INITIATED" ->
         [moves |-> <<Move("HELD", heldFrom)>>, at |-> heldFrom]
    [] OTHER -> [moves |-> <<>>, at |-> seen]

MoveFirst(at, want, books) == <<Move(at, want)>> \o books      \* mutant: the state before the journal
BooksFirst(at, want, books) == books \o <<Move(at, want)>>

Booked == [SETTLED |-> <<Post("settled")>>, FAILED |-> <<Post("failed"), Do("unhold")>>,
           REVERSED |-> <<Post("reversed"), Do("unhold")>>]

Plan(seen, heldFrom, status) ==
  LET s == stateForBranchStatus(status)
      want == IF s = "none" /\ seen = "HELD" THEN heldFrom ELSE s
      b == Before(seen, heldFrom, want)
      books == IF want \in DOMAIN Booked THEN Booked[want] ELSE <<>>
  IN  IF want \in {"none", seen} THEN <<>>
      ELSE IF canMove(b.at, want, heldFrom) THEN b.moves \o BooksFirst(b.at, want, books)
      ELSE b.moves

FollowStatus(w) ==
  LET c == call[w]
  IN  /\ Step(w, "status")
      /\ Becomes(w, Doing(c.key, Plan(c.seen, c.heldFrom, request[c.key])))
      /\ UNCHANGED <<tables, requests, control>>

\* Staff cancel what has not reached the banker.
CancelRead(w) ==
  /\ "cancel" \in Duties[w]
  /\ \E k \in Followed : LET i == instr[k] IN
       /\ canMove(i.state, "CANCELLED", i.heldFrom)
       /\ Start(w, Doing(k, <<Post("cancelled"), Move(i.state, "CANCELLED")>>))
  /\ UNCHANGED <<tables, requests, control>>

\* releaseReserves.  A hold may last no days at all, so any hold may be due.
ReleaseRead(w) ==
  /\ "release" \in Duties[w]
  /\ \E k \in Followed : /\ hold[k] = "HELD" /\ instr[k].state \in {"INITIATED", "IN_TRANSIT", "SETTLED"}
                    /\ Start(w, Doing(k, <<Post("released"), Do("release")>>))
  /\ UNCHANGED <<tables, requests, control>>

-----------------------------------------------------------------------------
\* The statements.
DoPost(w) ==
  LET j == <<Head(call[w].todo).what, call[w].key>>
  IN  /\ Running(w, "post")
      /\ posted' = posted \cup {j}
      /\ balances' = IF j \in posted THEN balances ELSE Both(balances, Lines(j))
      /\ Next1(w)
      /\ UNCHANGED <<payin, instr, hold, requests, control>>

DoStamp(w) ==
  /\ Running(w, "stamp")
  /\ payin' = [payin EXCEPT ![call[w].key] = "stamped"]
  /\ Next1(w)
  /\ UNCHANGED <<posted, balances, instr, hold, requests, control>>

DoUnlock(w) ==
  /\ Running(w, "unlock")
  /\ lock' = NoWorker
  /\ Next1(w)
  /\ UNCHANGED <<tables, requests, orphans, faults>>

\* move(): the update is guarded by the state the handler believes in.  (held_from stays in its
\* column after a hold, but only a HELD instruction's is ever read.)
AnyState(k, from) == TRUE                             \* mutant: no AND state = from
StillIn(k, from) == instr[k].state = from

DoMove(w) ==
  LET c == call[w]
      s == Head(c.todo)
      moved == [instr[c.key] EXCEPT !.state = s.to,
                                    !.heldFrom = IF s.to = "HELD" THEN s.what ELSE "NONE",
                                    !.linked = @ \/ (s.what = "PENDING" /\ s.to = "INITIATED")]
  IN  /\ Running(w, "move")
      /\ \/ StillIn(c.key, s.what) /\ instr' = [instr EXCEPT ![c.key] = moved] /\ Next1(w)
         \/ /\ ~StillIn(c.key, s.what) /\ UNCHANGED instr
            /\ IF s.must THEN Over(w) ELSE Next1(w)
      /\ UNCHANGED <<payin, posted, balances, hold, requests, control>>

\* One request per instruction: the insert is ON CONFLICT (instruction_id) DO NOTHING.
DoRequest(w) ==
  /\ Running(w, "request")
  /\ request' = [request EXCEPT ![call[w].key] = IF @ = "none" THEN "REQUESTED" ELSE @]
  /\ Next1(w)
  /\ UNCHANGED <<tables, reopened, control>>

DoReserve(w) ==
  /\ Running(w, "reserve")
  /\ hold' = [hold EXCEPT ![call[w].key] = IF @ = "none" /\ AmountsOf(call[w].key).reserve > 0
                                           THEN "HELD" ELSE @]
  /\ Next1(w)
  /\ UNCHANGED <<payin, posted, balances, instr, requests, control>>

\* A hold still HELD is released or cancelled.
DoHold(w) ==
  /\ \E what \in {"release", "unhold"} :
       /\ Running(w, what)
       /\ hold' = [hold EXCEPT ![call[w].key] =
                     IF @ # "HELD" THEN @ ELSE IF what = "release" THEN "RELEASED" ELSE "CANCELLED"]
  /\ Next1(w)
  /\ UNCHANGED <<payin, posted, balances, instr, requests, control>>

-----------------------------------------------------------------------------
\* The banker, the merchant and staff act on a request.  The route checks the transition on a read
\* and writes under no guard; here, as a bound, one person at a time acts on a request.
TakenBack(from, to) == \/ from \in Failing /\ to \notin Failing
                       \/ from \in Closing /\ to \notin Closing \cup {"REVERSED"}
                       \/ from = "REVERSED" /\ to # "REVERSED"

Press(k) ==
  /\ \E b \in Buttons :
       LET t == TRANSITIONS[b]
       IN  /\ request[k] \in t.from
           /\ request' = [request EXCEPT ![k] = t.to]
           /\ reopened' = IF TakenBack(request[k], t.to) THEN reopened \cup {k} ELSE reopened
  /\ UNCHANGED <<tables, control, call>>

\* The process dies between two statements; its session lock goes with it.
Crash(w) ==
  LET c == call[w]
  IN  /\ c # Idle /\ faults < MaxFaults
      /\ faults' = faults + 1
      /\ lock' = IF lock = w THEN NoWorker ELSE lock
      /\ orphans' = IF lock = w /\ c.pc = "run" THEN orphans \cup {c.key} ELSE orphans
      /\ Over(w)
      /\ UNCHANGED <<tables, requests>>

Statement(w) == \/ DoPost(w) \/ DoStamp(w) \/ DoUnlock(w) \/ DoMove(w) \/ DoRequest(w)
                \/ DoReserve(w) \/ DoHold(w)
                \/ RaiseLock(w) \/ RaiseBalance(w) \/ RaiseInsert(w) \/ FollowStatus(w)

Next == \/ \E w \in Worker : \/ \E p \in Payin : SyncPayins(w, p)
                             \/ \E k \in Followed : FollowRead(w, k)
                             \/ RaiseStart(w) \/ CancelRead(w) \/ ReleaseRead(w)
                             \/ Statement(w) \/ Crash(w)
        \/ \E p \in Payin : PayinPaid(p)
        \/ \E k \in Followed : Press(k)

\* A handler that has begun goes on unless its process dies, and the cron job, every five minutes,
\* follows every open instruction.  (Each of these steps changes call.)
Followers == {w \in Worker : "follow" \in Duties[w]}
Fairness == /\ \A w \in Worker : WF_call(Statement(w))
            /\ \A w \in Followers, k \in Followed : SF_call(FollowRead(w, k))

Spec == Init /\ [][Next]_vars /\ Fairness

-----------------------------------------------------------------------------
Plain == {"request", "reserve", "stamp", "release", "unhold", "unlock"}
Statements == [do : {"post", "move"} \cup Plain, what : Journal \cup State, to : State, must : BOOLEAN]
Calls == [pc : {"idle", "lock", "balance", "insert", "status", "run"}, key : Key \cup Payin \cup {"none"},
          seen : State, heldFrom : State, amount : Int, todo : Seq(Statements)]

\* Types: the tables and the workers hold what their columns and handlers allow.
SettlementTypeOK ==
  /\ payin \in [Payin -> {"open", "paid", "stamped"}]
  /\ posted \subseteq Journal \X (Key \cup Payin) /\ balances \in [Account -> Int]
  /\ instr \in [Key -> [state : State, heldFrom : {"NONE", "PENDING", "INITIATED", "IN_TRANSIT"},
                        linked : BOOLEAN, amounts : Amounts]]
  /\ request \in [Key -> RequestStatus \cup {"none"}]
  /\ hold \in [Key -> {"none", "HELD", "RELEASED", "CANCELLED"}]
  /\ lock \in Worker \cup {NoWorker}
  /\ call \in [Worker -> Calls]
  /\ reopened \subseteq Key /\ orphans \subseteq Key
  /\ faults \in 0..MaxFaults

\* "Two runs can never raise against the same payable": what is taken out never exceeds what was
\* collected, released or given back, whoever raises at the same time.  (A process that dies
\* between an instruction's insert and its first journal leaves an orphan, whose amount the next
\* raise does not see; it is excepted.)
NeverOverdrawn == orphans = {} => payable >= 0

Has(type, k) == <<type, k>> \in posted

\* The ledger is never behind the state, at any moment and wherever a process died: no request is
\* raised, and no state reached, before its journals are there, and no order is stamped before its own.
StateIsBooked ==
  /\ \A p \in Payin : payin[p] = "stamped" => Has("collected", p)
  /\ \A k \in Key :
       /\ request[k] # "none" => Has("initiated", k)
       /\ instr[k].state \in {"INITIATED", "IN_TRANSIT", "SETTLED", "FAILED", "REVERSED"} => Has("initiated", k)
       /\ instr[k].state \in {"SETTLED", "REVERSED"} => Has("settled", k)
       /\ instr[k].state = "FAILED" => Has("failed", k)
       /\ instr[k].state = "REVERSED" => Has("reversed", k)
       /\ instr[k].state = "CANCELLED" => Has("cancelled", k)
       /\ hold[k] = "RELEASED" => Has("released", k)

\* A settlement is booked as paid or as failed, never as both, and as reversed only after it was
\* paid; unless people took back the outcome of its request (a rejected request resubmitted).  It says
\* nothing of "cancelled": cancelInstruction posts that before its guarded move, so an instruction that
\* was initiated in between has the journal and goes on, and may be settled as well.
OneOutcome ==
  \A k \in Key \ reopened : /\ ~(Has("settled", k) /\ Has("failed", k))
                           /\ Has("reversed", k) => Has("settled", k)

\* What is settled stays settled, but for a reversal, and nothing ever leaves the final states,
\* whoever raises, cancels or follows at the same time.
OutcomeKept ==
  \A k \in Key : /\ NEXT[instr[k].state] = {} /\ instr[k].state # "NONE" => instr'[k].state = instr[k].state
                 /\ instr[k].state = "SETTLED" => instr'[k].state \in {"SETTLED", "REVERSED"}
OutcomeStays == [][OutcomeKept]_vars

\* A worker has still to link a request to its instruction; one that dies between the insert of the
\* request and that move leaves it unlinked.
Linking(w, k) == /\ call[w].key = k
                 /\ \E n \in 1..Len(call[w].todo) : call[w].todo[n] = Move("PENDING", "INITIATED")
Unlinked(k) == ~instr[k].linked /\ \A w \in Worker : ~Linking(w, k)

\* A settlement whose payment the merchant verified is settled in the end, wherever a process dies
\* after the request was linked to the instruction; unless somebody takes the verification back, or
\* reverses the request, or the settlement was cancelled first.  One death is excepted: a request
\* that was left unlinked is paid and verified without anybody following it.
VerifiedSettles ==
  \A k \in Followed : request[k] \in Closing /\ k \notin reopened
                       ~> instr[k].state = "SETTLED" \/ request[k] \notin Closing
                          \/ instr[k].state \in {"CANCELLED", "REVERSED"} \/ Unlinked(k)
=============================================================================
