---------------------------- MODULE BankCredits ----------------------------
(***************************************************************************)
(* How captured bank credits become paid orders.  One payment reaches      *)
(* ingestTxnAlert several times, as captures: a push notification, the     *)
(* on-device screen read that brings its reference (RRN), an email that    *)
(* names the order.  Each is a request that looks for what is already      *)
(* stored, matches an order, folds into a stored alert or inserts one,     *)
(* opens a manual case unless it confirms, and confirms the order.  Staff  *)
(* link an alert to an order and decide cases.                             *)
(*                                                                         *)
(* One write is one step; the SELECTs before it that belong to one         *)
(* decision (seen before? which order? merge where? may staff link it?)    *)
(* are one step together.  Nothing locks a payment between the checks and  *)
(* the insert.  A write the code wraps in a .catch may fail, and the       *)
(* request goes on; any other statement that fails ends it, as a death of  *)
(* the process does.  A failing SELECT is not modelled.                    *)
(* confirmKatanaOrder is one step here: PayinOrder models its statements.  *)
(* The captures belong to one banker and one mode and lie within every     *)
(* window the checks use.                                                  *)
(***************************************************************************)
EXTENDS Naturals, Sequences, FiniteSets

CONSTANTS Payment,     \* real payments; a payment stands for its own RRN too
          Order,       \* orders
          NoRef, NoOrder,
          PaidFor,     \* the order a payment was made for
          Price,       \* what an order asks
          Capture,     \* the records an agent or the mail poller may upload
          Echo,        \* pairs of captures pushed within DEDUP_ECHO_SECONDS by one device
          Uploader, Clerk,   \* requests of the agents and of staff
          Handles,     \* bound: the captures each uploading request may bring
          MaxUploads, MaxActs,     \* bounds: uploads of one capture, requests of staff
          MaxLost,     \* bound: requests cut short, by a failed write or a death
          Lapsing      \* bound: the orders that may expire

Worker == Uploader \cup Clerk

Source == {"NOTIFICATION", "ACCESSIBILITY", "EMAIL"}

\* at: the payment's own time, when the text states it; trusted: a TRUSTED device or an
\* authenticated channel, and a sender that is a bank.
Said == [pay : Payment, source : Source, amount : Nat, utr : Payment \cup {NoRef},
         ref : Order \cup {NoOrder}, vpa : Payment \cup {NoRef}, at : Nat, trusted : BOOLEAN]

ASSUME CreditAssumption ==
  /\ NoRef \notin Payment \cup {"derived"} /\ NoOrder \notin Order
  /\ PaidFor \in [Payment -> Order] /\ Price \in [Order -> Nat]
  /\ Capture \subseteq Said /\ Echo \subseteq Capture \X Capture
  /\ \A c \in Capture : /\ c.utr \in {c.pay, NoRef}
                        /\ c.ref \in {PaidFor[c.pay], NoOrder}
  /\ Handles \in [Uploader -> SUBSET Capture] /\ MaxUploads \in Nat /\ MaxActs \in Nat
  /\ MaxLost \in Nat /\ Uploader \cap Clerk = {}
  /\ Lapsing \subseteq Order

VARIABLES order,       \* vendor_payin_orders
          alert,       \* vendor_txn_alerts, in the order of their inserts
          case,        \* vendor_manual_cases, by the alert each is about
          uploads,     \* how often each capture was sent
          raced,       \* history: two uploads were under way at once
          contested,   \* history: the orders two of staff were deciding at once, over one alert
          lost,        \* history: what a failed write or a death cut short, as the capture of an
                       \* upload or the order of a request of staff
          acts,        \* how often staff asked for something
          call

stored == <<order, alert, case>>
seen == <<uploads, raced, contested>>
history == <<seen, lost>>
vars == <<stored, history, acts, call>>

OrderRow == [status : {"PENDING", "EXPIRED", "SUCCESS"}, rrn : Payment \cup {NoRef, "derived"}]
Outcome == {"CONFIRMED", "UNMATCHED", "AMBIGUOUS", "DUPLICATE"}

Alert == [cap : Capture, utr : Payment \cup {NoRef}, ref : Order \cup {NoOrder},
          vpa : Payment \cup {NoRef}, outcome : Outcome, order : Order \cup {NoOrder}]

NoCase == [status |-> "none", order |-> NoOrder]
CaseRow == [status : {"none", "OPEN", "RESOLVED", "REJECTED"}, order : Order \cup {NoOrder}]

PC == {"idle", "fold", "match", "place", "merge", "insert", "case", "confirm", "demote",
       "link", "mark", "decide", "resolve"}

Call == [pc : PC, cap : Capture \cup {NoRef}, row : Nat, order : Order \cup {NoOrder},
         utr : Payment \cup {NoRef}, outcome : Outcome, dup : BOOLEAN, benign : BOOLEAN]

Idle == [pc |-> "idle", cap |-> NoRef, row |-> 0, order |-> NoOrder, utr |-> NoRef,
         outcome |-> "UNMATCHED", dup |-> FALSE, benign |-> FALSE]

Init == /\ order = [o \in Order |-> [status |-> "PENDING", rrn |-> NoRef]]
        /\ alert = << >>
        /\ case = << >>
        /\ uploads = [c \in Capture |-> 0]
        /\ raced = FALSE
        /\ contested = {}
        /\ lost = {}
        /\ acts = 0
        /\ call = [w \in Worker |-> Idle]

At(w, pc) == call[w].pc = pc
Becomes(w, c) == call' = [call EXCEPT ![w] = c]
Over(w) == Becomes(w, Idle)
Goto(w, pc) == Becomes(w, [call[w] EXCEPT !.pc = pc])

Paid(o) == order[o].status = "SUCCESS"
Open(o) == order[o].status \in {"PENDING", "EXPIRED"}
Alerts(P(_)) == {i \in DOMAIN alert : P(alert[i])}
Oldest(P(_)) == CHOOSE i \in DOMAIN alert : P(alert[i]) /\ \A j \in 1..(i - 1) : ~P(alert[j])
Newest(P(_)) == CHOOSE i \in DOMAIN alert :
                  P(alert[i]) /\ \A j \in (i + 1)..Len(alert) : ~P(alert[j])

-----------------------------------------------------------------------------
(***************************************************************************)
(* What a request loses when a write of its fails or its process dies.     *)
(***************************************************************************)
Loses(w) == /\ Cardinality(lost) < MaxLost
            /\ lost' = lost \cup (IF w \in Uploader THEN {call[w].cap} \cap Capture
                                ELSE {call[w].order} \cap Order)

Dies(w) == /\ ~At(w, "idle") /\ Loses(w) /\ Over(w)
           /\ UNCHANGED <<stored, seen, acts>>

(***************************************************************************)
(* confirmKatanaOrder, and whether it may refuse (409).  A paid order      *)
(* answers as a replay, unless it expired and was paid while the request   *)
(* was at it.  A reference another order was paid with is refused; one the *)
(* code generates, for want of a real one, may be another order's too.     *)
(***************************************************************************)
Refusals(o, u) ==
  LET taken == {order[p].rrn : p \in Order \ {o}} \ {NoRef}
  IN  CASE Paid(o) -> IF o \in Lapsing THEN BOOLEAN ELSE {FALSE}
        [] ~Paid(o) /\ u \in taken -> {TRUE}
        [] OTHER -> IF (u = NoRef /\ taken # {}) \/ "derived" \in taken THEN BOOLEAN ELSE {FALSE}

\* Mutant: paid without a reference of its own.
ConfirmedBare(o, u) ==
  IF Paid(o) THEN order ELSE [order EXCEPT ![o] = [status |-> "SUCCESS", rrn |-> u]]
Confirmed(o, u) ==
  IF Paid(o) THEN order
  ELSE [order EXCEPT ![o] = [status |-> "SUCCESS", rrn |-> IF u = NoRef THEN "derived" ELSE u]]

(***************************************************************************)
(* Has this payment been seen?  By its RRN, by the identical text, by an   *)
(* echo, by the time the text states.  The last also names the alert that  *)
(* is to receive what this capture knows.                                  *)
(***************************************************************************)
SameReference(c, a) == c.utr # NoRef /\ a.utr = c.utr
SameText(c, a) == a.cap = c
SameBurst(c, a) == c.utr = NoRef /\ a.utr = NoRef /\ <<a.cap, c>> \in Echo
SameTime(c, a) == /\ c.at # 0 /\ a.cap.at = c.at
                  /\ a.cap.amount = c.amount
                  /\ c.utr = NoRef \/ a.utr \in {NoRef, c.utr}

\* The checks in their order: the first that finds something decides what kind of duplicate
\* the capture is.  A repeated reference, an echo and a repeated time are benign.
KnownBy(c) ==
  LET found(P(_, _)) == \E i \in DOMAIN alert : P(c, alert[i])
  IN  CASE found(SameReference) -> "reference"
        [] ~found(SameReference) /\ found(SameText) -> "text"
        [] ~found(SameReference) /\ ~found(SameText) /\ found(SameBurst) -> "burst"
        [] OTHER -> IF found(SameTime) THEN "time" ELSE "nothing"

Sight(w) ==
  /\ w \in Uploader /\ At(w, "idle")
  /\ \E c \in Handles[w] : \E by \in {KnownBy(c)} :
       /\ uploads[c] < MaxUploads
       /\ uploads' = [uploads EXCEPT ![c] = @ + 1]
       /\ Becomes(w, [Idle EXCEPT !.pc = IF by = "time" THEN "fold" ELSE "match", !.cap = c,
                                  !.row = IF by = "time" THEN Oldest(LAMBDA a : SameTime(c, a)) ELSE 0,
                                  !.dup = by # "nothing", !.benign = by \notin {"nothing", "text"}])
  /\ raced' = (raced \/ \E v \in Uploader \ {w} : ~At(v, "idle"))
  /\ UNCHANGED <<stored, acts, contested, lost>>

Else(x, y, none) == IF x = none THEN y ELSE x

\* UPDATE ... SET utr = COALESCE($2, utr), under no guard; a failure is swallowed.
Fold(w) ==
  /\ At(w, "fold")
  /\ LET c == call[w].cap
     IN  \/ alert' = [alert EXCEPT ![call[w].row].utr = Else(c.utr, @, NoRef)] /\ UNCHANGED lost
         \/ Loses(w) /\ UNCHANGED alert
  /\ Goto(w, "match")
  /\ UNCHANGED <<order, case, seen, acts>>

(***************************************************************************)
(* Order matching: the order the capture names, the order that carries its *)
(* reference, or the one open order of this amount, a live one first.      *)
(***************************************************************************)
amountMatches(c, o) == Price[o] = c.amount

Waiting(c) == LET fits(s) == {o \in Order : order[o].status = s /\ amountMatches(c, o)}
              IN  IF fits("PENDING") # {} THEN fits("PENDING") ELSE fits("EXPIRED")

CarriedBy(c) == {o \in Order : c.utr # NoRef /\ order[o].rrn = c.utr}

Candidates(c, dup) == CASE c.ref # NoOrder -> {c.ref}
                        [] c.ref = NoOrder /\ CarriedBy(c) # {} -> CarriedBy(c)
                        [] OTHER -> IF dup THEN {} ELSE Waiting(c)

Matched(c, dup) == IF Cardinality(Candidates(c, dup)) = 1
                   THEN CHOOSE o \in Candidates(c, dup) : TRUE ELSE NoOrder

OutcomeOf(c, dup, o) ==
  CASE dup -> "DUPLICATE"
    [] ~dup /\ o # NoOrder /\ c.trusted /\ amountMatches(c, o) -> "CONFIRMED"
    [] ~dup /\ o = NoOrder /\ Candidates(c, dup) # {} -> "AMBIGUOUS"
    [] OTHER -> "UNMATCHED"

MatchOrder(w) ==
  /\ At(w, "match")
  /\ LET c == call[w].cap
         d == call[w].dup
     IN  \E o \in {Matched(c, d)} :
           Becomes(w, [call[w] EXCEPT !.order = o, !.outcome = OutcomeOf(c, d, o),
                                      !.pc = IF ~d /\ (c.utr # NoRef \/ c.ref # NoOrder)
                                             THEN "place" ELSE "insert"])
  /\ UNCHANGED <<stored, history, acts>>

(***************************************************************************)
(* Enrich-merge: the alert that names the same order and lacks a           *)
(* reference; else the only one of this amount, from another channel, that *)
(* lacks what this capture brings; else the newest of the same payer.      *)
(***************************************************************************)
FromElsewhere(c, a) == a.cap.source # c.source /\ a.cap.amount = c.amount

SameOrder(c) == Alerts(LAMBDA a : c.ref # NoOrder /\ a.ref = c.ref /\ a.utr = NoRef)
\* Mutant: an alert that has its reference may be given another.
ComplementaryAny(c) == Alerts(LAMBDA a : FromElsewhere(c, a) /\ a.outcome # "DUPLICATE")
Complementary(c) == Alerts(LAMBDA a : /\ FromElsewhere(c, a) /\ a.outcome # "DUPLICATE"
                                      /\ \/ c.utr # NoRef /\ a.utr = NoRef
                                         \/ c.ref # NoOrder /\ a.ref = NoOrder
                                      /\ NoRef \in {c.vpa, a.vpa} \/ a.vpa = c.vpa)
SamePayer(c, a) == /\ FromElsewhere(c, a) /\ a.utr = NoRef
                   /\ c.utr # NoRef /\ c.vpa # NoRef /\ a.vpa = c.vpa

Sole(S) == IF Cardinality(S) = 1 THEN CHOOSE i \in S : TRUE ELSE 0

Target(c) ==
  CASE Sole(SameOrder(c)) # 0 -> Sole(SameOrder(c))
    [] Sole(SameOrder(c)) = 0 /\ Sole(Complementary(c)) # 0 -> Sole(Complementary(c))
    [] OTHER -> IF \E i \in DOMAIN alert : SamePayer(c, alert[i])
                THEN Newest(LAMBDA a : SamePayer(c, a)) ELSE 0

Place(w) ==
  /\ At(w, "place")
  /\ \E t \in {Target(call[w].cap)} :
       Becomes(w, [call[w] EXCEPT !.row = t, !.pc = IF t = 0 THEN "insert" ELSE "merge"])
  /\ UNCHANGED <<stored, history, acts>>

\* What an alert gains from a capture: the reference is overwritten, the rest only filled in.
Enriched(a, c) == [a EXCEPT !.utr = Else(c.utr, @, NoRef), !.ref = Else(@, c.ref, NoOrder),
                            !.vpa = Else(@, c.vpa, NoRef)]

\* The request returns here and says merged, also when the UPDATE failed: the order it matched
\* is not confirmed.
Merge(w) ==
  /\ At(w, "merge")
  /\ \/ alert' = [alert EXCEPT ![call[w].row] = Enriched(@, call[w].cap)] /\ UNCHANGED lost
     \/ Loses(w) /\ UNCHANGED alert
  /\ Over(w)
  /\ UNCHANGED <<order, case, seen, acts>>

AfterInsert(k) == CASE k.outcome = "CONFIRMED" -> "confirm"
                    [] k.outcome # "CONFIRMED" /\ ~k.benign -> "case"
                    [] OTHER -> "idle"

Insert(w) ==
  /\ At(w, "insert")
  /\ LET k == call[w]
         c == k.cap
     IN  /\ alert' = Append(alert, [cap |-> c, utr |-> c.utr, ref |-> c.ref, vpa |-> c.vpa,
                                    outcome |-> k.outcome, order |-> k.order])
         /\ case' = Append(case, NoCase)
         /\ Becomes(w, IF AfterInsert(k) = "idle" THEN Idle
                       ELSE [k EXCEPT !.pc = AfterInsert(k), !.row = Len(alert')])
  /\ UNCHANGED <<order, history, acts>>

\* openManualCase, for an alert that did not confirm and for one whose order refused it.  A
\* failed insert is swallowed, and the request goes on without a case.
OpenCase(w) ==
  /\ At(w, "case")
  /\ LET k == call[w]
     IN  /\ \/ /\ case' = [case EXCEPT ![k.row] = [status |-> "OPEN", order |-> k.order]]
               /\ UNCHANGED lost
            \/ Loses(w) /\ UNCHANGED case
         /\ IF k.outcome = "DUPLICATE" /\ ~k.dup THEN Goto(w, "demote") ELSE Over(w)
  /\ UNCHANGED <<order, alert, seen, acts>>

\* Mutant: the answer of confirmKatanaOrder is not looked at.
AnswerIgnored(k, no) == Idle
AfterConfirm(k, no) == IF no THEN [k EXCEPT !.pc = "case", !.outcome = "DUPLICATE"] ELSE Idle

ConfirmOrder(w) ==
  /\ At(w, "confirm")
  /\ LET k == call[w]
     IN  \E no \in Refusals(k.order, k.cap.utr) :
           /\ order' = IF no THEN order ELSE Confirmed(k.order, k.cap.utr)
           /\ Becomes(w, AfterConfirm(k, no))
  /\ UNCHANGED <<alert, case, history, acts>>

\* A failure is swallowed: the alert goes on saying CONFIRMED.
Demote(w) ==
  /\ At(w, "demote")
  /\ \/ alert' = [alert EXCEPT ![call[w].row].outcome = call[w].outcome] /\ UNCHANGED lost
     \/ Loses(w) /\ UNCHANGED alert
  /\ Over(w)
  /\ UNCHANGED <<order, case, seen, acts>>

(***************************************************************************)
(* linkCreditToOrder: staff pick an open order for an alert that is not    *)
(* confirmed; the order is confirmed with the alert's reference and the    *)
(* alert is then marked, under no guard.                                   *)
(***************************************************************************)
Linkable(o) == Open(o) /\ order[o].rrn = NoRef
               /\ \A i \in DOMAIN alert : ~(alert[i].order = o /\ alert[i].outcome = "CONFIRMED")

\* Mutant: a payment is linked whatever became of it.
LinkableAny(a) == TRUE
Unlinked(a) == a.outcome # "DUPLICATE" /\ ~(a.outcome = "CONFIRMED" /\ a.order # NoOrder)

\* A request of staff begins.
Asked(w) == w \in Clerk /\ At(w, "idle") /\ acts < MaxActs /\ acts' = acts + 1

LinkRead(w) ==
  /\ Asked(w)
  /\ \E i \in DOMAIN alert, o \in Order :
       /\ Unlinked(alert[i]) /\ Linkable(o) /\ amountMatches(alert[i].cap, o)
       /\ Becomes(w, [Idle EXCEPT !.pc = "link", !.row = i, !.order = o, !.utr = alert[i].utr])
       /\ LET others == {v \in Clerk : call[v].pc \in {"link", "mark"} /\ call[v].row = i}
          IN  contested' = contested \cup {call[v].order : v \in others}
                                     \cup {p \in {o} : others # {}}
  /\ UNCHANGED <<stored, uploads, raced, lost>>

\* A confirmation asked for by staff: refused, the request ends there.
StaffConfirms(w, pc, then) ==
  /\ At(w, pc)
  /\ LET k == call[w]
     IN  \E no \in Refusals(k.order, k.utr) :
           IF no THEN UNCHANGED order /\ Over(w)
           ELSE order' = Confirmed(k.order, k.utr) /\ Goto(w, then)
  /\ UNCHANGED <<alert, case, history, acts>>

LinkConfirm(w) == StaffConfirms(w, "link", "mark")

LinkMark(w) ==
  /\ At(w, "mark")
  /\ alert' = [alert EXCEPT ![call[w].row].order = call[w].order,
                            ![call[w].row].outcome = "CONFIRMED"]
  /\ Over(w)
  /\ UNCHANGED <<order, case, history, acts>>

(***************************************************************************)
(* A manual case: CONFIRM pays the order the case names, with the      *)
(* payment's reference if the operator types it, and resolves the case;    *)
(* REJECT closes it.                                                       *)
(***************************************************************************)
\* Two of staff decide the case i at once.
Disputed(w, i) ==
  IF \E v \in Clerk \ {w} : call[v].pc \in {"decide", "resolve"} /\ call[v].row = i
  THEN {case[i].order} \cap Order ELSE {}

CaseConfirmRead(w) ==
  /\ Asked(w)
  /\ \E i \in DOMAIN case, typed \in BOOLEAN :
       /\ case[i].status = "OPEN" /\ case[i].order # NoOrder
       /\ Becomes(w, [Idle EXCEPT !.pc = "decide", !.row = i, !.order = case[i].order,
                                  !.utr = IF typed THEN alert[i].cap.pay ELSE NoRef])
       /\ contested' = contested \cup Disputed(w, i)
  /\ UNCHANGED <<stored, uploads, raced, lost>>

CaseConfirm(w) == StaffConfirms(w, "decide", "resolve")

CaseRejectRead(w) ==
  /\ Asked(w)
  /\ \E i \in DOMAIN case : /\ case[i].status = "OPEN"
                            /\ Becomes(w, [Idle EXCEPT !.pc = "resolve", !.row = i])
                            /\ contested' = contested \cup Disputed(w, i)
  /\ UNCHANGED <<stored, uploads, raced, lost>>

\* No guard on the status: the last of two operators decides what the case says.
CaseWrite(w) ==
  /\ At(w, "resolve")
  /\ case' = [case EXCEPT ![call[w].row].status =
                IF call[w].order = NoOrder THEN "REJECTED" ELSE "RESOLVED"]
  /\ Over(w)
  /\ UNCHANGED <<order, alert, history, acts>>

-----------------------------------------------------------------------------
\* An order expires while nothing has paid it (PayinOrder).
Expire(o) == /\ o \in Lapsing /\ order[o].status = "PENDING"
             /\ order' = [order EXCEPT ![o].status = "EXPIRED"]
             /\ UNCHANGED <<alert, case, history, acts, call>>

Upload(w) == \/ Sight(w) \/ Fold(w) \/ MatchOrder(w) \/ Place(w) \/ Merge(w) \/ Insert(w)
             \/ OpenCase(w) \/ ConfirmOrder(w) \/ Demote(w)

Staff(w) == \/ LinkRead(w) \/ LinkConfirm(w) \/ LinkMark(w)
            \/ CaseConfirmRead(w) \/ CaseConfirm(w) \/ CaseRejectRead(w) \/ CaseWrite(w)

Next == \/ \E w \in Worker : Upload(w) \/ Staff(w) \/ Dies(w)
        \/ \E o \in Order : Expire(o)

Spec == Init /\ [][Next]_vars

-----------------------------------------------------------------------------
(***************************************************************************)
(* Properties.                                                             *)
(***************************************************************************)
\* Type correctness; an alert and its case share an index, and exactly the paid orders carry a
\* reference.
CreditTypeOK == /\ order \in [Order -> OrderRow]
                /\ \A o \in Order : Paid(o) <=> order[o].rrn # NoRef
                /\ \A i \in DOMAIN alert : alert[i] \in Alert
                /\ \A i \in DOMAIN case : case[i] \in CaseRow
                /\ Len(case) = Len(alert)
                /\ uploads \in [Capture -> 0..MaxUploads] /\ raced \in BOOLEAN
                /\ contested \subseteq Order /\ lost \subseteq Capture \cup Order /\ acts \in 0..MaxActs
                /\ \A w \in Worker : call[w] \in Call

InHand(i) == \E w \in Worker : ~At(w, "idle") /\ call[w].row = i

\* Nothing is left between two tables: of an alert nobody works on, what it says is so elsewhere
\* too.  A confirmed one has its order paid, one that matched nothing or too much waits in a case
\* or was decided in one; and a case that says RESOLVED has paid its order.  Uploads, staff and
\* operators interleave freely (ingestTxnAlert, linkCreditToOrder, the cases route).  Excepted
\* are the captures whose own upload was cut short: openManualCase and the demotion after a
\* refusal swallow a failed write, and a death leaves the alert as it was inserted.
TablesAgree ==
  /\ \A i \in DOMAIN alert : ~InHand(i) /\ alert[i].cap \notin lost =>
       /\ alert[i].outcome = "CONFIRMED" => Paid(alert[i].order)
       /\ alert[i].outcome \in {"UNMATCHED", "AMBIGUOUS"} => case[i].status # "none"
  /\ \A i \in DOMAIN case : case[i].status = "RESOLVED" => Paid(case[i].order)

\* Every paid order can be traced to what paid it: an alert confirmed for it, or a case about
\* it that was resolved.  Excepted are the orders two of staff decide on at the same moment over
\* one alert, and those a request died over.  Two that link one alert to two orders both pay
\* theirs when it has no reference, and the alert keeps the second; of two that decide one case
\* the last to write has the last word, and a paid order's case may say REJECTED.
PaidIsTraceable ==
  \A o \in Order \ (contested \cup lost) : Paid(o) =>
    \/ \E w \in Worker : ~At(w, "idle") /\ call[w].order = o
    \/ \E i \in DOMAIN alert : alert[i].order = o /\ alert[i].outcome = "CONFIRMED"
    \/ \E i \in DOMAIN case : case[i].order = o /\ case[i].status = "RESOLVED"

\* An alert that is money, or that waits in a case for a person.
Counted(i) == alert[i].outcome # "DUPLICATE" \/ case[i].status # "none"

Brought(c) == uploads[c] > 0 /\ c.utr # NoRef
OneAtATime == ~raced /\ \A w \in Uploader : At(w, "idle")

\* "Wrongly collapsing two genuine same-amount payments would UNDER-report real money"
\* (lib/txn-reconcile): when the captures came one at a time, whatever order they came in and
\* however often, and whatever staff did meanwhile, every reference they brought is on an alert
\* of its own that counts, or was put there by a later capture.  Excepted are the captures that
\* bring a reference and an order at once (enrich-merge may write theirs over another payment's)
\* and the references of uploads that were cut short: a fold or a merge whose UPDATE fails is
\* answered as done.
\* An alert already judged a duplicate may receive a reference and stay one (ReferenceDecides).
NeverUnderReported ==
  (OneAtATime /\ \A c \in Capture : Brought(c) => c.ref = NoOrder) =>
    \A c \in Capture : Brought(c) =>
      \/ \E d \in lost \cap Capture : d.utr = c.utr
      \/ \E i \in DOMAIN alert : alert[i].utr = c.utr /\ (Counted(i) \/ alert[i].cap.utr # c.utr)

\* "As soon as either side has a real reference, that reference decides", not amount and time
\* (lib/txn-reconcile): every reference that captures brought one at a time is counted.
ReferenceDecides ==
  OneAtATime => \A c \in Capture : Brought(c) =>
    \E i \in DOMAIN alert : alert[i].utr = c.utr /\ Counted(i)
=============================================================================
