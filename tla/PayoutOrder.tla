---------------------------- MODULE PayoutOrder ----------------------------
(***************************************************************************)
(* A merchant payout (fifo_orders, direction PAYOUT): how it is created    *)
(* once per merchant_txn_id, waits for a checker when policy says so, is   *)
(* released to its route, and how the merchant is told of a final status.  *)
(* The two routes are modules of their own: ProviderPayout (the merchant's *)
(* payout gateway) and PayoutQueue (operators who pay by hand); Payouts    *)
(* puts them together.                                                     *)
(*                                                                         *)
(* As in PayinOrder, every request is a worker that runs its handler one   *)
(* SQL statement at a time.  transition() of lib/fifo reads the status,    *)
(* checks the table NEXT and then writes under no guard: it is two steps.  *)
(***************************************************************************)
EXTENDS Naturals, FiniteSets

CONSTANTS Payout,      \* merchant_txn_ids payouts are asked for under
          Request,     \* requests the server handles at once
          Cron,        \* the process the scheduled jobs run in
          NoPayout,    \* a worker that handles none
          MaxReassigns,   \* MAX_REASSIGNS: missed SLAs before an item is escalated
          Deciders,    \* bound: checkers who decide one approval at the same moment
          Operators,   \* bound: operators' actions carried out at the same moment
          MaxFaults    \* bound: crashes, failed enqueues and failed postings

Worker == Request \cup {Cron}

ASSUME PayoutAssumption == /\ NoPayout \notin Payout /\ Cron \notin Request
                           /\ MaxReassigns \in Nat \ {0} /\ Deciders \in Nat /\ Operators \in Nat
                           /\ MaxFaults \in Nat

VARIABLES row,         \* fifo_orders
          approval,    \* fifo_approvals.status of the payout's maker-checker record
          queue,       \* fifo_queue
          bank,        \* what the gateway did with the transfer
          transfers,   \* how often the gateway was asked to pay
          alerts,      \* fifo_fraud_alerts about the payout, by kind
          journal,     \* payouts whose payout.disbursed journal is in the ledger
          told,        \* how many callbacks with each word were queued for the merchant
          decided,     \* history: decisions the checkers wrote
          call, faults

ledgers == <<journal, told>>
gateway == <<bank, transfers, alerts>>
vars == <<row, approval, queue, bank, transfers, alerts, journal, told, decided,
          call, faults>>

NEXT == [NONE           |-> {},
         CREATED        |-> {"VALIDATED", "REJECTED"},
         VALIDATED      |-> {"QUEUED", "HOLD"},
         QUEUED         |-> {"ASSIGNED", "CANCELLED", "SUBMITTED"},
         ASSIGNED       |-> {"ACCEPTED", "QUEUED", "HOLD"},
         ACCEPTED       |-> {"PROCESSING", "QUEUED", "HOLD"},
         PROCESSING     |-> {"PROOF_UPLOADED", "FAILED", "HOLD"},
         PROOF_UPLOADED |-> {"COMPLETED", "REJECTED", "PROCESSING", "HOLD"},
         SUBMITTED      |-> {"COMPLETED", "FAILED"},
         COMPLETED      |-> {"REVERSED"},   \* refunds and settlement batches are pay-ins'
         HOLD           |-> {"VALIDATED", "QUEUED", "REJECTED", "CANCELLED"},
         REJECTED |-> {}, CANCELLED |-> {}, FAILED |-> {}, REVERSED |-> {}]
Status == DOMAIN NEXT

canTransition(from, to) == to \in NEXT[from]

\* Mutant: a word for a status that is not final.
publicAnyStatus(s) == IF s \in {"COMPLETED", "SETTLED"} THEN "SUCCESS" ELSE "PROCESSING"

\* The word the merchant sees; only the final ones are ever sent.
publicPayoutStatus(s) == CASE s = "COMPLETED" -> "SUCCESS"
                           [] s \in {"FAILED", "REVERSED"} -> s
                           [] s \in {"REJECTED", "CANCELLED"} -> "REJECTED"
                           [] OTHER -> "none"
Word == {"SUCCESS", "FAILED", "REJECTED", "REVERSED"}
Repeated == 2            \* bound: callbacks with one word are counted up to two

Row == [status : Status, callback : Word \cup {"none"},
        provider : BOOLEAN,      \* the merchant has a payout gateway: it pays, not an operator
        held : BOOLEAN]          \* high value, or a MAKER_CHECKER merchant

PC == {"idle", "insert", "created", "validated", "held", "decide", "decided", "read", "write",
       "release", "dispatch", "block", "send", "transfer", "refuse", "lookup", "apply",
       "tell", "claim", "enqueue", "restore",
       "assign", "sweep", "accepted", "closed", "journal", "dropped", "rejected", "over"}

Answer == {"none", "success", "other", "failed", "reversed"}

\* to, seen: the status a handler wants and the one it read; then: what it does next.
Call == [pc : PC, order : Payout \cup {NoPayout}, to : Status, then : PC, seen : Status,
         hint : BOOLEAN, answer : Answer, word : Word \cup {"none"}, prior : Word \cup {"none"},
         count : 0..MaxReassigns]

Idle == [pc |-> "idle", order |-> NoPayout, to |-> "NONE", then |-> "over", seen |-> "NONE",
         hint |-> FALSE, answer |-> "none", word |-> "none", prior |-> "none", count |-> 0]

At(pc, p) == IF pc = "over" THEN Idle ELSE [Idle EXCEPT !.pc = pc, !.order = p]
Goto(w, pc) == call' = [call EXCEPT ![w] = At(pc, @.order)]
Over(w) == Goto(w, "over")
Start(w, c) == call[w] = Idle /\ call' = [call EXCEPT ![w] = c]
Step(w, pc) == call[w].pc = pc
SetStatus(p, s) == row' = [row EXCEPT ![p].status = s]

Init == /\ row = [p \in Payout |-> [status |-> "NONE", callback |-> "none",
                                    provider |-> FALSE, held |-> FALSE]]
        /\ approval = [p \in Payout |-> "none"]
        /\ queue = [p \in Payout |-> [status |-> "none", count |-> 0]]
        /\ bank = [p \in Payout |-> "none"]
        /\ transfers = [p \in Payout |-> 0]
        /\ alerts = [p \in Payout |-> {}]
        /\ journal = {}
        /\ told = [p \in Payout |-> [d \in Word |-> 0]]
        /\ decided = [p \in Payout |-> [yes |-> 0, no |-> 0]]
        /\ call = [w \in Worker |-> Idle]
        /\ faults = 0

-----------------------------------------------------------------------------
(***************************************************************************)
(* transition(): the read and the check, then the write.  A refused move   *)
(* ends an operator's request with a 409; decideApproval ignores it.       *)
(***************************************************************************)
Ignored == {"release", "tell"}

AfterRead(p, to, then) ==
  LET s == row[p].status
  IN  CASE s = to -> At(then, p)
        [] s # to /\ canTransition(s, to) -> [At("write", p) EXCEPT !.to = to, !.then = then]
        [] OTHER -> At(IF then \in Ignored THEN then ELSE "over", p)

TransitionRead(w) ==
  /\ Step(w, "read")
  /\ call' = [call EXCEPT ![w] = AfterRead(@.order, @.to, @.then)]
  /\ UNCHANGED <<row, approval, queue, gateway, ledgers, decided, faults>>

TransitionWrite(w) ==
  /\ Step(w, "write")
  /\ SetStatus(call[w].order, call[w].to)
  /\ Goto(w, call[w].then)
  /\ UNCHANGED <<approval, queue, gateway, ledgers, decided, faults>>

(***************************************************************************)
(* createPayout.  The look-up by merchant_txn_id, the refusals (suspension, *)
(* beneficiary, policy, balance: a request refused there leaves nothing    *)
(* behind), and the insert the unique index makes the last word.     *)
(* Until the request has answered nobody else knows the order, so the read *)
(* and the write of its own two transitions are one step each.             *)
(***************************************************************************)
CreateRead(w) ==
  /\ \E p \in Payout : row[p].status = "NONE" /\ Start(w, At("insert", p))
  /\ UNCHANGED <<row, approval, queue, gateway, ledgers, decided, faults>>

InsertTwice(p) == FALSE                            \* mutant: no unique index
existingPayout(p) == row[p].status # "NONE"

CreateInsert(w) ==
  LET p == call[w].order
  IN  /\ Step(w, "insert")
      /\ \/ /\ ~existingPayout(p)
            /\ \E gw, high \in BOOLEAN :
                 row' = [row EXCEPT ![p] = [status |-> "CREATED", callback |-> "none",
                                            provider |-> gw, held |-> high]]
            /\ Goto(w, "created")
         \/ existingPayout(p) /\ Over(w) /\ UNCHANGED row
      /\ UNCHANGED <<approval, queue, gateway, ledgers, decided, faults>>

CreateValidated(w) ==
  /\ Step(w, "created")
  /\ SetStatus(call[w].order, "VALIDATED")
  /\ Goto(w, "validated")
  /\ UNCHANGED <<approval, queue, gateway, ledgers, decided, faults>>

NoApprovalNeeded(p) == FALSE                       \* mutant: every payout goes straight out
approvalNeeded(p) == row[p].held

CreateRoute(w) ==
  LET p == call[w].order
  IN  /\ Step(w, "validated")
      /\ \/ approvalNeeded(p) /\ SetStatus(p, "HOLD") /\ Goto(w, "held")
         \/ ~approvalNeeded(p) /\ SetStatus(p, "QUEUED") /\ Goto(w, "release")
      /\ UNCHANGED <<approval, queue, gateway, ledgers, decided, faults>>

\* A request is between the insert of the order and the last word on its route.
Creating == {"created", "validated", "held"}
BeingCreated(p) == \E w \in Request : call[w].order = p /\ call[w].pc \in Creating

\* A failed insert is swallowed and leaves what a death before it leaves (Crash): a HOLD without
\* an approval.
CreateApproval(w) ==
  /\ Step(w, "held")
  /\ approval' = [approval EXCEPT ![call[w].order] = "PENDING"]
  /\ Over(w)
  /\ UNCHANGED <<row, queue, gateway, ledgers, decided, faults>>

\* A released payout goes to its gateway, or into the operators' queue (once: the row is unique).
Release(w) ==
  LET p == call[w].order
  IN  /\ Step(w, "release")
      /\ \/ row[p].provider /\ Goto(w, "dispatch") /\ UNCHANGED queue
         \/ /\ ~row[p].provider
            /\ queue' = IF queue[p].status = "none" THEN [queue EXCEPT ![p].status = "QUEUED"]
                                                     ELSE queue
            /\ Over(w)
      /\ UNCHANGED <<row, approval, gateway, ledgers, decided, faults>>

(***************************************************************************)
(* decideApproval, by a checker who is not the maker.  The PENDING check   *)
(* is made on a read; the decision is then written under no guard.         *)
(***************************************************************************)
Undecided(p) == approval[p] = "PENDING"

DecideRead(w) ==
  /\ Cardinality({v \in Worker : call[v].pc = "decide"}) < Deciders
  /\ \E p \in Payout, to \in {"QUEUED", "REJECTED"} :
       Undecided(p) /\ Start(w, [At("decide", p) EXCEPT !.to = to])
  /\ UNCHANGED <<row, approval, queue, gateway, ledgers, decided, faults>>

DecideWrite(w) ==
  LET c == call[w]
      yes == c.to = "QUEUED"
  IN  /\ Step(w, "decide")
      /\ approval' = [approval EXCEPT ![c.order] = IF yes THEN "APPROVED" ELSE "REJECTED"]
      /\ decided' = IF yes THEN [decided EXCEPT ![c.order].yes = @ + 1]
                           ELSE [decided EXCEPT ![c.order].no = @ + 1]
      /\ call' = [call EXCEPT ![w] = [At("decided", c.order) EXCEPT !.to = c.to]]
      /\ UNCHANGED <<row, queue, gateway, ledgers, faults>>

\* An approval for a merchant suspended in the meantime rejects the payout.  The Suspend switch
\* may be thrown at any moment, so a read of it may find either position.
Decided(w) ==
  LET p == call[w].order
  IN  /\ Step(w, "decided")
      /\ \/ /\ call[w].to = "QUEUED"
            /\ call' = [call EXCEPT ![w] = AfterRead(p, "QUEUED", "release")]
         \/ call' = [call EXCEPT ![w] = AfterRead(p, "REJECTED", "tell")]
      /\ UNCHANGED <<row, approval, queue, gateway, ledgers, decided, faults>>

(***************************************************************************)
(* sendPayoutCallback: read, claim the word unless it is claimed, enqueue; *)
(* a failed enqueue puts back the callback_status that was read.           *)
(***************************************************************************)
TellRead(w) ==
  LET p == call[w].order
      word == publicPayoutStatus(row[p].status)
  IN  /\ Step(w, "tell")
      /\ \/ word = "none" /\ Over(w)
         \/ /\ word # "none"
            /\ call' = [call EXCEPT ![w] = [At("claim", p) EXCEPT !.word = word,
                                                                  !.prior = row[p].callback]]
      /\ UNCHANGED <<row, approval, queue, gateway, ledgers, decided, faults>>

Unclaimed(p, word) == TRUE                         \* mutant: no IS DISTINCT FROM
Claimable(p, word) == row[p].callback # word

TellClaim(w) ==
  LET c == call[w]
  IN  /\ Step(w, "claim")
      /\ \/ /\ Claimable(c.order, c.word)
            /\ row' = [row EXCEPT ![c.order].callback = c.word]
            /\ call' = [call EXCEPT ![w].pc = "enqueue"]
         \/ ~Claimable(c.order, c.word) /\ Over(w) /\ UNCHANGED row
      /\ UNCHANGED <<approval, queue, gateway, ledgers, decided, faults>>

TellEnqueue(w) ==
  LET c == call[w]
  IN  /\ Step(w, "enqueue")
      /\ \/ /\ told' = [told EXCEPT ![c.order][c.word] = IF @ < Repeated THEN @ + 1 ELSE @]
            /\ Over(w)
            /\ UNCHANGED faults
         \/ /\ faults < MaxFaults /\ faults' = faults + 1
            /\ call' = [call EXCEPT ![w].pc = "restore"]
            /\ UNCHANGED told
      /\ UNCHANGED <<row, approval, queue, gateway, journal, decided>>

TellRestore(w) ==
  /\ Step(w, "restore")
  /\ row' = [row EXCEPT ![call[w].order].callback = call[w].prior]
  /\ Over(w)
  /\ UNCHANGED <<approval, queue, gateway, ledgers, decided, faults>>

-----------------------------------------------------------------------------
\* The process dies between two statements of a handler.
Crash(w) == /\ call[w] # Idle /\ faults < MaxFaults
            /\ Over(w)
            /\ faults' = faults + 1
            /\ UNCHANGED <<row, approval, queue, gateway, ledgers, decided>>
=============================================================================
