------------------------------ MODULE Payouts ------------------------------
(***************************************************************************)
(* Both payout routes together, with what is promised of them.  A payout's *)
(* route is decided when it is created, so one run covers both.            *)
(***************************************************************************)
EXTENDS ProviderPayout, PayoutQueue

ServerStep(w) ==
  \/ CreateInsert(w) \/ CreateValidated(w) \/ CreateRoute(w) \/ CreateApproval(w) \/ Release(w)
  \/ DecideWrite(w) \/ Decided(w) \/ TransitionRead(w) \/ TransitionWrite(w)
  \/ TellRead(w) \/ TellClaim(w) \/ TellEnqueue(w) \/ TellRestore(w)
  \/ DispatchRead(w) \/ DispatchBlock(w) \/ DispatchClaim(w) \/ Transfer(w) \/ DispatchRefused(w)
  \/ Lookup(w) \/ Apply(w)
  \/ AssignWrite(w) \/ SweepWrite(w) \/ QueueFollows(w) \/ PostJournal(w)

Next ==
  \/ \E w \in Request : CreateRead(w) \/ DecideRead(w) \/ SyncHinted(w) \/ AssignRead(w) \/ OperatorActs(w)
  \/ \E p \in Payout : SyncSwept(p) \/ SweepRead(p) \/ GatewaySettles(p) \/ GatewayChangesItsMind(p)
  \/ \E w \in Worker : ServerStep(w) \/ LookupUnknown(w) \/ Crash(w)

\* A request that has begun goes on unless its process dies; the cron jobs come round again; and
\* a gateway gives every transfer it has taken a result.
Fairness == /\ \A w \in Worker : WF_vars(ServerStep(w))
            /\ \A p \in Payout : WF_vars(SyncSwept(p)) /\ WF_vars(SweepRead(p)) /\ WF_vars(GatewaySettles(p))

Spec == Init /\ [][Next]_vars /\ Fairness

-----------------------------------------------------------------------------
\* Types: the tables and the workers hold what their columns and handlers allow.
PayoutTypeOK ==
  /\ row \in [Payout -> Row]
  /\ approval \in [Payout -> {"none", "PENDING", "APPROVED", "REJECTED"}]
  /\ queue \in [Payout -> [status : {"none", "QUEUED", "ASSIGNED", "ACCEPTED", "CANCELLED", "DONE"},
                           count : 0..MaxReassigns]]
  /\ bank \in [Payout -> Answer \cup {"pending"}]
  /\ transfers \in [Payout -> Nat]
  /\ alerts \in [Payout -> SUBSET {"NOT_FOUND", "AMOUNT_MISMATCH", "REVERSED", "SUCCESS_AFTER_FAILED"}]
  /\ journal \subseteq Payout
  /\ told \in [Payout -> [Word -> 0..Repeated]]
  /\ decided \in [Payout -> [yes : Nat, no : Nat]]
  /\ call \in [Worker -> Call]
  /\ faults \in 0..MaxFaults

\* At most one decision was written: two checkers who decide one approval at the same moment
\* both pass its PENDING check, and what they then do to the order is the subject of the run
\* MCTransferTwice.
UndisputedPayout(p) == decided[p].yes + decided[p].no <= 1

\* A payout is sent to the gateway at most once, and once more only for each further approval
\* written for it: never for a repeated create request, a crash, a lost answer, a webhook or a
\* sweep (dispatchProviderPayout: "sending it again could pay twice").
SentOncePerApproval ==
  \A p \in Payout : transfers[p] <= IF decided[p].yes > 1 THEN decided[p].yes ELSE 1

\* Maker-checker: a payout that needs approval is neither sent to a gateway nor put before an
\* operator until a checker has approved it.
HeldNeedsApproval ==
  \A p \in Payout : row[p].held /\ (transfers[p] > 0 \/ queue[p].status # "none")
                      => decided[p].yes > 0

\* A gateway payout is closed by what became of its transfer and by nothing else: COMPLETED only
\* if the gateway paid, FAILED never while the transfer may still be paid, and REJECTED or
\* CANCELLED only if it was never sent.
ClosedByTheGateway ==
  \A p \in Payout : row[p].provider /\ UndisputedPayout(p) =>
    /\ row[p].status = "COMPLETED" => bank[p] \in {"success", "reversed"}
    /\ row[p].status = "FAILED" => bank[p] # "pending"
    /\ row[p].status \in {"REJECTED", "CANCELLED"} => transfers[p] = 0

\* The callbacks for one payout repeat no word: the claim on callback_status survives webhooks,
\* sweeps and operators that arrive together, and enqueues that fail.
EachWordOnce ==
  \A p \in Payout : row[p].provider /\ UndisputedPayout(p) => \A d \in Word : told[p][d] <= 1

\* A merchant paid through a gateway is never told both that a payout went through and that it
\* did not: he would pay the same person twice.
OneVerdict ==
  \A p \in Payout : row[p].provider /\ UndisputedPayout(p) /\ told[p]["SUCCESS"] > 0
                      => told[p]["FAILED"] = 0 /\ told[p]["REJECTED"] = 0

\* A payout completed by hand is debited to the merchant, or some request is still about to do
\* so; only a death or a failed posting in between loses the debit: the order is COMPLETED some
\* statements before the ledger knows.
PaidIsDebited ==
  \A p \in Payout : row[p].status = "COMPLETED" /\ ~row[p].provider =>
    \/ p \in journal \/ faults > 0
    \/ \E w \in Worker : call[w].order = p /\ call[w].pc \in {"closed", "journal"}

\* A final status of a gateway payout is final; only a reversal still changes COMPLETED.
FinalStays ==
  [][\A p \in Payout : row[p].provider /\ UndisputedPayout(p) /\ UndisputedPayout(p)' =>
       /\ row[p].status \in {"FAILED", "REJECTED", "CANCELLED", "REVERSED"}
            => row'[p].status = row[p].status
       /\ row[p].status = "COMPLETED" => row'[p].status \in {"COMPLETED", "REVERSED"}]_vars

\* A payout that was sent is resolved, or somebody is told why it cannot be: whatever webhook is
\* lost and whichever request dies, the cron asks again.
SubmittedResolves ==
  \A p \in Payout : row[p].status = "SUBMITTED"
    ~> row[p].status # "SUBMITTED" \/ alerts[p] \cap {"AMOUNT_MISMATCH", "NOT_FOUND"} # {}

\* The route that handles an operator's action writes the queue row last and under no guard: if
\* the sweep has taken the item from him in between, that write takes it out of the sweep's sight.
TakenOver(p) == queue[p].status \in {"ACCEPTED", "CANCELLED", "DONE"} /\ queue[p].count < MaxReassigns

\* An item an operator was given and never accepts is taken from him again, unless a process
\* dies between the queue row and the order, or a late write of an earlier operator's action
\* has left the queue row in a state the sweep does not look for.
AssignedMoves ==
  \A p \in Payout : row[p].status = "ASSIGNED"
    ~> row[p].status # "ASSIGNED" \/ faults > 0 \/ TakenOver(p)

-----------------------------------------------------------------------------
\* What lib/provider-payout-order says of dispatch: "Safe to call twice: only one call wins the
\* QUEUED row", since "sending it again could pay twice".
NeverSentTwice == \A p \in Payout : transfers[p] <= 1
=============================================================================
