# Katana Payment Orchestrator: specifications and proofs

TLA+ models of the money-moving core of the admin-dashboard server
(`src/apps/admin-dashboard`, Next.js, PostgreSQL), with the TLC runs that check
them and the TLAPS proofs of their main theorems. Paths below are relative to
`src/apps/admin-dashboard/src/` unless they start with `tools/`.

## 1. The system

The server is stateless; all state is in PostgreSQL, one database per service.
`lib/pg.ts` `rows()` runs every statement in a transaction of its own, so a
handler is a sequence of atomic statements, and the statements of two requests
(or of a request and a cron job, or of two server processes) interleave in any
order. Three devices hold the handlers together: `UPDATE ... WHERE status =
<the one read>`, unique indexes, and advisory locks. A process can die between
any two statements; a cron job that is posted every few seconds is what repairs
what it leaves.

| Component | State it keeps | Operations | What is hard | What makes it correct |
|---|---|---|---|---|
| Pay-in order (`lib/katana-order`, `katana-pay`, `cron/status-sweep`, pay page, order page, refresh, proof, advance-vpa) | `vendor_payin_orders`: status, rrn, meta | create, confirm, resolve, attach proof, rotate receiver | decisions on snapshots; soft final states that a payment revives; two payments with one reference | a paid order is final; one reference pays one live order; no payment bounces; live and test never mix |
| Merchant callback (`lib/merchant-callback`, `partner/callback`) | `meta.callback` stamp | read, queue, stamp; backstop | fire-and-forget after the status write; parallel senders | nothing false is announced, nothing is forgotten |
| Webhook outbox (`lib/webhook-outbox`) | `webhook_outbox`: status, attempts, next attempt | enqueue, deliver, dispatch, resend | dispatchers that carry the same row | no early give-up, every row ends |
| Pay-in creation (`katana-order`, `payin-limits-store`, `banker-switch`, `mid-switch`, `qr-switch`) | day totals, MID usage, reuse by reference | create under the limits, choose banker and MID | orders arriving together at a limit; one reference sent twice | no limit is passed; one order per reference |
| Gateway pay-ins (`gateway-payin`, `payu-result`) | `meta.gateway`: claim, final | claim, ask the gateway, confirm, mark final | webhook, redirect and poll race; a declined attempt followed by a paid one | what the gateway says paid ends paid |
| Bank credits (`txn-reconcile`, `credit-link-store`, `email-ingest`, manual cases) | `txn_alerts`, cases | ingest, match, enrich, link, resolve | one payment seen on two channels; alerts out of order; equal amounts | alerts, cases and orders agree; every paid order is traced to a credit or a case; no reference is lost |
| Payouts (`payout-api`, `fifo-payout`, `provider-payout-order`, webhooks, verify cron) | `fifo_orders`, `fifo_approvals`, callback_status | create, decide, dispatch, look up, tell | a transfer without an answer; webhook against sweep; two checkers; repeated create requests | sent once; closed by what the gateway did; one verdict told once |
| Settlement engine (`settlement-engine-store`, `settlement-fsm`) | instructions, requests, holds | raise, follow, cancel, release | runs at the same time against one payable; a run that dies half-way | what is raised is covered by the payable; each step posts once |
| Ledger (`ledger`, `ledger-sync`) | journals, hash chain, cursors | post, sync | replays after a crash; posting order | balanced, one journal per key, every source posted |
| Chargebacks, refunds, reserves, disputes | postings, holds | debit, reverse, release | two people on one case | never reversed beyond what was debited |
| Maker-checker, workflows | requests | raise, decide, withdraw, execute | two checkers | executed once, by someone else than its maker |
| FIFO queue (`lib/fifo`) | queue items, operators | assign, accept, sweep, complete | SLA sweep against the operator | one operator holds an item |
| DT quotas (`dt-engine`) | allocations, reservations | reserve, consume, release | reservations at the same time | never over-consumed |
| Circuit breaker (`circuit-breaker`) | failures, state per provider | success, failure, probe | who gets the half-open probe | one probe at a time |
| Access, reports, dashboards, health, bot, Android agent | - | - | - | outside the scope: authorisation and reads; the agent is a client with an outbox of its own |

How they interact: bank credits, gateways, webhooks and operators all end in
`confirmKatanaOrder`; every path that makes an order final calls
`sendPayinCallback`, which queues a row in the outbox and stamps the order; the
sweep's backstop reads those stamps; the ledger sync reads paid orders; the
settlement engine reads the ledger, and follows settlement requests that people
move; a payout ends at a gateway or with an operator, and its merchant is told by
the same outbox.

## 2. What is modelled

| Module | Stands for | State |
|---|---|---|
| `PayinPromise` | the promise to the merchant: an open order may be closed, an unpaid one paid, a paid one never changes, one reference pays one live order | status, paidWith |
| `PayinOrder` | the handlers of an order, statement by statement | row (the table), due (age), call (what each request has read so far), faults |
| `PayinCallback` | `PayinOrder` composed with sendPayinCallback, the backstop and a simple outbox | send (how far each sender is), outbox, lastTold, paidTold |
| `WebhookOutbox` | the delivery and the retries of the outbox | outbox, due, work (copies a dispatcher carries), posted, posts, accepted |
| `BankCredits` | captured bank credits: duplicates, matching, enrichment, confirmation; staff's links and manual cases | order, alert, case, call; histories uploads, raced, contested, lost, acts |
| `PayoutOrder` | a payout's creation, maker-checker, transition() and callbacks | row, approval, told, decided, call, faults |
| `ProviderPayout` | the payouts a gateway pays, and the gateway | bank, transfers, alerts |
| `PayoutQueue` | the payouts operators pay: queue, SLA sweep, actions, journal | queue, journal |
| `Payouts` | both routes composed; their properties | |
| `SettlementAmounts` | the arithmetic of a settlement and its journal lines, no state | |
| `Settlement` | the settlement engine of one banker and the ledger it posts to | payin, posted, balances, instr, request, hold, lock, call; histories reopened, orphans; faults |
| `PayinOrderProofs`, `PayinCallbackProofs`, `WebhookOutboxProofs`, `BankCreditsProofs`, `BankCreditsMoneyProofs`, `PayoutProofs`, `SettlementProofs`, `SettlementBooksProofs` | the theorems | |
| `MC...` | small instances for TLC | |

In every module a request, a job or a person is a worker; its record `call[w]`
holds the values the handler keeps in local variables, so a stale read is just
an old value, and one SQL statement is one step (in `BankCredits`, one write).

**PayinOrder.**

- `confirmKatanaOrder`: `ConfirmRead` (lookup, mode check, final-status lock),
  `ConfirmDupCheck` (the SELECT on the reference), `ConfirmWrite` (the
  compare-and-set, the unique index `vendorGateway 0035`, the one retry),
  `ConfirmReread`. The outcome, the reference and the mode of the evidence are
  chosen freely, so webhooks, bank alerts, operators and simulators are all
  callers. A FAILED outcome carries no reference because the code ignores one.
- the resolvers (the sweep, the pay page, the order page, the refresh):
  `ResolveRead` decides on a snapshot, `ResolveWrite` writes under
  `status NOT IN (final)`. `due` stands for the age at which a test amount
  succeeds by itself or the order expires.
- the payment proof: `ProofRead`, `ProofPark`; advance-vpa: `RotateRead`,
  `RotateWrite`, which writes back the whole meta it had read.
- `Crash`: the process dies and the request's knowledge is gone. `Aging`: time.

`row.meta` keeps the keys that two handlers write or a later decision reads:
review, confirmation (reduced to the mode of its evidence), the READY receivers
and the callback stamp. References, amounts, links and texts are model values
or left out. `genRrn` is a constant because it is a hash that may collide.
SUCCEEDED, which no handler writes, is SUCCESS.

**PayinCallback.** A worker whose write made an order final goes on as a sender:
`SendRead`, `SendQueue`, `SendStamp`. `Backstop` starts a sender for an order
the sweep's query selects (`Owed`). A queue write or a stamp may fail, at the
cost of a fault. The 60 seconds that the backstop leaves to the inline send are
modelled as: a backstop that overlaps another sender of the order costs a
fault. No address, no signing credentials and webhooks switched off leave the
same kind of stamp and are one case, `HasTarget = FALSE`, which no run takes:
nothing is promised to a merchant that cannot be told. An old stamp with
`sent_at` and no status, which blocks every later callback, is left out: no
handler writes one any more.

**WebhookOutbox.** The dispatcher's SELECT takes copies (`DispatchPending`,
`DeliverNow`); `Post` is the attempt, which the merchant's server accepts or not:
a network error, or a row that cannot be signed for want of a secret, is an
attempt too, as in the row's counter, and counts as refused; `Record` is the write that follows, from the attempts the copy had and
under no guard. `FOR UPDATE SKIP LOCKED` protects nothing beyond its own
statement, so copies overlap.

**BankCredits.** A capture is what one upload says of a payment: its source,
reference, the order it names, payer, time, and whether the device is trusted.

- `ingestTxnAlert`: `Sight` (the duplicate checks in their order: reference,
  identical text, echo, event time), `Fold` (the reference goes to the alert of
  the same time), `MatchOrder` (by the named order, by the reference, by
  amount) with the outcome, `Place` and `Merge` (enrichment of an alert that
  lacks something, after which the request returns), `Insert`, `OpenCase`,
  `ConfirmOrder` and `Demote` (a confirmation refused after the insert).
- `linkCreditToOrder`: `LinkRead`, `LinkConfirm`, `LinkMark`, the last under no
  guard. The cases route: `CaseConfirmRead`, `CaseConfirm`, `CaseRejectRead`,
  `CaseWrite`, with the status checked on a read.
- `confirmKatanaOrder` is one step here (`Confirmed`, `Refusals`), because
  `PayinOrder` has its statements. It refuses a reference another order was paid
  with, may refuse one that it derives itself (a hash), and may answer 409 for an
  order that was paid and revived meanwhile. Expiry is an action of the
  environment.
- What can go wrong in the middle: the writes the code wraps in a `.catch`
  (`Fold`, `Merge`, `OpenCase`, `Demote`) may fail, and the request goes on; any
  request may die between two of its steps (`Dies`), which is also what a failed
  statement without a `.catch` does. What was cut short is kept in `lost`.
- One write is one step; the SELECTs before it that belong to one decision
  (`Sight`, `MatchOrder`, `Place`, `LinkRead`) are one step together. What other
  requests write between such a step and the write is modelled, what they write
  between two SELECTs of one decision is not; nor is a SELECT that fails.

**PayoutOrder, ProviderPayout, PayoutQueue.** `CreateRead`, `CreateInsert` (the
unique index decides), `CreateValidated`, `CreateRoute` and `CreateApproval`
are `createPayout`; `DecideRead`, `DecideWrite`, `Decided` are
`decideApproval`; `TransitionRead` and `TransitionWrite` are `transition()` of
`lib/fifo`, which checks the table `NEXT` on a read and writes under no guard;
`Release` sends the payout its way. `TellRead`, `TellClaim`, `TellEnqueue`,
`TellRestore` are `sendPayoutCallback` with its claim on `callback_status`.
`CreateApproval` has no failing branch: a swallowed failure of that insert leaves
the HOLD without an approval that a death before it (`Crash`) leaves.
On the gateway's route `MoveIf` is the guarded update; `DispatchRead`,
`DispatchBlock`, `DispatchClaim`, `Transfer` (accepted, final, refused, or no
answer with or without a transfer) and `DispatchRefused` are the dispatch;
`SyncHinted` (webhook, "Check status"), `SyncSwept` (cron), `Lookup` and `Apply`
are `syncProviderPayout`; the credentials of the gateway are there (without them
every look-up ends as `no_creds`, and nothing is resolved). The gateway is the environment: it pays, fails, pays
another amount, reverses, or pays after it had failed (`GatewaySettles`,
`GatewayChangesItsMind`). On the other route `AssignRead` and `AssignWrite`,
`SweepRead` and `SweepWrite`, `OperatorActs`, `QueueFollows` and `PostJournal`
are assignment, SLA sweep, the order's actions and the debit. The action's own
write to the queue row comes last and has no guard. Updates of the queue row
never fail here, though the code swallows it when they do.

**Settlement.** After its reads, a handler of `settlement-engine-store` is a
fixed list of statements; the model keeps that list (`call[w].todo`) and a
worker carries out one at a time (`DoPost`, `DoStamp`, `DoUnlock`, `DoMove`,
`DoRequest`, `DoReserve`, `DoHold`), or dies in between. `RaiseStart`,
`RaiseLock`, `RaiseBalance`, `RaiseInsert` are `raiseInstruction` under the
banker's advisory lock; `FollowRead` and `FollowStatus` are `followRequests` and
`applyRequestStatus`, with `Plan` the list they come to; `CancelRead`,
`ReleaseRead` and `SyncPayins` are cancelling, `releaseReserves` and the
ledger sync of pay-ins. `Press` is the banker, the merchant and staff on the
request (the table of `lib/settlement-fsm` for bank transfers, and the two older
routes `settlements/[id]/utr` and `/verify`). A journal is named by its idempotency key, and
`balances` keeps what the view `account_balances` returns, the sums of the
posted lines (`Lines`, with the arithmetic of `SettlementAmounts`) by account.

## 3. The runs

| Run | Instance | Shows |
|---|---|---|
| `payin_order` | two live orders, one held, two requests, one reference, given or derived, that both orders compete for, one backup receiver, one death | type correctness; `NoBouncedPayment`, `ConfirmedMeansPaid`, `DuplicateIsReal`, `HeldNeverExpires`, `PaidHasReference`, `OneReferenceOneOrder`; the refinement `KeepsPromise` and `PaidIsFinal` |
| `payin_callback` | one test order that settles by itself, one backup receiver, one fault | `ModesNeverCross`, `CapturedIsTrue`, `SentMeansQueued`, `NothingForgotten` |
| `payin_callback_live` | one live order, one fault, a merchant that does not want Failed | under fairness `PaidIsAnnounced`, `NeverHangs` |
| `webhook_outbox` | a callback and a sample, two dispatchers, a schedule of two waits, one death | `DeliveredIsReal`, `NoEarlyGiveUp`, and under fairness `EveryRowSettles` |
| `payouts` | one payout on either route, two requests and the cron process, one operator's request that overlaps any of them, one fault (330,462 states) | `SentOncePerApproval`, `HeldNeedsApproval`, `ClosedByTheGateway`, `EachWordOnce`, `OneVerdict`, `PaidIsDebited`, `FinalStays`; under fairness `SubmittedResolves`, `AssignedMoves` |
| `settlement` | one cycle and one settlement by hand for the payable of one pay-in, two workers, one fault (104,644 states) | `NeverOverdrawn`, `StateIsBooked`, `OneOutcome`, `OutcomeStays`, and under fairness `VerifiedSettles` |
| `bank_credits` | two payments of one amount, four captures, two uploading requests, two clerks with two acts, one order that may expire, one request cut short (1,279,058 states) | `TablesAgree`, `PaidIsTraceable`, `NeverUnderReported` |
| `proof_expiry` | one live order | violates `ProofStopsExpiry` |
| `meta_write_back` | one live order, one backup receiver | violates `PaidHasConfirmation` |
| `captured_last_word` | one live order, no fault | violates `CapturedIsTheLastWord` |
| `reference_decides` | two payments of one amount in one minute, three captures one at a time | violates `ReferenceDecides` |
| `transfer_twice` | one payout, two checkers at the same moment | violates `NeverSentTwice` |

The five violated properties are sentences of the code's own comments that the
code does not keep; `PROJECT.json` quotes them under `findings`:

- a proof uploaded between a resolver's snapshot and its write does not stop
  the order from expiring (`ProofStopsExpiry`);
- advance-vpa, racing a confirmation, drops the record of who confirmed the
  payment (`PaidHasConfirmation`). The order stays paid, and its callback is
  still sent, because the backstop finds an order whose stamp was dropped;
- the retry of an Expired callback reaches the merchant after Captured
  (`CapturedIsTheLastWord`);
- an alert with an RRN whose amount and minute agree with those of an alert
  already judged a duplicate of another payment has its RRN folded onto that
  duplicate and is stored as a duplicate itself, without a case: the payment is
  counted nowhere (`ReferenceDecides`);
- two checkers who approve one payout at the same moment both pass the PENDING
  check; the second's unguarded write puts the payout that the first has sent
  back to QUEUED, and it is sent again (`NeverSentTwice`).

**What the passing properties except, and why.** Each exception is a thing the
code really does, kept visible in a history variable instead of modelled away:

- two of staff who link one credit without a reference to two orders at the same
  moment pay both orders by one credit: neither of `linkCreditToOrder`'s checks
  is made again at the write, and the alert keeps only the second of them. Of two
  operators who confirm and reject one case at the same moment the last to write
  has the last word: a paid order's case may say REJECTED. Those orders
  (`contested`) are excepted by `PaidIsTraceable`;
- an upload that is cut short leaves what it had written: `openManualCase`
  swallows a failed insert and the alert has no case; the demotion after a
  refusal swallows its failure and the alert goes on saying CONFIRMED; a fold or
  a merge whose UPDATE fails is answered as done and its reference is stored
  nowhere; a death does the like, and one of staff's requests that dies between
  the confirmation and its mark leaves a paid order without a trace. Nothing
  repairs these. `TablesAgree` excepts the alerts of such uploads,
  `NeverUnderReported` their references, `PaidIsTraceable` the orders such
  requests were about (`lost`), each only for the captures and orders concerned;
- `NeverUnderReported` speaks of captures that came one at a time (`raced` is
  FALSE): nothing locks a payment between the checks and the insert. It asks
  nothing when a capture brings a reference and an order at once: enrich-merge
  takes an alert that only lacks the order for its complement (`order_ref IS
  NULL`, whatever its `utr`) and writes the new reference over another payment's,
  unless their payer handles differ. And it accepts a reference that a
  later capture put on a duplicate, which is what `reference_decides` is about;
- two senders of one order that overlap queue the same status twice, since each
  stamps the order after its insert: no property forbids a repeated word;
- decisions on one payout by two checkers at once (`UndisputedPayout`) are
  excepted by the gateway's properties other than `SentOncePerApproval`, which
  allows a transfer for each approval written, and are the subject of
  `transfer_twice`;
- the route that handles an operator's action writes the queue row last and
  under no guard. If the sweep took the item from him in between and it was given
  to another, that write leaves the order ASSIGNED with a queue row the sweep does
  not look for: `AssignedMoves` excepts it (`TakenOver`), and a death between the
  queue row and the order;
- a process that dies between the insert of a settlement request and the move that
  links it to its instruction leaves a request that is paid and verified with
  nobody following it: a cycle's key is taken, and `followRequests` wants the
  link. `VerifiedSettles` excepts it (`Unlinked`), once no worker is left that is
  still going to link it;
- cancelling posts the journal "cancelled" before its guarded move. An instruction
  that was initiated in between keeps it and may be settled as well: the states
  stay right (`OutcomeStays`, `VerifiedSettles`) and the books do not.
  `OneOutcome` speaks of the journals that follow the request and not of this one;
- a death, or a failed posting that is swallowed, between COMPLETED and the debit
  leaves a payout paid by hand undebited: `PaidIsDebited` excepts it;
- a process that dies between an instruction's insert and its first journal
  leaves an orphan whose amount the next raise does not see; `NeverOverdrawn`
  excepts it (`orphans`);
- people may take back the outcome of a settlement request (a rejected request
  resubmitted): `OneOutcome` and `VerifiedSettles` except it (`reopened`).

**Bounds.** Two requests are enough for every race here, since each handler
races one other write at a time; a third actor is always there as time, cron or
the environment, and the requests come back without limit, so the retry of a
confirmation meets any sequence of writes by the other. Two orders are what a
reference conflict takes. `MaxFaults = 1` lets one death or one lost write happen
anywhere. Rows of the outbox are bounded by themselves: a status is queued again
only after it changed, or by two overlapping senders. Deadlock is not checked: a
system in which every order is paid and every row delivered has nothing left to
do. Symmetry over requests is used in the runs without liveness.

- *Payouts.* One payout, since payouts share nothing but the process; its route
  and whether it needs a checker are chosen at its creation, so one run covers
  all four. `Deciders` is 1 in `payouts` and 2 in `transfer_twice`.
  `Operators = 1`: one request of an operator at a time, while assignment, the
  sweep, checkers and repeated creations come in between at any statement, so
  his late write to the queue row meets an item given to another. Two things
  are taken from time: an item is overdue (180 s) only after the request that
  assigned it has ended or died, and until the request that creates a payout has
  ended or died no operator acts on it (`BeingCreated`), since nobody else knows
  of it yet.
  `MaxReassigns = 2` shows an item going back once and then to a supervisor.
  Callbacks of one word are counted to `Repeated = 2`, enough to see a repeat.
- *Settlement.* `Duties` gives the cron's worker the cycle, the sync and the
  following, and the other worker the settlement by hand, cancelling and
  releasing, so that a raise competes with another, with the follower, and with
  cancelling. Two followers, or two runs of the cron, never compete in the run;
  the theorems on safety cover them. Only
  the cycle's request is followed to its end (`Followed`), by a subset of the
  buttons that reaches every state a request's status means for the
  instruction (`Buttons`); the one by hand is there to compete for the payable.
  The rates round, the charges meet their cap, and the payable lies between the
  smallest and the largest payout. One person at a time acts on a request.
- *Bank credits.* The first payment comes as an email that names its order and
  as a screen read, the second as a screen read of a device that is not
  trusted and as a bank's email with reference and time: a repeated reference,
  a repeated time (that of another payment too), enrichment by a complementary
  capture, a match that is ambiguous and a confirmation that is refused after
  the insert occur. `Handles` gives one uploading request the screen read of the
  first payment and the other the rest; each comes once (`MaxUploads`), staff act twice
  (`MaxActs`), and one request is cut short (`MaxLost`). Not reached at
  these bounds, for the size of the run: the identical text sent again, the echo
  (`Echo` is empty), and enrichment by the same named order.

**Fairness.** Time passes; a request that was taken runs to its end unless its
process dies (weak fairness of its steps). The sweep is posted every 15 seconds
or so, and selects every open order and every owed callback, so each resolver
and backstop that is enabled again and again happens (strong fairness: between
two sweeps all workers of the small instance may be busy). The merchant's
server accepts a row in the end, in `PayinCallback` only: `PaidIsAnnounced`
says what the server does for a merchant that answers. `EveryRowSettles`
assumes nothing of the merchant. In `Payouts` the verify cron and the SLA sweep
come round again (weak fairness; the cron's worker is theirs alone) and the
gateway gives every transfer it took a result; that the cron looks only at the
last days, and reports a missing transfer after some minutes, is abstracted to
"in the end". In `Settlement` the cron follows every open instruction every few
minutes (strong fairness, as its worker may be busy raising or syncing). People
are never assumed to act.

Each property has a mutant in the modules, a definition marked `mutant` with a
plausible bug (a guard dropped, an off-by-one, a missing retry), under which
its run fails.

## 4. What is proved

`PayinOrderProofs`, for any sets of orders, requests and references, any
`genRrn`, any number of faults and receivers, from `OrderAssumption` alone (the
constants have their types, live and held orders are orders, the empty
reference is none):

- `TypeCorrect`, `NoPaymentBounces`, `ConfirmationIsTrue`, `DuplicatesAreReal`,
  `HoldsHold`, `ModesStayApart`, `ReferenceIffPaid`, `OneReferencePaysOnce`:
  the invariants of `payin_order`, and `ModesNeverCross`;
- `Refinement`: `Spec => KeepsPromise`, every step of a handler is a step of
  `PayinPromise` or none; `PaymentIsFinal` follows.

The argument. None of these is inductive: that a lost compare-and-set means
"paid" depends on what the request had seen. The inductive invariant `Inv` adds
`Knows(c)`, what a request still knows between two statements: a request that
saw a status other than PENDING finds that status or SUCCESS; one that is in
its second try looks at an order that had already left PENDING; a resolver
carries no payment for a live order and never a held order; advance-vpa carries
a meta whose confirmation agrees with the order's mode. `RowsMove` says what
any step does to any row (leave it, close it, pay it), and `KnowledgeStays`
that `Knows` and the answers given survive it. Each action then has a lemma
that it changes one request and at most one row by such a move
(`RequestMoves`, `RowWritten`), and takes an abstract step. `Inv` was checked
by TLC, on a live and a test order, before it was proved.

`PayinCallbackProofs`, for the orders composed with any number of senders and an
outbox, from `OrderAssumption` and `CallbackAssumption`:

- `CallbackTypesHold`, `CapturedOfThePaid`, `StampsAreBacked`, `NobodyForgotten`:
  the invariants of `payin_callback`;
- `CallbackRefinement`: the composed system, senders and backstop included,
  still keeps the promise of `PayinPromise`.

The argument. It stands on `Inv` of `PayinOrderProofs`: a sender changes no
status, and a step of an order is one of that module. `CallbackInv` adds that a
stamp tells the truth of its time (`Truthful`): the word it carries is the
order's word or the order has been paid since, and a stamp "sent" has its row
queued already. So a stamp that is out of date is one the backstop looks for,
which is `NothingForgotten`. An open order bears no stamp (`Stamped`),
so what advance-vpa carries has none (`Rotates`) and it can drop a stamp but
never bring one back. TLC checked `CallbackInv` on 344,096 states.

`WebhookOutboxProofs`, for any rows, dispatchers, schedule and number of deaths,
from the assumptions of `WebhookOutbox`:

- `OutboxTypeCorrect`, `DeliveryIsReal`, `NobodyGivesUpEarly`: the invariants of
  `webhook_outbox`.

The argument. Dispatchers write back from copies under no guard, so the table
alone says nothing. `OutboxInv` adds that no row and no copy counts an attempt
the server did not see (`Backed`), that a dispatcher with an answer made the
attempt of the row it carries first and knows of one fewer (`Heard`), and that a
row still waiting has waits left (`Waiting`).

`BankCreditsProofs`, for any payments, orders, captures, uploading requests, staff
and bounds, from `CreditAssumption`:

- `CreditTypesHold`, `TablesStayTogether`, `PaidTraceable`: the invariants
  `CreditTypeOK`, `TablesAgree` and `PaidIsTraceable` of `bank_credits`, for any
  number of requests cut short.

The argument. No lock keeps two requests off one alert, and three writes
(`Demote`, `LinkMark`, `CaseWrite`) are made from what was read before, under no
guard. `CreditInv` says what a request still knows of its alert and its case
(`Found`, `About`): an upload about to confirm finds its alert as it inserted it,
one whose order refused it finds the alert confirmed and to be withdrawn, an
operator finds the case he read opened for the same order. Uploads are agents'
requests and links and decisions are staff's (`Placed`). It says which two
requests can be about one alert at once: never two that file it, never staff that
link it while an upload confirms or withdraws it, two that link it only with
their orders contested (`Apart`), and two that decide one case only with its
order contested (`BothDecide`). With that, every alert is settled, in the hands
of the one that settles it, or of an upload cut short (`Followed`), and every paid
order that is not `Excused` (contested or lost) has an alert that nobody is about
to withdraw, a resolved case, or a request about to write one (`Traced`). An action writes over at most one row, the one its request has in
hand (`StepKeeps`); what it does to the others is said once, in `Steady`. TLC
checked `CreditInv` on the instance of `bank_credits`.

`BankCreditsMoneyProofs`, on top of `CreditInv`:

- `NothingUnderReported`: `NeverUnderReported`, for any payments and captures.

The argument. `MoneyInv` follows each reference. Uploads that come one at a time
leave at most one request with a capture in hand (`Alone`), so a reference that
was brought is on an alert that shows it, or belongs to an upload that was cut
short (`Safe`), or is with that request (`Kept`). The
request writes it only on an alert that has none, and calls its capture a
duplicate only when the reference is shown (`Ready`). Whatever is found by
reference, text or time is shown because its own capture was uploaded before
(`FromCapture`). What is shown stays shown (`RowsKept`): staff confirm alerts and
close cases but never reopen them, and an alert is demoted only after it got its
case. Without `NoBoth` the step to `merge` breaks `Ready`, which is how the
overwritten reference was found; without the exception for later references the
step `Fold` breaks `Shown`, which is how `reference_decides` was found. TLC
checked `MoneyInv` on the instance of `bank_credits`, and on one agent with seven
captures of two payments, both exceptions among them (1,976,650 states).

`PayoutProofs`, for any payouts, requests, checkers, faults and bounds, from
`PayoutAssumption`:

- `TypesHold`, `SentOnce`, `HeldUntilApproved`, `ClosedRightly`, `ToldOnce`,
  `ToldOneVerdict`: the invariants of `payouts`; `FinalIsFinal`: `FinalStays`.

The argument is an account kept of each payout. `Accounted`: every permission to
send it (an approval written, or none being needed) is held by one request, or
is the status QUEUED, or has become a transfer, and each of these is counted
once; so there are never more transfers than permissions, whatever is repeated,
retried or looked up. That part (`Basic`) holds of all payouts, contested or not.
For a payout on which no two checkers decided, `AllFine` adds that each ruling
still under way is a decision of its own (`Ruled`), that each callback sent or
about to be sent is a final status of its own (`Counted`), and that the status
agrees with the gateway (`Honest`) and the words with the status (`Heard`). A
payout leaves a final status only by a write that one of these excludes, which
is `FinalIsFinal`. TLC checked `PayoutInv`, which is both parts, with two
deciders on 2,483,878 states.

`SettlementProofs`, for any workers, settlements, pay-ins, rate cards, limits
and buttons, from `SettlementAssumption`:

- `LedgerFirst`: `Spec => []StateIsBooked`; `OutcomesStay`: `Spec =>
  OutcomeStays`;
- `JournalsBalance`: for every gross amount, rate card and rates, the four parts
  are natural numbers that add up to the clamped charges, and every journal of a
  settlement balances. It says nothing of states, so no run checks it.

The argument. That the state is booked is not inductive: it depends on what a
worker is still going to do. `IInv` says of the list of statements a worker has
before it that it is `InOrder` (every journal a statement needs is posted or
comes earlier in the list, and every move is one of `NEXT`), that its only
unlock is its own, and that a follower's reading was booked when it was made;
journals are never taken back, so this survives whatever the others do. A
carried-out statement leaves a list that is in order, and each handler's lists
are shown to be in order when they are made, `Plan` case by case. A move is
guarded by the state it leaves, which makes it a move of `NEXT`: `OutcomesStay`.
TLC checked `IInv` before it was proved.

`SettlementBooksProofs`, from the same assumptions (that there are finitely many
pay-ins is needed here, to count those after the cut-off):

- `BookedOneWay`: `OneOutcome`; `SettlementTypes`: `SettlementTypeOK`;
- `RaisedOnce`: `NeverOverdrawn`, for any number of runs that raise at once;
- `OneAtATime`: never two workers that have read the payable of one banker and
  whose first journal is still to come, from the look-up of the key to the posting
  of that journal, the statements after the insert included; as long as no
  process died in that stretch (`orphans`), since the lock dies with it. This is
  what the banker's lock is for, and it needs `PayableInv`, below: a repeat by
  hand, which takes no lock for its journal, finds it posted.

The argument. Three invariants beside `IInv`.

- `OutcomeInv`: an outcome that is on the ledger, or in the list of a worker,
  is one the request still stands for (`Stands`). A worker may post it long
  after it read the request, and people move the request meanwhile, so what
  makes it hold is that the buttons lead from a closing status nowhere but to
  another one, to a reversal, or to a request that counts as `reopened`, and
  from a failing one likewise.
- `TypesInv` types the tables together with the lists (`ListFits`: a list posts
  journals of an instruction or of a pay-in, never both) and the holder of the
  lock (`LockInv`: whoever holds it is raising, and gives it back in the end).
  That the amounts are natural numbers, whatever the rate card, comes from the
  lemmas behind `JournalsBalance`.
- `PayableInv` follows the amount an instruction takes. What a worker has read
  of the payable, and then what its instruction takes, is still covered by it
  (`Covered`) as long as the first journal is not there. Only a first journal
  lowers the payable (`PayableMoves`), only the holder of the lock posts one that
  is not there yet (`FallsCovered`), and an instruction without its first journal has a worker
  that holds the lock for it and posts it next (`Opening`, `FirstBooked`): so a
  repeat by hand, which takes no lock of its own for its journal, finds it
  posted. This is where a death in between breaks the argument, and where
  `orphans` excepts it.

TLC checked the three on the instance of `settlement`.

Only model-checked is the liveness under fairness, which is out of the prover's
reach; every invariant and action property of the passing runs is proved.

## 5. Not modelled, and the plan

Left out of the modelled components, and why:

- *Pay-ins*: creating an order (an order starts PENDING), the staff live test
  (never told), the gateway's check that the refresh and the order page make
  before they resolve, `resendOutbox`, the sweep's batch of 1000.
- *Bank credits*: debits, credits that are a settlement's own leg and are
  diverted, OTP guards, device registration and nonces, the repair of amounts of
  zero, the narrowing by the payee's handle, several bankers: each decides
  whether a capture counts at all, before the steps modelled.
- *Payouts*: USDT, beneficiaries, the amounts of the policy (they refuse a
  request that then leaves nothing), the order of the queue and the capacity of
  an operator, settlement batches and statement recon of `fifo`, payouts without
  a merchant_txn_id. A death between the claim of a callback's word and its
  row loses that callback (a hazard with no property: the code promises no more).
- *Settlement and ledger*: who approves a config, the dates of cycles, the
  older branch and merchant settlement flows, chargebacks and manual
  settlements in the sync, the ledger's hash chain.
- *Not modelled at all*: pay-in creation with its limits, gateway pay-ins,
  refunds, disputes and reserves by hand, generic workflows, DT lots, the
  circuit breaker (each can be modelled; they come after the money paths above);
  access, reports, dashboards, health, the support bot (reads and authorisation,
  no state the others depend on), the Android agent (a separate client).

Most lines of the repository are pages, panels and reports; the modules above
cover the statements that move money, which are a small part of them.

Next, in this order:

1. **Pay-in creation**: daily limits under the banker's and the MID's locks,
   reuse by reference, the gateway called between check and insert; composed
   with `PayinOrder`'s initial states.
2. **Gateway pay-ins**, chargebacks, DT reservations, circuit breaker: one
   small module each where it has a race that a run can decide.
