--------------------------- MODULE ProviderPayout ---------------------------
(***************************************************************************)
(* Payouts that go through the merchant's payout gateway                   *)
(* (lib/provider-payout-order).  A payout is claimed by a guarded update   *)
(* before the gateway is asked to pay, and no answer is never an answer:   *)
(* from then on only a status look-up, started by a webhook, an operator   *)
(* or the cron, moves it.  The gateway is outside: it pays, fails, pays    *)
(* another amount, reverses, or pays after it had said it failed.          *)
(***************************************************************************)
EXTENDS PayoutOrder

MoveAlways(p, from) == TRUE                        \* mutant: the update has no guard
StillAt(p, from) == row[p].status = from

\* moveIf: the guarded update; only the winner goes on to tell the merchant.
MoveIf(w, from, to, next) ==
  LET p == call[w].order
  IN  \/ StillAt(p, from) /\ SetStatus(p, to) /\ Goto(w, next)
      \/ ~StillAt(p, from) /\ Over(w) /\ UNCHANGED row

(***************************************************************************)
(* dispatchProviderPayout: what blocks the payout (a suspension, missing   *)
(* credentials, a beneficiary no longer approved) cancels it before it is  *)
(* claimed.                                                                *)
(***************************************************************************)
DispatchRead(w) ==
  LET p == call[w].order
  IN  /\ Step(w, "dispatch")
      /\ \/ row[p].status # "QUEUED" /\ Over(w)
         \/ row[p].status = "QUEUED" /\ \E pc \in {"block", "send"} : Goto(w, pc)
      /\ UNCHANGED <<row, approval, queue, gateway, ledgers, decided, faults>>

DispatchBlock(w) ==
  /\ Step(w, "block")
  /\ MoveIf(w, "QUEUED", "CANCELLED", "tell")
  /\ UNCHANGED <<approval, queue, gateway, ledgers, decided, faults>>

DispatchClaim(w) ==
  /\ Step(w, "send")
  /\ MoveIf(w, "QUEUED", "SUBMITTED", "transfer")
  /\ UNCHANGED <<approval, queue, gateway, ledgers, decided, faults>>

AnswerMeansRefused == {"refuse"}                   \* mutant: no answer is taken for a refusal
NoAnswerMeans == {"over"}

\* connector.transfer: accepted, final at once (a look-up confirms it), definitely refused, or
\* no clear answer, with the transfer at the gateway or not.
Transfer(w) ==
  LET p == call[w].order
      Becomes(b) == bank' = [bank EXCEPT ![p] = IF @ = "none" THEN b ELSE @]
  IN  /\ Step(w, "transfer")
      /\ transfers' = [transfers EXCEPT ![p] = @ + 1]
      /\ \/ Becomes("pending") /\ Over(w)
         \/ /\ \E b \in {"success", "failed"} : Becomes(b)
            /\ call' = [call EXCEPT ![w] = [At("lookup", p) EXCEPT !.seen = "SUBMITTED"]]
         \/ UNCHANGED bank /\ Goto(w, "refuse")
         \/ /\ \/ Becomes("pending")
               \/ UNCHANGED bank
            /\ \E pc \in NoAnswerMeans : Goto(w, pc)
      /\ UNCHANGED <<row, approval, queue, alerts, ledgers, decided, faults>>

DispatchRefused(w) ==
  /\ Step(w, "refuse")
  /\ MoveIf(w, "SUBMITTED", "FAILED", "tell")
  /\ UNCHANGED <<approval, queue, gateway, ledgers, decided, faults>>

(***************************************************************************)
(* syncProviderPayout.  The row is read, then the gateway asked, then the  *)
(* answer applied to the status that was read.  claimCheck only spaces two *)
(* look-ups out; a claim that fails is a sync that does not start.         *)
(***************************************************************************)
\* A webhook or "Check status": also worth it for a FAILED payout, which may turn out paid.
SyncHinted(w) ==
  /\ w \in Request
  /\ \E p \in Payout : /\ row[p].provider
                       /\ row[p].status \in {"SUBMITTED", "COMPLETED", "FAILED"}
                       /\ Start(w, [At("lookup", p) EXCEPT !.seen = row[p].status, !.hint = TRUE])
  /\ UNCHANGED <<row, approval, queue, gateway, ledgers, decided, faults>>

\* The cron job payu-payout-verify takes the SUBMITTED ones.  Left out: that it looks only at those
\* of the last days, and that a merchant whose credentials were removed is skipped ("no_creds").
SyncSwept(p) ==
  /\ row[p].provider /\ row[p].status = "SUBMITTED"
  /\ Start(Cron, [At("lookup", p) EXCEPT !.seen = "SUBMITTED"])
  /\ UNCHANGED <<row, approval, queue, gateway, ledgers, decided, faults>>

NeverMissing(w) == FALSE                           \* mutant: a missing transfer is not reported
ReportsMissing(w) == w = Cron

\* connector.status.  Cron also reports a transfer the gateway has no record of.
Lookup(w) ==
  LET c == call[w]
      p == c.order
  IN  /\ Step(w, "lookup")
      /\ \/ /\ bank[p] = "none"
            /\ alerts' = IF ReportsMissing(w) THEN [alerts EXCEPT ![p] = @ \cup {"NOT_FOUND"}] ELSE alerts
            /\ Over(w)
         \/ bank[p] = "pending" /\ Over(w) /\ UNCHANGED alerts
         \/ /\ bank[p] \notin {"none", "pending"}
            /\ call' = [call EXCEPT ![w].pc = "apply", ![w].answer = bank[p]]
            /\ UNCHANGED alerts
      /\ UNCHANGED <<row, approval, queue, bank, transfers, ledgers, decided, faults>>

\* The gateway cannot be reached: nothing is concluded.
LookupUnknown(w) ==
  /\ Step(w, "lookup")
  /\ faults < MaxFaults /\ faults' = faults + 1
  /\ Over(w)
  /\ UNCHANGED <<row, approval, queue, gateway, ledgers, decided>>

Alert(p, kind) == alerts' = [alerts EXCEPT ![p] = @ \cup {kind}]

ReopenFailed(c) == [to |-> "COMPLETED", alert |-> "none"]    \* mutant: FAILED is reopened
PaidAfterFailed(c) == [to |-> "FAILED", alert |-> "SUCCESS_AFTER_FAILED"]

\* What the answer does to the status that was read.
Verdict(c) ==
  CASE c.seen = "FAILED" /\ c.answer \in {"success", "other"} -> PaidAfterFailed(c)
    [] c.seen = "SUBMITTED" /\ c.answer = "success" -> [to |-> "COMPLETED", alert |-> "none"]
    [] c.seen = "SUBMITTED" /\ c.answer = "other" -> [to |-> "SUBMITTED", alert |-> "AMOUNT_MISMATCH"]
    [] c.seen = "SUBMITTED" /\ c.answer \in {"failed", "reversed"} -> [to |-> "FAILED", alert |-> "none"]
    [] c.seen = "COMPLETED" /\ c.answer \in {"failed", "reversed"} -> [to |-> "REVERSED", alert |-> "REVERSED"]
    [] OTHER -> [to |-> c.seen, alert |-> "none"]

Apply(w) ==
  LET c == call[w]
      v == Verdict(c)
  IN  /\ Step(w, "apply")
      /\ IF v.to = c.seen THEN Over(w) /\ UNCHANGED row ELSE MoveIf(w, c.seen, v.to, "tell")
      /\ IF v.alert = "none" \/ (v.to # c.seen /\ ~StillAt(c.order, c.seen))
         THEN UNCHANGED alerts ELSE Alert(c.order, v.alert)
      /\ UNCHANGED <<approval, queue, bank, transfers, ledgers, decided, faults>>

-----------------------------------------------------------------------------
\* The gateway, on its own: a pending transfer gets its result ...
GatewaySettles(p) ==
  /\ bank[p] = "pending"
  /\ \E b \in {"success", "other", "failed"} : bank' = [bank EXCEPT ![p] = b]
  /\ UNCHANGED <<row, approval, queue, transfers, alerts, ledgers, decided, call, faults>>

\* ... which it may still change: a reversal, or a success after a failure.
GatewayChangesItsMind(p) ==
  /\ \/ bank[p] = "success" /\ bank' = [bank EXCEPT ![p] = "reversed"]
     \/ bank[p] = "failed" /\ bank' = [bank EXCEPT ![p] = "success"]
  /\ UNCHANGED <<row, approval, queue, transfers, alerts, ledgers, decided, call, faults>>
=============================================================================
