---------------------------- MODULE PayoutQueue ----------------------------
(***************************************************************************)
(* Payouts an operator pays by hand: the FIFO queue, its assignment and    *)
(* SLA sweep (lib/fifo), the operator's actions (orders/[id]/action) and   *)
(* the proof upload (transactions/proof).  Which item is the head, and     *)
(* whose it is, is left out: an admin may act on any item, so the check    *)
(* that an operator acts on his own excludes no order of events.           *)
(***************************************************************************)
EXTENDS PayoutOrder

\* transition() comes next, on another row.
Moving(p, to) == [At("read", p) EXCEPT !.to = to]

\* The head of the queue.  FOR UPDATE SKIP LOCKED holds its lock for the statement only.
AssignRead(w) ==
  /\ \E p \in Payout : queue[p].status = "QUEUED" /\ Start(w, At("assign", p))
  /\ UNCHANGED <<row, approval, queue, gateway, ledgers, decided, faults>>

AssignWrite(w) ==
  LET p == call[w].order
  IN  /\ Step(w, "assign")
      /\ queue' = [queue EXCEPT ![p].status = "ASSIGNED"]
      /\ call' = [call EXCEPT ![w] = Moving(p, "ASSIGNED")]
      /\ UNCHANGED <<row, approval, gateway, ledgers, decided, faults>>

(***************************************************************************)
(* sweepSlaBreaches: an item not accepted in time goes back to the queue;  *)
(* one missed MAX_REASSIGNS times leaves it and is held for a supervisor.  *)
(***************************************************************************)
\* sla_due_at is 180 s ahead: by then the requests that took the item from the head of the queue
\* have ended, or died.
Assigning(w, p) == call[w].order = p /\ (call[w].pc = "assign" \/ call[w].to = "ASSIGNED")
Overdue(p) == queue[p].status = "ASSIGNED" /\ \A w \in Request : ~Assigning(w, p)

SweepRead(p) ==
  /\ Overdue(p)
  /\ Start(Cron, [At("sweep", p) EXCEPT !.count = queue[p].count])
  /\ UNCHANGED <<row, approval, queue, gateway, ledgers, decided, faults>>

SweepWriteOnly(p, to) == Idle                      \* mutant: the order is not moved back
SweptOrder(p, to) == Moving(p, to)

\* reassign_count beyond MAX_REASSIGNS decides nothing more and is counted as that.
SweepWrite(w) ==
  LET p == call[w].order
      n == IF call[w].count < MaxReassigns THEN call[w].count + 1 ELSE MaxReassigns
  IN  /\ Step(w, "sweep")
      /\ \/ /\ n >= MaxReassigns
            /\ queue' = [queue EXCEPT ![p] = [status |-> "CANCELLED", count |-> n]]
            /\ call' = [call EXCEPT ![w] = SweptOrder(p, "HOLD")]
         \/ /\ n < MaxReassigns
            /\ queue' = [queue EXCEPT ![p] = [status |-> "QUEUED", count |-> n]]
            /\ call' = [call EXCEPT ![w] = SweptOrder(p, "QUEUED")]
      /\ UNCHANGED <<row, approval, gateway, ledgers, decided, faults>>

(***************************************************************************)
(* The operator's actions.  Completing with a bank reference another       *)
(* order carries holds the payout instead; which references are taken is   *)
(* not modelled, so either may happen.  The route's own reads decide only  *)
(* what never changes, so it starts with the read of transition().         *)
(***************************************************************************)
Wanted == [accept   |-> <<"ACCEPTED", "accepted">>,    process |-> <<"PROCESSING", "over">>,
           prove    |-> <<"PROOF_UPLOADED", "over">>,  complete |-> <<"COMPLETED", "closed">>,
           reject   |-> <<"REJECTED", "rejected">>,    hold |-> <<"HOLD", "dropped">>]

ByHand(p) == ~row[p].provider

\* A request that is carrying out an operator's action, up to its last word to the ledger.
Acting(w) == \/ call[w].pc \in {"accepted", "closed", "journal", "dropped", "rejected"}
             \/ /\ call[w].pc = "write" /\ call[w].then # "tell"
                /\ call[w].to \in {Wanted[action][1] : action \in DOMAIN Wanted}

OperatorActs(w) ==
  /\ Cardinality({v \in Request : Acting(v)}) < Operators
  /\ \E p \in Payout, action \in DOMAIN Wanted :
       /\ row[p].status # "NONE" /\ ~BeingCreated(p) /\ ByHand(p)
       /\ action = "prove" => row[p].status = "PROCESSING"
       /\ Start(w, AfterRead(p, Wanted[action][1], Wanted[action][2]))
  /\ UNCHANGED <<row, approval, queue, gateway, ledgers, decided, faults>>

\* The queue row follows the order.
QueueAfter == [accepted |-> "ACCEPTED", closed |-> "DONE",
               dropped |-> "CANCELLED", rejected |-> "CANCELLED"]
NoJournal  == [accepted |-> "over", closed |-> "tell", dropped |-> "over", rejected |-> "tell"]  \* mutant
NextAfter  == [accepted |-> "over", closed |-> "journal", dropped |-> "over", rejected |-> "tell"]

QueueFollows(w) ==
  LET c == call[w]
  IN  /\ c.pc \in DOMAIN QueueAfter
      /\ queue' = IF queue[c.order].status = "none" THEN queue
                  ELSE [queue EXCEPT ![c.order].status = QueueAfter[c.pc]]
      /\ Goto(w, NextAfter[c.pc])
      /\ UNCHANGED <<row, approval, gateway, ledgers, decided, faults>>

\* settlePayoutToLedger: idempotent by its key; a failed posting is swallowed.
PostJournal(w) ==
  /\ Step(w, "journal")
  /\ \/ journal' = journal \cup {call[w].order} /\ UNCHANGED faults
     \/ faults < MaxFaults /\ faults' = faults + 1 /\ UNCHANGED journal
  /\ Goto(w, "tell")
  /\ UNCHANGED <<row, approval, queue, gateway, told, decided>>
=============================================================================
