----------------------------- MODULE PayinOrder -----------------------------
(***************************************************************************)
(* The life of a Katana pay-in order (vendor_payin_orders) from PENDING to *)
(* a final status.  Every request the server handles is a worker that goes *)
(* through its handler one SQL statement at a time: rows() runs each       *)
(* statement in its own transaction, so the steps of two handlers          *)
(* interleave freely and a process may die between any two of them.        *)
(*                                                                         *)
(*   confirmKatanaOrder   read, duplicate check, compare-and-set write     *)
(*   status resolvers     snapshot, guarded write (sweep, status pages)    *)
(*   payment proof        read, insert the proof, park the order           *)
(*   advance-vpa          read the row, write its whole meta back          *)
(*                                                                         *)
(* An order's row is [status, rrn, meta]; meta is the jsonb column with    *)
(* the keys these handlers read or write.  The callback key is written by  *)
(* the senders of module PayinCallback.                                    *)
(***************************************************************************)
EXTENDS Naturals, FiniteSets

CONSTANTS Order,       \* the orders (created PENDING, lib/katana-order createKatanaOrderOnce)
          LiveOrder,   \* livemode orders; the others are test orders
          HeldOrder,   \* meta.hold: amount >= HIGH_AMOUNT_HOLD
          SandboxOutcome,  \* what a test order's amount forces (decideKatanaStatus)
          Ref, NoRef,  \* bank references, and the empty one
          genRrn,      \* the reference derived from an order's id
          Worker,      \* requests the server handles at once
          NoOrder,     \* a worker that handles none
          Backups,     \* READY entries in an order's vpa_pool
          MaxFaults   \* bound: how often a process dies mid-request

Status   == {"PENDING", "SUCCESS", "FAILED", "EXPIRED"}
Terminal == Status \ {"PENDING"}
Outcome  == {"SUCCESS", "FAILED"}
Evidence == {"live", "test", "human"}   \* the mode the evidence belongs to; human: either

ASSUME OrderAssumption ==
  /\ LiveOrder \subseteq Order /\ HeldOrder \subseteq Order
  /\ NoRef \notin Ref /\ NoOrder \notin Order
  /\ genRrn \in [Order -> Ref]
  /\ SandboxOutcome \in [Order -> Status]
  /\ Backups \in Nat /\ MaxFaults \in Nat

VARIABLES row,      \* vendor_payin_orders
          due,      \* orders old enough for their own rule: 8 s (forced test success) or expiry
          call,     \* what each worker is doing and the values it has read
          faults

vars == <<row, due, call, faults>>

\* meta.callback: what became of the last callback, and the status word it was about.
Word    == {"Captured", "Failed", "Expired"}
Stamp   == [kind : {"none", "sent", "skipped", "not queued"}, word : Word \cup {"none"}]
NoStamp == [kind |-> "none", word |-> "none"]

Meta == [review : {"none", "PROOF_SUBMITTED", "CONFIRMED", "REJECTED"},
         confirmation : Evidence \cup {"none"},
         ready : 0..Backups,
         callback : Stamp]

Row == [status : Status, rrn : Ref \cup {NoRef}, meta : Meta]

NewRow == [status |-> "PENDING", rrn |-> NoRef,
           meta |-> [review |-> "none", confirmation |-> "none",
                     ready |-> Backups, callback |-> NoStamp]]

PC == {"idle", "dupcheck", "write", "reread", "resolve", "park", "rotate", "notify", "done"}

Reply == {"none", "confirmed", "replay", "duplicate", "changed"}

Call == [pc : PC, order : Order \cup {NoOrder}, outcome : Status, utr : Ref \cup {NoRef},
         evidence : Evidence, seen : Status, meta : Meta, retried : BOOLEAN, reply : Reply]

Idle == [pc |-> "idle", order |-> NoOrder, outcome |-> "PENDING", utr |-> NoRef,
         evidence |-> "human", seen |-> "PENDING", meta |-> NewRow.meta,
         retried |-> FALSE, reply |-> "none"]

Init == /\ row = [o \in Order |-> NewRow]
        /\ due = {}
        /\ call = [w \in Worker |-> Idle]
        /\ faults = 0

-----------------------------------------------------------------------------
Paid(o) == row[o].status = "SUCCESS"
Final(o) == row[o].status \in Terminal
SameMode(o, p) == (o \in LiveOrder) = (p \in LiveOrder)
AnyMode(e, o) == TRUE                                          \* mutant: no mode check
ModeAgrees(e, o) == \/ e = "human"
                    \/ e = "live" /\ o \in LiveOrder
                    \/ e = "test" /\ o \notin LiveOrder

\* The request ends with an answer a property looks at, or with one none does: an error
\* that left nothing behind.
Answered(c, r) == [Idle EXCEPT !.pc = "done", !.order = c.order, !.outcome = c.outcome,
                               !.utr = IF r = "duplicate" THEN c.utr ELSE NoRef, !.reply = r]
Answer(w, r) == call' = [call EXCEPT ![w] = Answered(@, r)]
Over(w) == call' = [call EXCEPT ![w] = Idle]

(***************************************************************************)
(* confirmKatanaOrder.  The read of the row and the final-status lock: a   *)
(* terminal order answers at once (an idempotent replay, or a 409 that     *)
(* changes nothing), unless this is a payment that revives an EXPIRED or   *)
(* FAILED one.  The caller names the order by id, or by a reference that   *)
(* the lookup scopes to one merchant and mode and refuses otherwise.       *)
(***************************************************************************)
Reviving(status, outcome) == status \in {"EXPIRED", "FAILED"} /\ outcome = "SUCCESS"

LockedUnlessOther(status, outcome) == status = outcome     \* mutant: only a replay is locked
Locked(status, outcome) == status \in Terminal /\ ~Reviving(status, outcome)

AfterRead(c) ==
  LET status == row[c.order].status
  IN  CASE ~ModeAgrees(c.evidence, c.order) -> Idle
        [] ModeAgrees(c.evidence, c.order) /\ Locked(status, c.outcome) ->
             IF status = c.outcome THEN Answered(c, "replay") ELSE Idle
        [] OTHER -> [c EXCEPT !.pc = IF c.outcome = "SUCCESS" /\ c.utr # NoRef
                                     THEN "dupcheck" ELSE "write",
                              !.seen = status]

ConfirmRead(w) ==
  /\ call[w].pc = "idle"
  /\ \E o \in Order, out \in Outcome, u \in Ref \cup {NoRef}, e \in Evidence :
       /\ out = "FAILED" => u = NoRef   \* a reference decides nothing on a failed outcome
       /\ call' = [call EXCEPT ![w] = AfterRead([Idle EXCEPT !.order = o, !.outcome = out,
                                                             !.utr = u, !.evidence = e])]
  /\ UNCHANGED <<row, due, faults>>

ConfirmReread(w) ==
  /\ call[w].pc = "reread"
  /\ call' = [call EXCEPT ![w] = AfterRead(call[w])]
  /\ UNCHANGED <<row, due, faults>>

\* Mutant: the order itself is not left out.
CarriedAnywhere(o, u) == \E p \in Order : SameMode(o, p) /\ row[p].rrn = u

\* Any other order of the same mode that carries this reference, whatever its status.
CarriedElsewhere(o, u) == \E p \in Order \ {o} : SameMode(o, p) /\ row[p].rrn = u

ConfirmDupCheck(w) ==
  /\ call[w].pc = "dupcheck"
  /\ IF CarriedElsewhere(call[w].order, call[w].utr)
     THEN Answer(w, "duplicate")
     ELSE call' = [call EXCEPT ![w].pc = "write"]
  /\ UNCHANGED <<row, due, faults>>

\* The partial unique index on rrn: live, paid orders.
NoIndex(o, status, rrn) == FALSE                               \* mutant: without the index
IndexRefuses(o, status, rrn) ==
  /\ o \in LiveOrder /\ status = "SUCCESS"
  /\ \E p \in LiveOrder \ {o} : Paid(p) /\ row[p].rrn = rrn

\* Mutant: a confirmation without a reference leaves the order without one.
ConfirmedBare(r, c) ==
  [r EXCEPT !.status = c.outcome, !.rrn = IF c.outcome = "SUCCESS" THEN c.utr ELSE @]

Confirmed(r, c) ==
  [r EXCEPT !.status = c.outcome,
            !.rrn = CASE c.outcome # "SUCCESS" -> @
                      [] c.outcome = "SUCCESS" /\ c.utr # NoRef -> c.utr
                      [] OTHER -> genRrn[c.order],
            !.meta.review = IF c.outcome = "SUCCESS" THEN "CONFIRMED" ELSE "REJECTED",
            !.meta.confirmation = c.evidence]

NoRetry(c) == FALSE                                            \* mutant: gives up at once
MayRetry(c) == ~c.retried

\* UPDATE ... WHERE id = $1 AND status = <the status read>.
ConfirmWrite(w) ==
  LET c == call[w]
      o == c.order
      new == Confirmed(row[o], c)
  IN  /\ c.pc = "write"
      /\ \/ /\ row[o].status = c.seen /\ ~IndexRefuses(o, new.status, new.rrn)
            /\ row' = [row EXCEPT ![o] = new]
            /\ call' = [call EXCEPT ![w] = [Answered(c, "confirmed") EXCEPT !.pc = "notify"]]
         \/ /\ row[o].status = c.seen /\ IndexRefuses(o, new.status, new.rrn)
            /\ Answer(w, "duplicate")
            /\ UNCHANGED row
         \/ /\ row[o].status # c.seen /\ MayRetry(c)
            /\ call' = [call EXCEPT ![w].pc = "reread", ![w].retried = TRUE]
            /\ UNCHANGED row
         \/ /\ row[o].status # c.seen /\ ~MayRetry(c)
            /\ Answer(w, "changed")
            /\ UNCHANGED row
      /\ UNCHANGED <<due, faults>>

(***************************************************************************)
(* The status resolvers: the cron sweep, the order page, the pay page and  *)
(* the refresh action all decide on a snapshot and write under the same    *)
(* guard.  The guard looks at the status only.                             *)
(***************************************************************************)
decideKatanaStatus(o) ==
  CASE o \notin LiveOrder /\ SandboxOutcome[o] \in {"FAILED", "EXPIRED"} -> SandboxOutcome[o]
    [] o \notin LiveOrder /\ SandboxOutcome[o] = "SUCCESS" /\ o \in due -> "SUCCESS"
    [] OTHER -> "PENDING"

ResolveOutcomeOnly(o) == decideKatanaStatus(o)                 \* mutant: no expiry

resolveKatanaStatus(o) ==
  IF decideKatanaStatus(o) = "PENDING" /\ o \in due
  THEN "EXPIRED" ELSE decideKatanaStatus(o)

PausedByProof(o) == row[o].meta.review = "PROOF_SUBMITTED"     \* mutant: a hold is no pause
autoResolvePaused(o) == o \in HeldOrder \/ row[o].meta.review = "PROOF_SUBMITTED"

ResolveRead(w, o) ==
  /\ call[w].pc = "idle"
  /\ ~Final(o) /\ ~autoResolvePaused(o) /\ resolveKatanaStatus(o) # row[o].status
  /\ call' = [call EXCEPT ![w] = [Idle EXCEPT !.pc = "resolve", !.order = o,
                                              !.outcome = resolveKatanaStatus(o)]]
  /\ UNCHANGED <<row, due, faults>>

Unguarded(o) == TRUE                                           \* mutant: no WHERE on the status
StillOpen(o) == ~Final(o)

ResolveWrite(w) ==
  LET c == call[w]
      o == c.order
  IN  /\ c.pc = "resolve"
      /\ \/ /\ StillOpen(o)
            /\ row' = [row EXCEPT ![o].status = c.outcome,
                                  ![o].rrn = IF c.outcome = "SUCCESS" THEN genRrn[o] ELSE @]
            /\ call' = [call EXCEPT ![w] = [Idle EXCEPT !.pc = "notify", !.order = o]]
         \/ /\ ~StillOpen(o)
            /\ Over(w)
            /\ UNCHANGED row
      /\ UNCHANGED <<due, faults>>

(***************************************************************************)
(* The sender's payment proof: the upload route refuses a final order,     *)
(* stores the file and its row, then parks the order if it is still open.  *)
(***************************************************************************)
ProofRead(w) ==
  /\ call[w].pc = "idle"
  /\ \E o \in Order : ~Final(o) /\ call' = [call EXCEPT ![w] = [Idle EXCEPT !.pc = "park",
                                                                            !.order = o]]
  /\ UNCHANGED <<row, due, faults>>

ProofPark(w) ==
  LET o == call[w].order
  IN  /\ call[w].pc = "park"
      /\ row' = IF Final(o) THEN row ELSE [row EXCEPT ![o].meta.review = "PROOF_SUBMITTED"]
      /\ Over(w)
      /\ UNCHANGED <<due, faults>>

(***************************************************************************)
(* advance-vpa: an operator fails the active receiver and takes the next   *)
(* READY one.  The meta read is the meta written, whole, under no guard.   *)
(***************************************************************************)
\* Mutant: the next receiver is taken without asking whether there is one.
RotateAny(w) ==
  /\ call[w].pc = "idle"
  /\ \E o \in Order : /\ ~Final(o)
                      /\ call' = [call EXCEPT ![w] = [Idle EXCEPT !.pc = "rotate", !.order = o,
                                                                  !.meta = row[o].meta]]
  /\ UNCHANGED <<row, due, faults>>

RotateRead(w) ==
  /\ call[w].pc = "idle"
  /\ \E o \in Order : /\ ~Final(o) /\ row[o].meta.ready > 0
                      /\ call' = [call EXCEPT ![w] = [Idle EXCEPT !.pc = "rotate", !.order = o,
                                                                  !.meta = row[o].meta]]
  /\ UNCHANGED <<row, due, faults>>

RotateWrite(w) ==
  /\ call[w].pc = "rotate"
  /\ row' = [row EXCEPT ![call[w].order].meta = [call[w].meta EXCEPT !.ready = @ - 1]]
  /\ Over(w)
  /\ UNCHANGED <<due, faults>>

-----------------------------------------------------------------------------
\* The request ends.  After a write that made the order final the merchant's
\* callback is sent first, fire and forget: module PayinCallback.
Return(w) == /\ call[w].pc = "done"
             /\ Over(w)
             /\ UNCHANGED <<row, due, faults>>

Notified(w) == /\ call[w].pc = "notify"
               /\ Over(w)
               /\ UNCHANGED <<row, due, faults>>

Crash(w) == /\ call[w].pc \notin {"idle", "done"} /\ faults < MaxFaults
            /\ Over(w)
            /\ faults' = faults + 1
            /\ UNCHANGED <<row, due>>

Aging(o) == /\ o \notin due
            /\ due' = due \cup {o}
            /\ UNCHANGED <<row, call, faults>>

\* The statements of a request already under way.
Step(w) == \/ ConfirmReread(w) \/ ConfirmDupCheck(w) \/ ConfirmWrite(w)
           \/ ResolveWrite(w)
           \/ ProofPark(w)
           \/ RotateWrite(w)
           \/ Return(w)

Request(w) == \/ ConfirmRead(w) \/ ProofRead(w) \/ RotateRead(w)
              \/ \E o \in Order : ResolveRead(w, o)

OrderNext == \/ \E w \in Worker : Step(w) \/ Request(w) \/ Crash(w)
             \/ \E o \in Order : Aging(o)

Next == OrderNext \/ \E w \in Worker : Notified(w)

Spec == Init /\ [][Next]_vars

(***************************************************************************)
(* Fairness: time passes, the server runs a request it has taken to its    *)
(* end unless the process dies, and the sweep, posted every few seconds,   *)
(* gets to every order it selects.                                         *)
(***************************************************************************)
Fairness ==
  /\ \A o \in Order : WF_vars(Aging(o)) /\ SF_vars(\E w \in Worker : ResolveRead(w, o))
  /\ \A w \in Worker : WF_vars(Step(w)) /\ WF_vars(Notified(w))

FairSpec == Spec /\ Fairness

-----------------------------------------------------------------------------
(***************************************************************************)
(* Properties.                                                             *)
(***************************************************************************)
\* Type correctness: every column and every value a request carries has its type, and a
\* request that is under way names an order.
TypeOK == /\ row \in [Order -> Row]
          /\ due \in SUBSET Order
          /\ call \in [Worker -> Call]
          /\ \A w \in Worker : call[w].pc # "idle" => call[w].order \in Order
          /\ faults \in 0..MaxFaults

\* One retry is enough: when confirmKatanaOrder gives a payment up because "the order changed
\* while it was being confirmed", the order it gave up on is already paid, so no real payment
\* bounces off an order that still waits for one.
NoBouncedPayment ==
  \A w \in Worker : call[w].pc = "done" /\ call[w].reply = "changed" /\ call[w].outcome = "SUCCESS"
                     => Paid(call[w].order)

\* A caller told that its payment is confirmed, or was before, finds the order paid.
ConfirmedMeansPaid ==
  \A w \in Worker : call[w].reply \in {"confirmed", "replay"} /\ call[w].outcome = "SUCCESS"
                     => Paid(call[w].order)

\* A payment is refused as a duplicate only when another order of the same mode was really
\* paid with the reference, whether the check or the index refused it: a payment that races
\* its own second delivery is never told that it is somebody else's.
DuplicateIsReal ==
  \A w \in Worker : call[w].reply = "duplicate" =>
    \E p \in Order \ {call[w].order} :
      /\ SameMode(call[w].order, p) /\ Paid(p)
      /\ row[p].rrn \in {call[w].utr, genRrn[call[w].order]}

\* Evidence and order are in the same mode: no live order was ever settled by test evidence,
\* no test order by a real credit, across retries and revivals.
ModesNeverCross ==
  \A o \in Order : /\ row[o].meta.confirmation = "live" => o \in LiveOrder
                   /\ row[o].meta.confirmation = "test" => o \notin LiveOrder

\* A high-amount order is held for a person: no sweep or status page ever expires it.
HeldNeverExpires == \A o \in HeldOrder : row[o].status # "EXPIRED"

\* Paid and referenced go together: a paid order carries the reference it was paid with
\* (given, or derived from its id), and an order that is not paid carries none, so a lapsed or
\* rejected order never blocks a reference.
PaidHasReference == \A o \in Order : Paid(o) <=> row[o].rrn # NoRef

\* The order promises what PayinPromise says.
Promise == INSTANCE PayinPromise WITH status <- [o \in Order |-> row[o].status],
                                      paidWith <- [o \in Order |-> row[o].rrn]
KeepsPromise == Promise!Spec
OneReferenceOneOrder == Promise!OneReferenceOneOrder
PaidIsFinal == Promise!PaidIsFinal

\* A pay-in never hangs: once past its expiry it becomes final, unless it is held or stays
\* parked with a proof for a person to decide (PENDING_EXPIRY_SECONDS).
NeverHangs == \A o \in Order \ HeldOrder :
                <>Final(o) \/ <>[](row[o].meta.review = "PROOF_SUBMITTED")

\* lib/katana-pay autoResolvePaused: "Pausing here stops a proof-bearing order from silently
\* expiring before review."
ProofStopsExpiry ==
  \A o \in Order : ~(row[o].status = "EXPIRED" /\ row[o].meta.review = "PROOF_SUBMITTED")

\* lib/katana-order: confirmKatanaOrder "records who/what/how confirmed it on meta.confirmation".
PaidHasConfirmation ==
  \A o \in LiveOrder : Paid(o) => row[o].meta.confirmation # "none"
=============================================================================
