---------------------------- MODULE WebhookOutbox ----------------------------
(***************************************************************************)
(* The webhook outbox (lib/webhook-outbox): rows that are POSTed to the    *)
(* merchant until one attempt is accepted or the retries are used up.      *)
(*                                                                         *)
(* Dispatchers run side by side: the drain after a callback, the crons,    *)
(* the admin action (dispatchPending) and the first attempt of a new row   *)
(* (deliverNow).  FOR UPDATE SKIP LOCKED holds its locks for the SELECT    *)
(* only, since every statement is its own transaction, so two dispatchers  *)
(* can carry the same row; each writes the row back from the attempts it   *)
(* read, under no guard.                                                   *)
(***************************************************************************)
EXTENDS Naturals, Sequences, FiniteSets

CONSTANTS Rows,        \* rows of webhook_outbox
          Samples,     \* is_test: sample events sent from the portal
          Dispatcher,
          Waits,       \* how many waits the retry schedule has (6: 1m .. 24h)
          Limit,       \* rows a dispatch takes at once
          MaxFaults    \* bound: how often a dispatcher dies

ASSUME OutboxAssumption == /\ Samples \subseteq Rows
                           /\ Waits \in Nat \ {0} /\ Limit \in Nat \ {0} /\ MaxFaults \in Nat

VARIABLES outbox,    \* status and attempts of each row
          due,       \* rows whose next_attempt_at has passed
          work,      \* what each dispatcher carries: the row copies it has read, in order
          posted,    \* the first row of the copies was POSTed: "no", "accepted" or "refused"
          posts,     \* attempts the merchant's server saw, per row
          accepted,  \* rows it accepted at least once
          faults

outboxVars == <<outbox, due, work, posted, posts, accepted, faults>>

RowStatus == {"PENDING", "DELIVERED", "DEAD_LETTER", "TEST_FAILED"}
Settled(i) == outbox[i].status # "PENDING"

OutboxInit == /\ outbox = [i \in Rows |-> [status |-> "PENDING", attempts |-> 0]]
              /\ due = Rows
              /\ work = [d \in Dispatcher |-> <<>>]
              /\ posted = [d \in Dispatcher |-> "no"]
              /\ posts = [i \in Rows |-> 0]
              /\ accepted = {}
              /\ faults = 0

Copy(i) == [row |-> i, attempts |-> outbox[i].attempts]

DueBelowLast(i) == i \in due /\ ~Settled(i) /\ outbox[i].attempts < Waits   \* mutant
Due(i) == i \in due /\ ~Settled(i)

\* The rows due, oldest first, up to the limit; copies of what they are now.
DispatchPending(d) ==
  /\ work[d] = <<>>
  /\ \E n \in 1..Limit : \E picked \in [1..n -> {i \in Rows : Due(i)}] :
       /\ \A a, b \in 1..n : picked[a] = picked[b] => a = b
       /\ work' = [work EXCEPT ![d] = [k \in 1..n |-> Copy(picked[k])]]
  /\ UNCHANGED <<outbox, due, posted, posts, accepted, faults>>

\* One row, whatever its schedule says.
DeliverNow(d) ==
  /\ work[d] = <<>>
  /\ \E i \in Rows : ~Settled(i) /\ work' = [work EXCEPT ![d] = <<Copy(i)>>]
  /\ UNCHANGED <<outbox, due, posted, posts, accepted, faults>>

\* Every attempt counts as a post, as the row counts it: one that never reached the server (a network
\* error, a version 2 row whose merchant has no secret) is one the server refused.
Post(d) ==
  /\ work[d] # <<>> /\ posted[d] = "no"
  /\ LET i == Head(work[d]).row
     IN  /\ posts' = [posts EXCEPT ![i] = @ + 1]
         /\ \/ accepted' = accepted \cup {i} /\ posted' = [posted EXCEPT ![d] = "accepted"]
            \/ accepted' = accepted /\ posted' = [posted EXCEPT ![d] = "refused"]
  /\ UNCHANGED <<outbox, due, work, faults>>

\* Mutants: gives up one attempt early, or goes on one attempt too long.
GivesUpEarly(i, no, ok) ==
  [status |-> CASE ok -> "DELIVERED" [] ~ok /\ no >= Waits -> "DEAD_LETTER" [] OTHER -> "PENDING",
   attempts |-> no]
GivesUpLate(i, no, ok) ==
  [status |-> CASE ok -> "DELIVERED" [] ~ok /\ no > Waits + 1 -> "DEAD_LETTER" [] OTHER -> "PENDING",
   attempts |-> no]

\* Accepted: DELIVERED.  Refused: a sample is left at that, a row past its schedule is
\* dead-lettered, any other waits for its next attempt.
AfterAttempt(i, no, ok) ==
  CASE ok -> [status |-> "DELIVERED", attempts |-> no]
    [] ~ok /\ i \in Samples -> [status |-> "TEST_FAILED", attempts |-> no]
    [] ~ok /\ i \notin Samples /\ no > Waits -> [status |-> "DEAD_LETTER", attempts |-> no]
    [] OTHER -> [status |-> outbox[i].status, attempts |-> no]

Answered(d) == posted[d] # "no"                \* mutant: any answer counts as accepted
Ok(d) == posted[d] = "accepted"

Record(d) ==
  /\ posted[d] # "no"
  /\ LET copy == Head(work[d])
         new == AfterAttempt(copy.row, copy.attempts + 1, Ok(d))
     IN  /\ outbox' = [outbox EXCEPT ![copy.row] = new]
         /\ due' = IF ~Ok(d) /\ copy.row \notin Samples /\ new.attempts <= Waits
                   THEN due \ {copy.row} ELSE due
  /\ work' = [work EXCEPT ![d] = Tail(@)]
  /\ posted' = [posted EXCEPT ![d] = "no"]
  /\ UNCHANGED <<posts, accepted, faults>>

\* The process dies: what it carried is forgotten, the POST it made is not.
Die(d) == /\ work[d] # <<>> /\ faults < MaxFaults
          /\ work' = [work EXCEPT ![d] = <<>>]
          /\ posted' = [posted EXCEPT ![d] = "no"]
          /\ faults' = faults + 1
          /\ UNCHANGED <<outbox, due, posts, accepted>>

WaitOver(i) == /\ i \notin due
               /\ due' = due \cup {i}
               /\ UNCHANGED <<outbox, work, posted, posts, accepted, faults>>

OutboxNext == \/ \E d \in Dispatcher : DispatchPending(d) \/ DeliverNow(d) \/ Post(d)
                                       \/ Record(d) \/ Die(d)
              \/ \E i \in Rows : WaitOver(i)

OutboxSpec == OutboxInit /\ [][OutboxNext]_outboxVars

(***************************************************************************)
(* Fairness: waits run out, a dispatch goes on unless its process dies,    *)
(* and the drains come round to every due row.  Nothing is assumed of the  *)
(* merchant's server.                                                      *)
(***************************************************************************)
Carried(d, i) == \E k \in DOMAIN work'[d] : work'[d][k].row = i

OutboxFairSpec ==
  /\ OutboxSpec
  /\ \A i \in Rows : /\ WF_outboxVars(WaitOver(i))
                     /\ SF_outboxVars(\E d \in Dispatcher : DispatchPending(d) /\ Carried(d, i))
  /\ \A d \in Dispatcher : WF_outboxVars(Post(d)) /\ WF_outboxVars(Record(d))

-----------------------------------------------------------------------------
\* Type correctness.
OutboxTypeOK ==
  /\ outbox \in [Rows -> [status : RowStatus, attempts : 0..Waits + 1]]
  /\ due \in SUBSET Rows
  /\ work \in [Dispatcher -> Seq([row : Rows, attempts : 0..Waits])]
  /\ posted \in [Dispatcher -> {"no", "accepted", "refused"}]
  /\ posts \in [Rows -> Nat]
  /\ accepted \in SUBSET Rows
  /\ faults \in 0..MaxFaults

\* A row is marked DELIVERED only when the merchant's server accepted it, whichever
\* dispatcher's write came last.
DeliveredIsReal == \A i \in Rows : outbox[i].status = "DELIVERED" => i \in accepted

\* No early give-up: a row is dead-lettered only after every attempt of its schedule was
\* really made, however the dispatchers' writes overtook each other ("it used to give up one
\* attempt early").
NoEarlyGiveUp == \A i \in Rows : outbox[i].status = "DEAD_LETTER" => posts[i] > Waits

\* Every row ends: delivered, dead-lettered or, for a sample, shown as failed.
EveryRowSettles == \A i \in Rows : <>Settled(i)
=============================================================================
