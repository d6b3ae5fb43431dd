------------------------ MODULE WebhookOutboxProofs ------------------------
(***************************************************************************)
(* What WebhookOutbox guarantees for any rows, dispatchers and schedule.   *)
(* Dispatchers carry copies and write back from them under no guard; the   *)
(* argument is that a copy never knows of an attempt that was not made     *)
(* (Backed), and that an answer is written only by the dispatcher that got *)
(* it (Heard).                                                             *)
(***************************************************************************)
EXTENDS WebhookOutbox, TLAPS

\* Attempts the table or a copy counts are attempts the merchant's server saw.
Backed ==
  /\ \A i \in Rows : outbox[i].attempts <= posts[i]
  /\ \A d \in Dispatcher : \A n \in DOMAIN work[d] :
       work[d][n].attempts <= posts[work[d][n].row]

\* A dispatcher that has an answer has made the attempt of the row it carries first, on top of
\* those the copy counts.
Heard ==
  \A d \in Dispatcher : posted[d] # "no" =>
    /\ work[d] # <<>>
    /\ Head(work[d]).attempts < posts[Head(work[d]).row]
    /\ posted[d] = "accepted" => Head(work[d]).row \in accepted

\* A row that is still waiting has waits left.
Waiting == \A i \in Rows : ~Settled(i) => outbox[i].attempts <= Waits

OutboxInv == OutboxTypeOK /\ Backed /\ Heard /\ Waiting /\ DeliveredIsReal /\ NoEarlyGiveUp

-----------------------------------------------------------------------------
(***************************************************************************)
(* Sequences of copies.                                                    *)
(***************************************************************************)
LEMMA TailOf ==
  ASSUME NEW S, NEW s \in Seq(S), s # <<>>
  PROVE  /\ Tail(s) \in Seq(S) /\ Head(s) \in S /\ Head(s) = s[1] /\ 1 \in DOMAIN s
         /\ \A n \in DOMAIN Tail(s) : n + 1 \in DOMAIN s /\ Tail(s)[n] = s[n + 1]
OBVIOUS

\* What a dispatcher carries.
Copies == [row : Rows, attempts : 0..Waits]

LEMMA Carries ==
  ASSUME OutboxTypeOK, NEW d \in Dispatcher
  PROVE  /\ work[d] \in Seq(Copies)
         /\ \A n \in DOMAIN work[d] : work[d][n].row \in Rows /\ work[d][n].attempts \in 0..Waits
         /\ work[d] # <<>> => /\ Tail(work[d]) \in Seq(Copies)
                              /\ Head(work[d]) = work[d][1] /\ 1 \in DOMAIN work[d]
                              /\ Head(work[d]).row \in Rows /\ Head(work[d]).attempts \in 0..Waits
<1>1. work[d] \in Seq(Copies)
  BY DEF OutboxTypeOK, Copies
<1>2. \A n \in DOMAIN work[d] : work[d][n] \in Copies
  BY <1>1
<1>3. work[d] # <<>> => /\ Tail(work[d]) \in Seq(Copies) /\ Head(work[d]) = work[d][1]
                        /\ 1 \in DOMAIN work[d]
  BY <1>1, TailOf
<1>4. \A c \in Copies : c.row \in Rows /\ c.attempts \in 0..Waits
  BY DEF Copies
<1> QED BY <1>1, <1>2, <1>3, <1>4

LEMMA CopyType ==
  ASSUME OutboxInv, NEW i \in Rows, ~Settled(i)
  PROVE  /\ Copy(i) \in [row : Rows, attempts : 0..Waits]
         /\ Copy(i).row = i /\ Copy(i).attempts <= posts[i]
<1>1. outbox[i].attempts \in 0..Waits + 1 /\ outbox[i].attempts <= Waits
  BY DEF OutboxInv, OutboxTypeOK, Waiting
<1> QED BY <1>1, OutboxAssumption DEF Copy, OutboxInv, Backed

-----------------------------------------------------------------------------
(***************************************************************************)
(* The actions.                                                            *)
(***************************************************************************)
LEMMA OutboxInit_Inv == OutboxInit => OutboxInv
BY OutboxAssumption DEF OutboxInit, OutboxInv, OutboxTypeOK, Backed, Heard, Waiting, DeliveredIsReal,
     NoEarlyGiveUp, RowStatus, Settled

\* A dispatcher that carried nothing takes copies of waiting rows.
LEMMA TakesCopies ==
  ASSUME OutboxInv, NEW d \in Dispatcher, NEW s, work[d] = <<>>,
         s \in Seq([row : Rows, attempts : 0..Waits]),
         \A n \in DOMAIN s : s[n].attempts <= posts[s[n].row],
         work' = [work EXCEPT ![d] = s],
         UNCHANGED <<outbox, due, posted, posts, accepted, faults>>
  PROVE  OutboxInv'
<1>1. posted[d] = "no"
  BY DEF OutboxInv, Heard
<1>2. work' \in [Dispatcher -> Seq([row : Rows, attempts : 0..Waits])]
  BY DEF OutboxInv, OutboxTypeOK
<1>3. work'[d] = s /\ \A e \in Dispatcher \ {d} : work'[e] = work[e]
  BY DEF OutboxInv, OutboxTypeOK
<1>4. OutboxTypeOK' /\ Waiting' /\ DeliveredIsReal' /\ NoEarlyGiveUp'
  BY <1>2 DEF OutboxInv, OutboxTypeOK, Waiting, DeliveredIsReal, NoEarlyGiveUp, Settled
<1>5. Backed'
  BY <1>3 DEF OutboxInv, Backed
<1>6. Heard'
  BY <1>1, <1>3 DEF OutboxInv, Heard
<1> QED BY <1>4, <1>5, <1>6 DEF OutboxInv

LEMMA DispatchPending_Inv ==
  ASSUME OutboxInv, NEW d \in Dispatcher, DispatchPending(d)
  PROVE  OutboxInv'
<1>1. PICK n \in 1..Limit : \E p \in [1..n -> {i \in Rows : Due(i)}] :
             work' = [work EXCEPT ![d] = [k \in 1..n |-> Copy(p[k])]]
  BY DEF DispatchPending
<1>2. PICK p \in [1..n -> {i \in Rows : Due(i)}] :
             work' = [work EXCEPT ![d] = [k \in 1..n |-> Copy(p[k])]]
  BY <1>1
<1> DEFINE s == [k \in 1..n |-> Copy(p[k])]
<1>3. \A k \in 1..n : p[k] \in Rows /\ ~Settled(p[k])
  BY DEF Due
<1>4. \A k \in 1..n : /\ Copy(p[k]) \in [row : Rows, attempts : 0..Waits]
                      /\ Copy(p[k]).attempts <= posts[Copy(p[k]).row]
  BY <1>3, CopyType
<1>5. n \in Nat
  BY OutboxAssumption
<1>6. s \in Seq([row : Rows, attempts : 0..Waits]) /\ DOMAIN s = 1..n
  BY <1>4, <1>5
<1>7. \A k \in DOMAIN s : s[k].attempts <= posts[s[k].row]
  BY <1>4, <1>6
<1>8. work[d] = <<>> /\ UNCHANGED <<outbox, due, posted, posts, accepted, faults>>
  BY DEF DispatchPending
<1>9. work' = [work EXCEPT ![d] = s]
  BY <1>2
<1> HIDE DEF s
<1> QED BY <1>6, <1>7, <1>8, <1>9, TakesCopies

LEMMA DeliverNow_Inv ==
  ASSUME OutboxInv, NEW d \in Dispatcher, DeliverNow(d)
  PROVE  OutboxInv'
<1>1. PICK i \in Rows : ~Settled(i) /\ work' = [work EXCEPT ![d] = <<Copy(i)>>]
  BY DEF DeliverNow
<1> DEFINE c == Copy(i)
<1>2. c \in [row : Rows, attempts : 0..Waits] /\ c.attempts <= posts[c.row]
  BY <1>1, CopyType
<1>3. work' = [work EXCEPT ![d] = <<c>>]
  BY <1>1
<1> HIDE DEF c
<1>4. <<c>> \in Seq([row : Rows, attempts : 0..Waits])
      /\ \A n \in DOMAIN <<c>> : <<c>>[n].attempts <= posts[<<c>>[n].row]
  BY <1>2
<1>5. work[d] = <<>> /\ UNCHANGED <<outbox, due, posted, posts, accepted, faults>>
  BY DEF DeliverNow
<1> QED BY <1>3, <1>4, <1>5, TakesCopies

LEMMA Post_Inv ==
  ASSUME OutboxInv, NEW d \in Dispatcher, Post(d)
  PROVE  OutboxInv'
<1> DEFINE i == Head(work[d]).row
<1>1. /\ work[d] \in Seq([row : Rows, attempts : 0..Waits]) /\ work[d] # <<>>
      /\ posts \in [Rows -> Nat] /\ accepted \subseteq Rows /\ posted[d] = "no"
      /\ posted \in [Dispatcher -> {"no", "accepted", "refused"}]
  BY DEF OutboxInv, OutboxTypeOK, Post
<1>2. i \in Rows /\ Head(work[d]).attempts \in 0..Waits /\ Head(work[d]) = work[d][1] /\ 1 \in DOMAIN work[d]
  BY <1>1, Carries DEF OutboxInv
<1>3. Head(work[d]).attempts <= posts[i]
  BY <1>2 DEF OutboxInv, Backed
<1>4. /\ posts' = [posts EXCEPT ![i] = @ + 1]
      /\ \/ accepted' = accepted \cup {i} /\ posted' = [posted EXCEPT ![d] = "accepted"]
         \/ accepted' = accepted /\ posted' = [posted EXCEPT ![d] = "refused"]
      /\ UNCHANGED <<outbox, due, work, faults>>
  BY DEF Post
<1>4a. i = Head(work[d]).row
  OBVIOUS
<1> HIDE DEF i
<1>5a. /\ posts' \in [Rows -> Nat] /\ posts'[i] = posts[i] + 1
       /\ \A j \in Rows : posts'[j] >= posts[j]
  <2>1. posts[i] \in Nat /\ posts[i] + 1 \in Nat
    BY <1>1, <1>2, <1>4a
  <2>2. \A j \in Rows : posts'[j] = IF j = i THEN posts[i] + 1 ELSE posts[j]
    BY <1>1, <1>4
  <2>3. posts' \in [Rows -> Nat]
    BY <2>1, <1>1, <1>4
  <2>4. i \in Rows
    BY <1>2, <1>4a
  <2> QED BY <2>1, <2>2, <2>3, <2>4, <1>1
<1>5. /\ posts' \in [Rows -> Nat] /\ posts'[i] = posts[i] + 1
      /\ \A j \in Rows : posts'[j] >= posts[j]
      /\ accepted \subseteq accepted' /\ accepted' \subseteq Rows
      /\ posted' \in [Dispatcher -> {"no", "accepted", "refused"}]
      /\ \A e \in Dispatcher \ {d} : posted'[e] = posted[e]
      /\ posted'[d] = "accepted" => i \in accepted'
  BY <1>1, <1>2, <1>4, <1>4a, <1>5a
<1>6. OutboxTypeOK'
  BY <1>4, <1>5 DEF OutboxInv, OutboxTypeOK
<1>7. \A e \in Dispatcher : \A n \in DOMAIN work[e] :
         work[e][n].row \in Rows /\ work[e][n].attempts \in Nat
  BY Carries, OutboxAssumption DEF OutboxInv
<1>8. \A j \in Rows : outbox[j].attempts \in Nat /\ posts[j] \in Nat /\ posts'[j] \in Nat
  BY <1>1, <1>5, OutboxAssumption DEF OutboxInv, OutboxTypeOK
<1>9. Backed'
  <2>1. \A j \in Rows : outbox[j].attempts <= posts[j]
    BY DEF OutboxInv, Backed
  <2>2. \A e \in Dispatcher : \A n \in DOMAIN work[e] : work[e][n].attempts <= posts[work[e][n].row]
    BY DEF OutboxInv, Backed
  <2>3. \A j \in Rows : outbox[j].attempts <= posts'[j]
    BY <2>1, <1>5, <1>8
  <2>4. \A e \in Dispatcher : \A n \in DOMAIN work[e] : work[e][n].attempts <= posts'[work[e][n].row]
    BY <2>2, <1>5, <1>7, <1>8
  <2> QED BY <2>3, <2>4, <1>4 DEF Backed
<1>10. Heard'
  <2> SUFFICES ASSUME NEW e \in Dispatcher, posted'[e] # "no"
               PROVE  /\ work[e] # <<>>
                      /\ Head(work[e]).attempts < posts'[Head(work[e]).row]
                      /\ posted'[e] = "accepted" => Head(work[e]).row \in accepted'
    BY <1>4 DEF Heard
  <2>1. CASE e = d
    BY <2>1, <1>1, <1>2, <1>3, <1>4a, <1>5, <1>8, OutboxAssumption
  <2>2. CASE e # d
    <3>1. /\ work[e] # <<>> /\ Head(work[e]).attempts < posts[Head(work[e]).row]
          /\ posted[e] = "accepted" => Head(work[e]).row \in accepted
          /\ posted'[e] = posted[e]
      BY <2>2, <1>5 DEF OutboxInv, Heard
    <3>2. Head(work[e]).row \in Rows /\ Head(work[e]).attempts \in Nat
      BY <3>1, Carries, OutboxAssumption DEF OutboxInv
    <3> QED BY <3>1, <3>2, <1>5, <1>8
  <2> QED BY <2>1, <2>2
<1>11. Waiting' /\ DeliveredIsReal'
  BY <1>4, <1>5 DEF OutboxInv, Waiting, DeliveredIsReal, Settled
<1>12. NoEarlyGiveUp'
  BY <1>4, <1>5, <1>8, OutboxAssumption DEF OutboxInv, NoEarlyGiveUp
<1> QED BY <1>6, <1>9, <1>10, <1>11, <1>12 DEF OutboxInv

LEMMA Record_Inv ==
  ASSUME OutboxInv, NEW d \in Dispatcher, Record(d)
  PROVE  OutboxInv'
<1> DEFINE copy == Head(work[d])
           no == copy.attempts + 1
           new == AfterAttempt(copy.row, no, Ok(d))
<1>1. /\ work[d] \in Seq([row : Rows, attempts : 0..Waits]) /\ work[d] # <<>>
      /\ copy.attempts < posts[copy.row]
      /\ Ok(d) => copy.row \in accepted
  BY DEF OutboxInv, OutboxTypeOK, Record, Heard, Ok
<1>2. copy.row \in Rows /\ copy.attempts \in 0..Waits
  BY <1>1, Carries DEF OutboxInv
<1>2a. posts[copy.row] \in Nat
  BY <1>2 DEF OutboxInv, OutboxTypeOK
<1>3. posts[copy.row] \in Nat /\ no \in 0..Waits + 1 /\ no <= posts[copy.row]
  BY <1>1, <1>2, <1>2a, OutboxAssumption
<1>4. /\ outbox \in [Rows -> [status : RowStatus, attempts : 0..Waits + 1]]
      /\ outbox' = [outbox EXCEPT ![copy.row] = new]
      /\ due' \in {due, due \ {copy.row}}
      /\ work' = [work EXCEPT ![d] = Tail(@)] /\ posted' = [posted EXCEPT ![d] = "no"]
      /\ UNCHANGED <<posts, accepted, faults>>
  BY DEF Record, OutboxInv, OutboxTypeOK
<1>5. /\ new \in [status : RowStatus, attempts : 0..Waits + 1] /\ new.attempts = no
      /\ \/ new.status = outbox[copy.row].status /\ no <= Waits
         \/ new.status = "DELIVERED" /\ Ok(d)
         \/ new.status = "TEST_FAILED"
         \/ new.status = "DEAD_LETTER" /\ no > Waits
  BY <1>2, <1>3, <1>4, OutboxAssumption DEF AfterAttempt, RowStatus
<1> HIDE DEF new, no, copy
<1>6. /\ outbox' \in [Rows -> [status : RowStatus, attempts : 0..Waits + 1]]
      /\ outbox'[copy.row] = new /\ \A i \in Rows \ {copy.row} : outbox'[i] = outbox[i]
  BY <1>2, <1>4, <1>5
<1>7. /\ posted' \in [Dispatcher -> {"no", "accepted", "refused"}] /\ posted'[d] = "no"
      /\ \A e \in Dispatcher \ {d} : posted'[e] = posted[e] /\ work'[e] = work[e]
      /\ work'[d] = Tail(work[d])
  BY <1>4 DEF OutboxInv, OutboxTypeOK
<1>8. OutboxTypeOK'
  <2>1. Tail(work[d]) \in Seq([row : Rows, attempts : 0..Waits])
    BY <1>1, Carries DEF OutboxInv, Copies
  <2>2. work' \in [Dispatcher -> Seq([row : Rows, attempts : 0..Waits])]
    BY <2>1, <1>4 DEF OutboxInv, OutboxTypeOK
  <2> QED BY <2>2, <1>4, <1>6, <1>7 DEF OutboxInv, OutboxTypeOK
<1>9. Backed'
  <2>1. \A i \in Rows : outbox'[i].attempts <= posts[i]
    BY <1>3, <1>5, <1>6 DEF OutboxInv, Backed
  <2>2. \A n \in DOMAIN work'[d] : work'[d][n].attempts <= posts[work'[d][n].row]
    BY <1>1, <1>7, TailOf DEF OutboxInv, Backed
  <2>3. \A e \in Dispatcher : \A n \in DOMAIN work'[e] : work'[e][n].attempts <= posts[work'[e][n].row]
    BY <2>2, <1>7 DEF OutboxInv, Backed
  <2> QED BY <2>1, <2>3, <1>4 DEF Backed
<1>10. Heard'
  BY <1>4, <1>7 DEF OutboxInv, Heard
<1>11. Waiting'
  BY <1>5, <1>6 DEF OutboxInv, Waiting, Settled
<1>12. DeliveredIsReal'
  BY <1>1, <1>4, <1>5, <1>6 DEF OutboxInv, DeliveredIsReal, copy
<1>13. NoEarlyGiveUp'
  BY <1>3, <1>4, <1>5, <1>6, OutboxAssumption DEF OutboxInv, NoEarlyGiveUp
<1> QED BY <1>8, <1>9, <1>10, <1>11, <1>12, <1>13 DEF OutboxInv

LEMMA Die_Inv ==
  ASSUME OutboxInv, NEW d \in Dispatcher, Die(d)
  PROVE  OutboxInv'
<1>1. /\ work' = [work EXCEPT ![d] = <<>>] /\ posted' = [posted EXCEPT ![d] = "no"]
      /\ faults' = faults + 1 /\ faults < MaxFaults
      /\ UNCHANGED <<outbox, due, posts, accepted>>
  BY DEF Die
<1>1a. faults' \in 0..MaxFaults
  <2>1. faults \in 0..MaxFaults
    BY DEF OutboxInv, OutboxTypeOK
  <2> QED BY <2>1, <1>1, OutboxAssumption
<1>1b. <<>> \in Seq([row : Rows, attempts : 0..Waits])
  OBVIOUS
<1>2. /\ work' \in [Dispatcher -> Seq([row : Rows, attempts : 0..Waits])]
      /\ posted' \in [Dispatcher -> {"no", "accepted", "refused"}]
      /\ work'[d] = <<>> /\ posted'[d] = "no"
      /\ \A e \in Dispatcher \ {d} : work'[e] = work[e] /\ posted'[e] = posted[e]
  BY <1>1, <1>1b DEF OutboxInv, OutboxTypeOK
<1>3. OutboxTypeOK' /\ Waiting' /\ DeliveredIsReal' /\ NoEarlyGiveUp'
  BY <1>1, <1>1a, <1>2 DEF OutboxInv, OutboxTypeOK, Waiting, DeliveredIsReal, NoEarlyGiveUp, Settled
<1>4. Backed' /\ Heard'
  BY <1>1, <1>2 DEF OutboxInv, Backed, Heard
<1> QED BY <1>3, <1>4 DEF OutboxInv

LEMMA Unseen_Inv ==
  ASSUME OutboxInv, UNCHANGED <<outbox, work, posted, posts, accepted, faults>>, due' \subseteq Rows
  PROVE  OutboxInv'
BY DEF OutboxInv, OutboxTypeOK, Backed, Heard, Waiting, DeliveredIsReal, NoEarlyGiveUp, Settled

LEMMA OutboxNext_Inv == OutboxInv /\ [OutboxNext]_outboxVars => OutboxInv'
<1> SUFFICES ASSUME OutboxInv, [OutboxNext]_outboxVars PROVE OutboxInv'
  OBVIOUS
<1>1. CASE \E d \in Dispatcher : DispatchPending(d) \/ DeliverNow(d) \/ Post(d) \/ Record(d) \/ Die(d)
  BY <1>1, DispatchPending_Inv, DeliverNow_Inv, Post_Inv, Record_Inv, Die_Inv
<1>2. CASE \E i \in Rows : WaitOver(i)
  BY <1>2, Unseen_Inv DEF WaitOver, OutboxInv, OutboxTypeOK
<1>3. CASE UNCHANGED outboxVars
  BY <1>3, Unseen_Inv DEF outboxVars, OutboxInv, OutboxTypeOK
<1> QED BY <1>1, <1>2, <1>3 DEF OutboxNext

THEOREM OutboxInvariant == OutboxSpec => []OutboxInv
BY OutboxInit_Inv, OutboxNext_Inv, PTL DEF OutboxSpec

-----------------------------------------------------------------------------
(***************************************************************************)
(* The theorems.                                                           *)
(***************************************************************************)
\* The outbox, its schedule and the copies of the dispatchers (lib/webhook-outbox) keep their
\* types: no row counts more attempts than its schedule has.
THEOREM OutboxTypeCorrect == OutboxSpec => []OutboxTypeOK
BY OutboxInvariant, PTL DEF OutboxInv

\* A row marked DELIVERED was accepted by the merchant's server, however the unguarded writes of
\* dispatchers that carry the same row overtake each other.
THEOREM DeliveryIsReal == OutboxSpec => []DeliveredIsReal
BY OutboxInvariant, PTL DEF OutboxInv

\* A row is dead-lettered only after more attempts were really made than its schedule has waits.
THEOREM NobodyGivesUpEarly == OutboxSpec => []NoEarlyGiveUp
BY OutboxInvariant, PTL DEF OutboxInv
=============================================================================
