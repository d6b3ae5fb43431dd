---------------------- MODULE BankCreditsMoneyProofs -----------------------
(***************************************************************************)
(* No reference is lost (BankCredits): when captures come one at a time,   *)
(* every reference they bring stays on an alert that counts.  On top of    *)
(* CreditInv the argument follows each reference from the request that     *)
(* carries it to the alert that shows it, and every alert that shows one   *)
(* through what later captures and staff write over it.                    *)
(***************************************************************************)
EXTENDS BankCreditsProofs

\* A reference is on an alert that counts, or that got it from a later capture; or an upload
\* that brought it was cut short.
Shown(p) == \E i \in DOMAIN alert : alert[i].utr = p /\ (Counted(i) \/ alert[i].cap.utr # p)
Safe(p) == Shown(p) \/ \E d \in lost \cap Capture : d.utr = p

NoBoth == \A c \in Capture : Brought(c) => c.ref = NoOrder
Alone == \A v, w \in Worker : v # w => ~(call[v].pc \in Carrying /\ call[w].pc \in Carrying)

\* An alert's capture was uploaded, and its reference is never taken away again.
FromCapture(i) == uploads[alert[i].cap] > 0 /\ (alert[i].utr = NoRef => alert[i].cap.utr = NoRef)

\* A request that carries a reference gives it to an alert without one, and calls its capture a
\* duplicate only when the reference is safe.
Ready(k) ==
  k.pc \in Carrying /\ k.cap.utr # NoRef =>
    /\ k.pc \in {"fold", "merge"} => k.row \in DOMAIN alert /\ alert[k.row].utr = NoRef
    /\ k.pc \in {"match", "place", "insert"} /\ k.dup => Safe(k.cap.utr)

Kept(c) == Brought(c) =>
  Safe(c.utr) \/ \E w \in Worker : call[w].pc \in Carrying /\ call[w].cap.utr = c.utr

MoneyInv ==
  /\ \A w \in Worker : call[w].pc \in Carrying => uploads[call[w].cap] > 0
  /\ \A i \in DOMAIN alert : FromCapture(i)
  /\ ~raced => Alone
  /\ ~raced /\ NoBoth => /\ \A w \in Worker : Ready(call[w])
                         /\ \A c \in Capture : Kept(c)

-----------------------------------------------------------------------------
(***************************************************************************)
(* What the rows keep.                                                     *)
(***************************************************************************)
\* No alert loses a reference, and none that counts stops to count, but for one whose own upload
\* was cut short.
RowsKept ==
  /\ DOMAIN alert \subseteq DOMAIN alert' /\ lost \subseteq lost'
  /\ \A i \in DOMAIN alert : /\ alert'[i].cap = alert[i].cap
                             /\ alert[i].utr # NoRef => alert'[i].utr = alert[i].utr
                             /\ Counted(i) => Counted(i)' \/ alert[i].cap \in lost'

LEMMA SafeStays ==
  ASSUME Types, RowsKept, NEW p, p # NoRef, Safe(p)
  PROVE  Safe(p)'
<1>1. CASE Shown(p)
  <2>1. PICK i \in DOMAIN alert : alert[i].utr = p /\ (Counted(i) \/ alert[i].cap.utr # p)
    BY <1>1 DEF Shown
  <2>2. i \in DOMAIN alert' /\ alert'[i].utr = p /\ alert'[i].cap = alert[i].cap
    BY <2>1 DEF RowsKept
  <2>3. Counted(i)' \/ alert[i].cap.utr # p \/ alert[i].cap \in lost'
    BY <2>1 DEF RowsKept
  <2>4. alert[i].cap \in Capture
    BY <2>1, RowsTyped DEF Alert
  <2>5. CASE alert[i].cap.utr = p /\ alert[i].cap \in lost'
    BY <2>4, <2>5 DEF Safe
  <2>6. CASE Counted(i)' \/ alert[i].cap.utr # p
    BY <2>2, <2>6 DEF Safe, Shown
  <2> QED BY <2>3, <2>5, <2>6
<1>2. CASE \E d \in lost \cap Capture : d.utr = p
  BY <1>2 DEF RowsKept, Safe
<1> QED BY <1>1, <1>2 DEF Safe

\* What a request carries is safe when it is cut short.
LEMMA LostSafe ==
  ASSUME CreditInv, NEW w \in Worker, call[w].pc \in Carrying, Loses(w), UNCHANGED <<alert, case>>,
         NEW p, p = call[w].cap.utr
  PROVE  RowsKept /\ Safe(p)'
<1>1. Types /\ w \in Uploader /\ call[w].cap \in Capture
  BY DEF CreditInv, Knows, Found, Placed
<1>2. PICK d \in Capture : d = call[w].cap
  BY <1>1
<1>3. lost \subseteq lost' /\ d \in lost' /\ d.utr = p
  BY <1>1, <1>2, LosesType
<1>4. RowsKept
  BY <1>3 DEF RowsKept, Counted
<1> QED BY <1>3, <1>4 DEF Safe

\* Only the outcome and the order of alerts change, and no request that carries a capture moves.
LEMMA AsideStep ==
  ASSUME Types, MoneyInv, RowsKept, uploads' = uploads, raced' = raced, DOMAIN alert' = DOMAIN alert,
         \A i \in DOMAIN alert : alert'[i].utr = alert[i].utr,
         \A v \in Worker : call[v].pc \in Carrying \/ call'[v].pc \in Carrying => call'[v] = call[v]
  PROVE  MoneyInv'
<1>1. \A v \in Worker : call'[v].pc \in Carrying => uploads'[call'[v].cap] > 0
  BY DEF MoneyInv
<1>2. \A i \in DOMAIN alert' : FromCapture(i)'
  BY DEF MoneyInv, FromCapture, RowsKept
<1>3. ~raced' => Alone'
  BY DEF MoneyInv, Alone
<1>4. ASSUME ~raced', NoBoth'
      PROVE  (\A v \in Worker : Ready(call[v])') /\ \A c \in Capture : Kept(c)'
  <2>1. ~raced /\ NoBoth
    BY <1>4 DEF NoBoth, Brought
  <2>2. ASSUME NEW v \in Worker
        PROVE  Ready(call[v])'
    <3> SUFFICES ASSUME call'[v].pc \in Carrying, call'[v].cap.utr # NoRef
                 PROVE  Ready(call[v])'
      BY DEF Ready
    <3>1. call'[v] = call[v] /\ Ready(call[v])
      BY <2>1 DEF MoneyInv
    <3>2. Safe(call[v].cap.utr) => Safe(call[v].cap.utr)'
      <4>1. PICK q : q = call[v].cap.utr
        OBVIOUS
      <4>2. Safe(q) => Safe(q)'
        BY <3>1, <4>1, SafeStays
      <4> QED BY <3>1, <4>1, <4>2
    <3> QED BY <3>1, <3>2 DEF Ready
  <2>3. ASSUME NEW c \in Capture
        PROVE  Kept(c)'
    <3> SUFFICES ASSUME Brought(c)
                 PROVE  Safe(c.utr)' \/ \E v \in Worker : call'[v].pc \in Carrying /\ call'[v].cap.utr = c.utr
      BY DEF Kept, Brought
    <3>1. Kept(c) /\ c.utr # NoRef
      BY <2>1 DEF MoneyInv, Brought
    <3>2. Safe(c.utr) => Safe(c.utr)'
      BY <3>1, SafeStays
    <3> QED BY <3>1, <3>2 DEF Kept
  <2> QED BY <2>2, <2>3
<1> QED BY <1>1, <1>2, <1>3, <1>4 DEF MoneyInv

\* The step of a request that carries a capture: it goes on carrying it, or shows what it brought.
LEMMA CarryStep ==
  ASSUME Types, MoneyInv, NEW w \in Worker, call[w].pc \in Carrying, uploads' = uploads, raced' = raced,
         \A v \in Worker : v # w => call'[v] = call[v],
         call'[w].pc \in Carrying => call'[w].cap = call[w].cap,
         \A i \in DOMAIN alert' : FromCapture(i)',
         NEW p, p = call[w].cap.utr,
         ~raced /\ NoBoth =>
           /\ RowsKept /\ Ready(call[w])'
           /\ call'[w].pc \notin Carrying /\ p # NoRef => Safe(p)'
  PROVE  MoneyInv'
<1>1. \A v \in Worker : call'[v].pc \in Carrying => uploads'[call'[v].cap] > 0
  BY DEF MoneyInv
<1>2. ~raced' => Alone'
  BY DEF MoneyInv, Alone
<1>3. ASSUME ~raced', NoBoth'
      PROVE  (\A v \in Worker : Ready(call[v])') /\ \A c \in Capture : Kept(c)'
  <2>1. ~raced /\ NoBoth /\ Alone
    BY <1>3 DEF NoBoth, Brought, MoneyInv
  <2>2. \A v \in Worker : v # w => call[v].pc \notin Carrying
    BY <2>1 DEF Alone
  <2>3. \A v \in Worker : Ready(call[v])'
    BY <2>1, <2>2 DEF Ready
  <2>4. ASSUME NEW c \in Capture
        PROVE  Kept(c)'
    <3> SUFFICES ASSUME Brought(c)
                 PROVE  Safe(c.utr)' \/ \E v \in Worker : call'[v].pc \in Carrying /\ call'[v].cap.utr = c.utr
      BY DEF Kept, Brought
    <3>1. Kept(c) /\ c.utr # NoRef
      BY <2>1 DEF MoneyInv, Brought
    <3>2. CASE Safe(c.utr)
      BY <2>1, <3>1, <3>2, SafeStays
    <3>3. CASE \E v \in Worker : call[v].pc \in Carrying /\ call[v].cap.utr = c.utr
      <4>1. c.utr = p
        BY <2>2, <3>3
      <4>2. CASE call'[w].pc \in Carrying
        BY <4>1, <4>2
      <4>3. CASE call'[w].pc \notin Carrying
        <5>1. Safe(p)'
          BY <2>1, <3>1, <4>1, <4>3
        <5> QED BY <4>1, <5>1
      <4> QED BY <4>2, <4>3
    <3> QED BY <3>1, <3>2, <3>3 DEF Kept
  <2> QED BY <2>3, <2>4
<1> QED BY <1>1, <1>2, <1>3 DEF MoneyInv

-----------------------------------------------------------------------------
(***************************************************************************)
(* An upload begins: what it finds is shown, or waits for its reference.   *)
(***************************************************************************)
\* What KnownBy says of a capture that brings a reference.
LEMMA KnownSafe ==
  ASSUME NEW c, c.utr # NoRef,
         \A i \in DOMAIN alert : alert[i].utr = c.utr \/ alert[i].cap = c => Safe(c.utr)
  PROVE  /\ KnownBy(c) \in {"reference", "text", "burst"} => Safe(c.utr)
         /\ KnownBy(c) = "time" =>
              \A i \in DOMAIN alert : SameTime(c, alert[i]) => alert[i].utr = NoRef
BY DEF KnownBy, SameReference, SameText, SameBurst, SameTime

LEMMA SightMoney ==
  ASSUME CreditInv, MoneyInv, NEW w \in Worker, Sight(w)
  PROVE  MoneyInv'
<1>1. /\ Types /\ w \in Uploader /\ call[w].pc = "idle" /\ UNCHANGED <<order, alert, case, lost>>
      /\ raced' = (raced \/ \E v \in Uploader \ {w} : ~At(v, "idle"))
  BY DEF CreditInv, Sight, At, stored
<1>2a. PICK c \in Handles[w] : \E by \in {KnownBy(c)} :
        /\ uploads[c] < MaxUploads /\ uploads' = [uploads EXCEPT ![c] = @ + 1]
        /\ Becomes(w, [Idle EXCEPT !.pc = IF by = "time" THEN "fold" ELSE "match", !.cap = c,
                                   !.row = IF by = "time" THEN Oldest(LAMBDA a : SameTime(c, a)) ELSE 0,
                                   !.dup = by # "nothing", !.benign = by \notin {"nothing", "text"}])
  BY DEF Sight
<1>2. PICK by : /\ by = KnownBy(c)
        /\ uploads[c] < MaxUploads /\ uploads' = [uploads EXCEPT ![c] = @ + 1]
        /\ Becomes(w, [Idle EXCEPT !.pc = IF by = "time" THEN "fold" ELSE "match", !.cap = c,
                                   !.row = IF by = "time" THEN Oldest(LAMBDA a : SameTime(c, a)) ELSE 0,
                                   !.dup = by # "nothing", !.benign = by \notin {"nothing", "text"}])
  BY <1>2a
<1>3. PICK n : n = IF by = "time" THEN Oldest(LAMBDA a : SameTime(c, a)) ELSE 0
  OBVIOUS
<1>4. by = "time" => n \in DOMAIN alert /\ SameTime(c, alert[n])
  <2> SUFFICES ASSUME by = "time"
               PROVE  n \in DOMAIN alert /\ SameTime(c, alert[n])
    OBVIOUS
  <2>1. \E i \in DOMAIN alert : SameTime(c, alert[i]) /\ \A j \in 1..(i - 1) : ~SameTime(c, alert[j])
    BY <1>1, <1>2, KnownByTime, OldestIsThere
  <2> QED BY <1>3, <2>1 DEF Oldest
<1> DEFINE k == [Idle EXCEPT !.pc = IF by = "time" THEN "fold" ELSE "match", !.cap = c, !.row = n,
                             !.dup = by # "nothing", !.benign = by \notin {"nothing", "text"}]
<1>5. c \in Capture
  BY <1>1, CreditAssumption
<1>6. /\ k.pc = IF by = "time" THEN "fold" ELSE "match"
      /\ k.cap = c /\ k.row = n /\ k.dup = (by # "nothing")
  BY DEF Idle
<1>6b. k \in Call
  <2>1. n \in Nat
    BY <1>1, <1>3, <1>4, RowsTyped
  <2> QED BY <1>5, <2>1, IdleType DEF Call, PC, Idle
<1>7. Becomes(w, k)
  BY <1>2, <1>3
<1> HIDE DEF k
<1>8. call'[w] = k /\ \A v \in Worker : v # w => call'[v] = call[v]
  BY <1>1, <1>6b, <1>7, CallWritten
<1>9. /\ \A d \in Capture : uploads[d] > 0 => uploads'[d] > 0
      /\ uploads'[c] > 0
      /\ \A d \in Capture : d # c => uploads'[d] = uploads[d]
  <2>1. uploads \in [Capture -> 0..MaxUploads] /\ uploads[c] \in Nat
    BY <1>1, <1>5, CreditAssumption DEF Types
  <2> QED BY <1>2, <1>5, <2>1
<1>10. \A v \in Worker : call'[v].pc \in Carrying => uploads'[call'[v].cap] > 0
  <2>1. \A v \in Worker : call[v].pc \in Carrying => call[v].cap \in Capture
    BY DEF CreditInv, Knows, Found, Carrying
  <2> QED BY <1>1, <1>6, <1>8, <1>9, <2>1 DEF MoneyInv
<1>11. \A i \in DOMAIN alert' : FromCapture(i)'
  <2>1. \A i \in DOMAIN alert : alert[i].cap \in Capture
    BY <1>1, RowsTyped DEF Alert
  <2> QED BY <1>1, <1>9, <2>1 DEF MoneyInv, FromCapture
<1>12. ~raced' => ~raced /\ \A v \in Worker : v # w => call'[v].pc \notin Carrying
  <2>1. \A v \in Worker : call[v].pc \in Carrying => v \in Uploader /\ ~At(v, "idle")
    BY DEF CreditInv, Knows, Placed, At, Carrying
  <2> QED BY <1>1, <1>8, <2>1
<1>13. ~raced' => Alone'
  BY <1>12 DEF Alone
<1>14. ASSUME ~raced', NoBoth'
       PROVE  (\A v \in Worker : Ready(call[v])') /\ \A d \in Capture : Kept(d)'
  <2>1. ~raced /\ NoBoth /\ \A v \in Worker : call[v].pc \notin Carrying
    BY <1>1, <1>8, <1>9, <1>12, <1>14 DEF NoBoth, Brought, Carrying
  <2>2. \A d \in Capture : Brought(d) => Safe(d.utr)
    BY <2>1 DEF MoneyInv, Kept
  <2>3. ASSUME NEW q
        PROVE  Safe(q)' <=> Safe(q)
    BY <1>1 DEF Safe, Shown, Counted
  <2>4. Ready(k)'
    <3> SUFFICES ASSUME k.cap.utr # NoRef
                 PROVE  Ready(k)'
      BY DEF Ready
    <3>1. \A i \in DOMAIN alert : alert[i].utr = c.utr \/ alert[i].cap = c => Safe(c.utr)
      <4> SUFFICES ASSUME NEW i \in DOMAIN alert, alert[i].utr = c.utr \/ alert[i].cap = c
                   PROVE  Safe(c.utr)
        OBVIOUS
      <4>1. alert[i].cap \in Capture /\ uploads[alert[i].cap] > 0
        BY <1>1, RowsTyped DEF Alert, MoneyInv, FromCapture
      <4>2. CASE alert[i].cap.utr = c.utr
        BY <1>6, <2>2, <4>1, <4>2 DEF Brought
      <4>3. CASE alert[i].cap.utr # c.utr
        BY <4>3 DEF Safe, Shown
      <4> QED BY <4>2, <4>3
    <3>2. /\ by \in {"reference", "text", "burst"} => Safe(c.utr)
          /\ by = "time" => alert[n].utr = NoRef
      BY <1>2, <1>4, <1>6, <3>1, KnownSafe
    <3>3. by \in {"reference", "text", "burst", "time", "nothing"}
      BY <1>2 DEF KnownBy
    <3> QED BY <1>1, <1>4, <1>6, <2>3, <3>2, <3>3 DEF Ready
  <2>5. ASSUME NEW v \in Worker
        PROVE  Ready(call[v])'
    BY <1>8, <1>12, <1>14, <2>4 DEF Ready
  <2>6. ASSUME NEW d \in Capture
        PROVE  Kept(d)'
    <3>1. CASE d = c
      BY <1>6, <1>8, <3>1 DEF Kept, Brought, Carrying
    <3>2. CASE d # c
      BY <1>9, <2>2, <2>3, <3>2 DEF Kept, Brought
    <3> QED BY <3>1, <3>2
  <2> QED BY <2>5, <2>6
<1> QED BY <1>10, <1>11, <1>13, <1>14 DEF MoneyInv

-----------------------------------------------------------------------------
(***************************************************************************)
(* A capture is folded, matched, placed and merged, or gets an alert.      *)
(***************************************************************************)
\* A reference is written over the row r, which had none, or none is written.
LEMMA RefWritten ==
  ASSUME Types, MoneyInv, UNCHANGED <<uploads, case, lost>>, NEW r, NEW q, DOMAIN alert' = DOMAIN alert,
         \A i \in DOMAIN alert : /\ alert'[i].cap = alert[i].cap
                                 /\ alert'[i].outcome = alert[i].outcome
                                 /\ i # r => alert'[i].utr = alert[i].utr,
         r \in DOMAIN alert => alert'[r].utr = IF q = NoRef THEN alert[r].utr ELSE q
  PROVE  /\ \A i \in DOMAIN alert' : FromCapture(i)'
         /\ (q # NoRef => r \in DOMAIN alert /\ alert[r].utr = NoRef) =>
              RowsKept /\ (q # NoRef => Safe(q)')
<1>1. \A i \in DOMAIN alert' : FromCapture(i)'
  BY DEF MoneyInv, FromCapture
<1>2. ASSUME q # NoRef => r \in DOMAIN alert /\ alert[r].utr = NoRef
      PROVE  RowsKept /\ (q # NoRef => Safe(q)')
  <2>1. RowsKept
    BY <1>2 DEF RowsKept, Counted
  <2>2. ASSUME q # NoRef
        PROVE  Safe(q)'
    <3>1. r \in DOMAIN alert' /\ alert'[r].utr = q /\ alert[r].utr = NoRef
      BY <1>2, <2>2
    <3>2. alert'[r].cap.utr = NoRef
      BY <1>2, <2>2, <3>1 DEF MoneyInv, FromCapture
    <3> QED BY <2>2, <3>1, <3>2 DEF Safe, Shown
  <2> QED BY <2>1, <2>2
<1> QED BY <1>1, <1>2

LEMMA FoldMoney ==
  ASSUME CreditInv, MoneyInv, NEW w \in Worker, Fold(w)
  PROVE  MoneyInv'
<1> DEFINE r == call[w].row
           a == [alert[r] EXCEPT !.utr = Else(call[w].cap.utr, @, NoRef)]
<1>0. PICK q : q = call[w].cap.utr
  OBVIOUS
<1>0a. PICK s : s = call[w].row
  OBVIOUS
<1>1. /\ Types /\ Found(call[w]) /\ call[w].pc = "fold" /\ Goto(w, "match")
      /\ UNCHANGED <<order, case, seen, acts>>
      /\ \/ alert' = [alert EXCEPT ![r] = a] /\ lost' = lost
         \/ Loses(w) /\ alert' = alert
  BY DEF CreditInv, Knows, Fold, At
<1>2. q \in Payment \cup {NoRef}
  BY <1>0, <1>1, CaptureTypes DEF Found, Carrying
<1>3. r \in DOMAIN alert => /\ a \in Alert /\ a.outcome = alert[r].outcome /\ a.cap = alert[r].cap
                            /\ a.utr = IF q = NoRef THEN alert[r].utr ELSE q
  <2> SUFFICES ASSUME r \in DOMAIN alert
               PROVE  /\ a \in Alert /\ a.outcome = alert[r].outcome /\ a.cap = alert[r].cap
                      /\ a.utr = IF q = NoRef THEN alert[r].utr ELSE q
    OBVIOUS
  <2>1. alert[r] \in Alert
    BY <1>1, RowsTyped
  <2> QED BY <1>0, <1>2, <2>1 DEF Alert, Else
<1> HIDE DEF a
<1>4. ASSUME alert' = [alert EXCEPT ![r] = a]
      PROVE  /\ DOMAIN alert' = DOMAIN alert
             /\ \A i \in DOMAIN alert : alert'[i] = IF i = r THEN a ELSE alert[i]
  <2>1. case' = case
    BY <1>1
  <2> QED BY <1>1, <1>3, <1>4, <2>1, AlertWritten
<1> HIDE DEF r
<1>5. /\ call'[w].pc = "match" /\ call'[w].cap = call[w].cap
      /\ \A v \in Worker : v # w => call'[v] = call[v]
  BY <1>1, CallGoes DEF PC
<1>6. /\ \A i \in DOMAIN alert' : FromCapture(i)'
      /\ ~raced /\ NoBoth => RowsKept /\ (q # NoRef => Safe(q)')
  <2>1. CASE alert' = [alert EXCEPT ![r] = a] /\ lost' = lost
    <3>1. /\ DOMAIN alert' = DOMAIN alert
          /\ \A i \in DOMAIN alert : /\ alert'[i].cap = alert[i].cap
                                     /\ alert'[i].outcome = alert[i].outcome
                                     /\ i # s => alert'[i].utr = alert[i].utr
          /\ s \in DOMAIN alert => alert'[s].utr = IF q = NoRef THEN alert[s].utr ELSE q
      BY <1>0a, <1>3, <1>4, <2>1 DEF r
    <3>2. UNCHANGED <<uploads, case, lost>>
      BY <1>1, <2>1 DEF seen
    <3>3. /\ \A i \in DOMAIN alert' : FromCapture(i)'
          /\ (q # NoRef => s \in DOMAIN alert /\ alert[s].utr = NoRef) =>
               RowsKept /\ (q # NoRef => Safe(q)')
      BY <1>1, <3>1, <3>2, RefWritten
    <3>4. ~raced /\ NoBoth => (q # NoRef => s \in DOMAIN alert /\ alert[s].utr = NoRef)
      BY <1>0, <1>0a, <1>1 DEF MoneyInv, Ready, Carrying
    <3> QED BY <3>3, <3>4
  <2>2. CASE Loses(w) /\ alert' = alert
    <3>1. call[w].pc \in Carrying /\ UNCHANGED <<alert, case>> /\ uploads' = uploads
      BY <1>1, <2>2 DEF Carrying, seen
    <3>2. RowsKept /\ Safe(q)'
      BY <1>0, <2>2, <3>1, LostSafe
    <3>3. \A i \in DOMAIN alert' : FromCapture(i)'
      BY <3>1 DEF MoneyInv, FromCapture
    <3> QED BY <3>2, <3>3
  <2> QED BY <1>1, <2>1, <2>2
<1>7. ~raced /\ NoBoth =>
        /\ RowsKept /\ Ready(call[w])'
        /\ call'[w].pc \notin Carrying /\ q # NoRef => Safe(q)'
  <2> SUFFICES ASSUME ~raced, NoBoth
               PROVE  RowsKept /\ Ready(call[w])' /\ (q # NoRef => Safe(q)')
    OBVIOUS
  <2>1. RowsKept /\ (q # NoRef => Safe(q)')
    BY <1>1, <1>6
  <2> QED BY <1>0, <1>5, <2>1 DEF Ready
<1>8. Types /\ uploads' = uploads /\ raced' = raced /\ call[w].pc \in Carrying
  BY <1>1 DEF seen, Carrying
<1>9. call'[w].pc \in Carrying => call'[w].cap = call[w].cap
  BY <1>5 DEF Carrying
<1> QED BY <1>0, <1>5, <1>6, <1>7, <1>8, <1>9, CarryStep

\* A step that writes no alert: the request goes on carrying its capture.
LEMMA OnlyMoves ==
  ASSUME CreditInv, MoneyInv, NEW w \in Worker, call[w].pc \in Carrying,
         UNCHANGED <<alert, case, uploads, raced, lost>>,
         \A v \in Worker : v # w => call'[v] = call[v],
         call'[w].pc \in Carrying, call'[w].cap = call[w].cap,
         ~raced /\ NoBoth => Ready(call[w])'
  PROVE  MoneyInv'
<1>1. RowsKept /\ \A i \in DOMAIN alert' : FromCapture(i)'
  BY DEF RowsKept, Counted, MoneyInv, FromCapture
<1>2. Types
  BY DEF CreditInv
<1> QED BY <1>1, <1>2, CarryStep

LEMMA MatchOrderMoney ==
  ASSUME CreditInv, MoneyInv, NEW w \in Worker, MatchOrder(w)
  PROVE  MoneyInv'
<1> DEFINE c == call[w].cap
           d == call[w].dup
<1>1. /\ Types /\ Found(call[w]) /\ call[w].pc = "match" /\ call[w] \in Call
      /\ UNCHANGED <<stored, history, acts>>
  BY DEF CreditInv, Knows, MatchOrder, At, Types
<1>2. c \in Capture /\ d \in BOOLEAN
  BY <1>1 DEF Found, Call, Carrying
<1>3. PICK o : /\ o = Matched(c, d)
               /\ Becomes(w, [call[w] EXCEPT !.order = o, !.outcome = OutcomeOf(c, d, o),
                                             !.pc = IF ~d /\ (c.utr # NoRef \/ c.ref # NoOrder)
                                                    THEN "place" ELSE "insert"])
  BY DEF MatchOrder
<1> DEFINE k == [call[w] EXCEPT !.order = o, !.outcome = OutcomeOf(c, d, o),
                                !.pc = IF ~d /\ (c.utr # NoRef \/ c.ref # NoOrder)
                                       THEN "place" ELSE "insert"]
<1>4. o \in Order \cup {NoOrder}
  BY <1>2, <1>3, MatchedType
<1>5. OutcomeOf(c, d, o) \in Outcome
  BY <1>2, <1>4, OutcomeIs
<1>6. /\ k \in Call /\ k.pc \in {"place", "insert"} /\ k.cap = c /\ k.dup = d
  BY <1>1, <1>4, <1>5 DEF Call, PC
<1>7. Becomes(w, k)
  BY <1>3
<1> HIDE DEF k
<1>8. call'[w] = k /\ \A v \in Worker : v # w => call'[v] = call[v]
  BY <1>1, <1>6, <1>7, CallWritten
<1>9. UNCHANGED <<alert, case, uploads, raced, lost>>
  BY <1>1 DEF stored, history, seen
<1>10. ASSUME ~raced, NoBoth
       PROVE  Ready(call[w])'
  <2>1. Ready(call[w])
    BY <1>10 DEF MoneyInv
  <2>2. ASSUME NEW q
        PROVE  Safe(q) => Safe(q)'
    BY <1>9 DEF Safe, Shown, Counted
  <2> QED BY <1>1, <1>6, <1>8, <2>1, <2>2 DEF Ready, Carrying
<1> QED BY <1>1, <1>6, <1>8, <1>9, <1>10, OnlyMoves DEF Carrying

\* An alert that is to receive a reference has none, unless the capture names an order as well.
LEMMA TargetHasNone ==
  ASSUME Types, NEW c, c.utr # NoRef, c.ref = NoOrder, NEW t, t = Target(c), t # 0
  PROVE  t \in DOMAIN alert /\ alert[t].utr = NoRef
<1>1. CASE Sole(SameOrder(c)) # 0
  <2>1. t \in SameOrder(c)
    BY <1>1, SoleIsThere DEF Target
  <2> QED BY <2>1 DEF SameOrder, Alerts
<1>2. CASE Sole(SameOrder(c)) = 0 /\ Sole(Complementary(c)) # 0
  <2>1. t \in Complementary(c)
    BY <1>2, SoleIsThere DEF Target
  <2> QED BY <2>1 DEF Complementary, Alerts
<1>3. CASE Sole(SameOrder(c)) = 0 /\ Sole(Complementary(c)) = 0
  <2>1. /\ \E i \in DOMAIN alert : SamePayer(c, alert[i])
        /\ t = Newest(LAMBDA a : SamePayer(c, a))
    BY <1>3 DEF Target
  <2>2. \E i \in DOMAIN alert :
          SamePayer(c, alert[i]) /\ \A j \in (i + 1)..Len(alert) : ~SamePayer(c, alert[j])
    BY <2>1, NewestIsThere
  <2>3. t \in DOMAIN alert /\ SamePayer(c, alert[t])
    BY <2>1, <2>2 DEF Newest
  <2> QED BY <2>3 DEF SamePayer
<1> QED BY <1>1, <1>2, <1>3

LEMMA PlaceMoney ==
  ASSUME CreditInv, MoneyInv, NEW w \in Worker, Place(w)
  PROVE  MoneyInv'
<1>1. /\ Types /\ Found(call[w]) /\ call[w].pc = "place" /\ call[w] \in Call
      /\ UNCHANGED <<stored, history, acts>>
  BY DEF CreditInv, Knows, Place, At, Types
<1>2. PICK t : /\ t = Target(call[w].cap)
               /\ Becomes(w, [call[w] EXCEPT !.row = t, !.pc = IF t = 0 THEN "insert" ELSE "merge"])
  BY DEF Place
<1> DEFINE k == [call[w] EXCEPT !.row = t, !.pc = IF t = 0 THEN "insert" ELSE "merge"]
<1>3. t \in Nat
  BY <1>1, <1>2, TargetType
<1>4. /\ k \in Call /\ k.pc = (IF t = 0 THEN "insert" ELSE "merge")
      /\ k.cap = call[w].cap /\ k.dup = call[w].dup /\ k.row = t
  BY <1>1, <1>3 DEF Call, PC
<1>5. Becomes(w, k)
  BY <1>2
<1> HIDE DEF k
<1>6. call'[w] = k /\ \A v \in Worker : v # w => call'[v] = call[v]
  BY <1>1, <1>4, <1>5, CallWritten
<1>7. UNCHANGED <<alert, case, uploads, raced, lost>>
  BY <1>1 DEF stored, history, seen
<1>8. ASSUME ~raced, NoBoth
      PROVE  Ready(call[w])'
  <2> SUFFICES ASSUME call[w].cap.utr # NoRef
               PROVE  Ready(call[w])'
    BY <1>4, <1>6 DEF Ready
  <2>1. Ready(call[w]) /\ uploads[call[w].cap] > 0
    BY <1>1, <1>8 DEF MoneyInv, Carrying
  <2>2. call[w].cap.ref = NoOrder
    BY <1>1, <1>8, <2>1 DEF NoBoth, Brought, Found, Carrying
  <2>3. t # 0 => t \in DOMAIN alert /\ alert[t].utr = NoRef
    BY <1>1, <1>2, <2>2, TargetHasNone
  <2>4. ASSUME NEW q
        PROVE  Safe(q) => Safe(q)'
    BY <1>7 DEF Safe, Shown, Counted
  <2> QED BY <1>1, <1>4, <1>6, <1>7, <2>1, <2>3, <2>4 DEF Ready, Carrying
<1> QED BY <1>1, <1>4, <1>6, <1>7, <1>8, OnlyMoves DEF Carrying

LEMMA MergeMoney ==
  ASSUME CreditInv, MoneyInv, NEW w \in Worker, Merge(w)
  PROVE  MoneyInv'
<1> DEFINE r == call[w].row
           c == call[w].cap
           a == Enriched(alert[r], c)
<1>0. PICK q : q = call[w].cap.utr
  OBVIOUS
<1>0a. PICK s : s = call[w].row
  OBVIOUS
<1>1. /\ Types /\ Found(call[w]) /\ call[w].pc = "merge" /\ Over(w)
      /\ UNCHANGED <<order, case, seen, acts>>
      /\ \/ alert' = [alert EXCEPT ![r] = a] /\ lost' = lost
         \/ Loses(w) /\ alert' = alert
  BY DEF CreditInv, Knows, Merge, At
<1>2. c.utr \in Payment \cup {NoRef} /\ c.ref \in Order \cup {NoOrder} /\ c.vpa \in Payment \cup {NoRef}
  BY <1>1, CaptureTypes DEF Found, Carrying
<1>3. r \in DOMAIN alert => /\ a \in Alert /\ a.outcome = alert[r].outcome /\ a.cap = alert[r].cap
                            /\ a.utr = IF q = NoRef THEN alert[r].utr ELSE q
  <2> SUFFICES ASSUME r \in DOMAIN alert
               PROVE  /\ a \in Alert /\ a.outcome = alert[r].outcome /\ a.cap = alert[r].cap
                      /\ a.utr = IF q = NoRef THEN alert[r].utr ELSE q
    OBVIOUS
  <2>1. alert[r] \in Alert
    BY <1>1, RowsTyped
  <2> QED BY <1>0, <1>2, <2>1 DEF Alert, Enriched, Else
<1> HIDE DEF a
<1>4. ASSUME alert' = [alert EXCEPT ![r] = a]
      PROVE  /\ DOMAIN alert' = DOMAIN alert
             /\ \A i \in DOMAIN alert : alert'[i] = IF i = r THEN a ELSE alert[i]
  <2>1. case' = case
    BY <1>1
  <2> QED BY <1>1, <1>3, <1>4, <2>1, AlertWritten
<1> HIDE DEF r
<1>5. call'[w].pc = "idle" /\ \A v \in Worker : v # w => call'[v] = call[v]
  BY <1>1, CallOver, IdleType
<1>6. /\ \A i \in DOMAIN alert' : FromCapture(i)'
      /\ ~raced /\ NoBoth => RowsKept /\ (q # NoRef => Safe(q)')
  <2>1. CASE alert' = [alert EXCEPT ![r] = a] /\ lost' = lost
    <3>1. /\ DOMAIN alert' = DOMAIN alert
          /\ \A i \in DOMAIN alert : /\ alert'[i].cap = alert[i].cap
                                     /\ alert'[i].outcome = alert[i].outcome
                                     /\ i # s => alert'[i].utr = alert[i].utr
          /\ s \in DOMAIN alert => alert'[s].utr = IF q = NoRef THEN alert[s].utr ELSE q
      BY <1>0a, <1>3, <1>4, <2>1 DEF r
    <3>2. UNCHANGED <<uploads, case, lost>>
      BY <1>1, <2>1 DEF seen
    <3>3. /\ \A i \in DOMAIN alert' : FromCapture(i)'
          /\ (q # NoRef => s \in DOMAIN alert /\ alert[s].utr = NoRef) =>
               RowsKept /\ (q # NoRef => Safe(q)')
      BY <1>1, <3>1, <3>2, RefWritten
    <3>4. ~raced /\ NoBoth => (q # NoRef => s \in DOMAIN alert /\ alert[s].utr = NoRef)
      BY <1>0, <1>0a, <1>1 DEF MoneyInv, Ready, Carrying
    <3> QED BY <3>3, <3>4
  <2>2. CASE Loses(w) /\ alert' = alert
    <3>1. call[w].pc \in Carrying /\ UNCHANGED <<alert, case>> /\ uploads' = uploads
      BY <1>1, <2>2 DEF Carrying, seen
    <3>2. RowsKept /\ Safe(q)'
      BY <1>0, <2>2, <3>1, LostSafe
    <3>3. \A i \in DOMAIN alert' : FromCapture(i)'
      BY <3>1 DEF MoneyInv, FromCapture
    <3> QED BY <3>2, <3>3
  <2> QED BY <1>1, <2>1, <2>2
<1>7. ~raced /\ NoBoth =>
        /\ RowsKept /\ Ready(call[w])'
        /\ call'[w].pc \notin Carrying /\ q # NoRef => Safe(q)'
  <2> SUFFICES ASSUME ~raced, NoBoth
               PROVE  RowsKept /\ Ready(call[w])' /\ (q # NoRef => Safe(q)')
    OBVIOUS
  <2>1. RowsKept /\ (q # NoRef => Safe(q)')
    BY <1>1, <1>6
  <2> QED BY <1>5, <2>1 DEF Ready, Carrying
<1>8. Types /\ uploads' = uploads /\ raced' = raced /\ call[w].pc \in Carrying
  BY <1>1 DEF seen, Carrying
<1>9. call'[w].pc \in Carrying => call'[w].cap = call[w].cap
  BY <1>5 DEF Carrying
<1> QED BY <1>0, <1>5, <1>6, <1>7, <1>8, <1>9, CarryStep

LEMMA InsertMoney ==
  ASSUME CreditInv, MoneyInv, NEW w \in Worker, Insert(w)
  PROVE  MoneyInv'
<1> DEFINE k == call[w]
           c == k.cap
           a == [cap |-> c, utr |-> c.utr, ref |-> c.ref, vpa |-> c.vpa,
                 outcome |-> k.outcome, order |-> k.order]
           m == [k EXCEPT !.pc = AfterInsert(k), !.row = Len(alert')]
<1>0. PICK n : n = Len(alert) + 1
  OBVIOUS
<1>0a. PICK q : q = c.utr
  OBVIOUS
<1>0b. PICK b : b = c
  OBVIOUS
<1>1. /\ Types /\ Found(k) /\ k.pc = "insert" /\ k \in Call
      /\ UNCHANGED <<order, history, acts>>
      /\ alert' = Append(alert, a) /\ case' = Append(case, NoCase)
      /\ Becomes(w, IF AfterInsert(k) = "idle" THEN Idle ELSE m)
  BY DEF CreditInv, Knows, Insert, At, Types
<1>2. a.cap = b /\ a.utr = q /\ a.outcome = k.outcome
  BY <1>0a, <1>0b
<1>3. m.pc = AfterInsert(k) /\ AfterInsert(k) \in {"confirm", "case", "idle"}
  BY <1>1 DEF AfterInsert, Call
<1> HIDE DEF a, m
<1>4. /\ DOMAIN alert = 1..Len(alert) /\ DOMAIN case = DOMAIN alert /\ Len(alert) \in Nat
      /\ DOMAIN alert' = DOMAIN alert \cup {n} /\ n \notin DOMAIN alert
      /\ alert'[n] = a /\ \A i \in DOMAIN alert : alert'[i] = alert[i] /\ case'[i] = case[i]
  <2>1. /\ Len(alert) \in Nat /\ Len(case) = Len(alert) /\ DOMAIN alert = 1..Len(alert)
        /\ alert \in Seq(Alert) /\ case \in Seq(CaseRow) /\ DOMAIN case = DOMAIN alert
    BY <1>1, RowsTyped DEF Types
  <2>2. DOMAIN alert' = 1..n
    BY <1>0, <1>1, <2>1
  <2> QED BY <1>0, <1>1, <2>1, <2>2
<1>5. call'[w].pc \notin Carrying /\ \A v \in Worker : v # w => call'[v] = call[v]
  <2> DEFINE z == IF AfterInsert(k) = "idle" THEN Idle ELSE m
  <2>1. z.pc \in {"confirm", "case", "idle"}
    BY <1>3, IdleType
  <2>2. Becomes(w, z)
    BY <1>1
  <2> HIDE DEF z
  <2>3. call'[w] = z /\ \A v \in Worker : v # w => call'[v] = call[v]
    BY <1>1, <2>2 DEF Becomes, Types
  <2> QED BY <2>1, <2>3 DEF Carrying
<1>6. uploads[b] > 0 /\ b \in Capture
  BY <1>0b, <1>1 DEF MoneyInv, Carrying, Found
<1>7. \A i \in DOMAIN alert' : FromCapture(i)'
  <2>1. ASSUME NEW i \in DOMAIN alert
        PROVE  FromCapture(i)'
    BY <1>1, <1>4 DEF MoneyInv, FromCapture, history, seen
  <2>2. FromCapture(n)'
    BY <1>0a, <1>0b, <1>1, <1>2, <1>4, <1>6 DEF FromCapture, history, seen
  <2> QED BY <1>4, <2>1, <2>2
<1>8. RowsKept
  BY <1>1, <1>4 DEF RowsKept, Counted, history
<1>9. ASSUME ~raced, NoBoth, q # NoRef
      PROVE  Safe(q)'
  <2>1. CASE k.dup
    <3>1. Safe(q)
      BY <1>0a, <1>1, <1>9, <2>1 DEF MoneyInv, Ready, Carrying
    <3> QED BY <1>1, <1>8, <1>9, <3>1, SafeStays
  <2>2. CASE ~k.dup
    <3>1. a.outcome # "DUPLICATE"
      BY <1>1, <1>2, <2>2 DEF Found
    <3>2. n \in DOMAIN alert' /\ alert'[n].utr = q /\ Counted(n)'
      BY <1>2, <1>4, <3>1 DEF Counted
    <3> QED BY <3>2 DEF Safe, Shown
  <2> QED BY <2>1, <2>2
<1>10. call[w].pc \in Carrying /\ Ready(call[w])'
  BY <1>1, <1>5 DEF Carrying, Ready
<1>11. uploads' = uploads /\ raced' = raced
  BY <1>1 DEF history, seen
<1>12. q = call[w].cap.utr
  BY <1>0a
<1>13. ~raced /\ NoBoth =>
         /\ RowsKept /\ Ready(call[w])'
         /\ call'[w].pc \notin Carrying /\ q # NoRef => Safe(q)'
  BY <1>8, <1>9, <1>10
<1>14. Types
  BY <1>1
<1> HIDE DEF k, c
<1> QED BY <1>14, <1>5, <1>7, <1>10, <1>11, <1>12, <1>13, CarryStep

-----------------------------------------------------------------------------
(***************************************************************************)
(* An alert is confirmed, gets a case, is demoted, is linked or decided.   *)
(***************************************************************************)
LEMMA Aside ==
  ASSUME Types, NEW w \in Worker, call[w].pc \notin Carrying, NEW c, Becomes(w, c), c.pc \notin Carrying
  PROVE  \A v \in Worker : call[v].pc \in Carrying \/ call'[v].pc \in Carrying => call'[v] = call[v]
BY DEF Types, Becomes

\* No row is written.
LEMMA RowsAlone ==
  ASSUME CreditInv, MoneyInv, NEW w \in Worker, call[w].pc \notin Carrying, NEW c, Becomes(w, c),
         c.pc \notin Carrying, UNCHANGED <<alert, case, uploads, raced>>, lost \subseteq lost'
  PROVE  MoneyInv'
<1>1. Types
  BY DEF CreditInv
<1>2. \A v \in Worker : call[v].pc \in Carrying \/ call'[v].pc \in Carrying => call'[v] = call[v]
  BY <1>1, Aside
<1>3. RowsKept
  BY DEF RowsKept, Counted
<1> QED BY <1>1, <1>2, <1>3, AsideStep

LEMMA ConfirmOrderMoney ==
  ASSUME CreditInv, MoneyInv, NEW w \in Worker, ConfirmOrder(w)
  PROVE  MoneyInv'
<1>0. PICK no : Becomes(w, AfterConfirm(call[w], no))
  BY DEF ConfirmOrder
<1> DEFINE c == AfterConfirm(call[w], no)
<1>1. call[w] \in Call /\ call[w].pc = "confirm" /\ Becomes(w, c)
      /\ UNCHANGED <<alert, case, uploads, raced, lost>>
  BY <1>0 DEF CreditInv, Types, ConfirmOrder, At, history, seen
<1>2. c.pc \notin Carrying
  BY <1>1, IdleType DEF AfterConfirm, Call, Carrying
<1> HIDE DEF c
<1> QED BY <1>1, <1>2, RowsAlone DEF Carrying

LEMMA LinkReadMoney ==
  ASSUME CreditInv, MoneyInv, NEW w \in Worker, LinkRead(w)
  PROVE  MoneyInv'
<1>1. call[w].pc = "idle" /\ UNCHANGED <<alert, case, uploads, raced, lost>>
  BY DEF LinkRead, Asked, At, stored
<1>2. PICK i, o :
        Becomes(w, [Idle EXCEPT !.pc = "link", !.row = i, !.order = o, !.utr = alert[i].utr])
  BY DEF LinkRead
<1> DEFINE c == [Idle EXCEPT !.pc = "link", !.row = i, !.order = o, !.utr = alert[i].utr]
<1>3. c.pc = "link" /\ Becomes(w, c)
  BY <1>2 DEF Idle
<1> HIDE DEF c
<1> QED BY <1>1, <1>3, RowsAlone DEF Carrying

LEMMA StaffConfirmsMoney ==
  ASSUME CreditInv, MoneyInv, NEW w \in Worker, NEW pc, NEW then, StaffConfirms(w, pc, then),
         (pc = "link" /\ then = "mark") \/ (pc = "decide" /\ then = "resolve")
  PROVE  MoneyInv'
<1> DEFINE m == [call[w] EXCEPT !.pc = then]
<1>0. PICK no : IF no THEN UNCHANGED order /\ Over(w)
                ELSE order' = Confirmed(call[w].order, call[w].utr) /\ Goto(w, then)
  BY DEF StaffConfirms
<1> DEFINE c == IF no THEN Idle ELSE m
<1>1. call[w] \in Call /\ call[w].pc = pc /\ UNCHANGED <<alert, case, uploads, raced, lost>>
  BY DEF CreditInv, Types, StaffConfirms, At, history, seen
<1>2. Becomes(w, c)
  BY <1>0 DEF Over, Goto
<1>3. c.pc \notin Carrying
  BY <1>1, IdleType DEF Call, Carrying
<1> HIDE DEF c
<1> QED BY <1>1, <1>2, <1>3, RowsAlone DEF Carrying

LEMMA CaseReadMoney ==
  ASSUME CreditInv, MoneyInv, NEW w \in Worker, CaseConfirmRead(w) \/ CaseRejectRead(w)
  PROVE  MoneyInv'
<1>1. call[w].pc = "idle" /\ UNCHANGED <<alert, case, uploads, raced, lost>>
  BY DEF CaseConfirmRead, CaseRejectRead, Asked, At, stored
<1>2. CASE CaseConfirmRead(w)
  <2>1. PICK i, typed :
          Becomes(w, [Idle EXCEPT !.pc = "decide", !.row = i, !.order = case[i].order,
                                  !.utr = IF typed THEN alert[i].cap.pay ELSE NoRef])
    BY <1>2 DEF CaseConfirmRead
  <2> DEFINE c == [Idle EXCEPT !.pc = "decide", !.row = i, !.order = case[i].order,
                               !.utr = IF typed THEN alert[i].cap.pay ELSE NoRef]
  <2>2. c.pc = "decide" /\ Becomes(w, c)
    BY <2>1 DEF Idle
  <2> HIDE DEF c
  <2> QED BY <1>1, <2>2, RowsAlone DEF Carrying
<1>3. CASE CaseRejectRead(w)
  <2>1. PICK i : Becomes(w, [Idle EXCEPT !.pc = "resolve", !.row = i])
    BY <1>3 DEF CaseRejectRead
  <2> DEFINE c == [Idle EXCEPT !.pc = "resolve", !.row = i]
  <2>2. c.pc = "resolve" /\ Becomes(w, c)
    BY <2>1 DEF Idle
  <2> HIDE DEF c
  <2> QED BY <1>1, <2>2, RowsAlone DEF Carrying
<1> QED BY <1>2, <1>3

\* A case is written, and says something: its alert goes on counting.
LEMMA CaseSays ==
  ASSUME CreditInv, MoneyInv, NEW w \in Worker, call[w].pc \notin Carrying, NEW c, Becomes(w, c),
         c.pc \notin Carrying, UNCHANGED <<alert, uploads, raced>>, lost \subseteq lost',
         \A i \in DOMAIN alert : case'[i].status = case[i].status \/ case'[i].status # "none"
  PROVE  MoneyInv'
<1>1. Types
  BY DEF CreditInv
<1>2. \A v \in Worker : call[v].pc \in Carrying \/ call'[v].pc \in Carrying => call'[v] = call[v]
  BY <1>1, Aside
<1>3. RowsKept
  BY DEF RowsKept, Counted
<1> QED BY <1>1, <1>2, <1>3, AsideStep

LEMMA OpenCaseMoney ==
  ASSUME CreditInv, MoneyInv, NEW w \in Worker, OpenCase(w)
  PROVE  MoneyInv'
<1> DEFINE k == call[w]
           m == [k EXCEPT !.pc = "demote"]
           c == IF k.outcome = "DUPLICATE" /\ ~k.dup THEN m ELSE Idle
           x == [status |-> "OPEN", order |-> k.order]
<1>1. /\ Types /\ k \in Call /\ k.pc = "case" /\ UNCHANGED <<alert, uploads, raced>>
      /\ \/ case' = [case EXCEPT ![k.row] = x] /\ lost' = lost
         \/ Loses(w) /\ case' = case
      /\ Becomes(w, c)
  BY DEF CreditInv, Types, OpenCase, Goto, Over, At, seen
<1>2. c.pc \notin Carrying
  BY <1>1, IdleType DEF Call, Carrying
<1>3. x \in CaseRow /\ x.status = "OPEN"
  BY <1>1 DEF CaseRow, Call
<1>4. call[w].pc \notin Carrying
  BY <1>1 DEF Carrying
<1> HIDE DEF c, x
<1>5. CASE Loses(w) /\ case' = case
  <2>1. lost \subseteq lost'
    BY <1>1, <1>5, LosesType
  <2> QED BY <1>1, <1>2, <1>4, <1>5, <2>1, RowsAlone
<1>6. CASE case' = [case EXCEPT ![k.row] = x] /\ lost' = lost
  <2>1. \A i \in DOMAIN alert : case'[i] = IF i = k.row THEN x ELSE case[i]
    <3>1. PICK y \in CaseRow : y = x
      BY <1>3
    <3>2. alert' = alert /\ case' = [case EXCEPT ![k.row] = y] /\ Types
      BY <1>1, <1>6, <3>1
    <3>3. \A i \in DOMAIN alert : case'[i] = IF i = k.row THEN y ELSE case[i]
      BY <3>2, CaseWritten
    <3> QED BY <3>1, <3>3
  <2>2. \A i \in DOMAIN alert : case'[i].status = case[i].status \/ case'[i].status # "none"
    BY <1>3, <2>1
  <2> QED BY <1>1, <1>2, <1>4, <1>6, <2>2, CaseSays
<1> QED BY <1>1, <1>5, <1>6

LEMMA CaseWriteMoney ==
  ASSUME CreditInv, MoneyInv, NEW w \in Worker, CaseWrite(w)
  PROVE  MoneyInv'
<1> DEFINE k == call[w]
           x == [case[k.row] EXCEPT !.status = IF k.order = NoOrder THEN "REJECTED" ELSE "RESOLVED"]
<1>1. /\ Types /\ Knows(w) /\ k.pc = "resolve" /\ k \in Call
      /\ UNCHANGED <<alert, uploads, raced, lost>> /\ Becomes(w, Idle)
      /\ case' = [case EXCEPT ![k.row] = x]
  BY DEF CreditInv, CaseWrite, At, Types, history, seen, Over
<1>2. x \in CaseRow /\ x.status # "none"
  <2>1. k.row \in DOMAIN alert
    BY <1>1 DEF Knows, About, Deciding
  <2>2. case[k.row] \in CaseRow
    BY <1>1, <2>1, RowsTyped
  <2> QED BY <2>2 DEF CaseRow
<1> HIDE DEF x
<1>3. \A i \in DOMAIN alert : case'[i] = IF i = k.row THEN x ELSE case[i]
  <2>1. PICK y \in CaseRow : y = x
    BY <1>2
  <2>2. alert' = alert /\ case' = [case EXCEPT ![k.row] = y] /\ Types
    BY <1>1, <2>1
  <2>3. \A i \in DOMAIN alert : case'[i] = IF i = k.row THEN y ELSE case[i]
    BY <2>2, CaseWritten
  <2> QED BY <2>1, <2>3
<1>4. k.pc \notin Carrying /\ Idle.pc \notin Carrying
  BY <1>1, IdleType DEF Carrying
<1> QED BY <1>1, <1>2, <1>3, <1>4, CaseSays

\* The outcome and the order of one row are written: it says CONFIRMED, or it has a case, or it
\* lost it when the insert of it failed.
LEMMA OutcomeWritten ==
  ASSUME CreditInv, MoneyInv, NEW w \in Worker, call[w].pc \notin Carrying, Becomes(w, Idle),
         UNCHANGED <<case, uploads, raced, lost>>, DOMAIN alert' = DOMAIN alert,
         NEW r, NEW a, \A i \in DOMAIN alert : alert'[i] = IF i = r THEN a ELSE alert[i],
         a.cap = alert[r].cap, a.utr = alert[r].utr,
         a.outcome # "DUPLICATE" \/ case[r].status # "none" \/ alert[r].cap \in lost
  PROVE  MoneyInv'
<1>1. Types /\ Idle.pc \notin Carrying
  BY IdleType DEF CreditInv, Carrying
<1>2. \A v \in Worker : call[v].pc \in Carrying \/ call'[v].pc \in Carrying => call'[v] = call[v]
  BY <1>1, Aside
<1>3. RowsKept
  BY DEF RowsKept, Counted
<1>4. \A i \in DOMAIN alert : alert'[i].utr = alert[i].utr
  OBVIOUS
<1> QED BY <1>1, <1>2, <1>3, <1>4, AsideStep

LEMMA DemoteMoney ==
  ASSUME CreditInv, MoneyInv, NEW w \in Worker, Demote(w)
  PROVE  MoneyInv'
<1> DEFINE k == call[w]
           a == [alert[k.row] EXCEPT !.outcome = k.outcome]
<1>1. /\ Types /\ Knows(w) /\ k.pc = "demote" /\ k \in Call
      /\ UNCHANGED <<case, uploads, raced>> /\ Becomes(w, Idle)
      /\ \/ alert' = [alert EXCEPT ![k.row] = a] /\ lost' = lost
         \/ Loses(w) /\ alert' = alert
  BY DEF CreditInv, Demote, At, Types, Over, seen
<1>2. k.row \in DOMAIN alert /\ (case[k.row].status # "none" \/ alert[k.row].cap \in lost)
  BY <1>1 DEF Knows, About, Filing
<1>3. a \in Alert /\ a.cap = alert[k.row].cap /\ a.utr = alert[k.row].utr
  <2>1. alert[k.row] \in Alert
    BY <1>1, <1>2, RowsTyped
  <2> QED BY <1>1, <2>1 DEF Alert, Call
<1>4. k.pc \notin Carrying /\ Idle.pc \notin Carrying
  BY <1>1, IdleType DEF Carrying
<1> HIDE DEF a
<1>5. CASE Loses(w) /\ alert' = alert
  <2>1. lost \subseteq lost'
    BY <1>1, <1>5, LosesType
  <2> QED BY <1>1, <1>4, <1>5, <2>1, RowsAlone
<1>6. CASE alert' = [alert EXCEPT ![k.row] = a] /\ lost' = lost
  <2>1. case' = case /\ (k.row \in DOMAIN alert => a \in Alert)
    BY <1>1, <1>3
  <2>2. /\ DOMAIN alert' = DOMAIN alert
        /\ \A i \in DOMAIN alert : alert'[i] = IF i = k.row THEN a ELSE alert[i]
    BY <1>1, <1>6, <2>1, AlertWritten
  <2> QED BY <1>1, <1>2, <1>3, <1>4, <1>6, <2>2, OutcomeWritten
<1> QED BY <1>1, <1>5, <1>6

LEMMA LinkMarkMoney ==
  ASSUME CreditInv, MoneyInv, NEW w \in Worker, LinkMark(w)
  PROVE  MoneyInv'
<1> DEFINE k == call[w]
           a == [alert[k.row] EXCEPT !.order = k.order, !.outcome = "CONFIRMED"]
<1>1. /\ Types /\ Knows(w) /\ k.pc = "mark" /\ k \in Call
      /\ UNCHANGED <<case, uploads, raced, lost>> /\ Becomes(w, Idle)
  BY DEF CreditInv, LinkMark, At, Types, Over, history, seen
<1>2. k.row \in DOMAIN alert /\ k.order \in Order
  BY <1>1 DEF Knows, About, Linking
<1>3. /\ a \in Alert /\ a.outcome = "CONFIRMED" /\ a.cap = alert[k.row].cap
      /\ a.utr = alert[k.row].utr /\ alert[k.row] \in Alert
  <2>1. alert[k.row] \in Alert
    BY <1>1, <1>2, RowsTyped
  <2> QED BY <1>2, <2>1 DEF Alert, Outcome
<1>4. alert' = [alert EXCEPT ![k.row] = a]
  BY <1>1, <1>2, <1>3 DEF LinkMark, Types, Alert
<1> HIDE DEF a
<1>5. /\ DOMAIN alert' = DOMAIN alert
      /\ \A i \in DOMAIN alert : alert'[i] = IF i = k.row THEN a ELSE alert[i]
  <2>1. case' = case /\ (k.row \in DOMAIN alert => a \in Alert)
    BY <1>1, <1>3
  <2> QED BY <1>1, <1>4, <2>1, AlertWritten
<1>6. k.pc \notin Carrying
  BY <1>1 DEF Carrying
<1>7. PICK r : r = k.row
  OBVIOUS
<1>8. /\ \A i \in DOMAIN alert : alert'[i] = IF i = r THEN a ELSE alert[i]
      /\ a.cap = alert[r].cap /\ a.utr = alert[r].utr /\ a.outcome # "DUPLICATE"
  BY <1>3, <1>5, <1>7
<1> QED BY <1>1, <1>5, <1>6, <1>8, OutcomeWritten

\* What the request carried is lost with it; one that carried nothing leaves the rows alone.
LEMMA DiesMoney ==
  ASSUME CreditInv, MoneyInv, NEW w \in Worker, Dies(w)
  PROVE  MoneyInv'
<1>1. Types /\ Loses(w) /\ Becomes(w, Idle) /\ UNCHANGED <<alert, case, uploads, raced>>
  BY DEF CreditInv, Dies, Over, stored, seen
<1>2. Idle.pc \notin Carrying
  BY IdleType DEF Carrying
<1>3. CASE call[w].pc \notin Carrying
  <2>1. lost \subseteq lost'
    BY <1>1, LosesType
  <2> QED BY <1>1, <1>2, <1>3, <2>1, RowsAlone
<1>4. CASE call[w].pc \in Carrying
  <2>1. PICK q : q = call[w].cap.utr
    OBVIOUS
  <2>2. RowsKept /\ Safe(q)'
    BY <1>1, <1>4, <2>1, LostSafe
  <2>3. call'[w].pc \notin Carrying /\ \A v \in Worker : v # w => call'[v] = call[v]
    BY <1>1, <1>2, IdleType, CallWritten
  <2>4. Ready(call[w])' /\ \A i \in DOMAIN alert' : FromCapture(i)'
    BY <1>1, <2>3 DEF Ready, MoneyInv, FromCapture
  <2> QED BY <1>1, <1>4, <2>1, <2>2, <2>3, <2>4, CarryStep
<1> QED BY <1>3, <1>4

-----------------------------------------------------------------------------
(***************************************************************************)
(* The invariant, and the result.                                          *)
(***************************************************************************)
LEMMA MoneyInit ==
  ASSUME Init
  PROVE  MoneyInv
<1>1. \A w \in Worker : call[w].pc = "idle"
  BY IdleType DEF Init
<1>2. \A c \in Capture : ~Brought(c)
  BY DEF Init, Brought
<1> QED BY <1>1, <1>2 DEF Init, MoneyInv, Carrying, Alone, Ready, Kept

LEMMA MoneyStep ==
  ASSUME CreditInv, MoneyInv, [Next]_vars
  PROVE  MoneyInv'
<1>1. ASSUME NEW w \in Worker, Upload(w)
      PROVE  MoneyInv'
  BY <1>1, SightMoney, FoldMoney, MatchOrderMoney, PlaceMoney, MergeMoney, InsertMoney,
     OpenCaseMoney, ConfirmOrderMoney, DemoteMoney DEF Upload
<1>2. ASSUME NEW w \in Worker, Staff(w)
      PROVE  MoneyInv'
  <2>1. LinkConfirm(w) => MoneyInv'
    BY StaffConfirmsMoney DEF LinkConfirm
  <2>2. CaseConfirm(w) => MoneyInv'
    BY StaffConfirmsMoney DEF CaseConfirm
  <2> QED BY <1>2, <2>1, <2>2, LinkReadMoney, LinkMarkMoney, CaseReadMoney, CaseWriteMoney DEF Staff
<1>3. ASSUME UNCHANGED <<alert, case, uploads, raced, lost, call>>
      PROVE  MoneyInv'
  <2>1. RowsKept /\ Types
    BY <1>3 DEF RowsKept, Counted, CreditInv
  <2> QED BY <1>3, <2>1, AsideStep
<1>4. \A o \in Order : Expire(o) => MoneyInv'
  BY <1>3 DEF Expire, history, seen
<1>5. UNCHANGED vars => MoneyInv'
  BY <1>3 DEF vars, stored, history, seen
<1>6. ASSUME NEW w \in Worker, Dies(w)
      PROVE  MoneyInv'
  BY <1>6, DiesMoney
<1> QED BY <1>1, <1>2, <1>4, <1>5, <1>6 DEF Next

\* A reference on its way to an alert is in the hands of one request, and every other that was
\* brought is shown.
THEOREM MoneyInvariance == Spec => [](CreditInv /\ MoneyInv)
<1>1. Init => CreditInv /\ MoneyInv
  BY CreditInit, MoneyInit
<1>2. CreditInv /\ MoneyInv /\ [Next]_vars => CreditInv' /\ MoneyInv'
  BY CreditStep, MoneyStep
<1> QED BY <1>1, <1>2, PTL DEF Spec

\* When the captures come one at a time, in any order and however often, and none brings a
\* reference and an order at once, every reference they bring is on an alert that counts, or was
\* put on one by a later capture, or came with an upload that was cut short (ingestTxnAlert's
\* duplicate checks, folding and enrich-merge).
THEOREM NothingUnderReported == Spec => []NeverUnderReported
<1>1. CreditInv /\ MoneyInv => NeverUnderReported
  <2> SUFFICES ASSUME CreditInv, MoneyInv, OneAtATime, NoBoth, NEW c \in Capture, Brought(c)
               PROVE  Safe(c.utr)
    BY DEF NeverUnderReported, NoBoth, Safe, Shown
  <2>1. \A w \in Worker : call[w].pc \notin Carrying
    BY DEF CreditInv, Knows, Placed, OneAtATime, At, Carrying
  <2>2. Kept(c)
    BY DEF MoneyInv, OneAtATime
  <2> QED BY <2>1, <2>2 DEF Kept
<1> QED BY <1>1, MoneyInvariance, PTL
=============================================================================
