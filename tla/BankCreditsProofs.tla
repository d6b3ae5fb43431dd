------------------------- MODULE BankCreditsProofs -------------------------
(***************************************************************************)
(* What BankCredits guarantees for any payments, orders, captures,         *)
(* uploading requests and staff.  The argument is one inductive invariant: *)
(* what a request between two statements still knows of the alert and the  *)
(* case it is about (Knows), which two requests may be about one alert at  *)
(* once (Apart), and where each alert and each payment is kept track of.   *)
(***************************************************************************)
EXTENDS BankCredits, FiniteSetTheorems, WellFoundedInduction, TLAPS

Carrying == {"fold", "match", "place", "merge", "insert"}   \* an upload without an alert yet
Filing == {"case", "confirm", "demote"}     \* an upload that has inserted its alert
Linking == {"link", "mark"}                 \* staff with an alert in hand
Deciding == {"decide", "resolve"}           \* staff with a case in hand

Types == /\ order \in [Order -> OrderRow]
         /\ \A o \in Order : Paid(o) <=> order[o].rrn # NoRef
         /\ alert \in Seq(Alert) /\ case \in Seq(CaseRow) /\ Len(case) = Len(alert)
         /\ uploads \in [Capture -> 0..MaxUploads] /\ raced \in BOOLEAN
         /\ contested \subseteq Order /\ lost \subseteq Capture \cup Order
         /\ acts \in 0..MaxActs /\ call \in [Worker -> Call]

\* An alert that says it is confirmed, and for which order.
Linked(a) == a.outcome = "CONFIRMED" /\ a.order # NoOrder

\* An upload whose order refused it: its alert is to be demoted.
Refuses(k) == k.pc = "demote" \/ (k.pc = "case" /\ k.outcome = "DUPLICATE" /\ ~k.dup)

\* What a request knows of what it has found so far.
Found(k) ==
  /\ k.pc \in Carrying \cup Filing => k.cap \in Capture
  /\ k.pc \in {"fold", "match"} => (k.benign => k.dup)
  /\ k.pc \in {"place", "insert"} => /\ k.benign => k.dup
                                     /\ k.dup <=> k.outcome = "DUPLICATE"
                                     /\ k.outcome = "CONFIRMED" => k.order \in Order

Pays(o) == o \in Order /\ Paid(o)
SaysPaid(i) == alert[i].outcome = "CONFIRMED" => Pays(alert[i].order)

\* Nobody has decided the case, or two of staff are at it.
Undecided(i) == case[i].status = "OPEN" \/ case[i].order \in contested \cup {NoOrder}

\* What it knows of the alert and of the case it is about.
About(k) ==
  /\ k.pc \in Filing \cup Linking \cup Deciding => k.row \in DOMAIN alert
  /\ k.pc \in Filing => alert[k.row].cap = k.cap
  /\ k.pc = "confirm" => /\ k.order \in Order /\ k.outcome = "CONFIRMED" /\ ~k.dup
                         /\ alert[k.row].outcome = "CONFIRMED" /\ alert[k.row].order = k.order
  /\ k.pc \in {"confirm", "case"} => case[k.row].status = "none"
  /\ k.pc = "case" /\ ~Refuses(k) => SaysPaid(k.row)
  /\ Refuses(k) => Linked(alert[k.row])
  /\ k.pc = "demote" => /\ k.outcome = "DUPLICATE"
                        /\ case[k.row].status # "none" \/ k.cap \in lost
  /\ k.pc \in Linking => /\ k.order \in Order
                         /\ Linked(alert[k.row]) => alert[k.row].order \in contested
  /\ k.pc \in Deciding => /\ case[k.row].status # "none" /\ Undecided(k.row)
                          /\ k.order # NoOrder => case[k.row].order = k.order
  /\ k.pc = "decide" => k.order \in Order
  /\ k.pc \in {"mark", "resolve"} /\ k.order # NoOrder => Paid(k.order)

\* Agents upload, and staff link and decide.
Placed(w) == /\ call[w].pc \in Carrying \cup Filing => w \in Uploader
             /\ call[w].pc \in Linking \cup Deciding => w \in Clerk

Knows(w) == Found(call[w]) /\ About(call[w]) /\ Placed(w)

\* Two requests about one alert, and two about one case.
Apart(j, k) ==
  j.row = k.row =>
    /\ ~(j.pc \in Filing /\ k.pc \in Filing)
    /\ j.pc \in Linking => ~(k.pc = "confirm" \/ Refuses(k))
    /\ j.pc \in Linking /\ k.pc \in Linking => {j.order, k.order} \subseteq contested

BothDecide(j, k) ==
  j.row = k.row /\ j.pc \in Deciding /\ k.pc \in Deciding =>
    case[k.row].order \in contested \cup {NoOrder}

\* What an alert says is so, or its upload is still at it, or was cut short.
Settled(i) == /\ SaysPaid(i)
              /\ alert[i].outcome \in {"UNMATCHED", "AMBIGUOUS"} => case[i].status # "none"
Followed(i) == \/ Settled(i)
               \/ alert[i].cap \in lost
               \/ \E w \in Worker : call[w].pc \in Filing /\ call[w].row = i

ResolvedPays(i) == case[i].status = "RESOLVED" => Pays(case[i].order)

\* What a paid order is traced to: staff about to say so, an alert whose upload is through, a case.
Unsure(k) == k.pc = "confirm" \/ Refuses(k)
Standing(i) == ~\E w \in Worker : Unsure(call[w]) /\ call[w].row = i
Traced(o) ==
  \/ \E w \in Worker : call[w].pc \in {"mark", "resolve"} /\ call[w].order = o
  \/ \E i \in DOMAIN alert : alert[i].order = o /\ alert[i].outcome = "CONFIRMED" /\ Standing(i)
  \/ \E i \in DOMAIN case : case[i].order = o /\ case[i].status = "RESOLVED"

Excused == contested \cup lost

\* The inductive invariant.
CreditInv ==
  /\ Types
  /\ \A w \in Worker : Knows(w)
  /\ \A v, w \in Worker : v # w => Apart(call[v], call[w]) /\ BothDecide(call[v], call[w])
  /\ \A i \in DOMAIN alert : Followed(i) /\ ResolvedPays(i)
  /\ \A o \in Order \ Excused : Paid(o) => Traced(o)

-----------------------------------------------------------------------------
(***************************************************************************)
(* Types, and the choices the handlers make.                               *)
(***************************************************************************)
LEMMA CaptureTypes ==
  ASSUME NEW c \in Capture
  PROVE  /\ c.pay \in Payment /\ c.utr \in Payment \cup {NoRef} /\ c.ref \in Order \cup {NoOrder}
         /\ c.vpa \in Payment \cup {NoRef} /\ c.at \in Nat /\ c.amount \in Nat
BY CreditAssumption DEF Said

LEMMA IdleType == /\ Idle \in Call
                  /\ Idle.pc = "idle" /\ Idle.row = 0 /\ Idle.order = NoOrder /\ Idle.dup = FALSE
                  /\ Idle.benign = FALSE /\ Idle.cap = NoRef
BY DEF Idle, Call, PC, Outcome

LEMMA RowsTyped ==
  ASSUME Types
  PROVE  /\ Len(alert) \in Nat /\ DOMAIN alert = 1..Len(alert) /\ DOMAIN case = DOMAIN alert
         /\ \A i \in DOMAIN alert : alert[i] \in Alert /\ case[i] \in CaseRow
<1>1. alert \in Seq(Alert) /\ case \in Seq(CaseRow) /\ Len(case) = Len(alert)
  BY DEF Types
<1>2. Len(alert) \in Nat /\ DOMAIN alert = 1..Len(alert) /\ DOMAIN case = 1..Len(case)
  BY <1>1
<1>3. \A i \in 1..Len(alert) : alert[i] \in Alert
  BY <1>1
<1>4. \A i \in 1..Len(case) : case[i] \in CaseRow
  BY <1>1
<1> QED BY <1>1, <1>2, <1>3, <1>4

\* A set of natural numbers has a least one, and a set of rows a newest one.
LEMMA LeastOf ==
  ASSUME NEW T, T \subseteq Nat, T # {}
  PROVE  \E x \in T : \A y \in T : ~(y < x)
<1> DEFINE R == OpToRel(<, Nat)
<1>1. IsWellFoundedOn(R, Nat)
  BY NatLessThanWellFounded
<1>2. PICK x \in T : \A y \in T : ~(<<y, x>> \in R)
  <2> HIDE DEF R
  <2> QED BY <1>1, WFMin
<1>3. \A y \in T : y < x => <<y, x>> \in R
  BY DEF OpToRel
<1> QED BY <1>2, <1>3

LEMMA OldestIsThere ==
  ASSUME Types, NEW c, \E i \in DOMAIN alert : SameTime(c, alert[i])
  PROVE  \E i \in DOMAIN alert : SameTime(c, alert[i]) /\ \A j \in 1..(i - 1) : ~SameTime(c, alert[j])
<1> DEFINE T == {i \in DOMAIN alert : SameTime(c, alert[i])}
<1>1. T \subseteq Nat /\ T # {} /\ T \subseteq DOMAIN alert /\ DOMAIN alert = 1..Len(alert)
  BY RowsTyped
<1>2. PICK x \in T : \A y \in T : ~(y < x)
  <2> HIDE DEF T
  <2> QED BY <1>1, LeastOf
<1>3. \A j \in 1..(x - 1) : j \in DOMAIN alert /\ j < x
  BY <1>1, <1>2, RowsTyped
<1>4. x \in DOMAIN alert /\ SameTime(c, alert[x]) /\ \A j \in 1..(x - 1) : ~SameTime(c, alert[j])
  BY <1>2, <1>3
<1> QED BY <1>4

LEMMA NewestIsThere ==
  ASSUME Types, NEW c, \E i \in DOMAIN alert : SamePayer(c, alert[i])
  PROVE  \E i \in DOMAIN alert :
           SamePayer(c, alert[i]) /\ \A j \in (i + 1)..Len(alert) : ~SamePayer(c, alert[j])
<1> DEFINE n == Len(alert)
           D == DOMAIN alert
           T == {m \in 0..n : n - m \in D /\ SamePayer(c, alert[n - m])}
<1>1. n \in Nat /\ D = 1..n
  BY RowsTyped
<1>2. PICK i \in D : SamePayer(c, alert[i])
  OBVIOUS
<1> HIDE DEF n, D
<1>3. n - i \in 0..n /\ n - (n - i) = i
  BY <1>1, <1>2
<1>4. n - i \in T /\ T \subseteq Nat
  BY <1>1, <1>2, <1>3
<1>5. PICK m \in T : \A y \in T : ~(y < m)
  <2> HIDE DEF T
  <2> QED BY <1>4, LeastOf
<1>6. n - m \in D /\ SamePayer(c, alert[n - m]) /\ m \in 0..n
  BY <1>5
<1>7. ASSUME NEW j \in (n - m + 1)..n, SamePayer(c, alert[j])
      PROVE  FALSE
  <2>1. n - j \in 0..n /\ n - (n - j) = j /\ n - j < m /\ j \in D
    BY <1>1, <1>6
  <2> QED BY <1>5, <1>7, <2>1
<1>8. \E x \in D : SamePayer(c, alert[x]) /\ \A j \in (x + 1)..n : ~SamePayer(c, alert[j])
  BY <1>6, <1>7
<1> QED BY <1>8 DEF n, D

LEMMA SoleIsThere ==
  ASSUME NEW S
  PROVE  Sole(S) = 0 \/ Sole(S) \in S
<1>1. Cardinality(S) = 1 => S # {}
  BY FS_EmptySet
<1> QED BY <1>1 DEF Sole

LEMMA TargetType ==
  ASSUME Types, NEW c
  PROVE  Target(c) \in Nat
<1>1. DOMAIN alert \subseteq Nat
  BY RowsTyped
<1>2. Sole(SameOrder(c)) \in Nat
  <2>1. SameOrder(c) \subseteq DOMAIN alert
    BY DEF SameOrder, Alerts
  <2> QED BY <1>1, <2>1, SoleIsThere
<1>3. Sole(Complementary(c)) \in Nat
  <2>1. Complementary(c) \subseteq DOMAIN alert
    BY DEF Complementary, Alerts
  <2> QED BY <1>1, <2>1, SoleIsThere
<1>4. (\E i \in DOMAIN alert : SamePayer(c, alert[i])) => Newest(LAMBDA a : SamePayer(c, a)) \in Nat
  <2> SUFFICES ASSUME \E i \in DOMAIN alert : SamePayer(c, alert[i])
               PROVE  Newest(LAMBDA a : SamePayer(c, a)) \in DOMAIN alert
    BY <1>1
  <2>1. \E i \in DOMAIN alert :
          SamePayer(c, alert[i]) /\ \A j \in (i + 1)..Len(alert) : ~SamePayer(c, alert[j])
    BY NewestIsThere
  <2> QED BY <2>1 DEF Newest
<1> QED BY <1>2, <1>3, <1>4 DEF Target

LEMMA MatchedType ==
  ASSUME NEW c \in Capture, NEW d
  PROVE  Matched(c, d) \in Order \cup {NoOrder}
<1>1. Candidates(c, d) \subseteq Order
  BY CaptureTypes DEF Candidates, CarriedBy, Waiting
<1>2. Cardinality(Candidates(c, d)) = 1 => Candidates(c, d) # {}
  BY FS_EmptySet
<1> QED BY <1>1, <1>2 DEF Matched

LEMMA OutcomeIs ==
  ASSUME NEW c, NEW d \in BOOLEAN, NEW o \in Order \cup {NoOrder}
  PROVE  /\ OutcomeOf(c, d, o) \in Outcome
         /\ d <=> OutcomeOf(c, d, o) = "DUPLICATE"
         /\ OutcomeOf(c, d, o) = "CONFIRMED" => o \in Order
BY DEF OutcomeOf, Outcome

LEMMA KnownByTime ==
  ASSUME NEW c, KnownBy(c) = "time"
  PROVE  \E i \in DOMAIN alert : SameTime(c, alert[i])
BY DEF KnownBy

\* A request is given a new record.
LEMMA CallWritten ==
  ASSUME Types, NEW w \in Worker, NEW c \in Call, Becomes(w, c)
  PROVE  /\ call' \in [Worker -> Call] /\ call'[w] = c
         /\ \A v \in Worker : v # w => call'[v] = call[v]
BY DEF Types, Becomes

LEMMA CallOver ==
  ASSUME Types, NEW w \in Worker, Over(w)
  PROVE  /\ call' \in [Worker -> Call] /\ call'[w] = Idle
         /\ \A v \in Worker : v # w => call'[v] = call[v]
BY IdleType, CallWritten DEF Over

LEMMA CallGoes ==
  ASSUME Types, NEW w \in Worker, NEW pc \in PC, Goto(w, pc)
  PROVE  /\ call' \in [Worker -> Call]
         /\ call'[w].pc = pc /\ call'[w].cap = call[w].cap /\ call'[w].row = call[w].row
         /\ call'[w].order = call[w].order /\ call'[w].utr = call[w].utr
         /\ call'[w].outcome = call[w].outcome /\ call'[w].dup = call[w].dup
         /\ call'[w].benign = call[w].benign
         /\ \A v \in Worker : v # w => call'[v] = call[v]
<1> DEFINE c == [call[w] EXCEPT !.pc = pc]
<1>1. call[w] \in Call
  BY DEF Types
<1>2. c \in Call /\ c.pc = pc /\ c.cap = call[w].cap /\ c.row = call[w].row
      /\ c.order = call[w].order /\ c.utr = call[w].utr /\ c.outcome = call[w].outcome
      /\ c.dup = call[w].dup /\ c.benign = call[w].benign
  BY <1>1 DEF Call
<1>3. Becomes(w, c)
  BY DEF Goto
<1> HIDE DEF c
<1> QED BY <1>2, <1>3, CallWritten

-----------------------------------------------------------------------------
(***************************************************************************)
(* What one step leaves to the other requests, to the alerts and to the    *)
(* payments.                                                               *)
(***************************************************************************)
\* Nothing is unpaid or forgotten, and every row but r keeps its outcome, its order and its case.
Steady(r) ==
  /\ DOMAIN alert \subseteq DOMAIN alert'
  /\ \A i \in DOMAIN alert : alert'[i].cap = alert[i].cap
  /\ \A i \in DOMAIN alert \ {r} : /\ alert'[i].outcome = alert[i].outcome
                                  /\ alert'[i].order = alert[i].order
                                  /\ case'[i] = case[i]
  /\ \A o \in Order : Paid(o) => Paid(o)'
  /\ contested \subseteq contested' /\ lost \subseteq lost'

\* What a request that is cut short leaves behind.
LEMMA LosesType ==
  ASSUME Types, NEW w \in Worker, Loses(w)
  PROVE  /\ lost' \subseteq Capture \cup Order /\ lost \subseteq lost'
         /\ w \in Uploader /\ call[w].cap \in Capture => call[w].cap \in lost'
         /\ w \in Clerk /\ call[w].order \in Order => call[w].order \in lost'
BY CreditAssumption DEF Types, Loses

\* A request that does not move still knows what it knew, when its own row allows it.
LEMMA KnowsStays ==
  ASSUME Types, NEW v \in Worker, Knows(v), call'[v] = call[v], NEW n, Steady(n),
         NEW r, r = call[v].row,
         call[v].pc = "confirm" \/ Refuses(call[v]) =>
           alert'[r].outcome = alert[r].outcome /\ alert'[r].order = alert[r].order,
         call[v].pc = "case" => (SaysPaid(r) => SaysPaid(r)'),
         call[v].pc \in {"confirm", "case"} => case'[r].status = case[r].status,
         call[v].pc = "demote" => (case[r].status # "none" => case'[r].status # "none"),
         call[v].pc \in Deciding =>
           case'[r].status # "none" /\ case'[r].order = case[r].order /\ Undecided(r)',
         call[v].pc \in Linking /\ Linked(alert[r])' => alert'[r].order \in contested'
  PROVE  Knows(v)'
<1>1. call[v] \in Call
  BY DEF Types
<1>2. Found(call[v])' /\ Placed(v)'
  BY DEF Knows, Found, Placed
<1>3. About(call[v])'
  <2>1. call[v].order \in Order \cup {NoOrder}
    BY <1>1 DEF Call
  <2>2. call[v].pc \in {"mark", "resolve"} /\ call[v].order # NoOrder => Paid(call[v].order)'
    BY <2>1 DEF Knows, About, Steady
  <2>3. Refuses(call[v]) => Linked(alert[r])'
    BY DEF Knows, About, Linked
  <2>4. call[v].pc \in Filing \cup Linking \cup Deciding => r \in DOMAIN alert'
    BY DEF Knows, About, Steady
  <2>5. call[v].pc \in Filing => alert'[r].cap = call[v].cap
    BY DEF Knows, About, Steady
  <2>6. call[v].pc = "demote" => case'[r].status # "none" \/ call[v].cap \in lost'
    BY DEF Knows, About, Steady
  <2>7. call[v].pc = "case" /\ ~Refuses(call[v]) => SaysPaid(r)'
    BY DEF Knows, About
  <2>8. call[v].pc = "confirm" => /\ alert'[r].outcome = "CONFIRMED" /\ alert'[r].order = call[v].order
                                  /\ call[v].order \in Order /\ call[v].outcome = "CONFIRMED"
                                  /\ ~call[v].dup
    BY DEF Knows, About
  <2>9. call[v].pc \in {"confirm", "case"} => case'[r].status = "none"
    BY DEF Knows, About
  <2>10. call[v].pc \in Deciding =>
           /\ case'[r].status # "none" /\ Undecided(r)'
           /\ call[v].order # NoOrder => case'[r].order = call[v].order
    BY DEF Knows, About
  <2>11. call[v].pc \in Linking => call[v].order \in Order
    BY DEF Knows, About
  <2>12. (call[v].pc = "decide" => call[v].order \in Order)
         /\ (call[v].pc = "demote" => call[v].outcome = "DUPLICATE")
    BY DEF Knows, About
  <2>13. Refuses(call[v])' <=> Refuses(call[v])
    BY DEF Refuses
  <2> QED BY <2>2, <2>3, <2>4, <2>5, <2>6, <2>7, <2>8, <2>9, <2>10, <2>11, <2>12, <2>13 DEF About
<1> QED BY <1>2, <1>3 DEF Knows

LEMMA SteadyKnows ==
  ASSUME Types, NEW v \in Worker, Knows(v), call'[v] = call[v], NEW n, Steady(n),
         call[v].row = n => call[v].pc \notin Filing \cup Linking \cup Deciding
  PROVE  Knows(v)'
<1>1. PICK r : r = call[v].row
  OBVIOUS
<1>2. call[v].pc \in Filing \cup Linking \cup Deciding => r \in DOMAIN alert \ {n}
  BY <1>1 DEF Knows, About
<1>3. Refuses(call[v]) => call[v].pc \in Filing
  BY DEF Refuses, Filing
<1>4. r \in DOMAIN alert \ {n} => /\ alert'[r].outcome = alert[r].outcome
                                  /\ alert'[r].order = alert[r].order
                                  /\ case'[r] = case[r]
  BY DEF Steady
<1>5. call[v].pc \in Deciding => case[r].status # "none" /\ Undecided(r)
  BY <1>1 DEF Knows, About
<1>6. call[v].pc \in Linking /\ Linked(alert[r]) => alert[r].order \in contested
  BY <1>1 DEF Knows, About
<1>7. contested \subseteq contested' /\ \A o \in Order : Paid(o) => Paid(o)'
  BY DEF Steady
<1>8. call[v].pc \in Linking /\ Linked(alert[r])' => alert'[r].order \in contested'
  BY <1>2, <1>4, <1>6, <1>7 DEF Linked
<1>9. call[v].pc \in {"confirm", "case", "demote"} => call[v].pc \in Filing
  BY DEF Filing
<1>10. r \in DOMAIN alert \ {n} => (SaysPaid(r) => SaysPaid(r)')
  BY <1>4, <1>7 DEF SaysPaid, Pays
<1>11. r \in DOMAIN alert \ {n} => (Undecided(r) => Undecided(r)')
  BY <1>4, <1>7 DEF Undecided
<1> QED BY <1>1, <1>2, <1>3, <1>4, <1>5, <1>8, <1>9, <1>10, <1>11, KnowsStays

\* The other requests keep apart, and the one that moves is told from them.
LEMMA StillApart ==
  ASSUME CreditInv, NEW r, Steady(r), NEW w \in Worker,
         \A v \in Worker : v # w => call'[v] = call[v],
         \A v \in Worker : call[v].pc \in Deciding /\ call[v].row = r => case'[r].order = case[r].order,
         \A v \in Worker : v # w => Apart(call[v], call[w])' /\ Apart(call[w], call[v])',
         call'[w].pc \in Deciding => \A v \in Worker : v # w => BothDecide(call[v], call[w])'
  PROVE  \A u, v \in Worker : u # v => Apart(call[u], call[v])' /\ BothDecide(call[u], call[v])'
<1> SUFFICES ASSUME NEW u \in Worker, NEW v \in Worker, u # v
             PROVE  Apart(call[u], call[v])' /\ BothDecide(call[u], call[v])'
  OBVIOUS
<1>1. CASE u = w \/ v = w
  BY <1>1 DEF BothDecide
<1>2. CASE u # w /\ v # w
  <2>1. /\ Apart(call[u], call[v]) /\ BothDecide(call[u], call[v])
        /\ call'[u] = call[u] /\ call'[v] = call[v]
        /\ contested \subseteq contested'
    BY <1>2 DEF CreditInv, Steady
  <2>2. Apart(call[u], call[v])'
    BY <2>1 DEF Apart, Refuses
  <2>3. call[v].pc \in Deciding => case'[call[v].row].order = case[call[v].row].order
    <3>1. call[v].pc \in Deciding => call[v].row \in DOMAIN alert
      BY DEF CreditInv, Knows, About
    <3> QED BY <3>1 DEF Steady
  <2> QED BY <2>1, <2>2, <2>3 DEF BothDecide
<1> QED BY <1>1, <1>2

\* An alert stays followed, and a decided case stays backed by its payment.
LEMMA StillFollowed ==
  ASSUME Types, NEW w \in Worker, \A v \in Worker : v # w => call'[v] = call[v],
         NEW r, Steady(r), NEW i \in DOMAIN alert \ {r}, Followed(i), ResolvedPays(i),
         call[w].pc \in Filing /\ call[w].row = i => Followed(i)'
  PROVE  Followed(i)' /\ ResolvedPays(i)'
<1>1. alert'[i].outcome = alert[i].outcome /\ alert'[i].order = alert[i].order /\ case'[i] = case[i]
  BY DEF Steady
<1>2. Pays(alert[i].order) => Pays(alert[i].order)'
  BY <1>1 DEF Steady, Pays
<1>3. Pays(case[i].order) => Pays(case[i].order)'
  BY <1>1 DEF Steady, Pays
<1>4. CASE Settled(i)
  BY <1>1, <1>2, <1>3, <1>4 DEF Settled, SaysPaid, Followed, ResolvedPays
<1>5. ASSUME NEW v \in Worker, call[v].pc \in Filing, call[v].row = i
      PROVE  Followed(i)'
  <2>1. CASE v = w
    BY <1>5, <2>1
  <2>2. CASE v # w
    BY <1>5, <2>2 DEF Followed
  <2> QED BY <2>1, <2>2
<1>6. alert[i].cap \in lost => Followed(i)'
  BY DEF Steady, Followed
<1>7. ResolvedPays(i)'
  BY <1>1, <1>3 DEF ResolvedPays
<1>8. Followed(i)'
  BY <1>4, <1>5, <1>6 DEF Followed
<1> QED BY <1>7, <1>8

\* A paid order stays traced.
LEMMA StillTraced ==
  ASSUME Types, NEW w \in Worker, \A v \in Worker : v # w => call'[v] = call[v],
         NEW r, Steady(r), NEW o \in Order, Traced(o), DOMAIN case' = DOMAIN alert',
         call[w].pc \in {"mark", "resolve"} /\ call[w].order = o => Traced(o)',
         Unsure(call[w])' => \/ Unsure(call[w]) /\ call'[w].row = call[w].row
                            \/ call'[w].row \notin DOMAIN alert,
         r \in DOMAIN alert /\ Linked(alert[r]) /\ alert[r].order = o /\ Standing(r) => Traced(o)',
         r \in DOMAIN alert /\ case[r].order = o /\ case[r].status = "RESOLVED" => Traced(o)'
  PROVE  Traced(o)'
<1>1. ASSUME NEW v \in Worker, call[v].pc \in {"mark", "resolve"}, call[v].order = o
      PROVE  Traced(o)'
  BY <1>1 DEF Traced
<1>2. ASSUME NEW i \in DOMAIN alert, alert[i].order = o, alert[i].outcome = "CONFIRMED", Standing(i)
      PROVE  Traced(o)'
  <2>1. o # NoOrder
    BY CreditAssumption
  <2>2. CASE i = r
    BY <1>2, <2>1, <2>2 DEF Linked
  <2>3. CASE i # r
    <3>1. i \in DOMAIN alert' /\ alert'[i].outcome = alert[i].outcome /\ alert'[i].order = alert[i].order
      BY <2>3 DEF Steady
    <3>2. \A v \in Worker : Unsure(call[v])' => call'[v].row # i
      <4> SUFFICES ASSUME NEW v \in Worker, Unsure(call[v])', call'[v].row = i
                   PROVE  FALSE
        OBVIOUS
      <4>1. CASE v # w
        <5>1. Unsure(call[v]) /\ call[v].row = i
          BY <4>1 DEF Unsure, Refuses
        <5> QED BY <5>1, <1>2 DEF Standing
      <4>2. CASE v = w
        <5>1. Unsure(call[w]) /\ call[w].row = i
          BY <4>2, <1>2
        <5> QED BY <5>1, <1>2 DEF Standing
      <4> QED BY <4>1, <4>2
    <3>3. Standing(i)'
      BY <3>2 DEF Standing
    <3> QED BY <1>2, <3>1, <3>3 DEF Traced
  <2> QED BY <2>2, <2>3
<1>3. ASSUME NEW i \in DOMAIN case, case[i].order = o, case[i].status = "RESOLVED"
      PROVE  Traced(o)'
  <2>1. i \in DOMAIN alert
    BY <1>3, RowsTyped
  <2>2. CASE i = r
    BY <1>3, <2>1, <2>2
  <2>3. CASE i # r
    <3>1. i \in DOMAIN case' /\ case'[i] = case[i]
      BY <2>1, <2>3 DEF Steady
    <3> QED BY <1>3, <3>1 DEF Traced
  <2> QED BY <2>2, <2>3
<1> QED BY <1>1, <1>2, <1>3 DEF Traced

\* The shape of every step: one request moves, and at most one row r is written over.
LEMMA StepKeeps ==
  ASSUME CreditInv, Types', NEW w \in Worker, \A v \in Worker : v # w => call'[v] = call[v],
         NEW r, Steady(r),
         \A v \in Worker :
           (v # w /\ call[v].row = r /\ call[v].pc \in Filing \cup Linking \cup Deciding) => Knows(v)',
         Knows(w)',
         \A v \in Worker : call[v].pc \in Deciding /\ call[v].row = r => case'[r].order = case[r].order,
         \A v \in Worker : v # w => Apart(call[v], call[w])' /\ Apart(call[w], call[v])',
         call'[w].pc \in Deciding => \A v \in Worker : v # w => BothDecide(call[v], call[w])',
         \A i \in DOMAIN alert' : i = r \/ i \notin DOMAIN alert => Followed(i)' /\ ResolvedPays(i)',
         \A i \in DOMAIN alert \ {r} : call[w].pc \in Filing /\ call[w].row = i => Followed(i)',
         \A o \in Order \ Excused' : Paid(o)' => Traced(o)'
  PROVE  CreditInv'
<1>1. Types
  BY DEF CreditInv
<1>2. \A v \in Worker : Knows(v)'
  <2> SUFFICES ASSUME NEW v \in Worker, v # w
               PROVE  Knows(v)'
    OBVIOUS
  <2>1. Knows(v)
    BY DEF CreditInv
  <2>2. CASE call[v].row = r /\ call[v].pc \in Filing \cup Linking \cup Deciding
    BY <2>2
  <2>3. CASE call[v].row = r => call[v].pc \notin Filing \cup Linking \cup Deciding
    BY <1>1, <2>1, <2>3, SteadyKnows
  <2> QED BY <2>2, <2>3
<1>3. \A u, v \in Worker : u # v => Apart(call[u], call[v])' /\ BothDecide(call[u], call[v])'
  BY StillApart
<1>4. \A i \in DOMAIN alert' : Followed(i)' /\ ResolvedPays(i)'
  <2> SUFFICES ASSUME NEW i \in DOMAIN alert', i # r, i \in DOMAIN alert
               PROVE  Followed(i)' /\ ResolvedPays(i)'
    OBVIOUS
  <2>1. Followed(i) /\ ResolvedPays(i)
    BY DEF CreditInv
  <2> QED BY <1>1, <2>1, StillFollowed
<1> QED BY <1>2, <1>3, <1>4 DEF CreditInv

LEMMA UnchangedSteady ==
  ASSUME UNCHANGED <<alert, case>>, contested \subseteq contested', lost \subseteq lost',
         \A o \in Order : Paid(o) => Paid(o)'
  PROVE  Steady(0)
BY DEF Steady

\* A step that writes over no row.
LEMMA SteadyStep ==
  ASSUME CreditInv, Types', NEW w \in Worker, \A v \in Worker : v # w => call'[v] = call[v],
         Steady(0), Knows(w)',
         \A o \in Order \ Excused' : ~(call[w].pc \in {"mark", "resolve"} /\ call[w].order = o),
         \A v \in Worker : v # w => Apart(call[v], call[w])' /\ Apart(call[w], call[v])',
         call'[w].pc \in Deciding => \A v \in Worker : v # w => BothDecide(call[v], call[w])',
         \A i \in DOMAIN alert' \ DOMAIN alert : Followed(i)' /\ ResolvedPays(i)',
         \A i \in DOMAIN alert : call[w].pc \in Filing /\ call[w].row = i => Followed(i)',
         Unsure(call[w])' => \/ Unsure(call[w]) /\ call'[w].row = call[w].row
                            \/ call'[w].row \notin DOMAIN alert,
         \A o \in Order \ Excused' : Paid(o)' /\ ~Paid(o) => Traced(o)'
  PROVE  CreditInv'
<1>1. Types /\ Excused \subseteq Excused' /\ 0 \notin DOMAIN alert
      /\ DOMAIN case' = DOMAIN alert' /\ 0 \notin DOMAIN alert'
  <2>1. Types
    BY DEF CreditInv
  <2>2. 0 \notin DOMAIN alert
    BY <2>1, RowsTyped
  <2>3. DOMAIN case' = DOMAIN alert' /\ 0 \notin DOMAIN alert'
    <3>1. alert' \in Seq(Alert) /\ case' \in Seq(CaseRow) /\ Len(case') = Len(alert')
      BY DEF Types
    <3> QED BY <3>1
  <2> QED BY <2>1, <2>2, <2>3 DEF Steady, Excused
<1>2. \A v \in Worker : call[v].row = 0 => call[v].pc \notin Filing \cup Linking \cup Deciding
  BY <1>1 DEF CreditInv, Knows, About
<1>3. \A o \in Order \ Excused' : Paid(o)' => Traced(o)'
  <2> SUFFICES ASSUME NEW o \in Order, o \notin Excused', Paid(o)', Paid(o)
               PROVE  Traced(o)'
    OBVIOUS
  <2>1. Traced(o)
    BY <1>1 DEF CreditInv
  <2>2. ~(call[w].pc \in {"mark", "resolve"} /\ call[w].order = o)
    OBVIOUS
  <2> QED BY <1>1, <2>1, <2>2, StillTraced
<1>4. \A v \in Worker : call[v].pc \in Deciding /\ call[v].row = 0 => case'[0].order = case[0].order
  BY <1>2
<1> QED BY <1>1, <1>2, <1>3, <1>4, StepKeeps

\* A step of a request that then knows nothing of the rows, and pays nothing.
LEMMA QuietStep ==
  ASSUME CreditInv, Types', NEW w \in Worker, \A v \in Worker : v # w => call'[v] = call[v],
         Steady(0), call[w].pc \notin {"mark", "resolve"} \cup Filing, Found(call[w])',
         call'[w].pc \in Carrying => w \in Uploader,
         call'[w].pc \notin Filing \cup Linking \cup Deciding,
         DOMAIN alert' = DOMAIN alert, \A o \in Order : Paid(o)' => Paid(o)
  PROVE  CreditInv'
<1>1. Knows(w)'
  BY DEF Knows, About, Placed, Refuses, Filing, Linking, Deciding
<1>2. ~Unsure(call[w])'
  BY DEF Unsure, Refuses, Filing
<1>3. \A v \in Worker : v # w => Apart(call[v], call[w])' /\ Apart(call[w], call[v])'
  BY DEF Apart, Refuses, Filing, Linking
<1> QED BY <1>1, <1>2, <1>3, SteadyStep
-----------------------------------------------------------------------------
(***************************************************************************)
(* An upload looks for what is stored, and folds or merges into it.        *)
(***************************************************************************)
LEMMA SightKeeps ==
  ASSUME CreditInv, NEW w \in Worker, Sight(w)
  PROVE  CreditInv'
<1>1. Types /\ w \in Uploader /\ call[w].pc = "idle" /\ UNCHANGED <<stored, acts, contested, lost>>
  BY DEF CreditInv, Sight, At
<1>2a. PICK c \in Handles[w] : \E by \in {KnownBy(c)} :
        /\ uploads[c] < MaxUploads /\ uploads' = [uploads EXCEPT ![c] = @ + 1]
        /\ Becomes(w, [Idle EXCEPT !.pc = IF by = "time" THEN "fold" ELSE "match", !.cap = c,
                                   !.row = IF by = "time" THEN Oldest(LAMBDA a : SameTime(c, a)) ELSE 0,
                                   !.dup = by # "nothing", !.benign = by \notin {"nothing", "text"}])
  BY <1>1 DEF Sight
<1>2. PICK by \in {KnownBy(c)} :
        /\ uploads[c] < MaxUploads /\ uploads' = [uploads EXCEPT ![c] = @ + 1]
        /\ Becomes(w, [Idle EXCEPT !.pc = IF by = "time" THEN "fold" ELSE "match", !.cap = c,
                                   !.row = IF by = "time" THEN Oldest(LAMBDA a : SameTime(c, a)) ELSE 0,
                                   !.dup = by # "nothing", !.benign = by \notin {"nothing", "text"}])
  BY <1>2a
<1>3. PICK n : n = IF by = "time" THEN Oldest(LAMBDA a : SameTime(c, a)) ELSE 0
  OBVIOUS
<1>4. n \in Nat
  <2>1. CASE by = "time"
    <3>1. \E i \in DOMAIN alert : SameTime(c, alert[i]) /\ \A j \in 1..(i - 1) : ~SameTime(c, alert[j])
      BY <1>1, <1>2, <2>1, KnownByTime, OldestIsThere
    <3>2. n \in DOMAIN alert
      BY <1>3, <2>1, <3>1 DEF Oldest
    <3> QED BY <1>1, <3>2, RowsTyped
  <2> QED BY <1>3, <2>1
<1> DEFINE k == [Idle EXCEPT !.pc = IF by = "time" THEN "fold" ELSE "match", !.cap = c, !.row = n,
                             !.dup = by # "nothing", !.benign = by \notin {"nothing", "text"}]
<1>5. c \in Capture
  BY <1>1, CreditAssumption
<1>6. k \in Call /\ k.pc \in {"fold", "match"} /\ k.cap = c /\ (k.benign => k.dup)
  BY <1>4, <1>5, IdleType DEF Call, PC, Idle
<1>7. Becomes(w, k)
  BY <1>2, <1>3
<1> HIDE DEF k
<1>8. call' \in [Worker -> Call] /\ call'[w] = k /\ \A v \in Worker : v # w => call'[v] = call[v]
  BY <1>1, <1>6, <1>7, CallWritten
<1>9. Types'
  <2>1. uploads' \in [Capture -> 0..MaxUploads]
    <3>1. uploads \in [Capture -> 0..MaxUploads] /\ uploads[c] + 1 \in 0..MaxUploads
      BY <1>1, <1>2, <1>5, CreditAssumption DEF Types
    <3> QED BY <1>2, <3>1
  <2>2. raced' \in BOOLEAN
    BY <1>1 DEF Sight, Types
  <2> QED BY <1>1, <1>8, <2>1, <2>2 DEF Types, stored, Paid
<1>10. Found(call[w])'
  BY <1>5, <1>6, <1>8 DEF Found, Carrying, Filing
<1>11. Steady(0) /\ DOMAIN alert' = DOMAIN alert /\ \A o \in Order : Paid(o)' => Paid(o)
  BY <1>1, UnchangedSteady DEF stored, Paid
<1> QED BY <1>1, <1>6, <1>8, <1>9, <1>10, <1>11, QuietStep
    DEF Carrying, Filing, Linking, Deciding

\* One alert is written over; its outcome and its order stay.
LEMMA AlertWritten ==
  ASSUME Types, NEW r, NEW a, r \in DOMAIN alert => a \in Alert,
         alert' = [alert EXCEPT ![r] = a], case' = case
  PROVE  /\ alert' \in Seq(Alert) /\ Len(alert') = Len(alert) /\ DOMAIN alert' = DOMAIN alert
         /\ \A i \in DOMAIN alert : alert'[i] = IF i = r THEN a ELSE alert[i]
<1> DEFINE n == Len(alert)
<1>1. n \in Nat /\ DOMAIN alert = 1..n /\ alert \in [1..n -> Alert]
  BY DEF Types
<1>2. DOMAIN alert' = 1..n /\ \A i \in 1..n : alert'[i] = IF i = r THEN a ELSE alert[i]
  BY <1>1
<1>3. alert' \in [1..n -> Alert]
  BY <1>1, <1>2
<1> HIDE DEF n
<1>4. alert' \in Seq(Alert) /\ Len(alert') = n
  BY <1>1, <1>3
<1> QED BY <1>1, <1>2, <1>4 DEF n

LEMMA FoldKeeps ==
  ASSUME CreditInv, NEW w \in Worker, Fold(w)
  PROVE  CreditInv'
<1> DEFINE r == call[w].row
           a == [alert[r] EXCEPT !.utr = Else(call[w].cap.utr, @, NoRef)]
<1>1. /\ Types /\ Found(call[w]) /\ call[w].pc = "fold" /\ Goto(w, "match") /\ w \in Uploader
      /\ UNCHANGED <<order, case, seen, acts>>
      /\ \/ alert' = [alert EXCEPT ![r] = a] /\ lost' = lost
         \/ Loses(w) /\ alert' = alert
  BY DEF CreditInv, Knows, Placed, Carrying, Fold, At
<1>2. call[w].cap.utr \in Payment \cup {NoRef}
  BY <1>1, CaptureTypes DEF Found, Carrying
<1>3. r \in DOMAIN alert => /\ a \in Alert /\ a.outcome = alert[r].outcome
                            /\ a.order = alert[r].order /\ a.cap = alert[r].cap
  <2> SUFFICES ASSUME r \in DOMAIN alert
               PROVE  /\ a \in Alert /\ a.outcome = alert[r].outcome
                      /\ a.order = alert[r].order /\ a.cap = alert[r].cap
    OBVIOUS
  <2>1. alert[r] \in Alert
    BY <1>1, RowsTyped
  <2> QED BY <1>2, <2>1 DEF Alert, Else
<1> HIDE DEF a
<1>4. /\ alert' \in Seq(Alert) /\ Len(alert') = Len(alert) /\ DOMAIN alert' = DOMAIN alert
      /\ \A i \in DOMAIN alert : alert'[i] \in {alert[i], IF i = r THEN a ELSE alert[i]}
      /\ lost' \subseteq Capture \cup Order /\ lost \subseteq lost'
  <2>1. CASE alert' = alert /\ Loses(w)
    BY <1>1, <2>1, LosesType DEF Types
  <2>2. CASE alert' = [alert EXCEPT ![r] = a] /\ lost' = lost
    <3>1. case' = case
      BY <1>1
    <3> QED BY <1>1, <1>3, <2>2, <3>1, AlertWritten DEF Types
  <2> QED BY <1>1, <2>1, <2>2
<1> HIDE DEF r
<1>5. /\ call' \in [Worker -> Call] /\ call'[w].pc = "match" /\ call'[w].cap = call[w].cap
      /\ call'[w].dup = call[w].dup /\ call'[w].benign = call[w].benign
      /\ \A v \in Worker : v # w => call'[v] = call[v]
  BY <1>1, CallGoes DEF PC
<1>6. Types'
  BY <1>1, <1>4, <1>5 DEF Types, seen, Paid
<1>7. Found(call[w])'
  BY <1>1, <1>5 DEF Found, Carrying, Filing
<1>8. Steady(0) /\ \A o \in Order : Paid(o)' => Paid(o)
  BY <1>1, <1>3, <1>4 DEF Steady, Paid, seen
<1> QED BY <1>1, <1>4, <1>5, <1>6, <1>7, <1>8, QuietStep
    DEF Carrying, Filing, Linking, Deciding

LEMMA MatchOrderKeeps ==
  ASSUME CreditInv, NEW w \in Worker, MatchOrder(w)
  PROVE  CreditInv'
<1> DEFINE c == call[w].cap
           d == call[w].dup
<1>1. /\ Types /\ Found(call[w]) /\ call[w].pc = "match" /\ call[w] \in Call
      /\ w \in Uploader /\ UNCHANGED <<stored, history, acts>>
  BY DEF CreditInv, Knows, Placed, Carrying, MatchOrder, At, Types
<1>2. c \in Capture /\ d \in BOOLEAN /\ (call[w].benign => d)
  BY <1>1 DEF Found, Carrying, Call
<1>3. PICK o : /\ o = Matched(c, d)
               /\ Becomes(w, [call[w] EXCEPT !.order = o, !.outcome = OutcomeOf(c, d, o),
                                             !.pc = IF ~d /\ (c.utr # NoRef \/ c.ref # NoOrder)
                                                    THEN "place" ELSE "insert"])
  BY DEF MatchOrder
<1> DEFINE k == [call[w] EXCEPT !.order = o, !.outcome = OutcomeOf(c, d, o),
                                !.pc = IF ~d /\ (c.utr # NoRef \/ c.ref # NoOrder)
                                       THEN "place" ELSE "insert"]
<1>4. o \in Order \cup {NoOrder}
  BY <1>2, <1>3, MatchedType
<1>5. /\ OutcomeOf(c, d, o) \in Outcome /\ (d <=> OutcomeOf(c, d, o) = "DUPLICATE")
      /\ OutcomeOf(c, d, o) = "CONFIRMED" => o \in Order
  BY <1>2, <1>4, OutcomeIs
<1>6. /\ k \in Call /\ k.pc \in {"place", "insert"} /\ k.cap = c /\ k.dup = d /\ k.order = o
      /\ k.benign = call[w].benign /\ k.outcome = OutcomeOf(c, d, o)
  BY <1>1, <1>4, <1>5 DEF Call, PC
<1>7. Becomes(w, k)
  BY <1>3
<1> HIDE DEF k
<1>8. call' \in [Worker -> Call] /\ call'[w] = k /\ \A v \in Worker : v # w => call'[v] = call[v]
  BY <1>1, <1>6, <1>7, CallWritten
<1>9. Types'
  BY <1>1, <1>8 DEF Types, stored, history, seen, Paid
<1>10. Found(call[w])'
  BY <1>2, <1>5, <1>6, <1>8 DEF Found, Carrying, Filing
<1>11. Steady(0) /\ DOMAIN alert' = DOMAIN alert /\ \A o_1 \in Order : Paid(o_1)' => Paid(o_1)
  BY <1>1, UnchangedSteady DEF stored, history, seen, Paid
<1> QED BY <1>1, <1>6, <1>8, <1>9, <1>10, <1>11, QuietStep
    DEF Carrying, Filing, Linking, Deciding

LEMMA PlaceKeeps ==
  ASSUME CreditInv, NEW w \in Worker, Place(w)
  PROVE  CreditInv'
<1>1. /\ Types /\ Found(call[w]) /\ call[w].pc = "place" /\ call[w] \in Call
      /\ w \in Uploader /\ UNCHANGED <<stored, history, acts>>
  BY DEF CreditInv, Knows, Placed, Carrying, Place, At, Types
<1>2. PICK t : /\ t = Target(call[w].cap)
               /\ Becomes(w, [call[w] EXCEPT !.row = t, !.pc = IF t = 0 THEN "insert" ELSE "merge"])
  BY DEF Place
<1> DEFINE k == [call[w] EXCEPT !.row = t, !.pc = IF t = 0 THEN "insert" ELSE "merge"]
<1>3. t \in Nat
  BY <1>1, <1>2, TargetType
<1>4. /\ k \in Call /\ k.pc \in {"merge", "insert"} /\ k.cap = call[w].cap /\ k.dup = call[w].dup
      /\ k.order = call[w].order /\ k.benign = call[w].benign /\ k.outcome = call[w].outcome
  BY <1>1, <1>3 DEF Call, PC
<1>5. Becomes(w, k)
  BY <1>2
<1> HIDE DEF k
<1>6. call' \in [Worker -> Call] /\ call'[w] = k /\ \A v \in Worker : v # w => call'[v] = call[v]
  BY <1>1, <1>4, <1>5, CallWritten
<1>7. Types'
  BY <1>1, <1>6 DEF Types, stored, history, seen, Paid
<1>8. Found(call[w])'
  BY <1>1, <1>4, <1>6 DEF Found, Carrying, Filing
<1>9. Steady(0) /\ DOMAIN alert' = DOMAIN alert /\ \A o \in Order : Paid(o)' => Paid(o)
  BY <1>1, UnchangedSteady DEF stored, history, seen, Paid
<1> QED BY <1>1, <1>4, <1>6, <1>7, <1>8, <1>9, QuietStep
    DEF Carrying, Filing, Linking, Deciding

LEMMA MergeKeeps ==
  ASSUME CreditInv, NEW w \in Worker, Merge(w)
  PROVE  CreditInv'
<1> DEFINE r == call[w].row
           c == call[w].cap
           a == Enriched(alert[r], c)
<1>1. /\ Types /\ Found(call[w]) /\ call[w].pc = "merge" /\ Over(w)
      /\ UNCHANGED <<order, case, seen, acts>>
      /\ \/ alert' = [alert EXCEPT ![r] = a] /\ lost' = lost
         \/ Loses(w) /\ alert' = alert
  BY DEF CreditInv, Knows, Merge, At
<1>2. c.utr \in Payment \cup {NoRef} /\ c.ref \in Order \cup {NoOrder} /\ c.vpa \in Payment \cup {NoRef}
  BY <1>1, CaptureTypes DEF Found, Carrying
<1>3. r \in DOMAIN alert => /\ a \in Alert /\ a.outcome = alert[r].outcome
                            /\ a.order = alert[r].order /\ a.cap = alert[r].cap
  <2> SUFFICES ASSUME r \in DOMAIN alert
               PROVE  /\ a \in Alert /\ a.outcome = alert[r].outcome
                      /\ a.order = alert[r].order /\ a.cap = alert[r].cap
    OBVIOUS
  <2>1. alert[r] \in Alert
    BY <1>1, RowsTyped
  <2> QED BY <1>2, <2>1 DEF Alert, Enriched, Else
<1> HIDE DEF a
<1>4. /\ alert' \in Seq(Alert) /\ Len(alert') = Len(alert) /\ DOMAIN alert' = DOMAIN alert
      /\ \A i \in DOMAIN alert : alert'[i] \in {alert[i], IF i = r THEN a ELSE alert[i]}
      /\ lost' \subseteq Capture \cup Order /\ lost \subseteq lost'
  <2>1. CASE alert' = alert /\ Loses(w)
    BY <1>1, <2>1, LosesType DEF Types
  <2>2. CASE alert' = [alert EXCEPT ![r] = a] /\ lost' = lost
    <3>1. case' = case
      BY <1>1
    <3> QED BY <1>1, <1>3, <2>2, <3>1, AlertWritten DEF Types
  <2> QED BY <1>1, <2>1, <2>2
<1> HIDE DEF r
<1>5. /\ call' \in [Worker -> Call] /\ call'[w] = Idle
      /\ \A v \in Worker : v # w => call'[v] = call[v]
  BY <1>1, CallOver
<1>6. Types'
  BY <1>1, <1>4, <1>5 DEF Types, seen, Paid
<1>7. Found(call[w])' /\ call'[w].pc = "idle"
  BY <1>5, IdleType DEF Found, Carrying, Filing
<1>8. Steady(0) /\ \A o \in Order : Paid(o)' => Paid(o)
  BY <1>1, <1>3, <1>4 DEF Steady, Paid, seen
<1> QED BY <1>1, <1>4, <1>5, <1>6, <1>7, <1>8, QuietStep
    DEF Carrying, Filing, Linking, Deciding
-----------------------------------------------------------------------------
(***************************************************************************)
(* An upload inserts its alert, and sees it settled.                       *)
(***************************************************************************)
LEMMA InsertKeeps ==
  ASSUME CreditInv, NEW w \in Worker, Insert(w)
  PROVE  CreditInv'
<1> DEFINE k == call[w]
           c == k.cap
           n == Len(alert)
           a == [cap |-> c, utr |-> c.utr, ref |-> c.ref, vpa |-> c.vpa,
                 outcome |-> k.outcome, order |-> k.order]
           m == [k EXCEPT !.pc = AfterInsert(k), !.row = Len(alert')]
<1>0. PICK z : z = n + 1
  OBVIOUS
<1>1. /\ Types /\ Found(k) /\ k.pc = "insert" /\ k \in Call
      /\ w \in Uploader /\ UNCHANGED <<order, history, acts>>
      /\ alert' = Append(alert, a) /\ case' = Append(case, NoCase)
      /\ Becomes(w, IF AfterInsert(k) = "idle" THEN Idle ELSE m)
  BY DEF CreditInv, Knows, Placed, Carrying, Insert, At, Types
<1>2. /\ c \in Capture /\ (k.benign => k.dup) /\ (k.dup <=> k.outcome = "DUPLICATE")
      /\ k.outcome = "CONFIRMED" => k.order \in Order
  BY <1>1 DEF Found, Carrying
<1>3. a \in Alert /\ a.outcome = k.outcome /\ a.order = k.order /\ a.cap = c
  BY <1>1, <1>2, CaptureTypes DEF Alert, Call
<1> HIDE DEF a
<1>4. /\ n \in Nat /\ DOMAIN alert = 1..n /\ DOMAIN alert' = 1..(n + 1) /\ Len(alert') = n + 1
      /\ alert' \in Seq(Alert) /\ case' \in Seq(CaseRow) /\ Len(case') = n + 1
      /\ alert'[n + 1] = a /\ case'[n + 1] = NoCase
      /\ \A i \in 1..n : alert'[i] = alert[i] /\ case'[i] = case[i]
  <2>1. alert \in Seq(Alert) /\ case \in Seq(CaseRow) /\ Len(case) = Len(alert) /\ NoCase \in CaseRow
    BY <1>1 DEF Types, NoCase, CaseRow
  <2> HIDE DEF n
  <2>2. /\ n = Len(alert) /\ n \in Nat /\ DOMAIN alert = 1..n
        /\ alert' \in Seq(Alert) /\ Len(alert') = n + 1 /\ DOMAIN alert' = 1..(n + 1)
        /\ alert'[n + 1] = a /\ \A i \in 1..n : alert'[i] = alert[i]
    BY <1>1, <1>3, <2>1 DEF n
  <2>3. /\ case' \in Seq(CaseRow) /\ Len(case') = n + 1
        /\ case'[n + 1] = NoCase /\ \A i \in 1..n : case'[i] = case[i]
    BY <1>1, <2>1 DEF n
  <2> QED BY <2>2, <2>3
<1>6. AfterInsert(k) \in {"confirm", "case", "idle"}
  BY DEF AfterInsert
<1>5. /\ m \in Call /\ m.pc = AfterInsert(k) /\ m.row = n + 1 /\ m.order = k.order /\ m.dup = k.dup
      /\ m.outcome = k.outcome /\ m.cap = c
  <2>1. AfterInsert(k) \in PC
    BY <1>6 DEF PC
  <2>2. Len(alert') \in Nat /\ Len(alert') = n + 1
    BY <1>4
  <2>3. \A p \in PC, i \in Nat : [k EXCEPT !.pc = p, !.row = i] \in Call
    BY <1>1 DEF Call
  <2>4. m \in Call
    BY <2>1, <2>2, <2>3
  <2>5. \A p, i : /\ [k EXCEPT !.pc = p, !.row = i].pc = p
                 /\ [k EXCEPT !.pc = p, !.row = i].row = i
                 /\ [k EXCEPT !.pc = p, !.row = i].order = k.order
                 /\ [k EXCEPT !.pc = p, !.row = i].dup = k.dup
                 /\ [k EXCEPT !.pc = p, !.row = i].outcome = k.outcome
                 /\ [k EXCEPT !.pc = p, !.row = i].cap = c
    BY <1>1 DEF Call
  <2> QED BY <2>2, <2>4, <2>5
<1> HIDE DEF m
<1>7. \A i \in DOMAIN alert' \ DOMAIN alert : i = n + 1
  BY <1>4
<1>8. Steady(0)
  <2>1. DOMAIN alert \subseteq DOMAIN alert'
    BY <1>4
  <2> QED BY <1>1, <1>4, <2>1 DEF Steady, Paid, history, seen
<1> HIDE DEF n
<1>9. /\ call' \in [Worker -> Call] /\ call'[w] = IF AfterInsert(k) = "idle" THEN Idle ELSE m
      /\ \A v \in Worker : v # w => call'[v] = call[v]
  BY <1>1, <1>5, IdleType, CallWritten
<1>10. Types'
  BY <1>1, <1>4, <1>9 DEF Types, history, seen, Paid
<1>11. k.outcome # "CONFIRMED" /\ AfterInsert(k) = "idle" => k.outcome = "DUPLICATE"
  BY <1>2 DEF AfterInsert
<1>12. /\ AfterInsert(k) = "confirm" => k.outcome = "CONFIRMED" /\ ~k.dup
       /\ AfterInsert(k) \in {"idle", "case"} => k.outcome # "CONFIRMED"
  BY <1>2 DEF AfterInsert
<1>13. /\ ~Refuses(call[w])' /\ call'[w].pc \notin Deciding
       /\ Unsure(call[w])' => call'[w].row \notin DOMAIN alert
  <2>1. ~Refuses(call[w])' /\ call'[w].pc \in {"confirm", "case", "idle"}
    BY <1>2, <1>5, <1>6, <1>9, IdleType DEF Refuses
  <2>2. call'[w].pc = "confirm" => call'[w].row = n + 1
    BY <1>5, <1>9, IdleType
  <2> QED BY <1>4, <2>1, <2>2 DEF Unsure, Deciding, n
<1>14. Knows(w)'
  <2>1. CASE AfterInsert(k) = "idle"
    BY <1>9, <2>1, IdleType
    DEF Knows, Found, About, Placed, Refuses, Carrying, Filing, Linking, Deciding
  <2>2. CASE AfterInsert(k) # "idle"
    <3>1. call'[w] = m /\ m.pc \in {"confirm", "case"} /\ m.row \in DOMAIN alert'
          /\ case'[m.row].status = "none"
      BY <1>4, <1>5, <1>6, <1>9, <2>2 DEF NoCase
    <3>2. m.pc = "confirm" => /\ m.order \in Order /\ m.outcome = "CONFIRMED" /\ ~m.dup
                              /\ alert'[m.row].outcome = "CONFIRMED" /\ alert'[m.row].order = m.order
      BY <1>2, <1>3, <1>4, <1>5, <1>12
    <3>3. Found(call[w])'
      BY <1>2, <1>5, <3>1 DEF Found, Carrying, Filing
    <3>4. About(call[w])'
      <4>1. alert'[m.row].cap = m.cap
        BY <1>3, <1>4, <1>5
      <4>2. m.pc = "case" => SaysPaid(z)'
        <5>1. m.pc = "case" => alert'[z].outcome # "CONFIRMED"
          BY <1>0, <1>3, <1>4, <1>5, <1>12
        <5> QED BY <5>1 DEF SaysPaid
      <4>3. m.row = z
        BY <1>0, <1>5
      <4> QED BY <1>13, <3>1, <3>2, <4>1, <4>2, <4>3 DEF About, Filing, Linking, Deciding
    <3> QED BY <1>1, <3>1, <3>3, <3>4 DEF Knows, Placed, Carrying, Linking, Deciding
  <2> QED BY <2>1, <2>2
<1>15. \A v \in Worker : v # w => Apart(call[v], call[w])' /\ Apart(call[w], call[v])'
  <2> SUFFICES ASSUME NEW v \in Worker, v # w
               PROVE  Apart(call[v], call[w])' /\ Apart(call[w], call[v])'
    OBVIOUS
  <2>1. call'[v] = call[v] /\ (call[v].pc \in Filing \cup Linking => call[v].row # n + 1)
    <3>1. call[v].pc \in Filing \cup Linking => call[v].row \in 1..n
      BY <1>4 DEF CreditInv, Knows, About
    <3> QED BY <1>4, <1>9, <3>1
  <2>2. CASE AfterInsert(k) = "idle"
    BY <1>9, <2>2, IdleType DEF Apart, Refuses, Filing, Linking
  <2>3. CASE AfterInsert(k) # "idle"
    BY <1>5, <1>9, <2>1, <2>3 DEF Apart, Refuses, Filing, Linking
  <2> QED BY <2>2, <2>3
<1>16. Followed(z)' /\ ResolvedPays(z)'
  <2>1. ResolvedPays(z)'
    BY <1>0, <1>4 DEF ResolvedPays, NoCase
  <2>2. CASE AfterInsert(k) = "idle"
    BY <1>0, <1>3, <1>4, <1>11, <1>12, <2>1, <2>2 DEF Followed, Settled, SaysPaid
  <2>3. CASE AfterInsert(k) # "idle"
    <3>1. call'[w].pc \in Filing /\ call'[w].row = z
      BY <1>0, <1>5, <1>6, <1>9, <2>3 DEF Filing
    <3> QED BY <2>1, <3>1 DEF Followed
  <2> QED BY <2>2, <2>3
<1>17. \A i \in DOMAIN alert' \ DOMAIN alert : Followed(i)' /\ ResolvedPays(i)'
  BY <1>0, <1>7, <1>16
<1>18. \A o \in Order : Paid(o)' => Paid(o)
  BY <1>1 DEF Paid
<1>19. k.pc \notin {"mark", "resolve"} \cup Filing
  BY <1>1 DEF Filing
<1> QED BY <1>8, <1>9, <1>10, <1>13, <1>14, <1>15, <1>17, <1>18, <1>19, SteadyStep

\* An order that is confirmed is paid, and carries a reference.
LEMMA ConfirmedPays ==
  ASSUME Types, NEW o \in Order, NEW u \in Payment \cup {NoRef}, order' = Confirmed(o, u)
  PROVE  /\ order' \in [Order -> OrderRow] /\ Paid(o)'
         /\ \A p \in Order : /\ Paid(p)' <=> order'[p].rrn # NoRef
                             /\ Paid(p) => Paid(p)'
                             /\ Paid(p)' => Paid(p) \/ p = o
<1>1. order \in [Order -> OrderRow] /\ \A p \in Order : Paid(p) <=> order[p].rrn # NoRef
  BY DEF Types
<1>2. CASE Paid(o)
  BY <1>1, <1>2 DEF Confirmed, Paid
<1>3. CASE ~Paid(o)
  <2> DEFINE x == [status |-> "SUCCESS", rrn |-> IF u = NoRef THEN "derived" ELSE u]
  <2>1. x \in OrderRow /\ x.status = "SUCCESS" /\ x.rrn # NoRef
    BY CreditAssumption DEF OrderRow
  <2>2. order' = [order EXCEPT ![o] = x]
    BY <1>3 DEF Confirmed
  <2> HIDE DEF x
  <2>3. order' \in [Order -> OrderRow] /\ \A p \in Order : order'[p] = IF p = o THEN x ELSE order[p]
    BY <1>1, <2>1, <2>2
  <2> QED BY <1>1, <2>1, <2>3 DEF Paid
<1> QED BY <1>2, <1>3

\* An upload whose order is taken: what it knew of its alert makes the alert one to demote.
LEMMA ConfirmOrderKeeps ==
  ASSUME CreditInv, NEW w \in Worker, ConfirmOrder(w)
  PROVE  CreditInv'
<1> DEFINE k == call[w]
           m == [k EXCEPT !.pc = "case", !.outcome = "DUPLICATE"]
<1>a. PICK no : /\ order' = IF no THEN order ELSE Confirmed(k.order, k.cap.utr)
                /\ Becomes(w, IF no THEN m ELSE Idle)
  BY DEF ConfirmOrder, AfterConfirm
<1>1. /\ Types /\ Knows(w) /\ k.pc = "confirm" /\ k \in Call /\ w \in Uploader
      /\ UNCHANGED <<alert, case, history, acts>>
  BY DEF CreditInv, ConfirmOrder, Knows, Placed, Filing, At, Types
<1>2. /\ k.cap \in Capture /\ k.row \in DOMAIN alert /\ k.order \in Order /\ ~k.dup
      /\ alert[k.row].outcome = "CONFIRMED" /\ alert[k.row].order = k.order
      /\ case[k.row].status = "none" /\ alert[k.row].cap = k.cap
  BY <1>1 DEF Knows, Found, About, Filing
<1>0. PICK o \in Order, u \in Payment \cup {NoRef} : o = k.order /\ u = k.cap.utr
  BY <1>2, CaptureTypes
<1>3. Linked(alert[k.row])
  BY <1>2, CreditAssumption DEF Linked
<1>4. /\ m \in Call /\ m.pc = "case" /\ m.outcome = "DUPLICATE" /\ m.row = k.row /\ m.order = k.order
      /\ m.cap = k.cap /\ m.dup = k.dup
  BY <1>1 DEF Call, PC, Outcome
<1> HIDE DEF m
<1>5. /\ call' \in [Worker -> Call] /\ call'[w] = IF no THEN m ELSE Idle
      /\ \A v \in Worker : v # w => call'[v] = call[v]
  BY <1>a, <1>1, <1>4, IdleType, CallWritten
<1>7. /\ order' \in [Order -> OrderRow]
      /\ \A p \in Order : /\ Paid(p)' <=> order'[p].rrn # NoRef
                          /\ Paid(p) => Paid(p)'
                          /\ Paid(p)' => Paid(p) \/ (p = o /\ ~no)
      /\ ~no => Paid(o)'
  <2>1. CASE no
    BY <1>a, <1>1, <2>1 DEF Types, Paid
  <2>2. CASE ~no
    <3>1. order' = Confirmed(o, u)
      BY <1>0, <1>a, <2>2
    <3> QED BY <1>1, <2>2, <3>1, ConfirmedPays
  <2> QED BY <2>1, <2>2
<1>9. Types'
  BY <1>1, <1>5, <1>7 DEF Types, history, seen
<1>10. Steady(0) /\ DOMAIN alert' = DOMAIN alert
  BY <1>1, <1>7, UnchangedSteady DEF history, seen
<1>11. Knows(w)'
  <2>1. CASE no
    <3>1. call'[w] = m /\ alert' = alert /\ case' = case
      BY <1>1, <1>5, <2>1
    <3>2. Found(call[w])'
      BY <1>2, <1>4, <3>1 DEF Found, Carrying, Filing
    <3>3. Refuses(call[w])'
      BY <1>2, <1>4, <3>1 DEF Refuses
    <3>4. About(call[w])'
      BY <1>2, <1>3, <1>4, <3>1, <3>3 DEF About, Linked, Filing, Linking, Deciding
    <3> QED BY <1>1, <1>4, <3>1, <3>2, <3>4 DEF Knows, Placed, Carrying, Filing, Linking, Deciding
  <2>2. CASE ~no
    BY <1>5, <2>2, IdleType DEF Knows, Found, About, Placed, Refuses, Carrying, Filing, Linking, Deciding
  <2> QED BY <2>1, <2>2
<1>12. \A v \in Worker : v # w => Apart(call[v], call[w])' /\ Apart(call[w], call[v])'
  <2> SUFFICES ASSUME NEW v \in Worker, v # w
               PROVE  Apart(call[v], call[w])' /\ Apart(call[w], call[v])'
    OBVIOUS
  <2>1. call'[v] = call[v] /\ Apart(call[v], k) /\ Apart(k, call[v])
    BY <1>5 DEF CreditInv
  <2>2. CASE no
    BY <1>1, <1>4, <1>5, <2>1, <2>2 DEF Apart, Refuses, Filing, Linking
  <2>3. CASE ~no
    BY <1>5, <2>3, IdleType DEF Apart, Refuses, Filing, Linking
  <2> QED BY <2>2, <2>3
<1>13. \A i \in DOMAIN alert : k.pc \in Filing /\ k.row = i => Followed(i)'
  <2> SUFFICES ASSUME NEW i \in DOMAIN alert, k.row = i
               PROVE  Followed(i)'
    OBVIOUS
  <2>1. CASE no
    BY <1>4, <1>5, <2>1 DEF Followed, Filing
  <2>2. CASE ~no
    <3>1. alert'[i].outcome = "CONFIRMED" /\ alert'[i].order = o
      BY <1>0, <1>1, <1>2
    <3> QED BY <1>7, <2>2, <3>1 DEF Followed, Settled, SaysPaid, Pays, Paid
  <2> QED BY <2>1, <2>2
<1>14. /\ Unsure(call[w])' => Unsure(call[w]) /\ call'[w].row = call[w].row
       /\ call'[w].pc \notin Deciding
  BY <1>1, <1>4, <1>5, IdleType DEF Unsure, Refuses, Deciding
<1>15. ASSUME NEW p \in Order, Paid(p)', ~Paid(p)
       PROVE  Traced(p)'
  <2>1. p = k.order /\ ~no /\ call'[w].pc = "idle"
    BY <1>0, <1>5, <1>7, <1>15, IdleType
  <2>2. ASSUME NEW v \in Worker, Unsure(call[v])', call'[v].row = k.row
        PROVE  FALSE
    <3>1. v # w
      BY <2>1, <2>2 DEF Unsure, Refuses
    <3>2. Apart(k, call[v]) /\ call'[v] = call[v]
      BY <1>5, <3>1 DEF CreditInv
    <3> QED BY <1>1, <2>2, <3>2 DEF Apart, Unsure, Refuses, Filing
  <2>3. \E i \in DOMAIN alert' : /\ alert'[i].order = p /\ alert'[i].outcome = "CONFIRMED"
                                 /\ \A v \in Worker : ~(Unsure(call[v])' /\ call'[v].row = i)
    BY <1>1, <1>2, <2>1, <2>2
  <2> QED BY <2>3 DEF Traced, Standing
<1>16. k.pc \notin {"mark", "resolve"}
  BY <1>1
<1> QED BY <1>5, <1>9, <1>10, <1>11, <1>12, <1>13, <1>14, <1>15, <1>16, SteadyStep


\* One case is written over.
LEMMA CaseWritten ==
  ASSUME Types, NEW r, NEW x, r \in DOMAIN case => x \in CaseRow,
         case' = [case EXCEPT ![r] = x], alert' = alert
  PROVE  /\ case' \in Seq(CaseRow) /\ Len(case') = Len(alert')
         /\ \A i \in DOMAIN alert : case'[i] = IF i = r THEN x ELSE case[i]
<1> DEFINE n == Len(case)
<1>1. n \in Nat /\ DOMAIN case = 1..n /\ case \in [1..n -> CaseRow] /\ n = Len(alert)
      /\ DOMAIN alert = 1..n
  BY DEF Types
<1>2. DOMAIN case' = 1..n /\ \A i \in 1..n : case'[i] = IF i = r THEN x ELSE case[i]
  BY <1>1
<1>3. case' \in [1..n -> CaseRow]
  BY <1>1, <1>2
<1> HIDE DEF n
<1>4. case' \in Seq(CaseRow) /\ Len(case') = n
  BY <1>1, <1>3
<1> QED BY <1>1, <1>2, <1>4

LEMMA OpenCaseKeeps ==
  ASSUME CreditInv, NEW w \in Worker, OpenCase(w)
  PROVE  CreditInv'
<1> DEFINE k == call[w]
           x == [status |-> "OPEN", order |-> k.order]
           m == [k EXCEPT !.pc = "demote"]
           again == k.outcome = "DUPLICATE" /\ ~k.dup
<1>1. /\ Types /\ Knows(w) /\ k.pc = "case" /\ k \in Call /\ w \in Uploader
      /\ UNCHANGED <<order, alert, seen, acts>>
      /\ \/ case' = [case EXCEPT ![k.row] = x] /\ lost' = lost
         \/ Loses(w) /\ case' = case
      /\ Becomes(w, IF again THEN m ELSE Idle)
  BY DEF CreditInv, OpenCase, Goto, Over, Knows, Placed, Filing, At, Types
<1>2. /\ k.cap \in Capture /\ k.row \in DOMAIN alert /\ case[k.row].status = "none"
      /\ alert[k.row].cap = k.cap /\ (~again => SaysPaid(k.row))
      /\ again => Linked(alert[k.row]) /\ Refuses(k)
  BY <1>1 DEF Knows, Found, About, Filing, Refuses
<1>3. x \in CaseRow /\ x.status = "OPEN"
  BY <1>1 DEF CaseRow, Call
<1> HIDE DEF x
<1>4. m \in Call /\ m.pc = "demote" /\ m.outcome = k.outcome /\ m.row = k.row /\ m.cap = k.cap
  BY <1>1 DEF Call, PC
<1> HIDE DEF m
<1>5. /\ call' \in [Worker -> Call] /\ call'[w] = IF again THEN m ELSE Idle
      /\ \A v \in Worker : v # w => call'[v] = call[v]
  BY <1>1, <1>4, IdleType, CallWritten
<1>6. /\ case' \in Seq(CaseRow) /\ Len(case') = Len(alert')
      /\ \A i \in DOMAIN alert \ {k.row} : case'[i] = case[i]
      /\ case'[k.row].status = "OPEN" \/ (k.cap \in lost' /\ case'[k.row].status = "none")
      /\ lost' \subseteq Capture \cup Order /\ lost \subseteq lost'
  <2>1. CASE case' = case /\ Loses(w)
    BY <1>1, <1>2, <2>1, LosesType DEF Types
  <2>2. CASE case' = [case EXCEPT ![k.row] = x] /\ lost' = lost
    <3>1. PICK y \in CaseRow, q \in Nat : y = x /\ q = k.row
      BY <1>1, <1>3 DEF Call
    <3>2. alert' = alert /\ case' = [case EXCEPT ![q] = y] /\ Types
      BY <1>1, <2>2, <3>1
    <3>3. /\ case' \in Seq(CaseRow) /\ Len(case') = Len(alert')
          /\ \A i \in DOMAIN alert : case'[i] = IF i = q THEN y ELSE case[i]
      BY <3>2, CaseWritten
    <3> QED BY <1>1, <1>2, <1>3, <2>2, <3>1, <3>3 DEF Types
  <2> QED BY <1>1, <2>1, <2>2
<1>7. Types'
  BY <1>1, <1>5, <1>6 DEF Types, seen, Paid
<1>8. PICK r : r = k.row
  OBVIOUS
<1>9. Steady(r) /\ DOMAIN alert' = DOMAIN alert /\ DOMAIN case' = DOMAIN alert'
  <2>1. DOMAIN case' = DOMAIN alert'
    <3>1. alert' \in Seq(Alert) /\ case' \in Seq(CaseRow) /\ Len(case') = Len(alert')
      BY <1>7 DEF Types
    <3> QED BY <3>1
  <2> QED BY <1>1, <1>6, <1>8, <2>1 DEF Steady, seen, Paid
<1>10. Knows(w)' /\ call'[w].pc \notin Deciding
  <2>1. CASE again
    <3>1. call'[w] = m /\ alert' = alert /\ (case'[m.row].status # "none" \/ m.cap \in lost')
      BY <1>1, <1>4, <1>5, <1>6, <2>1
    <3>2. Found(call[w])'
      BY <1>2, <1>4, <3>1 DEF Found, Carrying, Filing
    <3>3. About(call[w])'
      BY <1>2, <1>4, <2>1, <3>1 DEF About, Linked, Filing, Linking, Deciding
    <3> QED BY <1>1, <1>4, <3>1, <3>2, <3>3 DEF Knows, Placed, Carrying, Filing, Linking, Deciding
  <2>2. CASE ~again
    BY <1>5, <2>2, IdleType
    DEF Knows, Found, About, Placed, Refuses, Carrying, Filing, Linking, Deciding
  <2> QED BY <2>1, <2>2
<1>11. \A v \in Worker : v # w => Apart(call[v], call[w])' /\ Apart(call[w], call[v])'
  <2> SUFFICES ASSUME NEW v \in Worker, v # w
               PROVE  Apart(call[v], call[w])' /\ Apart(call[w], call[v])'
    OBVIOUS
  <2>1. call'[v] = call[v] /\ Apart(call[v], k) /\ Apart(k, call[v])
    BY <1>5 DEF CreditInv
  <2>2. CASE again
    BY <1>1, <1>2, <1>4, <1>5, <2>1, <2>2 DEF Apart, Refuses, Filing, Linking
  <2>3. CASE ~again
    BY <1>5, <2>3, IdleType DEF Apart, Refuses, Filing, Linking
  <2> QED BY <2>2, <2>3
\* Nobody else files this alert or decides its case, and no row of the alerts has changed.
<1>a. ASSUME NEW v \in Worker, v # w, call[v].row = r
      PROVE  call[v].pc \notin Filing \cup Deciding
  <2>1. Knows(v) /\ Apart(call[v], k)
    BY <1>a DEF CreditInv
  <2>2. call[v].pc \notin Filing
    BY <1>1, <1>8, <1>a, <2>1 DEF Apart, Filing
  <2>3. call[v].pc \notin Deciding
    BY <1>2, <1>8, <1>a, <2>1 DEF Knows, About
  <2> QED BY <2>2, <2>3
<1>12. \A v \in Worker :
           (v # w /\ call[v].row = r /\ call[v].pc \in Filing \cup Linking \cup Deciding) => Knows(v)'
  <2> SUFFICES ASSUME NEW v \in Worker, v # w, call[v].row = r,
                      call[v].pc \in Filing \cup Linking \cup Deciding
               PROVE  Knows(v)'
    OBVIOUS
  <2>1. call'[v] = call[v] /\ Knows(v) /\ call[v].pc \notin Filing \cup Deciding
    BY <1>5, <1>a DEF CreditInv
  <2>2. ~Refuses(call[v]) /\ call[v].pc \notin {"confirm", "case", "demote"}
    BY <2>1 DEF Refuses, Filing
  <2>3. call[v].pc \in Linking /\ Linked(alert[r])' => alert'[r].order \in contested'
    BY <1>1, <2>1 DEF Knows, About, Linked, seen
  <2> QED BY <1>1, <1>9, <2>1, <2>2, <2>3, KnowsStays
<1>13. \A i \in DOMAIN alert' : i = r \/ i \notin DOMAIN alert => Followed(i)' /\ ResolvedPays(i)'
  <2>1. alert' = alert /\ r \in DOMAIN alert /\ alert'[r].cap = k.cap
    BY <1>1, <1>2, <1>8
  <2>2. ResolvedPays(r)'
    BY <1>6, <1>8 DEF ResolvedPays
  <2>3. again => Followed(r)'
    BY <1>4, <1>5, <1>8 DEF Followed, Filing
  <2>4. k.cap \in lost' => Followed(r)'
    BY <2>1 DEF Followed
  <2>5. SaysPaid(r) /\ case'[r].status = "OPEN" => Followed(r)'
    BY <1>1 DEF Followed, Settled, SaysPaid, Pays, Paid
  <2> QED BY <1>2, <1>6, <1>8, <1>9, <2>2, <2>3, <2>4, <2>5
<1>14. \A i \in DOMAIN alert \ {r} : call[w].row # i
  BY <1>8
<1>b. \A v \in Worker : call[v].pc \in Deciding /\ call[v].row = r => case'[r].order = case[r].order
  BY <1>1, <1>a DEF Deciding
<1>15. ASSUME NEW o \in Order \ Excused', Paid(o)'
       PROVE  Traced(o)'
  <2>1. Traced(o)
    BY <1>1, <1>9, <1>15 DEF CreditInv, Paid, Excused, Steady
  <2>2. Unsure(call[w])' => Unsure(call[w]) /\ call'[w].row = call[w].row
    BY <1>2, <1>4, <1>5, IdleType DEF Unsure, Refuses
  <2>3. Linked(alert[r]) /\ alert[r].order = o /\ Standing(r) => Traced(o)'
    <3> SUFFICES ASSUME Linked(alert[r]), alert[r].order = o, Standing(r)
                 PROVE  Traced(o)'
      OBVIOUS
    <3>1. ASSUME NEW v \in Worker, Unsure(call[v])', call'[v].row = r
          PROVE  FALSE
      <4>1. CASE v = w
        BY <1>8, <2>2, <3>1, <4>1 DEF Standing
      <4>2. CASE v # w
        BY <1>5, <3>1, <4>2 DEF Standing, Unsure, Refuses
      <4> QED BY <4>1, <4>2
    <3> QED BY <1>1, <1>2, <1>8, <3>1 DEF Traced, Standing, Linked
  <2>4. case[r].status = "none" /\ call[w].pc \notin {"mark", "resolve"}
    BY <1>1, <1>2, <1>8
  <2>5. Types /\ DOMAIN case' = DOMAIN alert' /\ Steady(r)
    BY <1>1, <1>9
  <2> QED BY <1>5, <2>1, <2>2, <2>3, <2>4, <2>5, StillTraced
<1> QED BY <1>5, <1>7, <1>9, <1>10, <1>11, <1>12, <1>13, <1>14, <1>b, <1>15, StepKeeps


LEMMA DemoteKeeps ==
  ASSUME CreditInv, NEW w \in Worker, Demote(w)
  PROVE  CreditInv'
<1> DEFINE k == call[w]
           a == [alert[k.row] EXCEPT !.outcome = k.outcome]
<1>1. /\ Types /\ Knows(w) /\ k.pc = "demote" /\ k \in Call /\ w \in Uploader
      /\ UNCHANGED <<order, case, seen, acts>> /\ Over(w)
      /\ \/ alert' = [alert EXCEPT ![k.row] = a] /\ lost' = lost
         \/ Loses(w) /\ alert' = alert
  BY DEF CreditInv, Demote, Knows, Placed, Filing, At, Types
<1>2. /\ k.row \in DOMAIN alert /\ k.outcome = "DUPLICATE" /\ Refuses(k)
      /\ alert[k.row].cap = k.cap /\ k.cap \in Capture
  BY <1>1 DEF Knows, Found, About, Filing, Refuses
<1>3. a \in Alert /\ a.outcome = "DUPLICATE" /\ a.cap = k.cap
  <2>1. alert[k.row] \in Alert
    BY <1>1, <1>2, RowsTyped
  <2> QED BY <1>2, <2>1 DEF Alert, Outcome
<1> HIDE DEF a
<1>4. /\ alert' \in Seq(Alert) /\ Len(alert') = Len(alert) /\ DOMAIN alert' = DOMAIN alert
      /\ \A i \in DOMAIN alert \ {k.row} : alert'[i] = alert[i]
      /\ alert'[k.row].cap = k.cap
      /\ alert'[k.row].outcome = "DUPLICATE" \/ (alert' = alert /\ k.cap \in lost')
      /\ lost' \subseteq Capture \cup Order /\ lost \subseteq lost'
  <2>1. CASE alert' = alert /\ Loses(w)
    BY <1>1, <1>2, <2>1, LosesType DEF Types
  <2>2. CASE alert' = [alert EXCEPT ![k.row] = a] /\ lost' = lost
    <3>1. case' = case /\ (k.row \in DOMAIN alert => a \in Alert)
      BY <1>1, <1>3
    <3>2. /\ alert' \in Seq(Alert) /\ Len(alert') = Len(alert) /\ DOMAIN alert' = DOMAIN alert
          /\ \A i \in DOMAIN alert : alert'[i] = IF i = k.row THEN a ELSE alert[i]
      BY <1>1, <2>2, <3>1, AlertWritten
    <3> QED BY <1>1, <1>2, <1>3, <2>2, <3>2 DEF Types
  <2> QED BY <1>1, <2>1, <2>2
<1>5. /\ call' \in [Worker -> Call] /\ call'[w] = Idle
      /\ \A v \in Worker : v # w => call'[v] = call[v]
  BY <1>1, CallOver
<1>6. Types'
  BY <1>1, <1>4, <1>5 DEF Types, seen, Paid
<1>7. PICK r : r = k.row
  OBVIOUS
<1>8. Steady(r) /\ DOMAIN case' = DOMAIN alert'
  <2>1. DOMAIN case' = DOMAIN alert'
    BY <1>1, <1>4, RowsTyped
  <2> QED BY <1>1, <1>2, <1>4, <1>7, <2>1 DEF Steady, seen, Paid
<1>9. Knows(w)' /\ ~Unsure(call[w])' /\ call'[w].pc \notin Deciding
  BY <1>5, IdleType
  DEF Knows, Found, About, Placed, Unsure, Refuses, Carrying, Filing, Linking, Deciding
<1>10. \A v \in Worker : v # w => Apart(call[v], call[w])' /\ Apart(call[w], call[v])'
  BY <1>5, IdleType DEF Apart, Refuses, Filing, Linking
\* Nobody else files this alert, and staff cannot link one that says it is confirmed.
<1>11. \A v \in Worker :
         (v # w /\ call[v].row = r /\ call[v].pc \in Filing \cup Linking \cup Deciding) => Knows(v)'
  <2> SUFFICES ASSUME NEW v \in Worker, v # w, call[v].row = r,
                      call[v].pc \in Filing \cup Linking \cup Deciding
               PROVE  Knows(v)'
    OBVIOUS
  <2>1. call'[v] = call[v] /\ Knows(v) /\ Apart(call[v], k)
    BY <1>5 DEF CreditInv
  <2>2. call[v].pc \notin Filing \cup Linking /\ ~Refuses(call[v])
    BY <1>1, <1>2, <1>7, <2>1 DEF Apart, Filing, Linking, Refuses
  <2>3. case' = case /\ contested' = contested
    BY <1>1 DEF seen
  <2>4. call[v].pc \in Deciding => case[r].status # "none" /\ Undecided(r)
    BY <2>1 DEF Knows, About
  <2>5. call[v].pc \notin {"confirm", "case", "demote"}
    BY <2>2 DEF Filing
  <2>6. Undecided(r) => Undecided(r)'
    BY <2>3 DEF Undecided
  <2> QED BY <1>1, <1>8, <2>1, <2>2, <2>3, <2>4, <2>5, <2>6, KnowsStays
<1>12. \A i \in DOMAIN alert' : i = r \/ i \notin DOMAIN alert => Followed(i)' /\ ResolvedPays(i)'
  <2>1. alert'[r].outcome = "DUPLICATE" \/ alert'[r].cap \in lost'
    BY <1>4, <1>7
  <2>2. \A o : Pays(o) => Pays(o)'
    BY <1>1 DEF Pays, Paid
  <2>3. ResolvedPays(r)'
    BY <1>1, <1>2, <1>7, <2>2 DEF ResolvedPays, CreditInv
  <2> QED BY <1>4, <2>1, <2>3 DEF Followed, Settled, SaysPaid
<1>13. \A i \in DOMAIN alert \ {r} : call[w].row # i
  BY <1>7
<1>14. ASSUME NEW o \in Order \ Excused', Paid(o)'
       PROVE  Traced(o)'
  <2>1. Traced(o) /\ ~Standing(r)
    BY <1>1, <1>2, <1>7, <1>8, <1>14 DEF CreditInv, Paid, Excused, Steady, Standing, Unsure
  <2>2. case[r].order = o /\ case[r].status = "RESOLVED" => Traced(o)'
    BY <1>1, <1>2, <1>4, <1>7, <1>8 DEF Traced
  <2>3. call[w].pc \notin {"mark", "resolve"}
    BY <1>1
  <2> QED BY <1>1, <1>5, <1>8, <1>9, <2>1, <2>2, <2>3, StillTraced
<1>15. case' = case
  BY <1>1
<1> QED BY <1>5, <1>6, <1>8, <1>9, <1>10, <1>11, <1>12, <1>13, <1>14, <1>15, StepKeeps

-----------------------------------------------------------------------------
(***************************************************************************)
(* Staff link an alert to an order.                                        *)
(***************************************************************************)
LEMMA LinkMarkKeeps ==
  ASSUME CreditInv, NEW w \in Worker, LinkMark(w)
  PROVE  CreditInv'
<1> DEFINE k == call[w]
           a == [alert[k.row] EXCEPT !.order = k.order, !.outcome = "CONFIRMED"]
<1>1. /\ Types /\ Knows(w) /\ k.pc = "mark" /\ k \in Call
      /\ UNCHANGED <<order, case, history, acts>> /\ Over(w)
  BY DEF CreditInv, LinkMark, At, Types
<1>2. /\ k.row \in DOMAIN alert /\ k.order \in Order /\ Paid(k.order)
      /\ Linked(alert[k.row]) => alert[k.row].order \in contested
  <2>1. k.order \in Order /\ k.order # NoOrder
    BY <1>1, CreditAssumption DEF Knows, About, Linking
  <2> QED BY <1>1, <2>1 DEF Knows, About, Linking
<1>3. a \in Alert /\ a.outcome = "CONFIRMED" /\ a.order = k.order /\ alert[k.row] \in Alert
      /\ a.cap = alert[k.row].cap
  <2>1. alert[k.row] \in Alert
    BY <1>1, <1>2, RowsTyped
  <2> QED BY <1>1, <2>1 DEF Alert, Outcome, Call
<1>4. alert' = [alert EXCEPT ![k.row] = a]
  BY <1>1, <1>2, <1>3 DEF LinkMark, Types, Alert
<1> HIDE DEF a
<1>5. /\ alert' \in Seq(Alert) /\ Len(alert') = Len(alert) /\ DOMAIN alert' = DOMAIN alert
      /\ \A i \in DOMAIN alert : alert'[i] = IF i = k.row THEN a ELSE alert[i]
  <2>1. case' = case /\ (k.row \in DOMAIN alert => a \in Alert)
    BY <1>1, <1>3
  <2> QED BY <1>1, <1>4, <2>1, AlertWritten
<1>6. /\ call' \in [Worker -> Call] /\ call'[w] = Idle
      /\ \A v \in Worker : v # w => call'[v] = call[v]
  BY <1>1, CallOver
<1>7. Types'
  BY <1>1, <1>5, <1>6 DEF Types, history, seen, Paid
<1>8. PICK r \in DOMAIN alert, p \in Order : r = k.row /\ p = k.order
  BY <1>2
<1>9. Steady(r) /\ DOMAIN case' = DOMAIN alert'
  <2>1. DOMAIN case' = DOMAIN alert'
    BY <1>1, <1>5, RowsTyped
  <2> QED BY <1>1, <1>3, <1>5, <1>8, <2>1 DEF Steady, history, seen, Paid
<1>10. Knows(w)' /\ ~Unsure(call[w])' /\ call'[w].pc \notin Deciding
  BY <1>6, IdleType
  DEF Knows, Found, About, Placed, Unsure, Refuses, Carrying, Filing, Linking, Deciding
<1>11. \A v \in Worker : v # w => Apart(call[v], call[w])' /\ Apart(call[w], call[v])'
  BY <1>6, IdleType DEF Apart, Refuses, Filing, Linking
<1>12. alert'[r].outcome = "CONFIRMED" /\ alert'[r].order = p /\ case' = case
       /\ contested' = contested /\ Paid(p)' /\ r \in DOMAIN alert
  BY <1>1, <1>2, <1>3, <1>5, <1>8 DEF history, seen, Paid
\* No upload confirms or withdraws this alert, and whoever else links it links a contested order.
<1>13. \A v \in Worker :
         (v # w /\ call[v].row = r /\ call[v].pc \in Filing \cup Linking \cup Deciding) => Knows(v)'
  <2> SUFFICES ASSUME NEW v \in Worker, v # w, call[v].row = r,
                      call[v].pc \in Filing \cup Linking \cup Deciding
               PROVE  Knows(v)'
    OBVIOUS
  <2>1. call'[v] = call[v] /\ Knows(v) /\ Apart(k, call[v])
    BY <1>6 DEF CreditInv
  <2>2. call[v].pc # "confirm" /\ ~Refuses(call[v])
    BY <1>1, <1>8, <2>1 DEF Apart, Linking
  <2>3. call[v].pc \in Linking => p \in contested
    BY <1>1, <1>8, <2>1 DEF Apart, Linking
  <2>4. call[v].pc \in Deciding => case[r].status # "none" /\ Undecided(r)
    BY <2>1 DEF Knows, About
  <2>5. call[v].pc # "demote"
    BY <2>2 DEF Refuses
  <2>6. call[v].pc \in Linking /\ Linked(alert[r])' => alert'[r].order \in contested'
    BY <1>12, <2>3
  <2>7. SaysPaid(r)'
    BY <1>12 DEF SaysPaid, Pays
  <2>8. Undecided(r) => Undecided(r)'
    BY <1>12 DEF Undecided
  <2> QED BY <1>1, <1>9, <1>12, <2>1, <2>2, <2>4, <2>5, <2>6, <2>7, <2>8, KnowsStays
<1>14. \A i \in DOMAIN alert' : i = r \/ i \notin DOMAIN alert => Followed(i)' /\ ResolvedPays(i)'
  <2>1. \A o : Pays(o) => Pays(o)'
    BY <1>1 DEF Pays, Paid
  <2>2. ResolvedPays(r)'
    BY <1>12, <2>1 DEF ResolvedPays, CreditInv
  <2> QED BY <1>5, <1>12, <2>2 DEF Followed, Settled, SaysPaid, Pays
<1>15. \A i \in DOMAIN alert \ {r} : call[w].row # i
  BY <1>8
<1>16. ASSUME NEW o \in Order \ Excused', Paid(o)'
       PROVE  Traced(o)'
  <2>1. Traced(o)
    BY <1>1, <1>9, <1>16 DEF CreditInv, Paid, Excused, Steady
  <2>2. case[r].order = o /\ case[r].status = "RESOLVED" => Traced(o)'
    BY <1>9, <1>12, <1>5 DEF Traced
  <2>3. call[w].order = o => Traced(o)'
    <3>1. ASSUME NEW v \in Worker, Unsure(call[v])', call'[v].row = r
          PROVE  FALSE
      <4>1. v # w /\ call'[v] = call[v]
        BY <1>6, <1>10, <3>1
      <4>2. Apart(k, call[v]) /\ Unsure(call[v]) /\ call[v].row = r
        BY <3>1, <4>1 DEF CreditInv, Unsure, Refuses
      <4> QED BY <1>1, <1>8, <4>2 DEF Apart, Unsure, Linking
    <3> QED BY <1>5, <1>8, <1>12, <3>1 DEF Traced, Standing
  <2>4. ~(Linked(alert[r]) /\ alert[r].order = o)
    BY <1>2, <1>8, <1>12, <1>16 DEF Excused
  <2> QED BY <1>1, <1>6, <1>9, <1>10, <2>1, <2>2, <2>3, <2>4, StillTraced
<1> QED BY <1>6, <1>7, <1>9, <1>12, <1>10, <1>11, <1>13, <1>14, <1>15, <1>16, StepKeeps

LEMMA LinkReadKeeps ==
  ASSUME CreditInv, NEW w \in Worker, LinkRead(w)
  PROVE  CreditInv'
<1>1. /\ Types /\ w \in Clerk /\ call[w].pc = "idle" /\ acts < MaxActs /\ acts' = acts + 1
      /\ UNCHANGED <<stored, uploads, raced, lost>>
  BY DEF CreditInv, LinkRead, Asked, At
<1>2. PICK i \in DOMAIN alert, o \in Order :
       /\ Unlinked(alert[i]) /\ Linkable(o)
       /\ Becomes(w, [Idle EXCEPT !.pc = "link", !.row = i, !.order = o, !.utr = alert[i].utr])
       /\ LET others == {v \in Clerk : call[v].pc \in {"link", "mark"} /\ call[v].row = i}
          IN  contested' = contested \cup {call[v].order : v \in others}
                                     \cup {p \in {o} : others # {}}
  BY DEF LinkRead
<1> DEFINE m == [Idle EXCEPT !.pc = "link", !.row = i, !.order = o, !.utr = alert[i].utr]
           others == {v \in Clerk : call[v].pc \in {"link", "mark"} /\ call[v].row = i}
<1>3. contested' = contested \cup {call[v].order : v \in others} \cup {p \in {o} : others # {}}
  BY <1>2
<1>4. ~Linked(alert[i]) /\ alert[i] \in Alert /\ i \in Nat
  BY <1>1, <1>2, RowsTyped DEF Unlinked, Linked
<1>5. /\ m \in Call /\ m.pc = "link" /\ m.row = i /\ m.order = o /\ m.cap = NoRef
  BY <1>4, IdleType DEF Call, PC, Idle, Alert
<1>6. Becomes(w, m)
  BY <1>2
<1> HIDE DEF m
<1>7. /\ call' \in [Worker -> Call] /\ call'[w] = m
      /\ \A v \in Worker : v # w => call'[v] = call[v]
  BY <1>1, <1>5, <1>6, CallWritten
<1>8. ASSUME NEW v \in Worker, call[v].pc \in Linking
      PROVE  v \in Clerk /\ call[v].order \in Order
  BY <1>8 DEF CreditInv, Knows, Placed, About
<1>9. contested \subseteq contested' /\ contested' \subseteq Order
      /\ \A v \in Worker : call[v].pc \in Linking /\ call[v].row = i => {call[v].order, o} \subseteq contested'
  <2>1. \A v \in others : v \in Worker /\ call[v].pc \in Linking
    BY DEF Worker, Linking
  <2>2. \A v \in Worker : call[v].pc \in Linking /\ call[v].row = i => v \in others
    BY <1>8 DEF Linking
  <2> HIDE DEF others
  <2>3. contested \subseteq Order
    BY <1>1 DEF Types
  <2> QED BY <1>2, <1>3, <1>8, <2>1, <2>2, <2>3
<1>10. Types'
  <2>1. acts' \in 0..MaxActs
    BY <1>1, CreditAssumption DEF Types
  <2> QED BY <1>1, <1>7, <1>9, <2>1 DEF Types, stored, Paid
<1>11. Steady(0) /\ DOMAIN alert' = DOMAIN alert /\ \A p \in Order : Paid(p)' => Paid(p)
  BY <1>1, <1>9, UnchangedSteady DEF stored, Paid
<1>12. /\ ~Refuses(call[w])' /\ ~Unsure(call[w])' /\ call'[w].pc \notin Deciding
       /\ call[w].pc \notin {"mark", "resolve"} \cup Filing
  BY <1>1, <1>5, <1>7 DEF Unsure, Refuses, Deciding, Filing
<1>13. Knows(w)'
  <2>1. alert' = alert
    BY <1>1 DEF stored
  <2> QED BY <1>1, <1>2, <1>4, <1>5, <1>7, <1>12, <2>1
       DEF Knows, Found, About, Placed, Linked, Carrying, Filing, Linking, Deciding
<1>14. \A v \in Worker : v # w => Apart(call[v], call[w])' /\ Apart(call[w], call[v])'
  <2> SUFFICES ASSUME NEW v \in Worker, v # w
               PROVE  Apart(call[v], call[w])' /\ Apart(call[w], call[v])'
    OBVIOUS
  <2>1. call'[v] = call[v] /\ Knows(v)
    BY <1>7 DEF CreditInv
  <2>2. call[v].row = i => call[v].pc # "confirm" /\ ~Refuses(call[v])
    <3>1. call[v].pc = "confirm" /\ call[v].row = i => Linked(alert[i])
      BY <2>1, CreditAssumption DEF Knows, About, Linked
    <3>2. Refuses(call[v]) /\ call[v].row = i => Linked(alert[i])
      BY <2>1 DEF Knows, About
    <3> QED BY <1>4, <3>1, <3>2
  <2>3. call[v].pc \in Linking /\ call[v].row = i => {call[v].order, o} \subseteq contested'
    BY <1>9
  <2>4. m.pc \notin Filing /\ m.pc \in Linking
    BY <1>5 DEF Filing, Linking
  <2>5. Refuses(call[v])' <=> Refuses(call[v])
    BY <2>1 DEF Refuses
  <2> QED BY <1>5, <1>7, <1>12, <2>1, <2>2, <2>3, <2>4, <2>5 DEF Apart
<1> QED BY <1>7, <1>10, <1>11, <1>12, <1>13, <1>14, SteadyStep

\* A confirmation asked for by staff, for an alert or for a case.
LEMMA StaffConfirmsKeeps ==
  ASSUME CreditInv, NEW w \in Worker, NEW pc, NEW then, StaffConfirms(w, pc, then),
         (pc = "link" /\ then = "mark") \/ (pc = "decide" /\ then = "resolve")
  PROVE  CreditInv'
<1> DEFINE k == call[w]
           m == [k EXCEPT !.pc = then]
<1>a. PICK no : IF no THEN UNCHANGED order /\ Over(w)
                ELSE order' = Confirmed(k.order, k.utr) /\ Goto(w, then)
  BY DEF StaffConfirms
<1>1. /\ Types /\ Knows(w) /\ k.pc = pc /\ k \in Call /\ w \in Clerk
      /\ UNCHANGED <<alert, case, history, acts>>
      /\ order' = IF no THEN order ELSE Confirmed(k.order, k.utr)
      /\ Becomes(w, IF no THEN Idle ELSE m)
  BY <1>a DEF CreditInv, StaffConfirms, Over, Goto, At, Types, Knows, Placed, Linking, Deciding
<1>2. PICK o \in Order, u \in Payment \cup {NoRef} : o = k.order /\ u = k.utr
  BY <1>1 DEF Knows, About, Linking, Call
<1>3. /\ m \in Call /\ m.pc = then /\ m.row = k.row /\ m.order = k.order /\ m.cap = k.cap
  BY <1>1 DEF Call, PC
<1> HIDE DEF m
<1>4. /\ call' \in [Worker -> Call] /\ call'[w] = IF no THEN Idle ELSE m
      /\ \A v \in Worker : v # w => call'[v] = call[v]
  BY <1>1, <1>3, IdleType, CallWritten
<1>5. /\ order' \in [Order -> OrderRow]
      /\ \A p \in Order : /\ Paid(p)' <=> order'[p].rrn # NoRef
                          /\ Paid(p) => Paid(p)'
                          /\ Paid(p)' => Paid(p) \/ (p = o /\ ~no)
      /\ ~no => Paid(o)'
  <2>1. CASE no
    BY <1>1, <2>1 DEF Types, Paid
  <2>2. CASE ~no
    <3>1. order' = Confirmed(o, u)
      BY <1>1, <1>2, <2>2
    <3> QED BY <1>1, <2>2, <3>1, ConfirmedPays
  <2> QED BY <2>1, <2>2
<1>6. Types'
  BY <1>1, <1>4, <1>5 DEF Types, history, seen
<1>7. Steady(0) /\ DOMAIN alert' = DOMAIN alert
  BY <1>1, <1>5, UnchangedSteady DEF history, seen
<1>8. /\ ~Refuses(call[w])' /\ ~Unsure(call[w])'
      /\ call[w].pc \notin {"mark", "resolve"} \cup Filing
  BY <1>1, <1>3, <1>4, IdleType DEF Refuses, Unsure, Filing
<1>9. Knows(w)'
  <2>1. CASE no
    BY <1>4, <2>1, IdleType
    DEF Knows, Found, About, Placed, Refuses, Carrying, Filing, Linking, Deciding
  <2>2. CASE ~no
    <3>1. /\ call'[w] = m /\ alert' = alert /\ case' = case /\ contested' = contested
          /\ m.order = o /\ Paid(o)' /\ m.row = k.row /\ o = k.order
      BY <1>1, <1>2, <1>3, <1>4, <1>5, <2>2 DEF history, seen
    <3>2. Found(call[w])' /\ Placed(w)'
      BY <1>1, <1>3, <3>1 DEF Found, Placed, Carrying, Filing
    <3>3. Paid(call[w].order)'
      BY <3>1 DEF Paid
    <3>4. About(call[w])'
      <4>1. m.pc \in Deciding => k.pc \in Deciding
        BY <1>1, <1>3 DEF Deciding
      <4>2. m.pc \in Linking => k.pc \in Linking
        BY <1>1, <1>3 DEF Linking
      <4>3. m.pc \in Linking \cup Deciding /\ m.pc \notin Filing \cup {"decide"}
        BY <1>1, <1>3 DEF Linking, Deciding, Filing
      <4>4. k.row \in DOMAIN alert
        BY <1>1 DEF Knows, About, Linking, Deciding
      <4>5. k.pc \in Deciding =>
              /\ case[k.row].status # "none" /\ Undecided(k.row)
              /\ k.order # NoOrder => case[k.row].order = k.order
        BY <1>1 DEF Knows, About
      <4>6. Undecided(k.row) => Undecided(k.row)'
        BY <3>1 DEF Undecided
      <4>7. k.pc \in Linking => (Linked(alert[k.row]) => alert[k.row].order \in contested)
        BY <1>1 DEF Knows, About
      <4> QED BY <1>8, <3>1, <3>3, <4>1, <4>2, <4>3, <4>4, <4>5, <4>6, <4>7 DEF About, Filing
    <3> QED BY <3>2, <3>4 DEF Knows
  <2> QED BY <2>1, <2>2
<1>10. \A v \in Worker : v # w => Apart(call[v], call[w])' /\ Apart(call[w], call[v])'
  <2> SUFFICES ASSUME NEW v \in Worker, v # w
               PROVE  Apart(call[v], call[w])' /\ Apart(call[w], call[v])'
    OBVIOUS
  <2>1. call'[v] = call[v] /\ Apart(call[v], k) /\ Apart(k, call[v]) /\ contested' = contested
    BY <1>1, <1>4 DEF CreditInv, history, seen
  <2>2. CASE no
    BY <1>4, <2>2, IdleType DEF Apart, Refuses, Filing, Linking
  <2>3. CASE ~no
    BY <1>1, <1>3, <1>4, <2>1, <2>3 DEF Apart, Refuses, Filing, Linking
  <2> QED BY <2>2, <2>3
<1>11. ASSUME NEW p \in Order, Paid(p)', ~Paid(p)
       PROVE  Traced(p)'
  <2>1. p = o /\ call'[w] = m
    BY <1>4, <1>5, <1>11
  <2> QED BY <1>2, <1>3, <2>1 DEF Traced
<1>12. call'[w].pc \in Deciding => \A v \in Worker : v # w => BothDecide(call[v], call[w])'
  <2> SUFFICES ASSUME call'[w].pc \in Deciding, NEW v \in Worker, v # w
               PROVE  BothDecide(call[v], call[w])'
    OBVIOUS
  <2>1. k.pc \in Deciding /\ call'[w].row = k.row /\ call'[v] = call[v]
    BY <1>1, <1>3, <1>4, IdleType DEF Deciding
  <2>2. BothDecide(call[v], k)
    BY DEF CreditInv
  <2> QED BY <1>1, <2>1, <2>2 DEF BothDecide, history, seen
<1> QED BY <1>4, <1>6, <1>7, <1>8, <1>9, <1>10, <1>11, <1>12, SteadyStep
-----------------------------------------------------------------------------
(***************************************************************************)
(* Staff decide a case.                                                    *)
(***************************************************************************)
\* A request that begins with an open case in hand.
LEMMA CaseTaken ==
  ASSUME CreditInv, NEW w \in Worker, w \in Clerk, call[w].pc = "idle",
         UNCHANGED <<stored, uploads, raced, lost>>, acts < MaxActs, acts' = acts + 1,
         NEW m \in Call, Becomes(w, m), m.pc \in Deciding,
         m.row \in DOMAIN alert, case[m.row].status = "OPEN",
         contested' = contested \cup Disputed(w, m.row),
         m.order # NoOrder => case[m.row].order = m.order,
         m.pc = "decide" <=> m.order # NoOrder
  PROVE  CreditInv'
<1>1. Types
  BY DEF CreditInv
<1>2. /\ call' \in [Worker -> Call] /\ call'[w] = m
      /\ \A v \in Worker : v # w => call'[v] = call[v]
  BY <1>1, CallWritten
<1>0. contested \subseteq contested' /\ contested' \subseteq Order
  BY <1>1 DEF Disputed, Types
<1>3. Types'
  <2>1. acts' \in 0..MaxActs
    BY <1>1, CreditAssumption DEF Types
  <2> QED BY <1>0, <1>1, <1>2, <2>1 DEF Types, stored, Paid
<1>4. Steady(0) /\ DOMAIN alert' = DOMAIN alert /\ \A p \in Order : Paid(p)' => Paid(p)
  BY <1>0, UnchangedSteady DEF stored, Paid
<1>5. /\ m.pc \in {"decide", "resolve"} /\ m.order \in Order \cup {NoOrder}
      /\ ~Refuses(call[w])' /\ ~Unsure(call[w])'
      /\ call[w].pc \notin {"mark", "resolve"} \cup Filing
  BY <1>2 DEF Deciding, Refuses, Unsure, Filing, Call
<1>6. Knows(w)'
  <2>1. alert' = alert /\ case' = case
    BY DEF stored
  <2> QED BY <1>2, <1>5, <2>1
      DEF Knows, Found, About, Placed, Undecided, Carrying, Filing, Linking, Deciding
<1>7. \A v \in Worker : v # w => Apart(call[v], call[w])' /\ Apart(call[w], call[v])'
  BY <1>2, <1>5 DEF Apart, Refuses, Filing, Linking
<1>8. \A v \in Worker : v # w => BothDecide(call[v], call[w])'
  <2> SUFFICES ASSUME NEW v \in Worker, v # w, call[v].pc \in Deciding, call[v].row = m.row
               PROVE  case[m.row].order \in contested' \cup {NoOrder}
    BY <1>2 DEF BothDecide, stored
  <2>1. v \in Clerk
    BY DEF CreditInv, Knows, Placed
  <2>2. case[m.row].order \in Order \cup {NoOrder}
    BY <1>1, RowsTyped DEF CaseRow
  <2> QED BY <2>1, <2>2 DEF Disputed, Deciding
<1> QED BY <1>2, <1>3, <1>4, <1>5, <1>6, <1>7, <1>8, SteadyStep

LEMMA CaseConfirmReadKeeps ==
  ASSUME CreditInv, NEW w \in Worker, CaseConfirmRead(w)
  PROVE  CreditInv'
<1>1. /\ Types /\ w \in Clerk /\ call[w].pc = "idle" /\ acts < MaxActs /\ acts' = acts + 1
      /\ UNCHANGED <<stored, uploads, raced, lost>>
  BY DEF CreditInv, CaseConfirmRead, Asked, At
<1>2. PICK i \in DOMAIN case, typed \in BOOLEAN :
       /\ case[i].status = "OPEN" /\ case[i].order # NoOrder
       /\ Becomes(w, [Idle EXCEPT !.pc = "decide", !.row = i, !.order = case[i].order,
                                  !.utr = IF typed THEN alert[i].cap.pay ELSE NoRef])
       /\ contested' = contested \cup Disputed(w, i)
  BY DEF CaseConfirmRead
<1> DEFINE m == [Idle EXCEPT !.pc = "decide", !.row = i, !.order = case[i].order,
                             !.utr = IF typed THEN alert[i].cap.pay ELSE NoRef]
<1>3. i \in DOMAIN alert /\ i \in Nat /\ alert[i] \in Alert /\ case[i] \in CaseRow
  BY <1>1, RowsTyped
<1>4. alert[i].cap.pay \in Payment
  <2>1. alert[i].cap \in Capture
    BY <1>3 DEF Alert
  <2> QED BY <2>1, CaptureTypes
<1>5. m \in Call /\ m.pc = "decide" /\ m.row = i /\ m.order = case[i].order
  BY <1>3, <1>4, IdleType DEF Call, PC, Idle, CaseRow
<1>6. Becomes(w, m)
  BY <1>2
<1> HIDE DEF m
<1> QED BY <1>1, <1>2, <1>3, <1>5, <1>6, CaseTaken DEF Deciding

LEMMA CaseRejectReadKeeps ==
  ASSUME CreditInv, NEW w \in Worker, CaseRejectRead(w)
  PROVE  CreditInv'
<1>1. /\ Types /\ w \in Clerk /\ call[w].pc = "idle" /\ acts < MaxActs /\ acts' = acts + 1
      /\ UNCHANGED <<stored, uploads, raced, lost>>
  BY DEF CreditInv, CaseRejectRead, Asked, At
<1>2. PICK i \in DOMAIN case : /\ case[i].status = "OPEN"
                               /\ Becomes(w, [Idle EXCEPT !.pc = "resolve", !.row = i])
                               /\ contested' = contested \cup Disputed(w, i)
  BY DEF CaseRejectRead
<1> DEFINE m == [Idle EXCEPT !.pc = "resolve", !.row = i]
<1>3. i \in DOMAIN alert /\ i \in Nat
  BY <1>1, RowsTyped
<1>4. m \in Call /\ m.pc = "resolve" /\ m.row = i /\ m.order = NoOrder
  BY <1>3, IdleType DEF Call, PC, Idle
<1>5. Becomes(w, m)
  BY <1>2
<1> HIDE DEF m
<1> QED BY <1>1, <1>2, <1>3, <1>4, <1>5, CaseTaken DEF Deciding

LEMMA CaseWriteKeeps ==
  ASSUME CreditInv, NEW w \in Worker, CaseWrite(w)
  PROVE  CreditInv'
<1> DEFINE k == call[w]
           x == [case[k.row] EXCEPT !.status = IF k.order = NoOrder THEN "REJECTED" ELSE "RESOLVED"]
<1>1. /\ Types /\ Knows(w) /\ k.pc = "resolve" /\ k \in Call
      /\ UNCHANGED <<order, alert, history, acts>> /\ Over(w)
      /\ case' = [case EXCEPT ![k.row] = x]
  BY DEF CreditInv, CaseWrite, At, Types
<1>2. /\ k.row \in DOMAIN alert /\ case[k.row].status # "none" /\ Undecided(k.row)
      /\ k.order # NoOrder => case[k.row].order = k.order /\ k.order \in Order /\ Paid(k.order)
  BY <1>1 DEF Knows, About, Deciding, Call
<1>3. /\ x \in CaseRow /\ x.order = case[k.row].order /\ x.status \in {"RESOLVED", "REJECTED"}
      /\ x.status = "RESOLVED" <=> k.order # NoOrder
  <2>1. case[k.row] \in CaseRow
    BY <1>1, <1>2, RowsTyped
  <2> QED BY <2>1 DEF CaseRow
<1> HIDE DEF x
<1>4. /\ case' \in Seq(CaseRow) /\ Len(case') = Len(alert')
      /\ \A i \in DOMAIN alert : case'[i] = IF i = k.row THEN x ELSE case[i]
  <2>1. PICK y \in CaseRow : y = x
    BY <1>3
  <2>2. alert' = alert /\ case' = [case EXCEPT ![k.row] = y] /\ Types
    BY <1>1, <2>1
  <2>3. /\ case' \in Seq(CaseRow) /\ Len(case') = Len(alert')
        /\ \A i \in DOMAIN alert : case'[i] = IF i = k.row THEN y ELSE case[i]
    BY <2>2, CaseWritten
  <2> QED BY <2>1, <2>3
<1>5. /\ call' \in [Worker -> Call] /\ call'[w] = Idle
      /\ \A v \in Worker : v # w => call'[v] = call[v]
  BY <1>1, CallOver
<1>6. Types'
  BY <1>1, <1>4, <1>5 DEF Types, history, seen, Paid
<1>7. PICK r \in DOMAIN alert, p \in Order \cup {NoOrder} : r = k.row /\ p = k.order
  BY <1>1, <1>2 DEF Call
<1>8. Steady(r) /\ DOMAIN alert' = DOMAIN alert /\ DOMAIN case' = DOMAIN alert'
  <2>1. DOMAIN case' = DOMAIN alert'
    <3>1. alert' \in Seq(Alert) /\ case' \in Seq(CaseRow) /\ Len(case') = Len(alert')
      BY <1>6 DEF Types
    <3> QED BY <3>1
  <2> QED BY <1>1, <1>4, <1>7, <2>1 DEF Steady, history, seen, Paid
<1>9. Knows(w)' /\ ~Unsure(call[w])' /\ call'[w].pc \notin Deciding
  BY <1>5, IdleType
  DEF Knows, Found, About, Placed, Unsure, Refuses, Carrying, Filing, Linking, Deciding
<1>10. \A v \in Worker : v # w => Apart(call[v], call[w])' /\ Apart(call[w], call[v])'
  BY <1>5, IdleType DEF Apart, Refuses, Filing, Linking
<1>11. /\ case'[r].status \in {"RESOLVED", "REJECTED"} /\ case'[r].order = case[r].order
       /\ alert' = alert /\ contested' = contested /\ \A o : Paid(o)' <=> Paid(o)
       /\ case'[r].status = "RESOLVED" <=> p # NoOrder
       /\ p # NoOrder => case[r].order = p /\ p \in Order /\ Paid(p)
  BY <1>1, <1>2, <1>3, <1>4, <1>7 DEF history, seen, Paid
\* No upload is about to open this case, or to confirm its alert.
<1>12. \A v \in Worker :
         (v # w /\ call[v].row = r /\ call[v].pc \in Filing \cup Linking \cup Deciding) => Knows(v)'
  <2> SUFFICES ASSUME NEW v \in Worker, v # w, call[v].row = r,
                      call[v].pc \in Filing \cup Linking \cup Deciding
               PROVE  Knows(v)'
    OBVIOUS
  <2>1. call'[v] = call[v] /\ Knows(v) /\ BothDecide(call[v], k)
    BY <1>5 DEF CreditInv
  <2>2. call[v].pc \notin {"confirm", "case"}
    BY <1>2, <1>7, <2>1 DEF Knows, About
  <2>3. call[v].pc \in Linking /\ Linked(alert[r])' => alert'[r].order \in contested'
    BY <1>11, <2>1 DEF Knows, About, Linked
  <2>4. call[v].pc \in Deciding => Undecided(r)'
    BY <1>1, <1>7, <1>11, <2>1 DEF BothDecide, Undecided, Deciding
  <2>5. Refuses(call[v]) => alert'[r] = alert[r]
    BY <1>11
  <2> QED BY <1>1, <1>8, <1>11, <2>1, <2>2, <2>3, <2>4, <2>5, KnowsStays
<1>13. \A i \in DOMAIN alert' : i = r \/ i \notin DOMAIN alert => Followed(i)' /\ ResolvedPays(i)'
  <2>1. ResolvedPays(r)'
    BY <1>11 DEF ResolvedPays, Pays
  <2>2. Followed(r)'
    <3>1. Followed(r)
      BY DEF CreditInv
    <3>2. Settled(r) => Settled(r)'
      BY <1>11 DEF Settled, SaysPaid, Pays
    <3>3. alert[r].cap \in lost => alert'[r].cap \in lost'
      BY <1>1, <1>11 DEF history
    <3>4. \A v \in Worker : call[v].pc \in Filing => call'[v] = call[v]
      BY <1>1, <1>5 DEF Filing
    <3> QED BY <3>1, <3>2, <3>3, <3>4 DEF Followed
  <2> QED BY <1>8, <2>1, <2>2
<1>14. \A i \in DOMAIN alert \ {r} : call[w].row # i
  BY <1>7
<1>15. ASSUME NEW o \in Order \ Excused', Paid(o)'
       PROVE  Traced(o)'
  <2>1. Traced(o) /\ o # NoOrder /\ o \notin contested
    BY <1>8, <1>11, <1>15, CreditAssumption DEF CreditInv, Excused, Steady
  <2>2. case'[r].status = "RESOLVED" /\ case[r].order = o => Traced(o)'
    BY <1>8, <1>11 DEF Traced
  <2>3. call[w].order = o => Traced(o)'
    BY <1>7, <1>11, <2>1, <2>2
  <2>4. ~(case[r].order = o /\ case[r].status = "RESOLVED")
    BY <1>2, <1>7, <2>1 DEF Undecided
  <2>5. Linked(alert[r]) /\ alert[r].order = o /\ Standing(r) => Traced(o)'
    <3> SUFFICES ASSUME Linked(alert[r]), alert[r].order = o, Standing(r)
                 PROVE  Traced(o)'
      OBVIOUS
    <3>1. ASSUME NEW v \in Worker, Unsure(call[v])', call'[v].row = r
          PROVE  FALSE
      BY <1>5, <1>9, <3>1 DEF Standing, Unsure, Refuses
    <3> QED BY <1>8, <1>11, <3>1 DEF Traced, Standing, Linked
  <2> QED BY <1>1, <1>5, <1>8, <1>9, <2>1, <2>3, <2>4, <2>5, StillTraced
<1>16. \A v \in Worker : call[v].pc \in Deciding /\ call[v].row = r => case'[r].order = case[r].order
  BY <1>11
<1> QED BY <1>5, <1>6, <1>8, <1>9, <1>10, <1>12, <1>13, <1>14, <1>15, <1>16, StepKeeps
-----------------------------------------------------------------------------
(***************************************************************************)
(* A request is cut short, an order expires.                               *)
(***************************************************************************)
\* What it was at is lost: the alert it filed, or the order it was to say is paid.
LEMMA DiesKeeps ==
  ASSUME CreditInv, NEW w \in Worker, Dies(w)
  PROVE  CreditInv'
<1> DEFINE k == call[w]
<1>1. Types /\ Knows(w) /\ k \in Call /\ Loses(w) /\ Over(w) /\ UNCHANGED <<stored, seen, acts>>
  BY DEF CreditInv, Dies, Types
<1>2. /\ call' \in [Worker -> Call] /\ call'[w] = Idle
      /\ \A v \in Worker : v # w => call'[v] = call[v]
  BY <1>1, CallOver
<1>3. /\ lost' \subseteq Capture \cup Order /\ lost \subseteq lost'
      /\ w \in Uploader /\ k.cap \in Capture => k.cap \in lost'
      /\ w \in Clerk /\ k.order \in Order => k.order \in lost'
  BY <1>1, LosesType
<1>4. Types'
  BY <1>1, <1>2, <1>3 DEF Types, stored, seen, Paid
<1>5. Steady(0) /\ DOMAIN alert' = DOMAIN alert /\ \A p \in Order : Paid(p)' => Paid(p)
  BY <1>1, <1>3, UnchangedSteady DEF stored, seen, Paid
<1>6. Knows(w)' /\ ~Unsure(call[w])' /\ call'[w].pc \notin Deciding
  BY <1>2, IdleType
  DEF Knows, Found, About, Placed, Unsure, Refuses, Carrying, Filing, Linking, Deciding
<1>7. \A v \in Worker : v # w => Apart(call[v], call[w])' /\ Apart(call[w], call[v])'
  BY <1>2, IdleType DEF Apart, Refuses, Filing, Linking
<1>8. \A i \in DOMAIN alert : k.pc \in Filing /\ k.row = i => Followed(i)'
  <2> SUFFICES ASSUME NEW i \in DOMAIN alert, k.pc \in Filing, k.row = i
               PROVE  Followed(i)'
    OBVIOUS
  <2>1. w \in Uploader /\ k.cap \in Capture /\ alert[i].cap = k.cap
    BY <1>1 DEF Knows, Found, About, Placed
  <2> QED BY <1>1, <1>3, <2>1 DEF Followed, stored
<1>9. \A o \in Order \ Excused' : ~(k.pc \in {"mark", "resolve"} /\ k.order = o)
  BY <1>1, <1>3 DEF Knows, Placed, Linking, Deciding, Excused
<1> QED BY <1>2, <1>4, <1>5, <1>6, <1>7, <1>8, <1>9, SteadyStep

LEMMA ExpireKeeps ==
  ASSUME CreditInv, NEW o \in Order, Expire(o)
  PROVE  CreditInv'
<1>1. Types /\ order[o].status = "PENDING" /\ UNCHANGED <<alert, case, history, acts, call>>
      /\ order' = [order EXCEPT ![o].status = "EXPIRED"]
  BY DEF CreditInv, Expire
<1>2. order \in [Order -> OrderRow] /\ \A p \in Order : Paid(p) <=> order[p].rrn # NoRef
  BY <1>1 DEF Types
<1>3. order' \in [Order -> OrderRow] /\ \A p \in Order : /\ order'[p].rrn = order[p].rrn
                                                         /\ Paid(p)' <=> Paid(p)
  BY <1>1, <1>2 DEF OrderRow, Paid
<1>4. Types'
  BY <1>1, <1>2, <1>3 DEF Types, history, seen
<1>5. Steady(0)
  BY <1>1, <1>3, UnchangedSteady DEF history, seen
<1>6. \A v \in Worker : Knows(v)'
  <2> SUFFICES ASSUME NEW v \in Worker
               PROVE  Knows(v)'
    OBVIOUS
  <2>1. Knows(v) /\ call'[v] = call[v] /\ 0 \notin DOMAIN alert
    BY <1>1, RowsTyped DEF CreditInv
  <2>2. call[v].row = 0 => call[v].pc \notin Filing \cup Linking \cup Deciding
    BY <2>1 DEF Knows, About
  <2> QED BY <1>1, <1>5, <2>1, <2>2, SteadyKnows
<1>7. \A u, v \in Worker : u # v => Apart(call[u], call[v])' /\ BothDecide(call[u], call[v])'
  BY <1>1 DEF CreditInv, Apart, BothDecide, Refuses, history, seen
<1>8. \A i \in DOMAIN alert' : Followed(i)' /\ ResolvedPays(i)'
  BY <1>1, <1>3 DEF CreditInv, Followed, Settled, SaysPaid, ResolvedPays, Pays, history
<1>9. \A p \in Order \ Excused' : Paid(p)' => Traced(p)'
  BY <1>1, <1>3 DEF CreditInv, Traced, Standing, Unsure, Refuses, Excused, history, seen
<1> QED BY <1>4, <1>6, <1>7, <1>8, <1>9 DEF CreditInv

-----------------------------------------------------------------------------
(***************************************************************************)
(* The invariant, and what it says of BankCredits.                         *)
(***************************************************************************)
LEMMA CreditInit ==
  ASSUME Init
  PROVE  CreditInv
<1>1. Types
  <2>1. order \in [Order -> OrderRow] /\ \A o \in Order : ~Paid(o) /\ order[o].rrn = NoRef
    BY DEF Init, OrderRow, Paid
  <2>2. uploads \in [Capture -> 0..MaxUploads] /\ acts \in 0..MaxActs
    BY CreditAssumption DEF Init
  <2>3. call \in [Worker -> Call]
    BY IdleType DEF Init
  <2>4. alert \in Seq(Alert) /\ case \in Seq(CaseRow) /\ Len(case) = Len(alert)
    BY DEF Init
  <2>5. raced \in BOOLEAN /\ contested \subseteq Order /\ lost \subseteq Capture \cup Order
    BY DEF Init
  <2> QED BY <2>1, <2>2, <2>3, <2>4, <2>5 DEF Types
<1>2. \A w \in Worker : call[w] = Idle
  BY DEF Init
<1>3. \A w \in Worker : Knows(w)
  BY <1>2, IdleType DEF Knows, Found, About, Placed, Refuses, Carrying, Filing, Linking, Deciding
<1>4. \A v, w \in Worker : v # w => Apart(call[v], call[w]) /\ BothDecide(call[v], call[w])
  BY <1>2, IdleType DEF Apart, BothDecide, Refuses, Filing, Linking, Deciding
<1>5. \A i \in DOMAIN alert : Followed(i) /\ ResolvedPays(i)
  BY DEF Init
<1>6. \A o \in Order \ Excused : Paid(o) => Traced(o)
  BY DEF Init, Paid
<1> QED BY <1>1, <1>3, <1>4, <1>5, <1>6 DEF CreditInv

LEMMA CreditStep ==
  ASSUME CreditInv, [Next]_vars
  PROVE  CreditInv'
<1>1. ASSUME NEW w \in Worker, Upload(w)
      PROVE  CreditInv'
  BY <1>1, SightKeeps, FoldKeeps, MatchOrderKeeps, PlaceKeeps, MergeKeeps, InsertKeeps,
     OpenCaseKeeps, ConfirmOrderKeeps, DemoteKeeps DEF Upload
<1>2. ASSUME NEW w \in Worker, Staff(w)
      PROVE  CreditInv'
  <2>1. LinkConfirm(w) => CreditInv'
    BY StaffConfirmsKeeps DEF LinkConfirm
  <2>2. CaseConfirm(w) => CreditInv'
    BY StaffConfirmsKeeps DEF CaseConfirm
  <2> QED BY <1>2, <2>1, <2>2, LinkReadKeeps, LinkMarkKeeps, CaseConfirmReadKeeps,
             CaseRejectReadKeeps, CaseWriteKeeps DEF Staff
<1>3. ASSUME NEW w \in Worker, Dies(w)
      PROVE  CreditInv'
  BY <1>3, DiesKeeps
<1>4. ASSUME NEW o \in Order, Expire(o)
      PROVE  CreditInv'
  BY <1>4, ExpireKeeps
<1>5. CASE UNCHANGED vars
  BY <1>5 DEF vars, stored, history, seen, CreditInv, Types, Knows, Found, About, Placed, Apart,
              BothDecide, Refuses, Linked, Undecided, SaysPaid, Followed, Settled, ResolvedPays, Pays,
              Paid, Traced, Standing, Unsure, Excused
<1> QED BY <1>1, <1>2, <1>3, <1>4, <1>5 DEF Next

\* The invariant holds throughout.
THEOREM CreditInvariance == Spec => []CreditInv
<1>1. Init => CreditInv
  BY CreditInit
<1>2. CreditInv /\ [Next]_vars => CreditInv'
  BY CreditStep
<1> QED BY <1>1, <1>2, PTL DEF Spec

\* Types, one case row for every alert, and a reference on exactly the paid orders
\* (confirmKatanaOrder, ingestTxnAlert).
THEOREM CreditTypesHold == Spec => []CreditTypeOK
<1>1. CreditInv => CreditTypeOK
  <2> SUFFICES ASSUME CreditInv
               PROVE  CreditTypeOK
    OBVIOUS
  <2>1. Types
    BY DEF CreditInv
  <2>2. \A i \in DOMAIN alert : alert[i] \in Alert
    BY <2>1, RowsTyped
  <2>3. \A i \in DOMAIN case : case[i] \in CaseRow
    BY <2>1, RowsTyped
  <2> QED BY <2>1, <2>2, <2>3 DEF Types, CreditTypeOK
<1> QED BY <1>1, CreditInvariance, PTL

\* Whatever uploads, staff and operators do between one another's statements, and whatever write
\* fails or process dies: an alert that no request works on and whose own upload was not cut short
\* is backed by the other tables, and a RESOLVED case has paid its order (ingestTxnAlert,
\* openManualCase, linkCreditToOrder, the cases route).
THEOREM TablesStayTogether == Spec => []TablesAgree
<1>1. CreditInv => TablesAgree
  <2> SUFFICES ASSUME CreditInv
               PROVE  TablesAgree
    OBVIOUS
  <2>1. DOMAIN case = DOMAIN alert
    BY RowsTyped DEF CreditInv
  <2>2. \A i \in DOMAIN alert : Followed(i) /\ ResolvedPays(i)
    BY DEF CreditInv
  <2>3. ASSUME NEW i \in DOMAIN alert, ~InHand(i), alert[i].cap \notin lost
        PROVE  /\ alert[i].outcome = "CONFIRMED" => Paid(alert[i].order)
               /\ alert[i].outcome \in {"UNMATCHED", "AMBIGUOUS"} => case[i].status # "none"
    <3>1. \A w \in Worker : ~(call[w].pc \in Filing /\ call[w].row = i)
      BY <2>3 DEF InHand, Filing, At
    <3>2. Settled(i)
      BY <2>2, <2>3, <3>1 DEF Followed
    <3> QED BY <3>2 DEF Settled, SaysPaid, Pays
  <2>4. \A i \in DOMAIN case : case[i].status = "RESOLVED" => Paid(case[i].order)
    BY <2>1, <2>2 DEF ResolvedPays, Pays
  <2> QED BY <2>3, <2>4 DEF TablesAgree
<1> QED BY <1>1, CreditInvariance, PTL

\* Every paid order is traced to what paid it: an alert confirmed for it, a case about it that was
\* resolved, or a request that is about to write the one or the other; but for the orders two of
\* staff were deciding on at once over one alert, and those a request died over.
THEOREM PaidTraceable == Spec => []PaidIsTraceable
<1>1. CreditInv => PaidIsTraceable
  BY DEF CreditInv, Excused, Traced, PaidIsTraceable, At
<1> QED BY <1>1, CreditInvariance, PTL
=============================================================================
