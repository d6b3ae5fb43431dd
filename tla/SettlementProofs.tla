-------------------------- MODULE SettlementProofs --------------------------
(***************************************************************************)
(* Theorems about Settlement, for any workers, settlements, pay-ins, rates *)
(* and buttons: the ledger is never behind the states, outcomes stay, and  *)
(* whatever the rate card, what an instruction books is balanced.          *)
(*                                                                         *)
(* The inductive invariant says of the list of statements a worker still   *)
(* has before it: every journal a statement needs is on the ledger already *)
(* or is posted earlier in the list, every move is one of the table, and   *)
(* an unlock is the worker's own and the only one.                         *)
(***************************************************************************)
EXTENDS Settlement, TLAPS

\* The journals a statement needs before it.
Needs(s, j) ==
  \/ s.do = "request" /\ j = "initiated"
  \/ s.do = "stamp" /\ j = "collected"
  \/ s.do = "release" /\ j = "released"
  \/ /\ s.do = "move"
     /\ \/ j = "initiated" /\ s.to \in {"INITIATED", "IN_TRANSIT", "SETTLED", "FAILED", "REVERSED"}
        \/ j = "settled" /\ s.to \in {"SETTLED", "REVERSED"}
        \/ j = "failed" /\ s.to = "FAILED"
        \/ j = "reversed" /\ s.to = "REVERSED"
        \/ j = "cancelled" /\ s.to = "CANCELLED"

Allowed(s) == s.do = "move" => s.what \in State /\ s.to \in NEXT[s.what]

Posts(s, j) == s.do = "post" /\ s.what = j

\* A list of statements that is in order for somebody who has the journals "have".
InOrder(have, t) ==
  /\ t \in Seq(Statements)
  /\ \A n \in 1..Len(t) :
       /\ Allowed(t[n])
       /\ \A j \in Journal : Needs(t[n], j) => j \in have \/ \E m \in 1..(n - 1) : Posts(t[m], j)

OneUnlock(t) == \A n \in 1..Len(t) : t[n].do = "unlock" => n = 1 \/ (n = 2 /\ t[1].do = "post")
Unlocks(t) == \E n \in 1..Len(t) : t[n].do = "unlock"

On(k) == {j \in Journal : Has(j, k)}

Holdable == {"PENDING", "INITIATED", "IN_TRANSIT"}

CallInv(w) ==
  LET c == call[w]
  IN  /\ c.pc \in {"lock", "balance", "insert", "status"} => c.key \in Key
      /\ c.pc \in {"balance", "insert"} => lock = w /\ instr[c.key].state = "NONE"
      /\ c.pc = "status" => /\ c.seen \in {"INITIATED", "IN_TRANSIT", "HELD", "SETTLED"}
                            /\ Has("initiated", c.key)
                            /\ c.seen = "SETTLED" => Has("settled", c.key)
                            /\ c.seen = "HELD" => c.heldFrom \in Holdable
      /\ c.pc = "run" => /\ c.todo # <<>>
                         /\ InOrder(On(c.key), c.todo)
                         /\ OneUnlock(c.todo)
                         /\ Unlocks(c.todo) => lock = w

IsRow(r) == /\ {"state", "heldFrom", "linked", "amounts"} \subseteq DOMAIN r
            /\ r.state \in State
            /\ r.linked \in BOOLEAN

RowBooked(k) ==
  /\ request[k] # "none" => Has("initiated", k)
  /\ instr[k].state \in {"INITIATED", "IN_TRANSIT", "SETTLED", "FAILED", "REVERSED"} => Has("initiated", k)
  /\ instr[k].state \in {"SETTLED", "REVERSED"} => Has("settled", k)
  /\ instr[k].state = "FAILED" => Has("failed", k)
  /\ instr[k].state = "REVERSED" => Has("reversed", k)
  /\ instr[k].state = "CANCELLED" => Has("cancelled", k)
  /\ hold[k] = "RELEASED" => Has("released", k)

TablesInv ==
  /\ DOMAIN payin = Payin /\ DOMAIN instr = Key /\ DOMAIN request = Key /\ DOMAIN hold = Key
  /\ DOMAIN call = Worker
  /\ payin = [p \in Payin |-> payin[p]] /\ instr = [k \in Key |-> instr[k]]
  /\ request = [k \in Key |-> request[k]] /\ hold = [k \in Key |-> hold[k]]
  /\ call = [w \in Worker |-> call[w]]
  /\ \A p \in Payin : payin[p] = "stamped" => Has("collected", p)
  /\ \A k \in Key : /\ IsRow(instr[k])
                    /\ instr[k].state = "HELD" => instr[k].heldFrom \in Holdable
                    /\ instr[k].linked => Has("initiated", k)
                    /\ RowBooked(k)

IInv == TablesInv /\ \A w \in Worker : CallInv(w)

-----------------------------------------------------------------------------
\* Lists of statements.
LEMMA EmptyInOrder == ASSUME NEW have PROVE InOrder(have, <<>>)
BY DEF InOrder

LEMMA MoreIsEnough ==
  ASSUME NEW have, NEW more, have \subseteq more, NEW t, InOrder(have, t)
  PROVE  InOrder(more, t)
BY DEF InOrder

LEMMA AppendSeq ==
  ASSUME NEW S, NEW s \in Seq(S), NEW t \in Seq(S)
  PROVE  /\ s \o t \in Seq(S) /\ Len(s \o t) = Len(s) + Len(t)
         /\ \A n \in 1..Len(s) : (s \o t)[n] = s[n]
         /\ \A n \in 1..Len(t) : (s \o t)[n + Len(s)] = t[n]
OBVIOUS

\* One list after another, each in order, is in order.
LEMMA AppendInOrder ==
  ASSUME NEW have, NEW s, NEW t, InOrder(have, s), InOrder(have, t)
  PROVE  InOrder(have, s \o t)
<1> DEFINE u == s \o t
<1>1. /\ s \in Seq(Statements) /\ t \in Seq(Statements) /\ Len(s) \in Nat /\ Len(t) \in Nat
      /\ u \in Seq(Statements) /\ Len(u) = Len(s) + Len(t)
      /\ \A n \in 1..Len(s) : u[n] = s[n]
      /\ \A n \in 1..Len(t) : u[n + Len(s)] = t[n]
  BY AppendSeq DEF InOrder
<1> SUFFICES ASSUME NEW n \in 1..Len(u)
             PROVE  /\ Allowed(u[n])
                    /\ \A j \in Journal : Needs(u[n], j)
                         => j \in have \/ \E m \in 1..(n - 1) : Posts(u[m], j)
  BY <1>1 DEF InOrder
<1> HIDE DEF u
<1>2. CASE n \in 1..Len(s)
  <2>1. u[n] = s[n] /\ \A m \in 1..(n - 1) : u[m] = s[m]
    BY <1>1, <1>2
  <2> QED BY <1>2, <2>1 DEF InOrder
<1>3. CASE n \notin 1..Len(s)
  <2> DEFINE i == n - Len(s)
  <2>1. i \in 1..Len(t) /\ n = i + Len(s) /\ u[n] = t[i]
    <3>1. i \in 1..Len(t) /\ n = i + Len(s)
      BY <1>1, <1>3
    <3> HIDE DEF i
    <3> QED BY <1>1, <3>1
  <2>2. \A m \in 1..(i - 1) : m + Len(s) \in 1..(n - 1) /\ u[m + Len(s)] = t[m]
    BY <1>1, <2>1
  <2>3. Allowed(t[i]) /\ \A j \in Journal : Needs(t[i], j)
                           => j \in have \/ \E m \in 1..(i - 1) : Posts(t[m], j)
    BY <2>1 DEF InOrder
  <2> HIDE DEF i
  <2> QED BY <2>1, <2>2, <2>3
<1> QED BY <1>2, <1>3

\* When the first statement is done, the rest is in order for what is on the ledger then.
LEMMA RestInOrder ==
  ASSUME NEW have, NEW more, have \subseteq more, NEW t, t # <<>>, InOrder(have, t),
         \A j \in Journal : Posts(Head(t), j) => j \in more
  PROVE  InOrder(more, Tail(t))
<1>1. /\ t \in Seq(Statements) /\ Tail(t) \in Seq(Statements) /\ Len(Tail(t)) = Len(t) - 1
      /\ Head(t) = t[1] /\ \A n \in 1..Len(Tail(t)) : n + 1 \in 1..Len(t) /\ Tail(t)[n] = t[n + 1]
  BY DEF InOrder
<1> SUFFICES ASSUME NEW n \in 1..Len(Tail(t))
             PROVE  /\ Allowed(Tail(t)[n])
                    /\ \A j \in Journal : Needs(Tail(t)[n], j)
                         => j \in more \/ \E m \in 1..(n - 1) : Posts(Tail(t)[m], j)
  BY <1>1 DEF InOrder
<1>2. Tail(t)[n] = t[n + 1] /\ n + 1 \in 1..Len(t)
  BY <1>1
<1>3. Allowed(t[n + 1])
  BY <1>2 DEF InOrder
<1>4. ASSUME NEW j \in Journal, Needs(t[n + 1], j), j \notin more
      PROVE  \E m \in 1..(n - 1) : Posts(Tail(t)[m], j)
  <2>1. PICK m \in 1..n : Posts(t[m], j)
    BY <1>2, <1>4 DEF InOrder
  <2>2. m # 1
    BY <1>1, <1>4, <2>1
  <2>3. m - 1 \in 1..(n - 1) /\ Tail(t)[m - 1] = t[m]
    BY <1>1, <2>1, <2>2
  <2> QED BY <2>1, <2>3
<1> QED BY <1>2, <1>3, <1>4

LEMMA RestUnlocks ==
  ASSUME NEW t \in Seq(Statements), t # <<>>, OneUnlock(t)
  PROVE  /\ OneUnlock(Tail(t))
         /\ Unlocks(Tail(t)) => Unlocks(t)
         /\ Head(t).do = "unlock" => ~Unlocks(Tail(t))
<1>1. /\ Len(Tail(t)) = Len(t) - 1 /\ Len(t) \in Nat /\ Head(t) = t[1] /\ Len(t) > 0
      /\ \A n \in 1..Len(Tail(t)) : n + 1 \in 1..Len(t) /\ Tail(t)[n] = t[n + 1]
  OBVIOUS
<1>2. \A n \in 1..Len(Tail(t)) : Tail(t)[n].do = "unlock" => n = 1 /\ t[1].do = "post"
  BY <1>1 DEF OneUnlock
<1> QED BY <1>1, <1>2 DEF OneUnlock, Unlocks

LEMMA AppendUnlocks ==
  ASSUME NEW s \in Seq(Statements), NEW t \in Seq(Statements), ~Unlocks(s), ~Unlocks(t)
  PROVE  ~Unlocks(s \o t)
<1> DEFINE u == s \o t
<1>1. /\ Len(s) \in Nat /\ Len(t) \in Nat /\ Len(u) = Len(s) + Len(t)
      /\ \A n \in 1..Len(s) : u[n] = s[n]
      /\ \A n \in 1..Len(t) : u[n + Len(s)] = t[n]
  BY AppendSeq
<1> HIDE DEF u
<1>2. \A n \in 1..Len(u) : n \in 1..Len(s) \/ (n - Len(s) \in 1..Len(t) /\ n = (n - Len(s)) + Len(s))
  BY <1>1
<1>3. ~Unlocks(u)
  BY <1>1, <1>2 DEF Unlocks
<1> QED BY <1>3 DEF u

-----------------------------------------------------------------------------
\* The lists the handlers start with.
LEMMA StatementTypes ==
  /\ \A type \in Journal : Post(type) \in Statements
  /\ \A from \in State, to \in State : Move(from, to) \in Statements /\ Try(from, to) \in Statements
  /\ \A what \in Plain : Do(what) \in Statements
<1>1. "NONE" \in State
  BY DEF State, NEXT
<1>2. \A type \in Journal : Post(type) \in Statements
  BY <1>1 DEF Post, Statements
<1>3. \A what \in Plain : Do(what) \in Statements
  BY <1>1 DEF Do, Statements
<1>4. ASSUME NEW from \in State, NEW to \in State
      PROVE  Move(from, to) \in Statements /\ Try(from, to) \in Statements
  BY <1>1 DEF Move, Try, Statements
<1> QED BY <1>2, <1>3, <1>4

\* What each statement needs.
LEMMA StatementNeeds ==
  /\ \A type : Posts(Post(type), type) /\ Allowed(Post(type)) /\ Post(type).do = "post"
               /\ \A j : ~Needs(Post(type), j)
  /\ \A what \in Plain : Allowed(Do(what)) /\ Do(what).do = what
  /\ \A j : /\ Needs(Do("request"), j) => j = "initiated"
            /\ Needs(Do("stamp"), j) => j = "collected"
            /\ Needs(Do("release"), j) => j = "released"
            /\ ~Needs(Do("reserve"), j) /\ ~Needs(Do("unhold"), j) /\ ~Needs(Do("unlock"), j)
BY DEF Plain, Post, Do, Needs, Posts, Allowed

LEMMA MoveNeeds ==
  ASSUME NEW from \in State, NEW to \in NEXT[from], NEW s \in {Move(from, to), Try(from, to)}
  PROVE  /\ s \in Statements /\ Allowed(s) /\ s.do = "move"
         /\ \A j : Needs(s, j) <=>
              \/ j = "initiated" /\ to \in {"INITIATED", "IN_TRANSIT", "SETTLED", "FAILED", "REVERSED"}
              \/ j = "settled" /\ to \in {"SETTLED", "REVERSED"}
              \/ j = "failed" /\ to = "FAILED"
              \/ j = "reversed" /\ to = "REVERSED"
              \/ j = "cancelled" /\ to = "CANCELLED"
<1>1. to \in State
  BY DEF State, NEXT
<1>2. s \in Statements
  BY <1>1, StatementTypes
<1>3. s.do = "move" /\ s.what = from /\ s.to = to
  <2>1. CASE s = Move(from, to)
    BY <2>1 DEF Move
  <2>2. CASE s = Try(from, to)
    BY <2>2 DEF Move, Try
  <2> QED BY <2>1, <2>2
<1> QED BY <1>2, <1>3 DEF Needs, Allowed

\* A journal posted first is there for all that comes after it.
LEMMA PostFirstInOrder ==
  ASSUME NEW have, NEW j \in Journal, NEW t \in Seq(Statements), Len(t) > 0, t[1] = Post(j),
         \A n \in 2..Len(t) : /\ Allowed(t[n])
                              /\ \A i \in Journal : Needs(t[n], i) => i \in have \/ i = j
  PROVE  InOrder(have, t)
<1>1. Len(t) \in Nat /\ Allowed(t[1]) /\ Posts(t[1], j) /\ \A i : ~Needs(t[1], i)
  BY StatementNeeds
<1> SUFFICES ASSUME NEW n \in 1..Len(t), n # 1
             PROVE  /\ Allowed(t[n])
                    /\ \A i \in Journal : Needs(t[n], i)
                         => i \in have \/ \E m \in 1..(n - 1) : Posts(t[m], i)
  BY <1>1 DEF InOrder
<1>2. n \in 2..Len(t) /\ 1 \in 1..(n - 1)
  BY <1>1
<1> QED BY <1>1, <1>2

LEMMA Pairs ==
  ASSUME NEW S, NEW a \in S, NEW b \in S
  PROVE  LET t == <<a, b>>
         IN  t \in Seq(S) /\ Len(t) = 2 /\ t[1] = a /\ t[2] = b /\ t # <<>>
OBVIOUS

LEMMA Fours ==
  ASSUME NEW S, NEW a \in S, NEW b \in S, NEW c \in S, NEW d \in S
  PROVE  LET t == <<a, b, c, d>>
         IN  /\ t \in Seq(S) /\ Len(t) = 4 /\ t # <<>>
             /\ t[1] = a /\ t[2] = b /\ t[3] = c /\ t[4] = d
OBVIOUS

LEMMA Singles ==
  ASSUME NEW have, NEW s \in Statements, Allowed(s), \A j \in Journal : Needs(s, j) => j \in have,
         s.do # "unlock"
  PROVE  InOrder(have, <<s>>) /\ ~Unlocks(<<s>>)
<1> DEFINE t == <<s>>
<1>1. t \in Seq(Statements) /\ Len(t) = 1 /\ t[1] = s
  OBVIOUS
<1> HIDE DEF t
<1>2. \A n \in 1..Len(t) : t[n] = s
  BY <1>1
<1>3. InOrder(have, t) /\ ~Unlocks(t)
  BY <1>1, <1>2 DEF InOrder, Unlocks
<1> QED BY <1>3 DEF t

\* A journal and one statement that needs no other.
LEMMA PostAndInOrder ==
  ASSUME NEW have, NEW j \in Journal, NEW s \in Statements, Allowed(s), s.do # "unlock",
         \A i : Needs(s, i) => i \in have \/ i = j
  PROVE  LET t == <<Post(j), s>>
         IN  InOrder(have, t) /\ t # <<>> /\ ~Unlocks(t)
<1> DEFINE t == <<Post(j), s>>
<1>1. Post(j) \in Statements /\ Post(j).do = "post"
  BY StatementTypes, StatementNeeds DEF Journal, Plain
<1>2. t \in Seq(Statements) /\ Len(t) = 2 /\ t[1] = Post(j) /\ t[2] = s /\ t # <<>>
  BY <1>1, Pairs
<1> HIDE DEF t
<1>3. \A n \in 2..Len(t) : n = 2
  BY <1>2
<1>4. InOrder(have, t)
  BY <1>2, <1>3, PostFirstInOrder
<1>5. ~Unlocks(t)
  <2>1. \A n \in 1..Len(t) : n = 1 \/ n = 2
    BY <1>2
  <2> QED BY <1>1, <1>2, <2>1 DEF Unlocks
<1> QED BY <1>2, <1>4, <1>5 DEF t

LEMMA SyncInOrder ==
  ASSUME NEW have
  PROVE  InOrder(have, SyncScript) /\ SyncScript # <<>> /\ ~Unlocks(SyncScript)
BY PostAndInOrder, StatementTypes, StatementNeeds DEF SyncScript, Journal, Plain

LEMMA ReleaseInOrder ==
  ASSUME NEW have
  PROVE  LET t == <<Post("released"), Do("release")>>
         IN  InOrder(have, t) /\ t # <<>> /\ ~Unlocks(t)
BY PostAndInOrder, StatementTypes, StatementNeeds DEF Journal, Plain

LEMMA CancelInOrder ==
  ASSUME NEW have, NEW from \in State, NEW heldFrom, canMove(from, "CANCELLED", heldFrom)
  PROVE  LET t == <<Post("cancelled"), Move(from, "CANCELLED")>>
         IN  InOrder(have, t) /\ t # <<>> /\ ~Unlocks(t)
<1>1. "CANCELLED" \in NEXT[from]
  BY DEF canMove
<1> DEFINE s == Move(from, "CANCELLED")
<1>2. s \in Statements /\ Allowed(s) /\ s.do = "move" /\ \A i : Needs(s, i) => i = "cancelled"
  BY <1>1, MoveNeeds
<1> HIDE DEF s
<1>3. "cancelled" \in Journal
  BY DEF Journal
<1>4. LET t == <<Post("cancelled"), s>> IN InOrder(have, t) /\ t # <<>> /\ ~Unlocks(t)
  BY <1>2, <1>3, PostAndInOrder
<1> QED BY <1>4 DEF s

LEMMA InitiateInOrder ==
  ASSUME NEW have, NEW s \in InitiateScripts
  PROVE  InOrder(have, s) /\ s # <<>> /\ ~Unlocks(s)
<1> DEFINE Initiate == Move("PENDING", "INITIATED")
           Park == Move("PENDING", "HELD")
<1>1. /\ Initiate \in Statements /\ Allowed(Initiate) /\ Initiate.do = "move"
      /\ \A i : Needs(Initiate, i) => i = "initiated"
      /\ Park \in Statements /\ Allowed(Park) /\ Park.do = "move" /\ \A i : ~Needs(Park, i)
  <2>1. "PENDING" \in State /\ "INITIATED" \in NEXT["PENDING"] /\ "HELD" \in NEXT["PENDING"]
    BY DEF State, NEXT
  <2> QED BY <2>1, MoveNeeds
<1>2. "initiated" \in Journal
  BY DEF Journal
<1>3. s \in {<<Post("initiated"), Do("request"), Do("reserve"), Initiate>>, <<Post("initiated"), Park>>}
  BY DEF InitiateScripts
<1> HIDE DEF Initiate, Park
<1>4. CASE s = <<Post("initiated"), Park>>
  BY <1>1, <1>2, <1>4, PostAndInOrder
<1>5. CASE s = <<Post("initiated"), Do("request"), Do("reserve"), Initiate>>
  <2>1. Post("initiated") \in Statements /\ Do("request") \in Statements /\ Do("reserve") \in Statements
    BY StatementTypes DEF Plain, Journal
  <2>2. /\ s \in Seq(Statements) /\ Len(s) = 4 /\ s # <<>> /\ s[1] = Post("initiated")
        /\ s[2] = Do("request") /\ s[3] = Do("reserve") /\ s[4] = Initiate
    BY <1>1, <1>5, <2>1, Fours
  <2>3. \A n \in 1..Len(s) : n \in {1, 2, 3, 4}
    BY <2>2
  <2>4. /\ Allowed(s[2]) /\ Allowed(s[3]) /\ Allowed(s[4])
        /\ \A i : Needs(s[2], i) \/ Needs(s[3], i) \/ Needs(s[4], i) => i = "initiated"
    BY <1>1, <2>2, StatementNeeds DEF Plain
  <2>5. InOrder(have, s)
    <3>1. \A n \in 2..Len(s) : n \in {2, 3, 4}
      BY <2>2
    <3> QED BY <1>2, <2>2, <2>4, <3>1, PostFirstInOrder
  <2>6. s[1].do # "unlock" /\ s[2].do # "unlock" /\ s[3].do # "unlock" /\ s[4].do # "unlock"
    BY <1>1, <2>2, StatementNeeds DEF Plain
  <2> QED BY <2>2, <2>3, <2>5, <2>6 DEF Unlocks
<1> QED BY <1>3, <1>4, <1>5

LEMMA UnderTheLockInOrder ==
  ASSUME NEW have, NEW s \in InitiateScripts
  PROVE  InOrder(have, UnderTheLock(s)) /\ UnderTheLock(s) # <<>> /\ OneUnlock(UnderTheLock(s))
<1> DEFINE a == <<Post("initiated")>>
           b == <<Do("unlock")>>
           u == (a \o b) \o s
<1>1. /\ Post("initiated") \in Statements /\ Allowed(Post("initiated")) /\ Post("initiated").do = "post"
      /\ Do("unlock") \in Statements /\ Allowed(Do("unlock")) /\ Do("unlock").do = "unlock"
      /\ \A j : ~Needs(Post("initiated"), j) /\ ~Needs(Do("unlock"), j)
  BY StatementTypes, StatementNeeds DEF Plain, Journal
<1>2. /\ a \in Seq(Statements) /\ b \in Seq(Statements) /\ Len(a) = 1 /\ Len(b) = 1
      /\ a[1] = Post("initiated") /\ b[1] = Do("unlock")
  BY <1>1
<1>3. InOrder(have, a) /\ InOrder(have, b)
  BY <1>1, <1>2 DEF InOrder
<1>4. InOrder(have, s) /\ ~Unlocks(s) /\ s \in Seq(Statements)
  BY InitiateInOrder DEF InOrder
<1>5. UnderTheLock(s) = u
  BY DEF UnderTheLock, PostFirst
<1> HIDE DEF a, b
<1>6. InOrder(have, u)
  BY <1>3, <1>4, AppendInOrder
<1>7. /\ a \o b \in Seq(Statements) /\ Len(a \o b) = 2
      /\ (a \o b)[1] = Post("initiated") /\ (a \o b)[2] = Do("unlock")
  <2>1. /\ a \o b \in Seq(Statements) /\ Len(a \o b) = Len(a) + Len(b)
        /\ \A n \in 1..Len(a) : (a \o b)[n] = a[n]
        /\ \A n \in 1..Len(b) : (a \o b)[n + Len(a)] = b[n]
    BY <1>2, AppendSeq
  <2> QED BY <1>2, <2>1
<1> DEFINE ab == a \o b
<1>8. /\ u \in Seq(Statements) /\ Len(u) = 2 + Len(s) /\ Len(s) \in Nat
      /\ u[1] = Post("initiated") /\ u[2] = Do("unlock")
      /\ \A n \in 1..Len(s) : u[n + 2] = s[n]
  <2>1. ab \in Seq(Statements) /\ Len(ab) = 2 /\ ab[1] = Post("initiated") /\ ab[2] = Do("unlock") /\ u = ab \o s
    BY <1>7
  <2> HIDE DEF ab, u
  <2>2. /\ u \in Seq(Statements) /\ Len(u) = Len(ab) + Len(s)
        /\ \A n \in 1..Len(ab) : u[n] = ab[n]
        /\ \A n \in 1..Len(s) : u[n + Len(ab)] = s[n]
    <3>1. ab \in Seq(Statements) /\ s \in Seq(Statements) /\ u = ab \o s
      BY <1>4, <2>1
    <3> QED BY <3>1
  <2> QED BY <1>4, <2>1, <2>2
<1> HIDE DEF u
<1>9. u # <<>>
  BY <1>8
<1>10. OneUnlock(u)
  <2> SUFFICES ASSUME NEW n \in 1..Len(u), u[n].do = "unlock" PROVE n = 1 \/ (n = 2 /\ u[1].do = "post")
    BY DEF OneUnlock
  <2>1. CASE n \in {1, 2}
    BY <1>1, <1>8, <2>1
  <2>2. CASE n \notin {1, 2}
    <3>1. n - 2 \in 1..Len(s) /\ u[n] = s[n - 2]
      BY <1>8, <2>2
    <3> QED BY <1>4, <3>1 DEF Unlocks
  <2> QED BY <2>1, <2>2
<1> QED BY <1>5, <1>6, <1>9, <1>10

-----------------------------------------------------------------------------
\* What the engine decides on a request's status.
MoveTo(have, at, want) ==
  /\ at \in State /\ want \in NEXT[at]
  /\ "initiated" \in have /\ (at = "SETTLED" => "settled" \in have)
  /\ want # "CANCELLED"

\* The journals of a move, and the move.
LEMMA BookedMoveInOrder ==
  ASSUME NEW have, NEW at, NEW want, MoveTo(have, at, want)
  PROVE  LET books == IF want \in DOMAIN Booked THEN Booked[want] ELSE <<>>
         IN  InOrder(have, BooksFirst(at, want, books)) /\ ~Unlocks(BooksFirst(at, want, books))
<1> DEFINE move == Move(at, want)
           books == IF want \in DOMAIN Booked THEN Booked[want] ELSE <<>>
           u == books \o <<move>>
           unhold == Do("unhold")
<1>1. /\ move \in Statements /\ Allowed(move) /\ move.do = "move"
      /\ \A j : Needs(move, j) <=>
           \/ j = "initiated" /\ want \in {"INITIATED", "IN_TRANSIT", "SETTLED", "FAILED", "REVERSED"}
           \/ j = "settled" /\ want \in {"SETTLED", "REVERSED"}
           \/ j = "failed" /\ want = "FAILED"
           \/ j = "reversed" /\ want = "REVERSED"
           \/ j = "cancelled" /\ want = "CANCELLED"
  <2> HIDE DEF move
  <2> QED BY MoveNeeds DEF MoveTo, move
<1>2. /\ unhold \in Statements /\ Allowed(unhold) /\ unhold.do = "unhold" /\ \A j : ~Needs(unhold, j)
  BY StatementTypes, StatementNeeds DEF Plain
<1>3. <<move>> \in Seq(Statements) /\ Len(<<move>>) = 1 /\ <<move>>[1] = move
  BY <1>1
<1>4. BooksFirst(at, want, books) = u
  BY DEF BooksFirst
<1>5. want = "REVERSED" => at = "SETTLED"
  BY DEF MoveTo, State, NEXT
<1>6. \A j \in Journal : /\ Post(j) \in Statements /\ Post(j).do = "post"
  BY StatementTypes, StatementNeeds
<1> HIDE DEF move, unhold
<1>7. CASE want = "SETTLED"
  <2>1. books = <<Post("settled")>>
    BY <1>7 DEF Booked
  <2> DEFINE p == Post("settled")
             a == <<p>>
  <2>2. "settled" \in Journal /\ p \in Statements /\ p.do = "post"
    BY <1>6 DEF Journal
  <2>3. a \in Seq(Statements) /\ Len(a) = 1 /\ a[1] = p
    BY <2>2
  <2> HIDE DEF a
  <2>4. a \o <<move>> \in Seq(Statements) /\ Len(a \o <<move>>) = 2
        /\ (a \o <<move>>)[1] = p /\ (a \o <<move>>)[2] = move
    <3> DEFINE v == a \o <<move>>
    <3>1. /\ v \in Seq(Statements) /\ Len(v) = Len(a) + 1 /\ v[Len(a) + 1] = move
          /\ \A n \in 1..Len(a) : v[n] = a[n]
      <4>1. move \in Statements /\ a \in Seq(Statements)
        BY <1>1, <2>3
      <4> QED BY <4>1
    <3> HIDE DEF v
    <3>2. Len(v) = 2 /\ v[1] = a[1] /\ v[2] = move /\ v[1] = a[1]
      BY <2>3, <3>1
    <3> QED BY <2>3, <3>1, <3>2 DEF v
  <2>5. u \in Seq(Statements) /\ Len(u) = 2 /\ u[1] = p /\ u[2] = move
    BY <2>1, <2>4 DEF a
  <2> HIDE DEF u
  <2>6. \A n \in 2..Len(u) : n = 2
    BY <2>5
  <2>7. \A j : Needs(move, j) => j \in have \/ j = "settled"
    BY <1>1, <1>7 DEF MoveTo
  <2>8. InOrder(have, u)
    BY <1>1, <2>2, <2>5, <2>6, <2>7, PostFirstInOrder
  <2>9. ~Unlocks(u)
    <3>1. \A n \in 1..Len(u) : n = 1 \/ n = 2
      BY <2>5
    <3> QED BY <1>1, <2>2, <2>5, <3>1 DEF Unlocks
  <2> QED BY <1>4, <2>8, <2>9
<1>8. CASE want \in {"FAILED", "REVERSED"}
  <2> DEFINE j == IF want = "FAILED" THEN "failed" ELSE "reversed"
             p == Post(j)
             a == <<p, unhold>>
  <2>1. books = a
    BY <1>8 DEF Booked, unhold
  <2>2. j \in Journal /\ p \in Statements /\ p.do = "post"
    BY <1>6 DEF Journal
  <2>3. a \in Seq(Statements) /\ Len(a) = 2 /\ a[1] = p /\ a[2] = unhold
    BY <1>2, <2>2, Pairs
  <2> HIDE DEF a
  <2>4. a \o <<move>> \in Seq(Statements) /\ Len(a \o <<move>>) = 3 /\ (a \o <<move>>)[1] = p
        /\ (a \o <<move>>)[2] = unhold /\ (a \o <<move>>)[3] = move
    <3> DEFINE v == a \o <<move>>
    <3>1. /\ v \in Seq(Statements) /\ Len(v) = Len(a) + 1 /\ v[Len(a) + 1] = move
          /\ \A n \in 1..Len(a) : v[n] = a[n]
      <4>1. move \in Statements /\ a \in Seq(Statements)
        BY <1>1, <2>3
      <4> QED BY <4>1
    <3> HIDE DEF v
    <3>2. Len(v) = 3 /\ v[1] = a[1] /\ v[3] = move /\ v[2] = a[2]
      BY <2>3, <3>1
    <3> QED BY <2>3, <3>1, <3>2 DEF v
  <2>5. u \in Seq(Statements) /\ Len(u) = 3 /\ u[1] = p /\ u[2] = unhold /\ u[3] = move
    BY <2>1, <2>4
  <2> HIDE DEF u
  <2>6. \A n \in 2..Len(u) : n = 2 \/ n = 3
    BY <2>5
  <2>7. \A i : Needs(move, i) => i \in have \/ i = j
    BY <1>1, <1>5, <1>8 DEF MoveTo
  <2>8. u[1] = Post(j)
    BY <2>5
  <2> HIDE DEF j, p
  <2>9. InOrder(have, u)
    BY <1>1, <1>2, <2>2, <2>5, <2>6, <2>7, <2>8, PostFirstInOrder
  <2>10. ~Unlocks(u)
    <3>1. \A n \in 1..Len(u) : n = 1 \/ n = 2 \/ n = 3
      BY <2>5
    <3> QED BY <1>1, <1>2, <2>2, <2>5, <3>1 DEF Unlocks
  <2> QED BY <1>4, <2>9, <2>10
<1>9. CASE want \notin {"SETTLED", "FAILED", "REVERSED"}
  <2>1. books = <<>>
    BY <1>9 DEF Booked
  <2>2. \A j : Needs(move, j) => j \in have
    BY <1>1, <1>9 DEF MoveTo
  <2>3. InOrder(have, <<move>>) /\ ~Unlocks(<<move>>)
    BY <1>1, <2>2, Singles
  <2>4. InOrder(have, <<>>) /\ <<>> \in Seq(Statements) /\ ~Unlocks(<<>>)
    BY EmptyInOrder DEF Unlocks
  <2> QED BY <1>3, <1>4, <2>1, <2>3, <2>4, AppendInOrder, AppendUnlocks
<1> QED BY <1>7, <1>8, <1>9

\* What is done before the move itself.
BeforeFine(have, seen, b) ==
  /\ InOrder(have, b.moves) /\ ~Unlocks(b.moves)
  /\ b.at \in State /\ (b.at = "SETTLED" => seen = "SETTLED")

LEMMA BeforeInOrder ==
  ASSUME NEW have, NEW seen \in {"INITIATED", "IN_TRANSIT", "HELD", "SETTLED"}, NEW heldFrom,
         seen = "HELD" => heldFrom \in Holdable, "initiated" \in have, NEW want
  PROVE  BeforeFine(have, seen, Before(seen, heldFrom, want))
<1> DEFINE b == Before(seen, heldFrom, want)
           Fine(m) == InOrder(have, m) /\ ~Unlocks(m)
<1> SUFFICES BeforeFine(have, seen, b)
  OBVIOUS
<1>1. Fine(<<>>)
  BY EmptyInOrder DEF Unlocks
<1>2. ASSUME NEW from \in State, NEW to \in NEXT[from], to \in Holdable,
             NEW s \in {Move(from, to), Try(from, to)}
      PROVE  s \in Statements /\ s.do = "move" /\ Fine(<<s>>)
  <2>1. s \in Statements /\ Allowed(s) /\ s.do = "move" /\ \A j : Needs(s, j) => j \in have
    BY <1>2, MoveNeeds DEF Holdable
  <2> QED BY <2>1, Singles
<1>3. /\ {"INITIATED", "IN_TRANSIT", "HELD", "SETTLED", "PENDING"} \subseteq State
      /\ "IN_TRANSIT" \in NEXT["INITIATED"] /\ Holdable \subseteq NEXT["HELD"]
      /\ "IN_TRANSIT" \in Holdable /\ "INITIATED" \in Holdable
  BY DEF State, NEXT, Holdable
<1>4. CASE want = "SETTLED" /\ seen = "INITIATED"
  <2>1. b = [moves |-> <<Move("INITIATED", "IN_TRANSIT")>>, at |-> "IN_TRANSIT"]
    BY <1>4 DEF Before
  <2> HIDE DEF b
  <2> QED BY <1>2, <1>3, <2>1 DEF BeforeFine
<1>5. CASE want = "SETTLED" /\ seen = "HELD" /\ heldFrom = "INITIATED"
  <2> DEFINE s == Move("HELD", "INITIATED")
             t == Try("INITIATED", "IN_TRANSIT")
             u == <<s, t>>
  <2>1. b = [moves |-> u, at |-> "IN_TRANSIT"]
    BY <1>5 DEF Before
  <2>2. /\ s \in Statements /\ Allowed(s) /\ s.do = "move" /\ \A j : Needs(s, j) => j \in have
        /\ t \in Statements /\ Allowed(t) /\ t.do = "move" /\ \A j : Needs(t, j) => j \in have
    BY <1>3, MoveNeeds
  <2> HIDE DEF s, t
  <2>3. u \in Seq(Statements) /\ Len(u) = 2 /\ u[1] = s /\ u[2] = t
    BY <2>2, Pairs
  <2> HIDE DEF u, b
  <2>4. \A n \in 1..Len(u) : n = 1 \/ n = 2
    BY <2>3
  <2>5. InOrder(have, u) /\ ~Unlocks(u)
    BY <2>2, <2>3, <2>4 DEF InOrder, Unlocks
  <2> QED BY <1>3, <2>1, <2>5 DEF BeforeFine
<1>6. CASE want = "IN_TRANSIT" /\ seen = "HELD" /\ heldFrom = "INITIATED"
  <2>1. b = [moves |-> <<Move("HELD", "INITIATED")>>, at |-> "INITIATED"]
    BY <1>6 DEF Before
  <2> HIDE DEF b
  <2> QED BY <1>2, <1>3, <2>1 DEF BeforeFine
<1>7. CASE want = "SETTLED" /\ seen = "HELD" /\ heldFrom # "INITIATED"
  <2>1. b = [moves |-> <<Move("HELD", heldFrom)>>, at |-> heldFrom]
    BY <1>7 DEF Before
  <2>2. heldFrom \in Holdable /\ heldFrom \in State /\ heldFrom # "SETTLED"
    BY <1>7 DEF Holdable, State, NEXT
  <2> HIDE DEF b
  <2> QED BY <1>2, <1>3, <2>1, <2>2 DEF BeforeFine
<1>8. CASE ~ \/ want = "SETTLED" /\ seen = "INITIATED"
             \/ want = "SETTLED" /\ seen = "HELD" /\ heldFrom = "INITIATED"
             \/ want = "IN_TRANSIT" /\ seen = "HELD" /\ heldFrom = "INITIATED"
             \/ want = "SETTLED" /\ seen = "HELD" /\ heldFrom # "INITIATED"
  <2>1. b = [moves |-> <<>>, at |-> seen]
    BY <1>8 DEF Before
  <2> HIDE DEF b
  <2> QED BY <1>1, <1>3, <2>1 DEF BeforeFine
<1> HIDE DEF b
<1> QED BY <1>4, <1>5, <1>6, <1>7, <1>8

LEMMA PlanInOrder ==
  ASSUME NEW have, NEW seen \in {"INITIATED", "IN_TRANSIT", "HELD", "SETTLED"}, NEW heldFrom,
         seen = "HELD" => heldFrom \in Holdable, "initiated" \in have,
         seen = "SETTLED" => "settled" \in have, NEW status
  PROVE  InOrder(have, Plan(seen, heldFrom, status)) /\ ~Unlocks(Plan(seen, heldFrom, status))
<1> DEFINE s == stateForBranchStatus(status)
           want == IF s = "none" /\ seen = "HELD" THEN heldFrom ELSE s
           b == Before(seen, heldFrom, want)
           books == IF want \in DOMAIN Booked THEN Booked[want] ELSE <<>>
           final == BooksFirst(b.at, want, books)
           p == Plan(seen, heldFrom, status)
<1>1. want # "CANCELLED"
  BY DEF stateForBranchStatus, Holdable
<1>2. p \in {<<>>, b.moves, b.moves \o final} /\ (p = b.moves \o final /\ p \notin {<<>>, b.moves} => canMove(b.at, want, heldFrom))
  BY DEF Plan
<1> HIDE DEF s, want, p
<1>3. /\ InOrder(have, b.moves) /\ ~Unlocks(b.moves)
      /\ b.at \in State /\ (b.at = "SETTLED" => seen = "SETTLED")
  <2>1. BeforeFine(have, seen, b)
    BY BeforeInOrder
  <2> HIDE DEF b
  <2> QED BY <2>1 DEF BeforeFine
<1>4. InOrder(have, <<>>) /\ ~Unlocks(<<>>)
  BY EmptyInOrder DEF Unlocks
<1>5. ASSUME canMove(b.at, want, heldFrom)
      PROVE  InOrder(have, b.moves \o final) /\ ~Unlocks(b.moves \o final)
  <2>1. MoveTo(have, b.at, want)
    BY <1>1, <1>3, <1>5 DEF MoveTo, canMove
  <2>2. InOrder(have, final) /\ ~Unlocks(final)
    BY <2>1, BookedMoveInOrder
  <2>3. b.moves \in Seq(Statements) /\ final \in Seq(Statements)
    BY <1>3, <2>2 DEF InOrder
  <2> QED BY <1>3, <2>2, <2>3, AppendInOrder, AppendUnlocks
<1>6. InOrder(have, p) /\ ~Unlocks(p)
  BY <1>2, <1>3, <1>4, <1>5
<1> QED BY <1>6 DEF p

-----------------------------------------------------------------------------
\* What a step of worker w leaves to the others.
Kept(w) ==
  /\ posted \subseteq posted'
  /\ \A v \in Worker \ {w} : call'[v] = call[v] /\ (lock = v => lock' = v)
  /\ \A k \in Key : instr[k].state = "NONE" /\ lock # w => instr'[k].state = "NONE"

LEMMA OthersKeep ==
  ASSUME NEW w \in Worker, Kept(w), NEW v \in Worker \ {w}, CallInv(v)
  PROVE  CallInv(v)'
<1> SUFFICES ASSUME NEW c, c = call[v]
             PROVE  CallInv(v)'
  OBVIOUS
<1>1. c = call'[v] /\ v # w /\ (lock = v => lock' = v)
  BY DEF Kept
<1>2. \A k : On(k) \subseteq On(k)' /\ \A j : Has(j, k) => Has(j, k)'
  BY DEF Kept, On, Has
<1>3. /\ c.pc \in {"lock", "balance", "insert", "status"} => c.key \in Key
      /\ c.pc \in {"balance", "insert"} => lock' = v /\ instr'[c.key].state = "NONE"
      /\ c.pc = "status" => /\ c.seen \in {"INITIATED", "IN_TRANSIT", "HELD", "SETTLED"}
                            /\ Has("initiated", c.key)
                            /\ c.seen = "SETTLED" => Has("settled", c.key)
                            /\ c.seen = "HELD" => c.heldFrom \in Holdable
      /\ c.pc = "run" => /\ c.todo # <<>>
                         /\ InOrder(On(c.key), c.todo)
                         /\ OneUnlock(c.todo)
                         /\ Unlocks(c.todo) => lock' = v
  BY <1>1 DEF CallInv, Kept
<1>4. c.pc = "run" => InOrder(On(c.key)', c.todo)
  BY <1>2, <1>3, MoreIsEnough
<1> QED BY <1>1, <1>2, <1>3, <1>4 DEF CallInv

LEMMA BecomesIs ==
  ASSUME TablesInv, NEW w \in Worker, NEW c, Becomes(w, c)
  PROVE  /\ call'[w] = c /\ \A v \in Worker \ {w} : call'[v] = call[v]
         /\ DOMAIN call' = Worker /\ call' = [v \in Worker |-> call'[v]]
BY DEF TablesInv, Becomes

LEMMA StartsDoing ==
  ASSUME NEW w \in Worker, NEW k, NEW t, call'[w] = Doing(k, t),
         InOrder(On(k)', t), OneUnlock(t), Unlocks(t) => lock' = w
  PROVE  CallInv(w)'
<1>1. CASE t = <<>>
  BY <1>1 DEF CallInv, Doing, Idle
<1>2. CASE t # <<>>
  <2> DEFINE c == [Idle EXCEPT !.pc = "run", !.key = k, !.todo = t]
  <2>1. call'[w] = c
    BY <1>2 DEF Doing
  <2>2. c.pc = "run" /\ c.key = k /\ c.todo = t
    BY DEF Idle
  <2> HIDE DEF c
  <2> QED BY <1>2, <2>1, <2>2 DEF CallInv
<1> QED BY <1>1, <1>2

\* Handlers that hold no lock.
LEMMA StartsPlain ==
  ASSUME NEW w \in Worker, NEW k, NEW t, call'[w] = Doing(k, t), InOrder(On(k)', t), ~Unlocks(t)
  PROVE  CallInv(w)'
<1>1. OneUnlock(t)
  BY DEF Unlocks, OneUnlock
<1> QED BY <1>1, StartsDoing

LEMMA BecomesIdle == ASSUME NEW w \in Worker, call'[w] = Idle PROVE CallInv(w)'
BY DEF CallInv, Idle

\* The statement at the head of a list may be carried out.
LEMMA HeadIsReady ==
  ASSUME NEW w \in Worker, CallInv(w), call[w].pc = "run"
  PROVE  LET s == Head(call[w].todo)
         IN  /\ s \in Statements /\ Allowed(s)
             /\ \A j \in Journal : Needs(s, j) => Has(j, call[w].key)
<1> DEFINE t == call[w].todo
<1>1. t # <<>> /\ InOrder(On(call[w].key), t)
  BY DEF CallInv
<1> HIDE DEF t
<1>2. t \in Seq(Statements) /\ Len(t) \in Nat /\ Len(t) > 0 /\ Head(t) = t[1] /\ 1 \in 1..Len(t)
  BY <1>1 DEF InOrder
<1>3. Head(t) \in Statements
  BY <1>2
<1>4. Allowed(t[1]) /\ \A j \in Journal : Needs(t[1], j) => j \in On(call[w].key)
  BY <1>1, <1>2 DEF InOrder
<1> QED BY <1>2, <1>3, <1>4 DEF t, On

LEMMA GoesOn ==
  ASSUME NEW w \in Worker, CallInv(w), call[w].pc = "run", posted \subseteq posted',
         call'[w] = Doing(call[w].key, Tail(call[w].todo)),
         \A j \in Journal : Posts(Head(call[w].todo), j) => <<j, call[w].key>> \in posted',
         Head(call[w].todo).do = "unlock" \/ lock' = lock
  PROVE  CallInv(w)'
<1> SUFFICES ASSUME NEW t, t = call[w].todo, NEW k, k = call[w].key
             PROVE  CallInv(w)'
  OBVIOUS
<1>1. t # <<>> /\ InOrder(On(k), t) /\ OneUnlock(t) /\ (Unlocks(t) => lock = w) /\ t \in Seq(Statements)
  BY DEF CallInv, InOrder
<1>2. On(k) \subseteq On(k)' /\ \A j \in Journal : Posts(Head(t), j) => j \in On(k)'
  BY DEF On, Has
<1>3. InOrder(On(k)', Tail(t))
  <2> DEFINE have == On(k)
             more == On(k)'
  <2>1. have \subseteq more /\ \A j \in Journal : Posts(Head(t), j) => j \in more
    BY <1>2
  <2> HIDE DEF have, more
  <2>2. InOrder(have, t)
    BY <1>1 DEF have
  <2>3. InOrder(more, Tail(t))
    BY <1>1, <2>1, <2>2, RestInOrder
  <2> QED BY <2>3 DEF more
<1>4. /\ OneUnlock(Tail(t)) /\ (Unlocks(Tail(t)) => Unlocks(t))
      /\ (Head(t).do = "unlock" => ~Unlocks(Tail(t)))
  BY <1>1, RestUnlocks
<1>5. Unlocks(Tail(t)) => lock' = w
  BY <1>1, <1>4
<1> QED BY <1>3, <1>4, <1>5, StartsDoing

-----------------------------------------------------------------------------
\* The initial states, and one lemma per action.
LEMMA InitInv == Init => IInv
<1> SUFFICES ASSUME Init PROVE IInv
  OBVIOUS
<1>1. \A w \in Worker : call[w] = Idle
  BY DEF Init
<1>2. \A w \in Worker : CallInv(w)
  BY <1>1 DEF CallInv, Idle
<1>3. TablesInv
  <2>1. ASSUME NEW k \in Key
        PROVE  /\ instr[k] = [state |-> "NONE", heldFrom |-> "NONE", linked |-> FALSE, amounts |-> NoAmounts]
               /\ request[k] = "none" /\ hold[k] = "none"
    BY DEF Init
  <2>2. "NONE" \in State
    BY DEF State, NEXT
  <2>3. /\ DOMAIN payin = Payin /\ DOMAIN instr = Key /\ DOMAIN request = Key /\ DOMAIN hold = Key
        /\ DOMAIN call = Worker
        /\ payin = [p \in Payin |-> payin[p]] /\ instr = [k \in Key |-> instr[k]]
        /\ request = [k \in Key |-> request[k]] /\ hold = [k \in Key |-> hold[k]]
        /\ call = [w \in Worker |-> call[w]]
    BY DEF Init
  <2>4. \A p \in Payin : payin[p] = "open"
    BY DEF Init
  <2>5. ASSUME NEW k \in Key PROVE IsRow(instr[k]) /\ RowBooked(k)
    <3> DEFINE r == instr[k]
    <3>1. r = [state |-> "NONE", heldFrom |-> "NONE", linked |-> FALSE, amounts |-> NoAmounts]
      BY <2>1
    <3> HIDE DEF r
    <3>2. r.state = "NONE" /\ IsRow(r)
      BY <2>2, <3>1 DEF IsRow
    <3> QED BY <2>1, <3>2 DEF RowBooked, r
  <2> QED BY <2>1, <2>3, <2>4, <2>5 DEF TablesInv
<1> QED BY <1>2, <1>3 DEF IInv

\* A step that leaves the tables alone.
LEMMA TablesStay ==
  ASSUME TablesInv, UNCHANGED <<tables, request>>, NEW w \in Worker, NEW c, Becomes(w, c)
  PROVE  TablesInv' /\ (lock' = lock => Kept(w)) /\ call'[w] = c
<1>1. /\ call'[w] = c /\ \A v \in Worker \ {w} : call'[v] = call[v]
      /\ DOMAIN call' = Worker /\ call' = [v \in Worker |-> call'[v]]
  BY BecomesIs
<1>2. TablesInv'
  BY <1>1 DEF TablesInv, tables, RowBooked, Has, IsRow
<1>3. lock' = lock => Kept(w)
  BY <1>1 DEF Kept, tables
<1> QED BY <1>1, <1>2, <1>3

\* What every action lemma shows of a step of worker w.
Stepped(w) == TablesInv' /\ Kept(w) /\ CallInv(w)'

LEMMA SyncSteps ==
  ASSUME IInv, NEW w \in Worker, NEW p \in Payin, SyncPayins(w, p)
  PROVE  Stepped(w)
<1>1. Becomes(w, Doing(p, SyncScript)) /\ UNCHANGED <<tables, requests, control>>
  BY DEF SyncPayins, Start
<1>2. TablesInv' /\ Kept(w) /\ call'[w] = Doing(p, SyncScript)
  BY <1>1, TablesStay DEF IInv, requests, control
<1>3. CallInv(w)'
  BY <1>2, SyncInOrder, StartsPlain
<1> QED BY <1>2, <1>3 DEF Stepped

LEMMA RaiseStartSteps ==
  ASSUME IInv, NEW w \in Worker, RaiseStart(w)
  PROVE  Stepped(w)
<1>1. PICK k \in Key : Becomes(w, At("lock", k)) /\ UNCHANGED <<tables, requests, control>>
  BY DEF RaiseStart, Start
<1>2. TablesInv' /\ Kept(w) /\ call'[w] = At("lock", k)
  BY <1>1, TablesStay DEF IInv, requests, control
<1>3. CallInv(w)'
  BY <1>2 DEF CallInv, At, Idle
<1> QED BY <1>2, <1>3 DEF Stepped

LEMMA RaiseLockSteps ==
  ASSUME IInv, NEW w \in Worker, RaiseLock(w)
  PROVE  Stepped(w)
<1> SUFFICES ASSUME NEW k, k = call[w].key PROVE Stepped(w)
  OBVIOUS
<1>1. call[w].pc = "lock" /\ lock = NoWorker /\ UNCHANGED <<tables, request>> /\ k \in Key
  BY DEF RaiseLock, Step, BankerLockFree, IInv, CallInv, requests
<1>2. NoWorker \notin Worker
  BY SettlementAssumption
<1>3. CASE instr[k].state = "NONE" /\ Becomes(w, At("balance", k)) /\ lock' = w
  <2>1. TablesInv' /\ call'[w] = At("balance", k) /\ \A v \in Worker \ {w} : call'[v] = call[v]
    BY <1>1, <1>3, TablesStay, BecomesIs DEF IInv
  <2>2. Kept(w)
    BY <1>1, <1>2, <2>1 DEF Kept, tables
  <2>3. instr' = instr
    BY <1>1 DEF tables
  <2>4. CallInv(w)'
    BY <1>1, <1>3, <2>1, <2>3 DEF CallInv, At, Idle
  <2> QED BY <2>1, <2>2, <2>4 DEF Stepped
<1>4. CASE /\ instr[k].state = "PENDING"
           /\ \E s \in InitiateScripts : Becomes(w, Doing(k, s))
           /\ UNCHANGED lock
  <2>1. PICK s \in InitiateScripts : Becomes(w, Doing(k, s))
    BY <1>4
  <2>2. TablesInv' /\ Kept(w) /\ call'[w] = Doing(k, s)
    BY <1>1, <1>4, <2>1, TablesStay DEF IInv
  <2>3. CallInv(w)'
    BY <2>2, InitiateInOrder, StartsPlain
  <2> QED BY <2>2, <2>3 DEF Stepped
<1>5. CASE Over(w) /\ UNCHANGED lock
  <2>1. TablesInv' /\ Kept(w) /\ call'[w] = Idle
    BY <1>1, <1>5, TablesStay DEF IInv, Over
  <2> QED BY <2>1, BecomesIdle DEF Stepped
<1> QED BY <1>3, <1>4, <1>5 DEF RaiseLock

LEMMA RaiseBalanceSteps ==
  ASSUME IInv, NEW w \in Worker, RaiseBalance(w)
  PROVE  Stepped(w)
<1> SUFFICES ASSUME NEW k, k = call[w].key PROVE Stepped(w)
  OBVIOUS
<1>1. PICK balance \in {payable} : Becomes(w, [At("insert", k) EXCEPT !.amount = balance])
  BY DEF RaiseBalance
<1>2. /\ call[w].pc = "balance" /\ UNCHANGED <<tables, requests, control>>
      /\ k \in Key /\ lock = w /\ instr[k].state = "NONE"
  BY DEF RaiseBalance, Step, IInv, CallInv
<1>3. TablesInv' /\ Kept(w) /\ call'[w] = [At("insert", k) EXCEPT !.amount = balance] /\ lock' = lock /\ instr' = instr
  BY <1>1, <1>2, TablesStay DEF IInv, requests, control, tables
<1>4. call'[w].pc = "insert" /\ call'[w].key = k
  BY <1>3 DEF At, Idle
<1>5. CallInv(w)'
  BY <1>2, <1>3, <1>4 DEF CallInv
<1> QED BY <1>3, <1>5 DEF Stepped

\* A row written by an action: what TablesInv asks of it.
RowFine(r, k) ==
  /\ IsRow(r)
  /\ r.state = "HELD" => r.heldFrom \in Holdable
  /\ r.linked => Has("initiated", k)
  /\ r.state \in {"INITIATED", "IN_TRANSIT", "SETTLED", "FAILED", "REVERSED"} => Has("initiated", k)
  /\ r.state \in {"SETTLED", "REVERSED"} => Has("settled", k)
  /\ r.state = "FAILED" => Has("failed", k)
  /\ r.state = "REVERSED" => Has("reversed", k)
  /\ r.state = "CANCELLED" => Has("cancelled", k)

LEMMA RowWritten ==
  ASSUME TablesInv, NEW w \in Worker, NEW c, Becomes(w, c), UNCHANGED <<payin, posted, hold, request>>,
         NEW k, NEW r, instr' = [instr EXCEPT ![k] = r], k \in Key => RowFine(r, k)
  PROVE  TablesInv'
<1>1. DOMAIN call' = Worker /\ call' = [v \in Worker |-> call'[v]]
  BY BecomesIs
<1>2. DOMAIN instr' = Key /\ instr' = [i \in Key |-> instr'[i]]
  BY DEF TablesInv
<1>3. ASSUME NEW i \in Key
      PROVE  instr'[i] = instr[i] \/ (i = k /\ instr'[i] = r)
  BY DEF TablesInv
<1>4. ASSUME NEW i \in Key
      PROVE  /\ IsRow(instr'[i])
             /\ instr'[i].state = "HELD" => instr'[i].heldFrom \in Holdable
             /\ instr'[i].linked => Has("initiated", i)
             /\ RowBooked(i)'
  <2>1. CASE instr'[i] = instr[i]
    BY <2>1 DEF TablesInv, RowBooked, Has
  <2>2. CASE i = k /\ instr'[i] = r
    BY <2>2 DEF TablesInv, RowBooked, RowFine, Has
  <2> QED BY <1>3, <2>1, <2>2
<1> QED BY <1>1, <1>2, <1>4 DEF TablesInv, Has, IsRow

LEMMA RaiseInsertSteps ==
  ASSUME IInv, NEW w \in Worker, RaiseInsert(w)
  PROVE  Stepped(w)
<1> SUFFICES ASSUME NEW k, k = call[w].key PROVE Stepped(w)
  OBVIOUS
<1>1. /\ call[w].pc = "insert" /\ UNCHANGED <<payin, posted, balances, hold, request>>
      /\ k \in Key /\ lock = w /\ instr[k].state = "NONE"
  BY DEF RaiseInsert, Step, IInv, CallInv, requests
<1>2. NoWorker \notin Worker
  BY SettlementAssumption
<1>3. CASE /\ \E g : instr' = [instr EXCEPT ![k].state = "PENDING",
                                          ![k].amounts = settlementAmounts(g, Card, Rate)]
           /\ \E s \in InitiateScripts : Becomes(w, Doing(k, UnderTheLock(s)))
           /\ UNCHANGED lock
  <2>1. PICK g : instr' = [instr EXCEPT ![k].state = "PENDING",
                                        ![k].amounts = settlementAmounts(g, Card, Rate)]
    BY <1>3
  <2>2. PICK s \in InitiateScripts : Becomes(w, Doing(k, UnderTheLock(s)))
    BY <1>3
  <2>3. IsRow(instr[k]) /\ (instr[k].linked => Has("initiated", k)) /\ DOMAIN instr = Key
    BY <1>1 DEF IInv, TablesInv
  <2> DEFINE a == settlementAmounts(g, Card, Rate)
             r == [[instr[k] EXCEPT !.state = "PENDING"] EXCEPT !.amounts = a]
  <2> HIDE DEF a
  <2>4. instr' = [instr EXCEPT ![k] = r]
    BY <1>1, <2>1, <2>3 DEF a
  <2>5. RowFine(r, k)
    <3>1. "PENDING" \in State
      BY DEF State, NEXT
    <3>2. r.state = "PENDING" /\ r.linked = instr[k].linked /\ DOMAIN r = DOMAIN instr[k]
      BY <2>3 DEF IsRow
    <3> HIDE DEF r
    <3> QED BY <2>3, <3>1, <3>2 DEF RowFine, IsRow
  <2> HIDE DEF r
  <2>6. TablesInv'
    BY <1>1, <2>2, <2>4, <2>5, RowWritten DEF IInv
  <2>7. /\ call'[w] = Doing(k, UnderTheLock(s)) /\ \A v \in Worker \ {w} : call'[v] = call[v]
    BY <2>2, BecomesIs DEF IInv
  <2>8. Kept(w)
    BY <1>1, <1>3, <2>7 DEF Kept
  <2>9. CallInv(w)'
    BY <1>1, <1>3, <2>7, UnderTheLockInOrder, StartsDoing
  <2> QED BY <2>6, <2>8, <2>9 DEF Stepped
<1>4. CASE Over(w) /\ lock' = NoWorker /\ UNCHANGED instr
  <2>1. TablesInv' /\ call'[w] = Idle /\ \A v \in Worker \ {w} : call'[v] = call[v]
    BY <1>1, <1>4, TablesStay, BecomesIs DEF IInv, Over, tables
  <2>2. Kept(w)
    BY <1>1, <1>4, <2>1 DEF Kept
  <2> QED BY <2>1, <2>2, BecomesIdle DEF Stepped
<1> QED BY <1>3, <1>4 DEF RaiseInsert

LEMMA FollowReadSteps ==
  ASSUME IInv, NEW w \in Worker, NEW k \in Followed, FollowRead(w, k)
  PROVE  Stepped(w)
<1>1. k \in Key
  BY SettlementAssumption
<1>2. PICK c : c = [At("status", k) EXCEPT !.seen = instr[k].state, !.heldFrom = instr[k].heldFrom]
  OBVIOUS
<1>3. /\ c.pc = "status" /\ c.key = k /\ c.seen = instr[k].state /\ c.heldFrom = instr[k].heldFrom
  BY <1>2 DEF At, Idle
<1>4. /\ instr[k].linked /\ instr[k].state \in {"INITIATED", "IN_TRANSIT", "HELD", "SETTLED"}
      /\ Becomes(w, c) /\ UNCHANGED <<tables, requests, control>>
  BY <1>2 DEF FollowRead, Start
<1>5. /\ Has("initiated", k) /\ (instr[k].state = "HELD" => instr[k].heldFrom \in Holdable)
      /\ (instr[k].state = "SETTLED" => Has("settled", k))
  BY <1>1, <1>4 DEF IInv, TablesInv, RowBooked
<1>6. TablesInv' /\ Kept(w) /\ call'[w] = c /\ posted' = posted
  BY <1>4, TablesStay DEF IInv, requests, control, tables
<1>7. CallInv(w)'
  BY <1>1, <1>3, <1>4, <1>5, <1>6 DEF CallInv, Has
<1> QED BY <1>6, <1>7 DEF Stepped

LEMMA FollowStatusSteps ==
  ASSUME IInv, NEW w \in Worker, FollowStatus(w)
  PROVE  Stepped(w)
<1> SUFFICES ASSUME NEW k, k = call[w].key, NEW seen, seen = call[w].seen,
                    NEW heldFrom, heldFrom = call[w].heldFrom, NEW status, status = request[k],
                    NEW t, t = Plan(seen, heldFrom, status)
             PROVE  Stepped(w)
  OBVIOUS
<1>1. call[w].pc = "status" /\ Becomes(w, Doing(k, t)) /\ UNCHANGED <<tables, requests, control>>
  BY DEF FollowStatus, Step
<1>2. /\ seen \in {"INITIATED", "IN_TRANSIT", "HELD", "SETTLED"}
      /\ Has("initiated", k) /\ (seen = "SETTLED" => Has("settled", k))
      /\ (seen = "HELD" => heldFrom \in Holdable)
  BY <1>1 DEF IInv, CallInv
<1>3. InOrder(On(k), t) /\ ~Unlocks(t)
  <2>1. "initiated" \in On(k) /\ (seen = "SETTLED" => "settled" \in On(k))
    BY <1>2 DEF On, Journal
  <2> QED BY <1>2, <2>1, PlanInOrder
<1>4. TablesInv' /\ Kept(w) /\ call'[w] = Doing(k, t) /\ posted' = posted
  BY <1>1, TablesStay DEF IInv, requests, control, tables
<1>5. InOrder(On(k)', t)
  BY <1>3, <1>4 DEF On, Has
<1>6. CallInv(w)'
  BY <1>3, <1>4, <1>5, StartsPlain
<1> QED BY <1>4, <1>6 DEF Stepped

LEMMA CancelSteps ==
  ASSUME IInv, NEW w \in Worker, CancelRead(w)
  PROVE  Stepped(w)
<1>1. PICK k \in Followed :
        /\ canMove(instr[k].state, "CANCELLED", instr[k].heldFrom)
        /\ Becomes(w, Doing(k, <<Post("cancelled"), Move(instr[k].state, "CANCELLED")>>))
        /\ UNCHANGED <<tables, requests, control>>
  BY DEF CancelRead, Start
<1>2. PICK t : t = <<Post("cancelled"), Move(instr[k].state, "CANCELLED")>>
  OBVIOUS
<1>3. instr[k].state \in State
  BY SettlementAssumption DEF IInv, TablesInv, IsRow
<1>4. \A have : InOrder(have, t) /\ ~Unlocks(t)
  BY <1>1, <1>2, <1>3, CancelInOrder
<1>5. TablesInv' /\ Kept(w) /\ call'[w] = Doing(k, t)
  BY <1>1, <1>2, TablesStay DEF IInv, requests, control
<1>6. CallInv(w)'
  BY <1>4, <1>5, StartsPlain
<1> QED BY <1>5, <1>6 DEF Stepped

LEMMA ReleaseSteps ==
  ASSUME IInv, NEW w \in Worker, ReleaseRead(w)
  PROVE  Stepped(w)
<1>1. PICK k \in Followed : /\ Becomes(w, Doing(k, <<Post("released"), Do("release")>>))
                            /\ UNCHANGED <<tables, requests, control>>
  BY DEF ReleaseRead, Start
<1>2. PICK t : t = <<Post("released"), Do("release")>>
  OBVIOUS
<1>3. \A have : InOrder(have, t) /\ ~Unlocks(t)
  BY <1>2, ReleaseInOrder
<1>4. TablesInv' /\ Kept(w) /\ call'[w] = Doing(k, t)
  BY <1>1, <1>2, TablesStay DEF IInv, requests, control
<1>5. CallInv(w)'
  BY <1>3, <1>4, StartsPlain
<1> QED BY <1>4, <1>5 DEF Stepped

\* A statement of a running list: the next one follows.
LEMMA NextStatement ==
  ASSUME IInv, NEW w \in Worker, call[w].pc = "run", Next1(w), posted \subseteq posted',
         \A j \in Journal : Posts(Head(call[w].todo), j) => <<j, call[w].key>> \in posted',
         Head(call[w].todo).do = "unlock" \/ lock' = lock
  PROVE  CallInv(w)' /\ \A v \in Worker \ {w} : call'[v] = call[v]
<1>1. /\ call'[w] = Doing(call[w].key, Tail(call[w].todo))
      /\ \A v \in Worker \ {w} : call'[v] = call[v]
  BY BecomesIs DEF Next1, IInv
<1>2. CallInv(w)
  BY DEF IInv
<1> QED BY <1>1, <1>2, GoesOn

LEMMA PostSteps ==
  ASSUME IInv, NEW w \in Worker, DoPost(w)
  PROVE  Stepped(w)
<1>1. /\ call[w].pc = "run" /\ Next1(w) /\ UNCHANGED <<payin, instr, hold, request, lock>>
      /\ posted' = posted \cup {<<Head(call[w].todo).what, call[w].key>>}
  BY DEF DoPost, Running, requests, control
<1>2. CallInv(w)' /\ \A v \in Worker \ {w} : call'[v] = call[v]
  BY <1>1, NextStatement DEF Posts
<1>3. Kept(w)
  BY <1>1, <1>2 DEF Kept
<1>4. DOMAIN call' = Worker /\ call' = [v \in Worker |-> call'[v]]
  BY <1>1, BecomesIs DEF Next1, IInv
<1>5. \A j, k : Has(j, k) => Has(j, k)'
  BY <1>1 DEF Has
<1>6. TablesInv'
  BY <1>1, <1>4, <1>5 DEF IInv, TablesInv, RowBooked, IsRow
<1> QED BY <1>2, <1>3, <1>6 DEF Stepped

\* A statement that posts nothing needs what it needs on the ledger already.
LEMMA PlainStatement ==
  ASSUME IInv, NEW w \in Worker, call[w].pc = "run", Next1(w), posted' = posted,
         Head(call[w].todo).do # "post", Head(call[w].todo).do = "unlock" \/ lock' = lock
  PROVE  /\ CallInv(w)' /\ \A v \in Worker \ {w} : call'[v] = call[v]
         /\ DOMAIN call' = Worker /\ call' = [v \in Worker |-> call'[v]]
         /\ \A j \in Journal : Needs(Head(call[w].todo), j) => Has(j, call[w].key)
<1>1. CallInv(w)' /\ \A v \in Worker \ {w} : call'[v] = call[v]
  BY NextStatement DEF Posts
<1>2. DOMAIN call' = Worker /\ call' = [v \in Worker |-> call'[v]]
  BY BecomesIs DEF Next1, IInv
<1>3. CallInv(w)
  BY DEF IInv
<1> QED BY <1>1, <1>2, <1>3, HeadIsReady

LEMMA StampSteps ==
  ASSUME IInv, NEW w \in Worker, DoStamp(w)
  PROVE  Stepped(w)
<1> SUFFICES ASSUME NEW k, k = call[w].key PROVE Stepped(w)
  OBVIOUS
<1>1. /\ call[w].pc = "run" /\ Head(call[w].todo).do = "stamp" /\ Next1(w)
      /\ payin' = [payin EXCEPT ![k] = "stamped"] /\ UNCHANGED <<posted, instr, hold, request, lock>>
  BY DEF DoStamp, Running, requests, control
<1>2. /\ CallInv(w)' /\ \A v \in Worker \ {w} : call'[v] = call[v]
      /\ DOMAIN call' = Worker /\ call' = [v \in Worker |-> call'[v]]
      /\ Has("collected", k)
  BY <1>1, PlainStatement DEF Needs, Journal
<1>3. Kept(w)
  BY <1>1, <1>2 DEF Kept
<1>4. TablesInv'
  <2>1. DOMAIN payin' = Payin /\ payin' = [p \in Payin |-> payin'[p]]
    BY <1>1 DEF IInv, TablesInv
  <2>2. \A p \in Payin : payin'[p] = "stamped" => Has("collected", p)
    BY <1>1, <1>2 DEF IInv, TablesInv
  <2> QED BY <1>1, <1>2, <2>1, <2>2 DEF IInv, TablesInv, RowBooked, IsRow, Has
<1> QED BY <1>2, <1>3, <1>4 DEF Stepped

LEMMA UnlockSteps ==
  ASSUME IInv, NEW w \in Worker, DoUnlock(w)
  PROVE  Stepped(w)
<1>1. /\ call[w].pc = "run" /\ Head(call[w].todo).do = "unlock" /\ Next1(w)
      /\ lock' = NoWorker /\ UNCHANGED <<payin, posted, instr, hold, request>>
  BY DEF DoUnlock, Running, requests, tables
<1>2. /\ CallInv(w)' /\ \A v \in Worker \ {w} : call'[v] = call[v]
      /\ DOMAIN call' = Worker /\ call' = [v \in Worker |-> call'[v]]
  BY <1>1, PlainStatement
\* The lock it gives back is its own.
<1>3. lock = w
  <2> DEFINE t == call[w].todo
  <2>1. t \in Seq(Statements) /\ t # <<>> /\ (Unlocks(t) => lock = w)
    BY <1>1 DEF IInv, CallInv, InOrder
  <2>2. Head(t).do = "unlock"
    BY <1>1
  <2> HIDE DEF t
  <2>3. Head(t) = t[1] /\ 1 \in 1..Len(t)
    BY <2>1
  <2> QED BY <2>1, <2>2, <2>3 DEF Unlocks
<1>4. Kept(w)
  BY <1>1, <1>2, <1>3 DEF Kept
<1>5. TablesInv'
  BY <1>1, <1>2 DEF IInv, TablesInv, RowBooked, IsRow, Has
<1> QED BY <1>2, <1>4, <1>5 DEF Stepped

LEMMA MoveSteps ==
  ASSUME IInv, NEW w \in Worker, DoMove(w)
  PROVE  Stepped(w)
<1> SUFFICES ASSUME NEW k, k = call[w].key, NEW s, s = Head(call[w].todo) PROVE Stepped(w)
  OBVIOUS
<1> DEFINE from == IF s.to = "HELD" THEN s.what ELSE "NONE"
           also == s.what = "PENDING" /\ s.to = "INITIATED"
           r == [instr[k] EXCEPT !.state = s.to, !.heldFrom = from, !.linked = @ \/ also]
<1>1. /\ call[w].pc = "run" /\ s.do = "move" /\ UNCHANGED <<payin, posted, balances, hold, request, lock>>
      /\ \/ instr[k].state = s.what /\ instr' = [instr EXCEPT ![k] = r] /\ Next1(w)
         \/ UNCHANGED instr /\ (Over(w) \/ Next1(w))
  BY DEF DoMove, Running, StillIn, requests, control
<1>2. CASE instr[k].state = s.what /\ instr' = [instr EXCEPT ![k] = r] /\ Next1(w)
  <2>1. /\ CallInv(w)' /\ \A v \in Worker \ {w} : call'[v] = call[v]
        /\ \A j \in Journal : Needs(s, j) => Has(j, k)
    BY <1>1, <1>2, PlainStatement
  <2>2. s.what \in State /\ s.to \in NEXT[s.what]
    <3>1. CallInv(w)
      BY DEF IInv
    <3> QED BY <1>1, <3>1, HeadIsReady DEF Allowed
  <2>3. s.to \in State /\ s.what # "NONE" /\ (s.to = "HELD" => s.what \in Holdable)
    BY <2>2 DEF State, NEXT, Holdable
  <2>4. k \in Key => RowFine(r, k)
    <3> SUFFICES ASSUME k \in Key PROVE RowFine(r, k)
      OBVIOUS
    <3>1. IsRow(instr[k]) /\ (instr[k].linked => Has("initiated", k))
      BY DEF IInv, TablesInv
    <3>2. also \in BOOLEAN
      OBVIOUS
    <3>3. also => Has("initiated", k)
      BY <1>1, <2>1 DEF Needs, Journal
    <3> HIDE DEF from, also
    <3>4. /\ r.state = s.to /\ r.heldFrom = from /\ r.linked = (instr[k].linked \/ also)
          /\ DOMAIN r = DOMAIN instr[k]
      BY <3>1 DEF IsRow
    <3> HIDE DEF r
    <3>5. IsRow(r) /\ (r.linked => Has("initiated", k))
      BY <2>3, <3>1, <3>2, <3>3, <3>4 DEF IsRow
    <3>6. r.state = "HELD" => r.heldFrom \in Holdable
      BY <2>3, <3>4 DEF from
    <3>7. /\ r.state \in {"INITIATED", "IN_TRANSIT", "SETTLED", "FAILED", "REVERSED"} => Has("initiated", k)
          /\ r.state \in {"SETTLED", "REVERSED"} => Has("settled", k)
          /\ r.state = "FAILED" => Has("failed", k)
          /\ r.state = "REVERSED" => Has("reversed", k)
          /\ r.state = "CANCELLED" => Has("cancelled", k)
      BY <1>1, <2>1, <3>4 DEF Needs, Journal
    <3> QED BY <3>5, <3>6, <3>7 DEF RowFine
  <2> HIDE DEF r
  <2>5. TablesInv'
    BY <1>1, <1>2, <2>4, RowWritten DEF IInv, Next1
  <2>6. \A i \in Key : instr[i].state = "NONE" => instr'[i].state = "NONE"
    BY <1>2, <2>3 DEF IInv, TablesInv
  <2>7. Kept(w)
    BY <1>1, <2>1, <2>6 DEF Kept
  <2> QED BY <2>1, <2>5, <2>7 DEF Stepped
<1>3. CASE UNCHANGED instr /\ Over(w)
  <2>1. TablesInv' /\ Kept(w) /\ call'[w] = Idle
    BY <1>1, <1>3, TablesStay DEF IInv, Over, tables
  <2> QED BY <2>1, BecomesIdle DEF Stepped
<1>4. CASE UNCHANGED instr /\ Next1(w)
  <2>1. TablesInv' /\ Kept(w)
    BY <1>1, <1>4, TablesStay DEF IInv, Next1, tables
  <2>2. CallInv(w)'
    BY <1>1, <1>4, PlainStatement
  <2> QED BY <2>1, <2>2 DEF Stepped
<1> QED BY <1>1, <1>2, <1>3, <1>4

LEMMA RequestSteps ==
  ASSUME IInv, NEW w \in Worker, DoRequest(w)
  PROVE  Stepped(w)
<1> SUFFICES ASSUME NEW k, k = call[w].key PROVE Stepped(w)
  OBVIOUS
<1>1. /\ call[w].pc = "run" /\ Head(call[w].todo).do = "request" /\ Next1(w)
      /\ request' = [request EXCEPT ![k] = IF @ = "none" THEN "REQUESTED" ELSE @]
      /\ UNCHANGED <<payin, posted, instr, hold, lock>>
  BY DEF DoRequest, Running, control, tables
<1>2. /\ CallInv(w)' /\ \A v \in Worker \ {w} : call'[v] = call[v]
      /\ DOMAIN call' = Worker /\ call' = [v \in Worker |-> call'[v]]
      /\ Has("initiated", k)
  BY <1>1, PlainStatement DEF Needs, Journal
<1>3. Kept(w)
  BY <1>1, <1>2 DEF Kept
<1>4. TablesInv'
  <2>1. DOMAIN request' = Key /\ request' = [i \in Key |-> request'[i]]
    BY <1>1 DEF IInv, TablesInv
  <2>2. \A i \in Key : request'[i] # "none" => Has("initiated", i)
    BY <1>1, <1>2 DEF IInv, TablesInv, RowBooked
  <2>3. \A i \in Key : RowBooked(i)'
    BY <1>1, <2>2 DEF IInv, TablesInv, RowBooked, Has
  <2> QED BY <1>1, <1>2, <2>1, <2>3 DEF IInv, TablesInv, IsRow, Has
<1> QED BY <1>2, <1>3, <1>4 DEF Stepped

\* A hold's row is written: released only with its journal on the ledger.
LEMMA HoldWritten ==
  ASSUME IInv, NEW w \in Worker, call[w].pc = "run", Next1(w), Head(call[w].todo).do \in {"reserve", "release", "unhold"},
         UNCHANGED <<payin, posted, instr, request, lock>>,
         NEW k, k = call[w].key, NEW x, hold' = [hold EXCEPT ![k] = x],
         x = "RELEASED" => hold[k] = "RELEASED" \/ Head(call[w].todo).do = "release"
  PROVE  Stepped(w)
<1>1. /\ CallInv(w)' /\ \A v \in Worker \ {w} : call'[v] = call[v]
      /\ DOMAIN call' = Worker /\ call' = [v \in Worker |-> call'[v]]
      /\ Head(call[w].todo).do = "release" => Has("released", k)
  BY PlainStatement DEF Needs, Journal
<1>2. Kept(w)
  BY <1>1 DEF Kept
<1>3. TablesInv'
  <2>1. DOMAIN hold' = Key /\ hold' = [i \in Key |-> hold'[i]]
    BY DEF IInv, TablesInv
  <2>2. \A i \in Key : hold'[i] = "RELEASED" => Has("released", i)
    BY <1>1 DEF IInv, TablesInv, RowBooked
  <2>3. \A i \in Key : RowBooked(i)'
    BY <2>2 DEF IInv, TablesInv, RowBooked, Has
  <2> QED BY <1>1, <2>1, <2>3 DEF IInv, TablesInv, IsRow, Has
<1> QED BY <1>1, <1>2, <1>3 DEF Stepped

LEMMA ReserveSteps ==
  ASSUME IInv, NEW w \in Worker, DoReserve(w)
  PROVE  Stepped(w)
<1> SUFFICES ASSUME NEW k, k = call[w].key,
                    NEW x, x = IF hold[k] = "none" /\ AmountsOf(k).reserve > 0 THEN "HELD" ELSE hold[k]
             PROVE  Stepped(w)
  OBVIOUS
<1>1. hold' = [hold EXCEPT ![k] = x] /\ (x = "RELEASED" => hold[k] = "RELEASED")
  BY DEF DoReserve
<1>2. /\ call[w].pc = "run" /\ Next1(w) /\ Head(call[w].todo).do = "reserve"
      /\ UNCHANGED <<payin, posted, instr, request, lock>>
  BY DEF DoReserve, Running, requests, control
<1> QED BY <1>1, <1>2, HoldWritten

LEMMA HoldSteps ==
  ASSUME IInv, NEW w \in Worker, DoHold(w)
  PROVE  Stepped(w)
<1>1. PICK what \in {"release", "unhold"} :
        /\ Running(w, what)
        /\ hold' = [hold EXCEPT ![call[w].key] =
                      IF @ # "HELD" THEN @ ELSE IF what = "release" THEN "RELEASED" ELSE "CANCELLED"]
  BY DEF DoHold
<1> SUFFICES ASSUME NEW k, k = call[w].key,
                    NEW x, x = IF hold[k] # "HELD" THEN hold[k]
                               ELSE IF what = "release" THEN "RELEASED" ELSE "CANCELLED"
             PROVE  Stepped(w)
  OBVIOUS
<1>2. hold' = [hold EXCEPT ![k] = x] /\ (x = "RELEASED" => hold[k] = "RELEASED" \/ what = "release")
  BY <1>1
<1>3. /\ call[w].pc = "run" /\ Next1(w) /\ Head(call[w].todo).do = what
      /\ UNCHANGED <<payin, posted, instr, request, lock>>
  BY <1>1 DEF DoHold, Running, requests, control
<1>4. /\ x = "RELEASED" => hold[k] = "RELEASED" \/ Head(call[w].todo).do = "release"
      /\ Head(call[w].todo).do \in {"reserve", "release", "unhold"}
  BY <1>2, <1>3
<1> QED BY <1>2, <1>3, <1>4, HoldWritten

LEMMA CrashSteps ==
  ASSUME IInv, NEW w \in Worker, Crash(w)
  PROVE  Stepped(w)
<1>1. Over(w) /\ UNCHANGED <<tables, request>> /\ lock' = IF lock = w THEN NoWorker ELSE lock
  BY DEF Crash, requests
<1>2. TablesInv' /\ call'[w] = Idle /\ \A v \in Worker \ {w} : call'[v] = call[v]
  BY <1>1, TablesStay, BecomesIs DEF IInv, Over
<1>3. Kept(w)
  BY <1>1, <1>2 DEF Kept, tables
<1> QED BY <1>2, <1>3, BecomesIdle DEF Stepped

-----------------------------------------------------------------------------
\* A step that is no worker's leaves them all as they are.
LEMMA OutsideSteps ==
  ASSUME IInv, UNCHANGED <<posted, instr, hold, lock, call>>,
         DOMAIN payin' = Payin /\ payin' = [p \in Payin |-> payin'[p]],
         DOMAIN request' = Key /\ request' = [k \in Key |-> request'[k]],
         \A p \in Payin : payin'[p] = "stamped" => payin[p] = "stamped",
         \A k \in Key : request'[k] # "none" => request[k] # "none"
  PROVE  IInv'
<1>1. \A w \in Worker : CallInv(w)'
  BY DEF IInv, CallInv, On, Has
<1>2. \A k \in Key : RowBooked(k)'
  BY DEF IInv, TablesInv, RowBooked, Has
<1>3. TablesInv'
  BY <1>2 DEF IInv, TablesInv, IsRow, Has
<1> QED BY <1>1, <1>3 DEF IInv

LEMMA PressSteps ==
  ASSUME IInv, NEW k \in Followed, Press(k)
  PROVE  IInv'
<1>1. PICK b \in Buttons : request[k] \in TRANSITIONS[b].from /\ request' = [request EXCEPT ![k] = TRANSITIONS[b].to]
  BY DEF Press
<1>2. b \in DOMAIN TRANSITIONS
  BY SettlementAssumption
<1>3. "none" \notin TRANSITIONS[b].from
  BY <1>2 DEF TRANSITIONS, Button, SubmitUTR, RejectUTR, Unpaid, Received
<1>4. UNCHANGED <<payin, posted, instr, hold, lock, call>>
  BY DEF Press, tables, control
<1>5. DOMAIN request' = Key /\ request' = [i \in Key |-> request'[i]]
  BY <1>1 DEF IInv, TablesInv
<1>6. \A i \in Key : request'[i] # "none" => request[i] # "none"
  BY <1>1, <1>3 DEF IInv, TablesInv
<1> QED BY <1>4, <1>5, <1>6, OutsideSteps DEF IInv, TablesInv

LEMMA PaidSteps ==
  ASSUME IInv, NEW p \in Payin, PayinPaid(p)
  PROVE  IInv'
<1>1. UNCHANGED <<posted, instr, hold, request, lock, call>> /\ payin' = [payin EXCEPT ![p] = "paid"]
  BY DEF PayinPaid, requests, control
<1>2. /\ DOMAIN payin' = Payin /\ payin' = [q \in Payin |-> payin'[q]]
      /\ \A q \in Payin : payin'[q] = "stamped" => payin[q] = "stamped"
  BY <1>1 DEF IInv, TablesInv
<1> QED BY <1>1, <1>2, OutsideSteps DEF IInv, TablesInv

LEMMA WorkerSteps ==
  ASSUME IInv, NEW w \in Worker, Stepped(w)
  PROVE  IInv'
<1>1. \A v \in Worker \ {w} : CallInv(v)'
  BY OthersKeep DEF IInv, Stepped
<1> QED BY <1>1 DEF IInv, Stepped

LEMMA StatementSteps ==
  ASSUME IInv, NEW w \in Worker, Statement(w)
  PROVE  Stepped(w)
BY PostSteps, StampSteps, UnlockSteps, MoveSteps, RequestSteps, ReserveSteps, HoldSteps,
   RaiseLockSteps, RaiseBalanceSteps, RaiseInsertSteps, FollowStatusSteps DEF Statement

LEMMA Inductive == IInv /\ [Next]_vars => IInv'
<1> SUFFICES ASSUME IInv, [Next]_vars PROVE IInv'
  OBVIOUS
<1>1. CASE UNCHANGED vars
  <2>1. UNCHANGED <<payin, posted, instr, request, hold, lock, call>>
    BY <1>1 DEF vars
  <2> QED BY <2>1, OutsideSteps DEF IInv, TablesInv
<1>2. ASSUME NEW w \in Worker, NEW p \in Payin, SyncPayins(w, p) PROVE IInv'
  BY <1>2, SyncSteps, WorkerSteps
<1>3. ASSUME NEW w \in Worker, NEW k \in Followed, FollowRead(w, k) PROVE IInv'
  BY <1>3, FollowReadSteps, WorkerSteps
<1>4. ASSUME NEW w \in Worker, RaiseStart(w) \/ CancelRead(w) \/ ReleaseRead(w) \/ Statement(w) \/ Crash(w)
      PROVE  IInv'
  BY <1>4, RaiseStartSteps, CancelSteps, ReleaseSteps, StatementSteps, CrashSteps, WorkerSteps
<1>5. ASSUME NEW p \in Payin, PayinPaid(p) PROVE IInv'
  BY <1>5, PaidSteps
<1>6. ASSUME NEW k \in Followed, Press(k) PROVE IInv'
  BY <1>6, PressSteps
<1> QED BY <1>1, <1>2, <1>3, <1>4, <1>5, <1>6 DEF Next

LEMMA Invariant == Spec => []IInv
BY InitInv, Inductive, PTL DEF Spec

-----------------------------------------------------------------------------
\* The ledger is never behind the states: no request goes out and no instruction, hold or pay-in
\* reaches a state before the journals of that state are posted, for any number of workers that
\* raise, follow, cancel and release at once and die anywhere.
THEOREM LedgerFirst == Spec => []StateIsBooked
<1>1. IInv => StateIsBooked
  BY DEF IInv, TablesInv, RowBooked, StateIsBooked
<1> QED BY <1>1, Invariant, PTL

\* An instruction moves as its table says.
LEMMA MovesAllowed ==
  ASSUME IInv, [Next]_vars, NEW k \in Key
  PROVE  \/ instr'[k].state = instr[k].state \/ instr[k].state = "NONE"
         \/ instr'[k].state \in NEXT[instr[k].state]
<1>1. CASE instr' = instr
  BY <1>1
<1>2. ASSUME NEW w \in Worker, RaiseInsert(w), instr' # instr
      PROVE  instr'[k].state = instr[k].state \/ instr[k].state = "NONE"
  <2>1. /\ call[w].pc = "insert" /\ call[w].key \in Key /\ instr[call[w].key].state = "NONE"
    BY <1>2 DEF RaiseInsert, Step, IInv, CallInv
  <2>2. k # call[w].key => instr'[k] = instr[k]
    BY <1>2 DEF RaiseInsert, IInv, TablesInv
  <2> QED BY <2>1, <2>2
<1>3. ASSUME NEW w \in Worker, DoMove(w), instr' # instr
      PROVE  instr'[k].state = instr[k].state \/ instr'[k].state \in NEXT[instr[k].state]
  <2> SUFFICES ASSUME NEW s, s = Head(call[w].todo)
               PROVE  instr'[k].state = instr[k].state \/ instr'[k].state \in NEXT[instr[k].state]
    OBVIOUS
  <2>1. call[w].pc = "run" /\ s.do = "move" /\ CallInv(w)
    BY <1>3 DEF DoMove, Running, IInv
  <2>2. s.to \in NEXT[s.what]
    BY <2>1, HeadIsReady DEF Allowed
  <2>3. CASE k # call[w].key
    BY <1>3, <2>3 DEF DoMove, IInv, TablesInv
  <2>4. CASE k = call[w].key
    <3>1. instr[k].state = s.what
      BY <1>3, <2>4 DEF DoMove, StillIn
    <3>2. IsRow(instr[k]) /\ DOMAIN instr = Key
      BY DEF IInv, TablesInv
    <3> DEFINE from == IF s.to = "HELD" THEN s.what ELSE "NONE"
               also == s.what = "PENDING" /\ s.to = "INITIATED"
               r == [instr[k] EXCEPT !.state = s.to, !.heldFrom = from, !.linked = @ \/ also]
    <3>3. instr' = [instr EXCEPT ![k] = r]
      BY <1>3, <2>4 DEF DoMove, StillIn
    <3> HIDE DEF from, also
    <3>4. r.state = s.to
      BY <3>2 DEF IsRow
    <3> HIDE DEF r
    <3> QED BY <2>2, <3>1, <3>2, <3>3, <3>4
  <2> QED BY <2>3, <2>4
<1>4. \/ instr' = instr \/ \E w \in Worker : RaiseInsert(w) \/ DoMove(w)
  BY DEF Next, vars, SyncPayins, FollowRead, RaiseStart, CancelRead, ReleaseRead, Crash, PayinPaid, Press,
         Statement, DoPost, DoStamp, DoUnlock, DoRequest, DoReserve, DoHold, RaiseLock, RaiseBalance,
         FollowStatus, tables
<1> QED BY <1>1, <1>2, <1>3, <1>4

\* What is settled stays settled but for a reversal, and no final state is left, whoever raises,
\* cancels or follows at the same time: the guarded update and the banker's lock see to it.
THEOREM OutcomesStay == Spec => OutcomeStays
<1>1. IInv /\ [Next]_vars => [OutcomeKept]_vars
  <2> SUFFICES ASSUME IInv, [Next]_vars, NEW k \in Key
               PROVE  /\ NEXT[instr[k].state] = {} /\ instr[k].state # "NONE" => instr'[k].state = instr[k].state
                      /\ instr[k].state = "SETTLED" => instr'[k].state \in {"SETTLED", "REVERSED"}
    BY DEF OutcomeKept
  <2>1. \/ instr'[k].state = instr[k].state \/ instr[k].state = "NONE"
        \/ instr'[k].state \in NEXT[instr[k].state]
    BY MovesAllowed
  <2>2. NEXT["SETTLED"] = {"REVERSED"}
    BY DEF NEXT
  <2> QED BY <2>1, <2>2
<1> QED BY <1>1, Invariant, PTL DEF Spec, OutcomeStays

-----------------------------------------------------------------------------
\* The arithmetic, for every rate card and every amount.
LEMMA DivBounds ==
  ASSUME NEW a \in Nat, NEW n \in Nat \ {0}
  PROVE  a \div n \in Nat /\ n * (a \div n) <= a
OBVIOUS

LEMMA Distribute ==
  ASSUME NEW n \in Nat, NEW a \in Nat, NEW b \in Nat, NEW c \in Nat, NEW d \in Nat
  PROVE  n * (a + b + c + d) = n * a + n * b + n * c + n * d
OBVIOUS

LEMMA Cancel ==
  ASSUME NEW n \in Nat \ {0}, NEW a \in Nat, NEW b \in Nat, n * a <= n * b
  PROVE  a <= b
OBVIOUS

LEMMA NothingAddsUp ==
  ASSUME NEW a \in Nat, NEW b \in Nat, NEW c \in Nat, NEW d \in Nat, a + b + c + d = 0
  PROVE  a = 0 /\ b = 0 /\ c = 0
OBVIOUS

LEMMA ProductType ==
  ASSUME NEW a \in Nat, NEW b \in Nat
  PROVE  a * b \in Nat /\ a * b = b * a
OBVIOUS

LEMMA Bps ==
  ASSUME NEW a \in Nat, NEW b \in Nat
  PROVE  bpsOf(a, b) \in Nat
BY ProductType DEF bpsOf

LEMMA CardTypes ==
  ASSUME NEW gross \in Nat, NEW card \in RateCard
  PROVE  CardParts(gross, card) \in [Parts -> Nat]
<1>1. /\ card.upline_bps \in Nat /\ card.katana_bps \in Nat /\ card.downline_bps \in Nat
      /\ card.fixed_fee \in Nat
  BY DEF RateCard
<1>2. /\ bpsOf(gross, card.upline_bps) \in Nat /\ bpsOf(gross, card.katana_bps) \in Nat
      /\ bpsOf(gross, card.downline_bps) \in Nat
  BY <1>1, Bps
<1> QED BY <1>1, <1>2 DEF CardParts, Parts

LEMMA TotalType == ASSUME NEW p \in [Parts -> Nat] PROVE Total(p) \in Nat /\ \A k \in Parts : p[k] \in Nat
BY DEF Total, Parts

LEMMA ClampType ==
  ASSUME NEW sum \in Nat, NEW card \in RateCard
  PROVE  Clamp(sum, card) \in Nat
<1>1. card.min_charge \in Nat /\ card.max_charge \in Nat
  BY DEF RateCard
<1> QED BY <1>1 DEF Clamp

\* Scaling rounds down, so the scaled parts never exceed the charges they are to add up to.
LEMMA ScaledFits ==
  ASSUME NEW p \in [Parts -> Nat], Total(p) # 0, NEW charges \in Nat
  PROVE  LET q == Scaled(p, Total(p), charges)
         IN  q \in [Parts -> Nat] /\ Total(q) <= charges
<1> DEFINE n == Total(p)
           q == Scaled(p, Total(p), charges)
<1>1. n \in Nat \ {0} /\ \A k \in Parts : p[k] \in Nat
  BY TotalType
<1>2. n = p["upline"] + p["katana"] + p["downline"] + p["fixed"]
  BY DEF Total
<1>3. \A k \in Parts : q[k] = (p[k] * charges) \div n
  BY DEF Scaled
<1> HIDE DEF n, q
<1>4. ASSUME NEW k \in Parts
      PROVE  q[k] \in Nat /\ n * q[k] <= p[k] * charges /\ p[k] * charges \in Nat /\ n * q[k] \in Nat
  <2>1. p[k] * charges \in Nat
    BY <1>1, ProductType
  <2>2. (p[k] * charges) \div n \in Nat /\ n * ((p[k] * charges) \div n) <= p[k] * charges
    BY <1>1, <2>1, DivBounds
  <2>3. q[k] \in Nat /\ n * q[k] <= p[k] * charges
    BY <1>3, <2>2
  <2>4. n * q[k] \in Nat
    BY <1>1, <2>3, ProductType
  <2> QED BY <2>1, <2>3, <2>4
<1>5. q \in [Parts -> Nat]
  <2>1. q = [k \in Parts |-> (p[k] * charges) \div n]
    BY DEF q, n, Scaled
  <2> QED BY <1>4, <2>1
<1>6. "upline" \in Parts /\ "katana" \in Parts /\ "downline" \in Parts /\ "fixed" \in Parts
  BY DEF Parts
<1>7. PICK a \in Nat, b \in Nat, c \in Nat, d \in Nat :
        a = q["upline"] /\ b = q["katana"] /\ c = q["downline"] /\ d = q["fixed"]
  BY <1>4, <1>6
<1>8. PICK e \in Nat, f \in Nat, g \in Nat, h \in Nat :
        e = p["upline"] /\ f = p["katana"] /\ g = p["downline"] /\ h = p["fixed"]
  BY <1>1, <1>6
<1>9. /\ n * (a + b + c + d) = n * a + n * b + n * c + n * d
      /\ charges * (e + f + g + h) = charges * e + charges * f + charges * g + charges * h
  BY <1>1, Distribute
<1>10. /\ n * a <= e * charges /\ n * b <= f * charges /\ n * c <= g * charges /\ n * d <= h * charges
       /\ n * a \in Nat /\ n * b \in Nat /\ n * c \in Nat /\ n * d \in Nat
  BY <1>4, <1>6, <1>7, <1>8
<1>11. /\ e * charges = charges * e /\ f * charges = charges * f /\ g * charges = charges * g /\ h * charges = charges * h
       /\ charges * e \in Nat /\ charges * f \in Nat /\ charges * g \in Nat /\ charges * h \in Nat
  BY ProductType
<1>12. n * (a + b + c + d) <= n * charges
  <2>1. n = e + f + g + h
    BY <1>2, <1>8
  <2>2. charges * n = n * charges
    BY <1>1, ProductType
  <2>3. n * (a + b + c + d) <= charges * (e + f + g + h)
    <3>1. PICK na \in Nat, nb \in Nat, nc \in Nat, nd \in Nat :
            na = n * a /\ nb = n * b /\ nc = n * c /\ nd = n * d
      BY <1>10
    <3>2. PICK ce \in Nat, cf \in Nat, cg \in Nat, ch \in Nat :
            ce = charges * e /\ cf = charges * f /\ cg = charges * g /\ ch = charges * h
      BY <1>11
    <3>3. na <= ce /\ nb <= cf /\ nc <= cg /\ nd <= ch
      BY <1>10, <1>11, <3>1, <3>2
    <3>4. na + nb + nc + nd <= ce + cf + cg + ch
      BY <3>3
    <3> QED BY <1>9, <3>1, <3>2, <3>4
  <2> QED BY <2>1, <2>2, <2>3
<1>13. a + b + c + d <= charges
  BY <1>1, <1>12, Cancel
<1>14. Total(q) <= charges
  BY <1>7, <1>13 DEF Total
<1> QED BY <1>5, <1>14 DEF q, n

LEMMA LargestIsPart == ASSUME NEW q PROVE Largest(q) \in Parts
BY DEF Largest, Parts

\* The parts add up to the charges, and none is negative.
LEMMA SharedAddsUp ==
  ASSUME NEW p \in [Parts -> Nat], NEW charges \in Nat
  PROVE  LET s == Shared(p, Total(p), charges)
         IN  s \in [Parts -> Nat] /\ Total(s) = charges
<1>1. CASE charges = Total(p)
  BY <1>1 DEF Shared
<1>2. CASE charges # Total(p) /\ Total(p) = 0
  <2>1. Shared(p, Total(p), charges) = [p EXCEPT !["fixed"] = charges]
    BY <1>2 DEF Shared
  <2>2. /\ p["upline"] \in Nat /\ p["katana"] \in Nat /\ p["downline"] \in Nat /\ p["fixed"] \in Nat
        /\ p["upline"] + p["katana"] + p["downline"] + p["fixed"] = 0
    BY <1>2, TotalType DEF Total, Parts
  <2>3. p["upline"] = 0 /\ p["katana"] = 0 /\ p["downline"] = 0
    BY <2>2, NothingAddsUp
  <2> DEFINE s == [p EXCEPT !["fixed"] = charges]
  <2>4. /\ s \in [Parts -> Nat] /\ s["fixed"] = charges
        /\ s["upline"] = 0 /\ s["katana"] = 0 /\ s["downline"] = 0
    BY <2>3 DEF Parts
  <2> HIDE DEF s
  <2>5. Total(s) = charges
    BY <2>4 DEF Total
  <2> QED BY <2>1, <2>4, <2>5 DEF s
<1>3. CASE charges # Total(p) /\ Total(p) # 0
  <2> DEFINE q == Scaled(p, Total(p), charges)
             m == Largest(q)
             s == [q EXCEPT ![m] = @ + (charges - Total(q))]
  <2>1. q \in [Parts -> Nat] /\ Total(q) <= charges
    BY <1>3, ScaledFits
  <2>2. Shared(p, Total(p), charges) = s
    BY <1>3 DEF Shared
  <2> HIDE DEF q
  <2>3. m \in Parts
    BY LargestIsPart
  <2> HIDE DEF m
  <2>4. Total(q) \in Nat /\ \A k \in Parts : q[k] \in Nat
    BY <2>1, TotalType
  <2>5. s \in [Parts -> Nat]
    BY <2>1, <2>3, <2>4
  <2>6. \A k \in Parts : s[k] = IF k = m THEN q[k] + (charges - Total(q)) ELSE q[k]
    BY <2>1, <2>3
  <2> HIDE DEF s
  <2>7. Total(s) = charges
    BY <2>3, <2>4, <2>6 DEF Total, Parts
  <2> QED BY <2>2, <2>5, <2>7
<1> QED BY <1>1, <1>2, <1>3

\* Every journal of a settlement is balanced to the paisa, whatever the gross amount, the rate card
\* with its minimum and its cap, and the rates: what journalProblem and the database ask of them.
THEOREM JournalsBalance ==
  ASSUME NEW gross \in Nat, NEW card \in RateCard, NEW rates \in Rates
  PROVE  LET a == settlementAmounts(gross, card, rates)
         IN  /\ a.parts \in [Parts -> Nat] /\ Total(a.parts) = a.charges
             /\ Balanced(initiatedLines(a)) /\ Balanced(reversed(initiatedLines(a)))
             /\ Balanced(settledLines(a.net)) /\ Balanced(reserveReleaseLines(a.reserve))
             /\ Balanced(Both(reversed(settledLines(a.net)), reversed(initiatedLines(a))))
<1> DEFINE a == settlementAmounts(gross, card, rates)
           p == CardParts(gross, card)
           charges == Clamp(Total(p), card)
           gst == bpsOf(charges, card.gst_bps)
           tds == bpsOf(charges, rates.tds_bps)
           reserve == bpsOf(gross, rates.reserve_bps)
           parts == Shared(p, Total(p), charges)
<1>1. p \in [Parts -> Nat] /\ Total(p) \in Nat
  BY CardTypes, TotalType
<1>2. charges \in Nat
  BY <1>1, ClampType
<1>3. card.gst_bps \in Nat /\ rates.tds_bps \in Nat /\ rates.reserve_bps \in Nat
  BY DEF RateCard, Rates
<1>4. gst \in Nat /\ tds \in Nat /\ reserve \in Nat
  BY <1>2, <1>3, Bps
<1>5. parts \in [Parts -> Nat] /\ Total(parts) = charges
  BY <1>1, <1>2, SharedAddsUp
<1>6. /\ a.gross = gross /\ a.reserve = reserve /\ a.parts = parts /\ a.charges = charges /\ a.gst = gst
      /\ a.tds = tds /\ a.net = gross - reserve - charges - gst + tds
  BY DEF settlementAmounts
<1> HIDE DEF a, p, charges, gst, tds, reserve, parts
<1>7. a.net \in Int
  BY <1>2, <1>4, <1>6
<1>8. PICK total \in Nat : total = Total(parts) /\ total = charges
  BY <1>2, <1>5
<1> DEFINE il == initiatedLines(a)
           sl == settledLines(a.net)
<1>9. /\ il = [x \in Account |-> il[x]]
      /\ il["held"] = 0 /\ il["payable"] = gross /\ il["tds"] = tds /\ il["transit"] = -a.net
      /\ il["reserve"] = -reserve /\ il["fees"] = -total /\ il["gst"] = -gst
  BY <1>6, <1>8 DEF initiatedLines, NoLines, Account
<1>10. /\ sl["transit"] = a.net /\ sl["held"] = -a.net /\ sl["payable"] = 0 /\ sl["tds"] = 0
       /\ sl["reserve"] = 0 /\ sl["fees"] = 0 /\ sl["gst"] = 0
  BY DEF settledLines, NoLines, Account
<1> HIDE DEF il, sl
<1>11. /\ \A l : reversed(l)["held"] = -l["held"] /\ reversed(l)["payable"] = -l["payable"]
            /\ reversed(l)["reserve"] = -l["reserve"] /\ reversed(l)["transit"] = -l["transit"]
            /\ reversed(l)["fees"] = -l["fees"] /\ reversed(l)["gst"] = -l["gst"] /\ reversed(l)["tds"] = -l["tds"]
       /\ \A l, m : /\ Both(l, m)["held"] = l["held"] + m["held"] /\ Both(l, m)["payable"] = l["payable"] + m["payable"]
            /\ Both(l, m)["reserve"] = l["reserve"] + m["reserve"] /\ Both(l, m)["transit"] = l["transit"] + m["transit"]
            /\ Both(l, m)["fees"] = l["fees"] + m["fees"] /\ Both(l, m)["gst"] = l["gst"] + m["gst"]
            /\ Both(l, m)["tds"] = l["tds"] + m["tds"]
  BY DEF reversed, Both, Account
<1>12. Balanced(il) /\ Balanced(reversed(il))
  BY <1>2, <1>4, <1>6, <1>7, <1>8, <1>9, <1>11 DEF Balanced
<1>13. Balanced(sl)
  BY <1>7, <1>10 DEF Balanced
<1>14. Balanced(reserveReleaseLines(a.reserve))
  BY <1>4, <1>6 DEF Balanced, reserveReleaseLines, NoLines, Account
<1>15. Balanced(Both(reversed(sl), reversed(il)))
  BY <1>2, <1>4, <1>6, <1>7, <1>8, <1>9, <1>10, <1>11 DEF Balanced
<1> QED BY <1>5, <1>6, <1>12, <1>13, <1>14, <1>15 DEF a, il, sl
=============================================================================
