----------------------- MODULE SettlementBooksProofs -----------------------
(***************************************************************************)
(* Theorems about what Settlement books, for any workers, settlements,     *)
(* pay-ins, rates and buttons: no settlement is booked as paid and as      *)
(* failed, the payable is never overdrawn, and every table keeps its       *)
(* types.                                                                  *)
(*                                                                         *)
(* They rest on the invariant of SettlementProofs and on three more.  The  *)
(* first says of every outcome that is on the ledger, or that a worker is  *)
(* about to post, that the request still stands for it.  The second types  *)
(* the tables and the lists of statements.  The third follows the amount   *)
(* an instruction takes: from the reading of the payable to its first      *)
(* journal the banker's lock keeps the payable from falling below it.      *)
(***************************************************************************)
EXTENDS SettlementProofs, FiniteSetTheorems

\* The journals a list of statements posts.
PostsOnly(t, S) == \A n \in 1..Len(t) : t[n].do = "post" => t[n].what \in S
Mentions(t, type) == \E n \in 1..Len(t) : Posts(t[n], type)
Pends(c, type) == c.pc = "run" /\ Mentions(c.todo, type)

Outcome == {"settled", "failed", "reversed"}

\* What the request of settlement k says while an outcome of it is booked.
Stands(type, k) ==
  /\ type = "settled" /\ k \notin reopened => request[k] \in Closing \cup {"REVERSED"}
  /\ type = "failed" /\ k \notin reopened => request[k] \in Failing
  /\ type = "reversed" => Has("settled", k)

Says(w) == \A type \in Outcome : call[w].key \in Key /\ Pends(call[w], type) => Stands(type, call[w].key)

OutcomeInv == /\ \A k \in Key, type \in Outcome : Has(type, k) => Stands(type, k)
              /\ \A w \in Worker : Says(w)

-----------------------------------------------------------------------------
Row == [state : State, heldFrom : Holdable \cup {"NONE"}, linked : BOOLEAN, amounts : Amounts]

\* The lists of statements a worker may have: those of a pay-in, or those of an instruction.
ListFits(k, t) == \/ k \in Key /\ PostsOnly(t, Journal)
                  \/ k \in Payin /\ PostsOnly(t, {"collected"})

CallTyped(c) == c \in Calls /\ (c.pc = "run" => ListFits(c.key, c.todo))

\* Who holds the banker's lock is raising an instruction, and gives it back in the end.
LockInv(w) ==
  LET c == call[w]
  IN  lock = w => \/ c.pc \in {"balance", "insert"}
                  \/ c.pc = "run" /\ c.key \in Key /\ Unlocks(c.todo)

TypesInv ==
  /\ payin \in [Payin -> {"open", "paid", "stamped"}]
  /\ posted \subseteq Journal \X (Key \cup Payin) /\ balances \in [Account -> Int]
  /\ instr \in [Key -> Row]
  /\ request \in [Key -> RequestStatus \cup {"none"}]
  /\ hold \in [Key -> {"none", "HELD", "RELEASED", "CANCELLED"}]
  /\ lock \in Worker \cup {NoWorker}
  /\ call \in [Worker -> Calls]
  /\ \A w \in Worker : CallTyped(call[w]) /\ LockInv(w)
  /\ reopened \subseteq Key /\ orphans \subseteq Key
  /\ faults \in 0..MaxFaults

-----------------------------------------------------------------------------
\* Worker w has inserted instruction k, holds the lock, and posts its first journal next.
Opening(w, k) ==
  LET c == call[w]
  IN  lock = w /\ c.pc = "run" /\ c.key = k /\ Unlocks(c.todo) /\ Posts(Head(c.todo), "initiated")

\* What worker w has read of the payable is still there.
Covered(w) ==
  LET c == call[w]
  IN  /\ c.pc = "insert" => c.amount <= payable
      /\ Pends(c, "initiated") /\ ~Has("initiated", c.key)
           => Opening(w, c.key) /\ instr[c.key].amounts.gross <= payable
      /\ c.pc = "run" /\ Unlocks(c.todo) => Has("initiated", c.key) \/ Posts(Head(c.todo), "initiated")

PayableInv ==
  orphans = {} =>
    /\ payable >= 0
    /\ \A k \in Key : instr[k].state # "NONE" => Has("initiated", k) \/ \E w \in Worker : Opening(w, k)
    /\ \A w \in Worker : Covered(w)

BooksInv == OutcomeInv /\ TypesInv /\ PayableInv

-----------------------------------------------------------------------------
\* What lists of statements post.
LEMMA PostsTail ==
  ASSUME NEW t \in Seq(Statements), t # <<>>, NEW S, PostsOnly(t, S)
  PROVE  PostsOnly(Tail(t), S) /\ (Head(t).do = "post" => Head(t).what \in S)
<1>1. /\ Len(Tail(t)) = Len(t) - 1 /\ Len(t) \in Nat /\ Head(t) = t[1] /\ 1 \in 1..Len(t)
      /\ \A n \in 1..Len(Tail(t)) : n + 1 \in 1..Len(t) /\ Tail(t)[n] = t[n + 1]
  OBVIOUS
<1> QED BY <1>1 DEF PostsOnly

LEMMA MentionsTail ==
  ASSUME NEW t \in Seq(Statements), t # <<>>, NEW type
  PROVE  /\ Mentions(Tail(t), type) => Mentions(t, type)
         /\ Posts(Head(t), type) => Mentions(t, type)
<1>1. /\ Len(Tail(t)) = Len(t) - 1 /\ Len(t) \in Nat /\ Head(t) = t[1] /\ 1 \in 1..Len(t)
      /\ \A n \in 1..Len(Tail(t)) : n + 1 \in 1..Len(t) /\ Tail(t)[n] = t[n + 1]
  OBVIOUS
<1> QED BY <1>1 DEF Mentions

LEMMA MentionsOnly ==
  ASSUME NEW t, NEW S, PostsOnly(t, S), NEW type, Mentions(t, type)
  PROVE  type \in S
BY DEF PostsOnly, Mentions, Posts

LEMMA PostsMore ==
  ASSUME NEW t, NEW S, NEW T, S \subseteq T, PostsOnly(t, S)
  PROVE  PostsOnly(t, T)
BY DEF PostsOnly

LEMMA PostsAppended ==
  ASSUME NEW s \in Seq(Statements), NEW t \in Seq(Statements), NEW S, PostsOnly(s, S), PostsOnly(t, S)
  PROVE  PostsOnly(s \o t, S) /\ s \o t \in Seq(Statements)
<1> DEFINE u == s \o t
<1>1. /\ Len(s) \in Nat /\ Len(t) \in Nat /\ Len(u) = Len(s) + Len(t)
      /\ \A n \in 1..Len(s) : u[n] = s[n]
      /\ \A n \in 1..Len(t) : u[n + Len(s)] = t[n]
  BY AppendSeq
<1> HIDE DEF u
<1>2. \A n \in 1..Len(u) : n \in 1..Len(s) \/ (n - Len(s) \in 1..Len(t) /\ n = (n - Len(s)) + Len(s))
  BY <1>1
<1>3. PostsOnly(u, S)
  BY <1>1, <1>2 DEF PostsOnly
<1> QED BY <1>3, AppendSeq DEF u

LEMMA PostsOne ==
  ASSUME NEW s \in Statements, NEW S, s.do = "post" => s.what \in S
  PROVE  PostsOnly(<<s>>, S) /\ <<s>> \in Seq(Statements)
<1> DEFINE t == <<s>>
<1>1. t \in Seq(Statements) /\ Len(t) = 1 /\ t[1] = s
  OBVIOUS
<1> HIDE DEF t
<1>2. \A n \in 1..Len(t) : t[n] = s
  BY <1>1
<1>3. PostsOnly(t, S)
  BY <1>2 DEF PostsOnly
<1> QED BY <1>1, <1>3 DEF t

LEMMA PostsTwo ==
  ASSUME NEW a \in Statements, NEW b \in Statements, NEW S,
         a.do = "post" => a.what \in S, b.do = "post" => b.what \in S
  PROVE  PostsOnly(<<a, b>>, S) /\ <<a, b>> \in Seq(Statements)
<1> DEFINE t == <<a, b>>
<1>1. t \in Seq(Statements) /\ Len(t) = 2 /\ t[1] = a /\ t[2] = b
  BY Pairs
<1> HIDE DEF t
<1>2. \A n \in 1..Len(t) : n = 1 \/ n = 2
  BY <1>1
<1>3. PostsOnly(t, S)
  BY <1>1, <1>2 DEF PostsOnly
<1> QED BY <1>1, <1>3 DEF t

LEMMA PostsNothing == ASSUME NEW S PROVE PostsOnly(<<>>, S) /\ <<>> \in Seq(Statements)
BY DEF PostsOnly

\* What a single statement posts.
LEMMA PostIs ==
  /\ \A type \in Journal : Post(type) \in Statements /\ Post(type).do = "post" /\ Post(type).what = type
  /\ \A what \in Plain : Do(what) \in Statements /\ Do(what).do # "post"
  /\ \A from \in State, to \in State :
       /\ Move(from, to) \in Statements /\ Move(from, to).do # "post"
       /\ Try(from, to) \in Statements /\ Try(from, to).do # "post"
<1>1. \A from, to : Move(from, to).do = "move" /\ Try(from, to).do = "move"
  <2> SUFFICES ASSUME NEW from, NEW to PROVE Move(from, to).do = "move" /\ Try(from, to).do = "move"
    OBVIOUS
  <2> DEFINE m == [do |-> "move", what |-> from, to |-> to, must |-> TRUE]
  <2>1. Move(from, to) = m /\ Try(from, to) = [m EXCEPT !.must = FALSE]
    BY DEF Move, Try
  <2>2. m.do = "move" /\ [m EXCEPT !.must = FALSE].do = "move"
    OBVIOUS
  <2> QED BY <2>1, <2>2
<1>2. \A type : Post(type).do = "post" /\ Post(type).what = type
  BY DEF Post
<1>3. \A what \in Plain : Do(what).do # "post"
  BY DEF Do, Plain
<1> QED BY <1>1, <1>2, <1>3, StatementTypes

\* The lists the handlers start with.
LEMMA ScriptsPost ==
  /\ PostsOnly(SyncScript, {"collected"}) /\ SyncScript \in Seq(Statements)
  /\ LET t == <<Post("released"), Do("release")>>
     IN  PostsOnly(t, {"released"}) /\ t \in Seq(Statements)
  /\ \A from \in State : LET t == <<Post("cancelled"), Move(from, "CANCELLED")>>
                         IN  PostsOnly(t, {"cancelled"}) /\ t \in Seq(Statements)
<1>1. {"collected", "released", "cancelled"} \subseteq Journal /\ {"stamp", "release"} \subseteq Plain
      /\ "CANCELLED" \in State
  BY DEF Journal, Plain, State, NEXT
<1>2. PostsOnly(SyncScript, {"collected"}) /\ SyncScript \in Seq(Statements)
  <2> DEFINE a == Post("collected")
             b == Do("stamp")
  <2>1. a \in Statements /\ b \in Statements /\ a.what = "collected" /\ b.do # "post"
    BY <1>1, PostIs
  <2> HIDE DEF a, b
  <2>2. PostsOnly(<<a, b>>, {"collected"}) /\ <<a, b>> \in Seq(Statements)
    BY <2>1, PostsTwo
  <2> QED BY <2>2 DEF SyncScript, a, b
<1>3. LET t == <<Post("released"), Do("release")>>
      IN  PostsOnly(t, {"released"}) /\ t \in Seq(Statements)
  <2> DEFINE a == Post("released")
             b == Do("release")
  <2>1. a \in Statements /\ b \in Statements /\ a.what = "released" /\ b.do # "post"
    BY <1>1, PostIs
  <2> HIDE DEF a, b
  <2>2. PostsOnly(<<a, b>>, {"released"}) /\ <<a, b>> \in Seq(Statements)
    BY <2>1, PostsTwo
  <2> QED BY <2>2 DEF a, b
<1>4. ASSUME NEW from \in State
      PROVE  LET t == <<Post("cancelled"), Move(from, "CANCELLED")>>
             IN  PostsOnly(t, {"cancelled"}) /\ t \in Seq(Statements)
  <2> DEFINE a == Post("cancelled")
             b == Move(from, "CANCELLED")
  <2>1. a \in Statements /\ b \in Statements /\ a.what = "cancelled" /\ b.do # "post"
    BY <1>1, PostIs
  <2> HIDE DEF a, b
  <2>2. PostsOnly(<<a, b>>, {"cancelled"}) /\ <<a, b>> \in Seq(Statements)
    BY <2>1, PostsTwo
  <2> QED BY <2>2 DEF a, b
<1> QED BY <1>2, <1>3, <1>4

LEMMA InitiatePosts ==
  ASSUME NEW s \in InitiateScripts
  PROVE  PostsOnly(s, {"initiated"}) /\ s \in Seq(Statements)
<1> DEFINE S == {"initiated"}
           p == Post("initiated")
           a == Do("request")
           b == Do("reserve")
           c == Move("PENDING", "INITIATED")
           d == Move("PENDING", "HELD")
<1>1. /\ "initiated" \in Journal /\ {"request", "reserve"} \subseteq Plain
      /\ {"PENDING", "INITIATED", "HELD"} \subseteq State
  BY DEF Journal, Plain, State, NEXT
<1>2. /\ p \in Statements /\ p.what = "initiated" /\ a \in Statements /\ a.do # "post"
      /\ b \in Statements /\ b.do # "post" /\ c \in Statements /\ c.do # "post"
      /\ d \in Statements /\ d.do # "post"
  BY <1>1, PostIs
<1>3. s \in {<<p, a, b, c>>, <<p, d>>}
  BY DEF InitiateScripts
<1> HIDE DEF p, a, b, c, d
<1>4. PostsOnly(<<p, d>>, S) /\ <<p, d>> \in Seq(Statements)
  BY <1>2, PostsTwo
<1>5. PostsOnly(<<p, a, b, c>>, S) /\ <<p, a, b, c>> \in Seq(Statements)
  <2> DEFINE t == <<p, a, b, c>>
  <2>1. t \in Seq(Statements) /\ Len(t) = 4 /\ t[1] = p /\ t[2] = a /\ t[3] = b /\ t[4] = c
    BY <1>2, Fours
  <2> HIDE DEF t
  <2>2. \A n \in 1..Len(t) : n \in {1, 2, 3, 4}
    BY <2>1
  <2>3. PostsOnly(t, S)
    BY <1>2, <2>1, <2>2 DEF PostsOnly
  <2> QED BY <2>1, <2>3 DEF t
<1> QED BY <1>3, <1>4, <1>5

\* The list of a new instruction begins with its first journal.
LEMMA UnderTheLockPosts ==
  ASSUME NEW s \in InitiateScripts
  PROVE  LET u == UnderTheLock(s)
         IN  /\ PostsOnly(u, {"initiated"}) /\ u \in Seq(Statements)
             /\ Posts(Head(u), "initiated") /\ Unlocks(u)
<1> DEFINE a == <<Post("initiated")>>
           b == <<Do("unlock")>>
           ab == a \o b
           u == ab \o s
           S == {"initiated"}
<1>1. /\ Post("initiated") \in Statements /\ Post("initiated").do = "post"
      /\ Post("initiated").what = "initiated"
      /\ Do("unlock") \in Statements /\ Do("unlock").do = "unlock"
  BY PostIs, StatementNeeds DEF Journal, Plain
<1>2. PostsOnly(a, S) /\ a \in Seq(Statements) /\ PostsOnly(b, S) /\ b \in Seq(Statements)
  BY <1>1, PostsOne
<1>3. PostsOnly(s, S) /\ s \in Seq(Statements)
  BY InitiatePosts
<1>4. UnderTheLock(s) = u
  BY DEF UnderTheLock, PostFirst
<1>5. Len(a) = 1 /\ a[1] = Post("initiated") /\ Len(b) = 1 /\ b[1] = Do("unlock")
  OBVIOUS
<1> HIDE DEF a, b
<1>6. PostsOnly(ab, S) /\ ab \in Seq(Statements)
  BY <1>2, PostsAppended
<1>7. Len(ab) = 2 /\ ab[1] = Post("initiated") /\ ab[2] = Do("unlock")
  <2>1. /\ Len(ab) = Len(a) + Len(b)
        /\ \A n \in 1..Len(a) : ab[n] = a[n]
        /\ \A n \in 1..Len(b) : ab[n + Len(a)] = b[n]
    BY <1>2, AppendSeq
  <2> HIDE DEF ab
  <2> QED BY <1>5, <2>1
<1> HIDE DEF ab
<1>8. PostsOnly(u, S) /\ u \in Seq(Statements)
  BY <1>3, <1>6, PostsAppended
<1>9. Len(u) \in Nat /\ Len(u) >= 2 /\ u[1] = Post("initiated") /\ u[2] = Do("unlock")
  <2>1. /\ Len(u) = Len(ab) + Len(s) /\ Len(s) \in Nat
        /\ \A n \in 1..Len(ab) : u[n] = ab[n]
    BY <1>3, <1>6, AppendSeq
  <2> HIDE DEF u
  <2> QED BY <1>7, <2>1
<1> HIDE DEF u
<1>10. Head(u) = u[1] /\ 2 \in 1..Len(u)
  BY <1>8, <1>9
<1> QED BY <1>1, <1>4, <1>8, <1>9, <1>10 DEF Posts, Unlocks

\* What the engine posts when it follows a request is what the request says.
Told(seen, status) == {type \in Outcome : /\ type = "settled" => status \in Closing
                                          /\ type = "failed" => status \in Failing
                                          /\ type = "reversed" => seen = "SETTLED"}

LEMMA BeforePosts ==
  ASSUME NEW seen \in {"INITIATED", "IN_TRANSIT", "HELD", "SETTLED"}, NEW heldFrom,
         seen = "HELD" => heldFrom \in Holdable, NEW want, NEW S
  PROVE  LET m == Before(seen, heldFrom, want).moves
         IN  PostsOnly(m, S) /\ m \in Seq(Statements)
<1> DEFINE b == Before(seen, heldFrom, want)
           Fine(m) == PostsOnly(m, S) /\ m \in Seq(Statements)
<1>1. {"INITIATED", "IN_TRANSIT", "HELD", "SETTLED", "PENDING"} \subseteq State /\ Holdable \subseteq State
  BY DEF State, NEXT, Holdable
<1>2. ASSUME NEW from \in State, NEW to \in State
      PROVE  Fine(<<Move(from, to)>>)
  <2>1. Move(from, to) \in Statements /\ Move(from, to).do # "post"
    BY PostIs
  <2> DEFINE s == Move(from, to)
  <2> HIDE DEF s
  <2>2. Fine(<<s>>)
    BY <2>1, PostsOne DEF s
  <2> QED BY <2>2 DEF s
<1>3. CASE want = "SETTLED" /\ seen = "INITIATED"
  <2>1. b.moves = <<Move("INITIATED", "IN_TRANSIT")>>
    BY <1>3 DEF Before
  <2> QED BY <1>1, <1>2, <2>1
<1>4. CASE want = "SETTLED" /\ seen = "HELD" /\ heldFrom = "INITIATED"
  <2> DEFINE s == Move("HELD", "INITIATED")
             t == Try("INITIATED", "IN_TRANSIT")
  <2>1. b.moves = <<s, t>>
    BY <1>4 DEF Before
  <2>2. s \in Statements /\ t \in Statements /\ s.do # "post" /\ t.do # "post"
    BY <1>1, PostIs
  <2> HIDE DEF s, t, b
  <2>3. Fine(<<s, t>>)
    BY <2>2, PostsTwo
  <2> QED BY <2>1, <2>3 DEF b
<1>5. CASE want = "IN_TRANSIT" /\ seen = "HELD" /\ heldFrom = "INITIATED"
  <2>1. b.moves = <<Move("HELD", "INITIATED")>>
    BY <1>5 DEF Before
  <2> QED BY <1>1, <1>2, <2>1
<1>6. CASE want = "SETTLED" /\ seen = "HELD" /\ heldFrom # "INITIATED"
  <2>1. b.moves = <<Move("HELD", heldFrom)>>
    BY <1>6 DEF Before
  <2>2. heldFrom \in State
    BY <1>1, <1>6
  <2> QED BY <1>1, <1>2, <2>1, <2>2
<1>7. CASE ~ \/ want = "SETTLED" /\ seen = "INITIATED"
             \/ want = "SETTLED" /\ seen = "HELD" /\ heldFrom = "INITIATED"
             \/ want = "IN_TRANSIT" /\ seen = "HELD" /\ heldFrom = "INITIATED"
             \/ want = "SETTLED" /\ seen = "HELD" /\ heldFrom # "INITIATED"
  <2>1. b.moves = <<>>
    BY <1>7 DEF Before
  <2> QED BY <2>1, PostsNothing
<1> QED BY <1>3, <1>4, <1>5, <1>6, <1>7

LEMMA PlanPosts ==
  ASSUME NEW seen \in {"INITIATED", "IN_TRANSIT", "HELD", "SETTLED"}, NEW heldFrom,
         seen = "HELD" => heldFrom \in Holdable, NEW status
  PROVE  LET p == Plan(seen, heldFrom, status)
         IN  PostsOnly(p, Told(seen, status)) /\ p \in Seq(Statements)
<1> DEFINE s == stateForBranchStatus(status)
           want == IF s = "none" /\ seen = "HELD" THEN heldFrom ELSE s
           b == Before(seen, heldFrom, want)
           books == IF want \in DOMAIN Booked THEN Booked[want] ELSE <<>>
           final == BooksFirst(b.at, want, books)
           p == Plan(seen, heldFrom, status)
           S == Told(seen, status)
           Fine(m) == PostsOnly(m, S) /\ m \in Seq(Statements)
\* An outcome is booked for no other status than its own.
<1>1. /\ want = "SETTLED" => status \in Closing
      /\ want = "FAILED" => status \in Failing
      /\ want \in {"SETTLED", "FAILED", "REVERSED"} => want = s
  BY DEF stateForBranchStatus, Holdable, Closing, Failing, Received, Unpaid
<1>2. p \in {<<>>, b.moves, b.moves \o final} /\ (p \notin {<<>>, b.moves} => canMove(b.at, want, heldFrom))
  BY DEF Plan
<1>3. Fine(b.moves)
  <2> HIDE DEF S, b
  <2> QED BY BeforePosts DEF b
<1>4. b.at \in State /\ (b.at = "SETTLED" => seen = "SETTLED")
  <2>1. BeforeFine({"initiated"}, seen, b)
    <3> HIDE DEF want
    <3> QED BY BeforeInOrder
  <2> HIDE DEF b
  <2> QED BY <2>1 DEF BeforeFine
<1> HIDE DEF b, p, s, want
<1>5. ASSUME canMove(b.at, want, heldFrom) PROVE Fine(final)
  <2>1. want \in NEXT[b.at] /\ want \in State
    BY <1>4, <1>5 DEF canMove, State, NEXT
  <2>2. want = "REVERSED" => seen = "SETTLED"
    <3>1. \A at \in State : "REVERSED" \in NEXT[at] => at = "SETTLED"
      BY DEF State, NEXT
    <3> QED BY <1>4, <2>1, <3>1
  <2>3. {"settled", "failed", "reversed"} \subseteq Journal /\ "unhold" \in Plain
    BY DEF Journal, Plain
  <2>4. Fine(books)
    <3>1. CASE want = "SETTLED"
      <4>1. books = <<Post("settled")>> /\ "settled" \in S
        BY <1>1, <3>1 DEF Booked, Told, Outcome
      <4> HIDE DEF S, books
      <4>2. Fine(<<Post("settled")>>)
        BY <2>3, <4>1, PostIs, PostsOne
      <4> QED BY <4>1, <4>2
    <3>2. CASE want = "FAILED"
      <4>1. books = <<Post("failed"), Do("unhold")>> /\ "failed" \in S
        BY <1>1, <3>2 DEF Booked, Told, Outcome
      <4> HIDE DEF S, books
      <4>2. Fine(<<Post("failed"), Do("unhold")>>)
        BY <2>3, <4>1, PostIs, PostsTwo
      <4> QED BY <4>1, <4>2
    <3>3. CASE want = "REVERSED"
      <4>1. books = <<Post("reversed"), Do("unhold")>> /\ "reversed" \in S
        BY <2>2, <3>3 DEF Booked, Told, Outcome
      <4> HIDE DEF S, books
      <4>2. Fine(<<Post("reversed"), Do("unhold")>>)
        BY <2>3, <4>1, PostIs, PostsTwo
      <4> QED BY <4>1, <4>2
    <3>4. CASE want \notin {"SETTLED", "FAILED", "REVERSED"}
      <4>1. books = <<>>
        BY <3>4 DEF Booked
      <4> QED BY <4>1, PostsNothing
    <3> QED BY <3>1, <3>2, <3>3, <3>4
  <2>5. Fine(<<Move(b.at, want)>>)
    <3> DEFINE m == Move(b.at, want)
    <3>1. m \in Statements /\ m.do # "post"
      BY <1>4, <2>1, PostIs
    <3> HIDE DEF m, S
    <3>2. Fine(<<m>>)
      BY <3>1, PostsOne
    <3> QED BY <3>2 DEF m
  <2>6. final = books \o <<Move(b.at, want)>>
    BY DEF BooksFirst
  <2> HIDE DEF S, books, final
  <2> QED BY <2>4, <2>5, <2>6, PostsAppended
<1>6. Fine(<<>>)
  BY PostsNothing
<1>7. Fine(p)
  <2> HIDE DEF S, books, final
  <2>1. CASE canMove(b.at, want, heldFrom)
    <3>1. Fine(b.moves \o final)
      BY <1>3, <1>5, <2>1, PostsAppended
    <3> QED BY <1>2, <1>3, <1>6, <3>1
  <2> QED BY <1>2, <1>3, <1>6, <2>1
<1> QED BY <1>7 DEF p

-----------------------------------------------------------------------------
\* What a worker's step makes of its call.
Acts(w) == \/ \E p \in Payin : SyncPayins(w, p)
           \/ \E k \in Followed : FollowRead(w, k)
           \/ RaiseStart(w) \/ CancelRead(w) \/ ReleaseRead(w) \/ Statement(w) \/ Crash(w)

LEMMA ActsOnly ==
  ASSUME IInv, NEW w \in Worker, Acts(w)
  PROVE  Stepped(w)
BY SyncSteps, FollowReadSteps, RaiseStartSteps, CancelSteps, ReleaseSteps, StatementSteps, CrashSteps DEF Acts

LEMMA NextActs ==
  ASSUME IInv, [Next]_vars
  PROVE  \/ \E w \in Worker : Acts(w)
         \/ UNCHANGED <<call, posted, balances, instr, lock, orphans>>
BY DEF Next, Acts, vars, PayinPaid, Press, tables, control

Listed(w, k, t, S) == call'[w] = Doing(k, t) /\ PostsOnly(t, S) /\ t \in Seq(Statements)

\* A call that carries out no statements.
HasBalance(k) == [At("insert", k) EXCEPT !.amount = payable]
HasRow(k) == [At("status", k) EXCEPT !.seen = instr[k].state, !.heldFrom = instr[k].heldFrom]
PlainCall(c) == c = Idle \/ \E k \in Key : c \in {At("lock", k), At("balance", k), HasBalance(k), HasRow(k)}

CallSteps(w) ==
  \/ call'[w].pc # "run" /\ PlainCall(call'[w])
  \/ \E p \in Payin, t \in Seq(Statements) : Listed(w, p, t, {"collected"})
  \/ /\ RaiseInsert(w) \/ (RaiseLock(w) /\ instr[call[w].key].state = "PENDING")
     /\ call[w].key \in Key
     /\ \E t \in Seq(Statements) : Listed(w, call[w].key, t, {"initiated"})
  \/ \E k \in Key, t \in Seq(Statements) : Listed(w, k, t, {"cancelled", "released"})
  \/ /\ call[w].pc = "status" /\ call[w].key \in Key /\ (call[w].seen = "SETTLED" => Has("settled", call[w].key))
     /\ \E t \in Seq(Statements) :
          Listed(w, call[w].key, t, Told(call[w].seen, request[call[w].key]))
  \/ call[w].pc = "run" /\ call'[w] = Doing(call[w].key, Tail(call[w].todo))

LEMMA PcOfAt ==
  ASSUME NEW pc, NEW k
  PROVE  /\ At(pc, k).pc = pc /\ At(pc, k).key = k /\ Idle.pc = "idle"
         /\ \A x, y : /\ [At(pc, k) EXCEPT !.amount = x].pc = pc
                      /\ [At(pc, k) EXCEPT !.amount = x].key = k
                      /\ [At(pc, k) EXCEPT !.amount = x].amount = x
                      /\ [At(pc, k) EXCEPT !.seen = x, !.heldFrom = y].pc = pc
BY DEF At, Idle

LEMMA CallStepped ==
  ASSUME IInv, NEW w \in Worker, Acts(w)
  PROVE  CallSteps(w)
<1>1. DOMAIN call = Worker /\ \A c : Becomes(w, c) => call'[w] = c
  BY BecomesIs DEF IInv, TablesInv
<1>2. ASSUME NEW p \in Payin, SyncPayins(w, p) PROVE CallSteps(w)
  <2>1. call'[w] = Doing(p, SyncScript)
    BY <1>1, <1>2 DEF SyncPayins, Start
  <2> QED BY <2>1, ScriptsPost DEF CallSteps, Listed
<1>3. ASSUME NEW k \in Followed, FollowRead(w, k) PROVE CallSteps(w)
  <2> DEFINE c == [At("status", k) EXCEPT !.seen = instr[k].state, !.heldFrom = instr[k].heldFrom]
  <2>0. Becomes(w, c)
    BY <1>3 DEF FollowRead, Start
  <2>1. call'[w].pc = "status"
    <3>1. c.pc = "status"
      BY PcOfAt
    <3> HIDE DEF c
    <3> QED BY <1>1, <2>0, <3>1
  <2>2. call'[w] = HasRow(k) /\ k \in Key
    <3>1. c = HasRow(k)
      BY DEF HasRow
    <3> HIDE DEF c
    <3> QED BY <1>1, <2>0, <3>1, SettlementAssumption
  <2> QED BY <2>1, <2>2 DEF CallSteps, PlainCall
<1>4. CASE RaiseStart(w)
  <2>1. PICK k \in Key : call'[w] = At("lock", k)
    BY <1>1, <1>4 DEF RaiseStart, Start
  <2>2. call'[w].pc # "run"
    BY <2>1, PcOfAt
  <2> QED BY <2>1, <2>2 DEF CallSteps, PlainCall
<1>5. CASE CancelRead(w)
  <2>1. PICK k \in Followed : call'[w] = Doing(k, <<Post("cancelled"), Move(instr[k].state, "CANCELLED")>>)
    BY <1>1, <1>5 DEF CancelRead, Start
  <2>2. k \in Key /\ instr[k].state \in State
    BY SettlementAssumption DEF IInv, TablesInv, IsRow
  <2>3. PICK t : t = <<Post("cancelled"), Move(instr[k].state, "CANCELLED")>>
    OBVIOUS
  <2>4. PostsOnly(t, {"cancelled"}) /\ t \in Seq(Statements)
    BY <2>2, <2>3, ScriptsPost
  <2>5. Listed(w, k, t, {"cancelled", "released"})
    BY <2>1, <2>3, <2>4, PostsMore DEF Listed
  <2> QED BY <2>2, <2>4, <2>5 DEF CallSteps
<1>6. CASE ReleaseRead(w)
  <2>1. PICK k \in Followed : call'[w] = Doing(k, <<Post("released"), Do("release")>>)
    BY <1>1, <1>6 DEF ReleaseRead, Start
  <2>2. k \in Key
    BY SettlementAssumption
  <2>3. PICK t : t = <<Post("released"), Do("release")>>
    OBVIOUS
  <2>4. PostsOnly(t, {"released"}) /\ t \in Seq(Statements)
    BY <2>3, ScriptsPost
  <2>5. Listed(w, k, t, {"cancelled", "released"})
    BY <2>1, <2>3, <2>4, PostsMore DEF Listed
  <2> QED BY <2>2, <2>4, <2>5 DEF CallSteps
<1>7. CASE RaiseLock(w)
  <2>1. call[w].key \in Key
    BY <1>7 DEF RaiseLock, Step, IInv, CallInv
  <2>2. CASE instr[call[w].key].state = "PENDING"
    <3>1. PICK s \in InitiateScripts : call'[w] = Doing(call[w].key, s)
      BY <1>1, <1>7, <2>2 DEF RaiseLock
    <3>2. Listed(w, call[w].key, s, {"initiated"}) /\ s \in Seq(Statements)
      BY <3>1, InitiatePosts DEF Listed
    <3> QED BY <1>7, <2>1, <2>2, <3>2 DEF CallSteps
  <2>3. CASE instr[call[w].key].state # "PENDING"
    <3>1. Becomes(w, At("balance", call[w].key)) \/ Becomes(w, Idle)
      BY <1>7, <2>3 DEF RaiseLock, Over
    <3>2. call'[w].pc # "run"
      BY <1>1, <3>1, PcOfAt
    <3> QED BY <1>1, <2>1, <3>1, <3>2 DEF CallSteps, PlainCall
  <2> QED BY <2>2, <2>3
<1>8. CASE RaiseBalance(w)
  <2>0. Becomes(w, [At("insert", call[w].key) EXCEPT !.amount = payable]) /\ call[w].key \in Key
    BY <1>8 DEF RaiseBalance, Step, IInv, CallInv
  <2> DEFINE c == [At("insert", call[w].key) EXCEPT !.amount = payable]
  <2>1. call'[w].pc = "insert"
    <3>1. c.pc = "insert"
      BY PcOfAt
    <3> HIDE DEF c
    <3> QED BY <1>1, <2>0, <3>1 DEF c
  <2>2. call'[w] = HasBalance(call[w].key)
    <3>1. c = HasBalance(call[w].key)
      BY DEF HasBalance
    <3> HIDE DEF c
    <3> QED BY <1>1, <2>0, <3>1 DEF c
  <2> HIDE DEF c
  <2> QED BY <2>0, <2>1, <2>2 DEF CallSteps, PlainCall
<1>9. CASE RaiseInsert(w)
  <2>1. call[w].key \in Key
    BY <1>9 DEF RaiseInsert, Step, IInv, CallInv
  <2>2. CASE \E s \in InitiateScripts : Becomes(w, Doing(call[w].key, UnderTheLock(s)))
    <3>1. PICK s \in InitiateScripts : call'[w] = Doing(call[w].key, UnderTheLock(s))
      BY <1>1, <2>2
    <3>2. Listed(w, call[w].key, UnderTheLock(s), {"initiated"}) /\ UnderTheLock(s) \in Seq(Statements)
      BY <3>1, UnderTheLockPosts DEF Listed
    <3> QED BY <1>9, <2>1, <3>2 DEF CallSteps
  <2>3. CASE ~\E s \in InitiateScripts : Becomes(w, Doing(call[w].key, UnderTheLock(s)))
    <3>1. Becomes(w, Idle)
      BY <1>9, <2>3 DEF RaiseInsert, Over
    <3>2. call'[w].pc # "run"
      BY <1>1, <3>1, PcOfAt
    <3> QED BY <1>1, <3>1, <3>2 DEF CallSteps, PlainCall
  <2> QED BY <2>2, <2>3
<1>10. CASE FollowStatus(w)
  <2>1. /\ call[w].pc = "status" /\ call[w].key \in Key
        /\ call[w].seen \in {"INITIATED", "IN_TRANSIT", "HELD", "SETTLED"}
        /\ (call[w].seen = "SETTLED" => Has("settled", call[w].key))
        /\ (call[w].seen = "HELD" => call[w].heldFrom \in Holdable)
    BY <1>10 DEF FollowStatus, Step, IInv, CallInv
  <2>2. PICK seen, heldFrom, status, t :
          /\ seen = call[w].seen /\ heldFrom = call[w].heldFrom /\ status = request[call[w].key]
          /\ t = Plan(seen, heldFrom, status)
    OBVIOUS
  <2>3. call'[w] = Doing(call[w].key, t)
    BY <1>1, <1>10, <2>2 DEF FollowStatus
  <2>4. PostsOnly(t, Told(seen, status)) /\ t \in Seq(Statements)
    BY <2>1, <2>2, PlanPosts
  <2> QED BY <2>1, <2>2, <2>3, <2>4 DEF CallSteps, Listed
<1>11. CASE DoPost(w) \/ DoStamp(w) \/ DoUnlock(w) \/ DoMove(w) \/ DoRequest(w) \/ DoReserve(w) \/ DoHold(w)
  <2>1. call[w].pc = "run"
    BY <1>11 DEF DoPost, DoStamp, DoUnlock, DoMove, DoRequest, DoReserve, DoHold, Running
  <2>2. Next1(w) \/ Over(w)
    BY <1>11 DEF DoPost, DoStamp, DoUnlock, DoMove, DoRequest, DoReserve, DoHold
  <2> QED BY <1>1, <2>1, <2>2, PcOfAt DEF CallSteps, PlainCall, Next1, Over
<1>12. CASE Crash(w)
  <2>1. call'[w] = Idle
    BY <1>1, <1>12 DEF Crash, Over
  <2> QED BY <2>1, PcOfAt DEF CallSteps, PlainCall
<1> QED BY <1>2, <1>3, <1>4, <1>5, <1>6, <1>7, <1>8, <1>9, <1>10, <1>11, <1>12 DEF Acts, Statement

-----------------------------------------------------------------------------
\* The outcome of a request.  Only people, and the statement that raises it, write a request.
LEMMA RequestsMove ==
  ASSUME IInv, [Next]_vars
  PROVE  \/ UNCHANGED requests
         \/ \E w \in Worker : DoRequest(w)
         \/ \E k \in Followed : Press(k)
BY DEF Next, vars, requests, SyncPayins, FollowRead, RaiseStart, CancelRead, ReleaseRead, Crash, PayinPaid,
       Statement, DoPost, DoStamp, DoUnlock, DoMove, DoReserve, DoHold, RaiseLock, RaiseBalance,
       RaiseInsert, FollowStatus

LEMMA LedgerGrows ==
  ASSUME IInv, [Next]_vars
  PROVE  \A j, k : Has(j, k) => Has(j, k)'
<1>1. posted \subseteq posted'
  BY NextActs, ActsOnly DEF Stepped, Kept
<1> QED BY <1>1 DEF Has

LEMMA StandsOn ==
  ASSUME IInv, [Next]_vars, NEW k \in Key, NEW type \in Outcome, Stands(type, k)
  PROVE  Stands(type, k)'
<1>1. DOMAIN request = Key
  BY DEF IInv, TablesInv
<1>2. Has("settled", k) => Has("settled", k)'
  BY LedgerGrows
<1>3. "none" \notin Closing \cup Failing \cup {"REVERSED"} /\ "REVERSED" \notin Failing
  BY DEF Closing, Failing, Unpaid
<1>4. CASE UNCHANGED requests
  BY <1>2, <1>4 DEF Stands, requests
<1>5. ASSUME NEW w \in Worker, DoRequest(w) PROVE Stands(type, k)'
  <2>1. reopened' = reopened /\ (request[k] # "none" => request'[k] = request[k])
    BY <1>1, <1>5 DEF DoRequest
  <2> QED BY <1>2, <1>3, <2>1 DEF Stands
<1>6. ASSUME NEW i \in Followed, Press(i) PROVE Stands(type, k)'
  <2>1. PICK to : /\ request' = [request EXCEPT ![i] = to]
                  /\ reopened' = IF TakenBack(request[i], to) THEN reopened \cup {i} ELSE reopened
    BY <1>6 DEF Press
  <2>2. CASE i # k
    BY <1>1, <1>2, <2>1, <2>2 DEF Stands
  <2>3. CASE i = k
    <3>1. request'[k] = to /\ (k \notin reopened' => k \notin reopened /\ ~TakenBack(request[k], to))
      BY <1>1, <2>1, <2>3
    <3> QED BY <1>2, <1>3, <3>1 DEF Stands, TakenBack
  <2> QED BY <2>2, <2>3
<1> QED BY <1>4, <1>5, <1>6, RequestsMove

\* A new list of statements: its request says what it books.
LEMMA SaysOfList ==
  ASSUME NEW w \in Worker, NEW k, NEW t, NEW S, Listed(w, k, t, S),
         \A type \in S \cap Outcome : k \in Key => Stands(type, k)'
  PROVE  Says(w)'
<1>1. CASE t = <<>>
  BY <1>1 DEF Listed, Doing, Idle, Says, Pends
<1>2. CASE t # <<>>
  <2> DEFINE c == [Idle EXCEPT !.pc = "run", !.key = k, !.todo = t]
  <2>1. call'[w] = c
    BY <1>2 DEF Listed, Doing
  <2>2. c.key = k /\ c.todo = t
    BY DEF Idle
  <2> HIDE DEF c
  <2>3. \A type : Mentions(t, type) => type \in S
    BY MentionsOnly DEF Listed
  <2> QED BY <2>1, <2>2, <2>3 DEF Says, Pends
<1> QED BY <1>1, <1>2

\* On to the next statement.
LEMMA SaysOfRest ==
  ASSUME IInv, [Next]_vars, NEW w \in Worker, Says(w), call[w].pc = "run",
         call'[w] = Doing(call[w].key, Tail(call[w].todo))
  PROVE  Says(w)'
<1>1. PICK k, t : k = call[w].key /\ t = call[w].todo
  OBVIOUS
<1>2. t # <<>> /\ t \in Seq(Statements)
  BY <1>1 DEF IInv, CallInv, InOrder
<1>3. CASE Tail(t) = <<>>
  BY <1>1, <1>3 DEF Doing, Idle, Says, Pends
<1>4. CASE Tail(t) # <<>>
  <2> DEFINE c == [Idle EXCEPT !.pc = "run", !.key = k, !.todo = Tail(t)]
  <2>1. call'[w] = c
    BY <1>1, <1>4 DEF Doing
  <2>2. c.key = k /\ c.todo = Tail(t)
    BY DEF Idle
  <2> HIDE DEF c
  <2>3. ASSUME NEW type \in Outcome, k \in Key, Mentions(Tail(t), type) PROVE Stands(type, k)'
    <3>1. Mentions(t, type)
      BY <1>2, <2>3, MentionsTail
    <3>2. Stands(type, k)
      BY <1>1, <2>3, <3>1 DEF Says, Pends
    <3> QED BY <2>3, <3>2, StandsOn
  <2> QED BY <2>1, <2>2, <2>3 DEF Says, Pends
<1> QED BY <1>3, <1>4

LEMMA SaysKept ==
  ASSUME IInv, [Next]_vars, NEW w \in Worker, Says(w), call'[w] = call[w]
  PROVE  Says(w)'
<1> SUFFICES ASSUME NEW c, c = call[w], NEW type \in Outcome, c.key \in Key, Pends(c, type)
             PROVE  Stands(type, c.key)'
  BY DEF Says
<1>1. Stands(type, c.key)
  BY DEF Says
<1> QED BY <1>1, StandsOn

LEMMA ToldStands ==
  ASSUME NEW k \in Key, NEW seen, seen = "SETTLED" => Has("settled", k),
         NEW type \in Told(seen, request[k])
  PROVE  Stands(type, k)
BY DEF Told, Stands, Outcome

LEMMA SaysStepped ==
  ASSUME IInv, [Next]_vars, NEW w \in Worker, Acts(w), Says(w)
  PROVE  Says(w)'
<1>1. CallSteps(w)
  BY CallStepped
<1>2. CASE call'[w].pc # "run"
  BY <1>2 DEF Says, Pends
<1>3. ASSUME NEW k, NEW t, NEW S, S \cap Outcome = {}, Listed(w, k, t, S) PROVE Says(w)'
  BY <1>3, SaysOfList
<1>4. ASSUME call[w].pc = "status", call[w].key \in Key, call[w].seen = "SETTLED" => Has("settled", call[w].key),
             NEW t, Listed(w, call[w].key, t, Told(call[w].seen, request[call[w].key]))
      PROVE  Says(w)'
  <2>1. PICK k, seen : k = call[w].key /\ seen = call[w].seen
    OBVIOUS
  <2>2. ASSUME NEW type \in Told(seen, request[k]) \cap Outcome PROVE Stands(type, k)'
    <3>1. Stands(type, k)
      BY <1>4, <2>1, <2>2, ToldStands
    <3> QED BY <1>4, <2>1, <2>2, <3>1, StandsOn
  <2>3. Listed(w, k, t, Told(seen, request[k]))
    BY <1>4, <2>1
  <2> QED BY <2>2, <2>3, SaysOfList
<1>5. CASE call[w].pc = "run" /\ call'[w] = Doing(call[w].key, Tail(call[w].todo))
  BY <1>5, SaysOfRest
<1>6. /\ {"collected"} \cap Outcome = {} /\ {"initiated"} \cap Outcome = {}
      /\ {"cancelled", "released"} \cap Outcome = {}
  BY DEF Outcome
<1> QED BY <1>1, <1>2, <1>3, <1>4, <1>5, <1>6 DEF CallSteps

\* What a worker posts is at the head of its list.
LEMMA PostedBy ==
  ASSUME IInv, [Next]_vars
  PROVE  posted' = posted \/ \E w \in Worker : DoPost(w)
BY DEF Next, vars, tables, SyncPayins, FollowRead, RaiseStart, CancelRead, ReleaseRead, Crash, PayinPaid, Press,
       Statement, DoStamp, DoUnlock, DoMove, DoRequest, DoReserve, DoHold, RaiseLock, RaiseBalance,
       RaiseInsert, FollowStatus

LEMMA HeadPends ==
  ASSUME IInv, NEW w \in Worker, DoPost(w)
  PROVE  LET s == Head(call[w].todo)
         IN  /\ s.what \in Journal \cup State /\ Pends(call[w], s.what)
             /\ posted' = posted \cup {<<s.what, call[w].key>>}
<1>1. PICK t : t = call[w].todo
  OBVIOUS
<1>2. call[w].pc = "run" /\ Head(t).do = "post"
  BY <1>1 DEF DoPost, Running
<1>3. t # <<>> /\ t \in Seq(Statements) /\ Head(t) \in Statements
  BY <1>1, <1>2 DEF IInv, CallInv, InOrder
<1>4. Mentions(t, Head(t).what)
  BY <1>2, <1>3, MentionsTail DEF Posts
<1>5. Head(t).what \in Journal \cup State
  BY <1>3 DEF Statements
<1> QED BY <1>1, <1>2, <1>4, <1>5 DEF DoPost, Pends

LEMMA OutcomeInit == Init => OutcomeInv
<1> SUFFICES ASSUME Init PROVE OutcomeInv
  OBVIOUS
<1>1. posted = {} /\ \A w \in Worker : call[w].pc = "idle"
  BY PcOfAt DEF Init
<1> QED BY <1>1 DEF OutcomeInv, Has, Says, Pends

LEMMA OutcomeSteps == IInv /\ OutcomeInv /\ [Next]_vars => OutcomeInv'
<1> SUFFICES ASSUME IInv, OutcomeInv, [Next]_vars PROVE OutcomeInv'
  OBVIOUS
<1>1. ASSUME NEW k \in Key, NEW type \in Outcome, Has(type, k)' PROVE Stands(type, k)'
  <2>1. CASE Has(type, k)
    BY <1>1, <2>1, StandsOn DEF OutcomeInv
  <2>2. CASE ~Has(type, k)
    <3>1. PICK w \in Worker : DoPost(w)
      BY <1>1, <2>2, PostedBy DEF Has
    <3>2. Pends(call[w], type) /\ call[w].key = k
      BY <1>1, <2>2, <3>1, HeadPends DEF Has
    <3> QED BY <1>1, <3>2, StandsOn DEF OutcomeInv, Says
  <2> QED BY <2>1, <2>2
<1>2. ASSUME NEW v \in Worker PROVE Says(v)'
  <2>1. CASE call' = call
    BY <2>1, SaysKept DEF OutcomeInv
  <2>2. ASSUME NEW w \in Worker, Acts(w) PROVE Says(v)'
    <3>1. CASE v = w
      BY <2>2, <3>1, SaysStepped DEF OutcomeInv
    <3>2. CASE v # w
      <4>1. call'[v] = call[v]
        BY <2>2, <3>2, ActsOnly DEF Stepped, Kept
      <4> QED BY <4>1, SaysKept DEF OutcomeInv
    <3> QED BY <3>1, <3>2
  <2> QED BY <2>1, <2>2, NextActs
<1> QED BY <1>1, <1>2 DEF OutcomeInv

\* A settlement is booked as paid or as failed, never as both, and as reversed only after it was
\* paid, however many workers follow its request on readings of their own: what is booked, and what
\* a worker is about to book, is what the request still says, unless people took it back.
THEOREM BookedOneWay == Spec => []OneOutcome
<1>1. IInv /\ OutcomeInv => OneOutcome
  <2> SUFFICES ASSUME OutcomeInv, NEW k \in Key \ reopened
               PROVE  /\ ~(Has("settled", k) /\ Has("failed", k))
                      /\ Has("reversed", k) => Has("settled", k)
    BY DEF OneOutcome
  <2>1. \A type \in {"settled", "failed", "reversed"} : Has(type, k) => Stands(type, k)
    BY DEF OutcomeInv, Outcome
  <2>2. (Closing \cup {"REVERSED"}) \cap Failing = {}
    BY DEF Closing, Failing, Unpaid
  <2> QED BY <2>1, <2>2 DEF Stands
<1>2. Spec => [](IInv /\ OutcomeInv)
  <2>1. Init => IInv /\ OutcomeInv
    BY InitInv, OutcomeInit
  <2>2. IInv /\ OutcomeInv /\ [Next]_vars => (IInv /\ OutcomeInv)'
    BY Inductive, OutcomeSteps
  <2> QED BY <2>1, <2>2, PTL DEF Spec
<1> QED BY <1>1, <1>2, PTL

-----------------------------------------------------------------------------
\* Amounts, and the lines of a journal.
LEMMA AmountsTyped ==
  ASSUME NEW gross \in Nat
  PROVE  LET a == settlementAmounts(gross, Card, Rate)
         IN  a \in Amounts /\ a.gross = gross
<1> DEFINE a == settlementAmounts(gross, Card, Rate)
           p == CardParts(gross, Card)
           charges == Clamp(Total(p), Card)
           gst == bpsOf(charges, Card.gst_bps)
           tds == bpsOf(charges, Rate.tds_bps)
           reserve == bpsOf(gross, Rate.reserve_bps)
           parts == Shared(p, Total(p), charges)
           net == gross - reserve - charges - gst + tds
<1>1. Card \in RateCard /\ Rate \in Rates
  BY SettlementAssumption
<1>2. p \in [Parts -> Nat] /\ Total(p) \in Nat
  BY <1>1, CardTypes, TotalType
<1>3. charges \in Nat
  BY <1>1, <1>2, ClampType
<1>4. Card.gst_bps \in Nat /\ Rate.tds_bps \in Nat /\ Rate.reserve_bps \in Nat
  BY <1>1 DEF RateCard, Rates
<1>5. gst \in Nat /\ tds \in Nat /\ reserve \in Nat
  BY <1>3, <1>4, Bps
<1>6. parts \in [Parts -> Nat]
  BY <1>2, <1>3, SharedAddsUp
<1>7. a = [gross |-> gross, reserve |-> reserve, parts |-> parts, charges |-> charges, gst |-> gst,
           tds |-> tds, net |-> net]
  BY DEF settlementAmounts
<1>8. net \in Int
  <2> HIDE DEF charges, gst, tds, reserve
  <2> QED BY <1>3, <1>5
<1> HIDE DEF a, p, charges, gst, tds, reserve, parts, net
<1>9. a \in Amounts /\ a.gross = gross
  BY <1>3, <1>5, <1>6, <1>7, <1>8 DEF Amounts
<1> QED BY <1>9 DEF a

LEMMA PartsTyped == ASSUME NEW a \in Amounts PROVE /\ a.gross \in Nat /\ a.reserve \in Nat /\ a.gst \in Nat
                                                   /\ a.tds \in Nat /\ a.net \in Int /\ Total(a.parts) \in Nat
<1>1. a.parts \in [Parts -> Nat]
  BY DEF Amounts
<1> QED BY <1>1, TotalType DEF Amounts

LEMMA InitiatedTyped ==
  ASSUME NEW a \in Amounts
  PROVE  LET l == initiatedLines(a)
         IN  l \in [Account -> Int] /\ l["payable"] = a.gross
<1>1. PICK total \in Nat : total = Total(a.parts)
  BY PartsTyped
<1>2. PICK g, r, s, t \in Nat, net \in Int : g = a.gross /\ r = a.reserve /\ s = a.gst /\ t = a.tds /\ net = a.net
  BY PartsTyped
<1> DEFINE l == initiatedLines(a)
<1>3. l = [NoLines EXCEPT !["payable"] = g, !["tds"] = t, !["transit"] = -net,
                          !["reserve"] = -r, !["fees"] = -total, !["gst"] = -s]
  BY <1>1, <1>2 DEF initiatedLines
<1>4. -net \in Int /\ -r \in Int /\ -total \in Int /\ -s \in Int /\ g \in Int /\ t \in Int
  OBVIOUS
<1> HIDE DEF l
<1>5. l \in [Account -> Int] /\ l["payable"] = g
  BY <1>3, <1>4 DEF NoLines, Account
<1> QED BY <1>2, <1>5 DEF l

LEMMA SettledTyped ==
  ASSUME NEW net \in Int
  PROVE  LET l == settledLines(net)
         IN  l \in [Account -> Int] /\ l["payable"] = 0
BY DEF settledLines, NoLines, Account

LEMMA ReversedTyped ==
  ASSUME NEW l \in [Account -> Int]
  PROVE  reversed(l) \in [Account -> Int] /\ reversed(l)["payable"] = -l["payable"]
BY DEF reversed, Account

LEMMA BothTyped ==
  ASSUME NEW l \in [Account -> Int], NEW m \in [Account -> Int]
  PROVE  Both(l, m) \in [Account -> Int] /\ Both(l, m)["payable"] = l["payable"] + m["payable"]
BY DEF Both, Account

LEMMA OtherLinesTyped ==
  ASSUME NEW amount \in Nat
  PROVE  /\ collectedLines(amount) \in [Account -> Int] /\ collectedLines(amount)["payable"] = -amount
         /\ reserveReleaseLines(amount) \in [Account -> Int] /\ reserveReleaseLines(amount)["payable"] = -amount
<1>1. amount \in Int /\ -amount \in Int
  OBVIOUS
<1> QED BY <1>1 DEF collectedLines, reserveReleaseLines, NoLines, Account

\* Only the first journal of an instruction lowers the payable, by its gross amount.
LEMMA LinesTyped ==
  ASSUME NEW type \in Journal, NEW k, type # "collected" => AmountsOf(k) \in Amounts
  PROVE  LET l == Lines(<<type, k>>)
         IN  /\ l \in [Account -> Int]
             /\ type # "initiated" => l["payable"] <= 0
             /\ type = "initiated" => l["payable"] = AmountsOf(k).gross
<1> DEFINE l == Lines(<<type, k>>)
           a == AmountsOf(k)
           il == initiatedLines(a)
           sl == settledLines(a.net)
<1>1. \/ type = "collected" /\ l = collectedLines(Amount)
      \/ type = "initiated" /\ l = il
      \/ type = "settled" /\ l = sl
      \/ type \in {"failed", "cancelled"} /\ l = reversed(il)
      \/ type = "reversed" /\ l = Both(reversed(sl), reversed(il))
      \/ type = "released" /\ l = reserveReleaseLines(a.reserve)
  BY DEF Lines, Journal
<1> HIDE DEF l, a
<1>2. Amount \in Nat /\ Amount > 0
  BY SettlementAssumption
<1>3. CASE type = "collected" /\ l = collectedLines(Amount)
  <2>1. l \in [Account -> Int] /\ l["payable"] = -Amount
    BY <1>2, <1>3, OtherLinesTyped
  <2> QED BY <1>2, <1>3, <2>1 DEF l, a
<1>4. CASE type # "collected"
  <2>1. a \in Amounts
    BY <1>4 DEF a
  <2>2. a.gross \in Nat /\ a.reserve \in Nat /\ a.net \in Int
    BY <2>1, PartsTyped
  <2>3. il \in [Account -> Int] /\ il["payable"] = a.gross /\ sl \in [Account -> Int] /\ sl["payable"] = 0
    BY <2>1, <2>2, InitiatedTyped, SettledTyped
  <2> HIDE DEF il, sl
  <2>4. /\ reversed(il) \in [Account -> Int] /\ reversed(il)["payable"] = -a.gross
        /\ reversed(sl) \in [Account -> Int] /\ reversed(sl)["payable"] = 0
    BY <2>2, <2>3, ReversedTyped
  <2>5. /\ Both(reversed(sl), reversed(il)) \in [Account -> Int]
        /\ Both(reversed(sl), reversed(il))["payable"] = -a.gross
    BY <2>2, <2>4, BothTyped
  <2>6. reserveReleaseLines(a.reserve) \in [Account -> Int]
        /\ reserveReleaseLines(a.reserve)["payable"] = -a.reserve
    BY <2>2, OtherLinesTyped
  <2>7. /\ l \in [Account -> Int]
        /\ type # "initiated" => l["payable"] <= 0
        /\ type = "initiated" => l["payable"] = a.gross
    BY <1>1, <1>4, <2>2, <2>3, <2>4, <2>5, <2>6
  <2> QED BY <2>7 DEF l, a
<1> QED BY <1>1, <1>3, <1>4

-----------------------------------------------------------------------------
\* What is posted, and what is read of the payable.
LEMMA PayableTyped == ASSUME TypesInv PROVE payable \in Int /\ balances["payable"] \in Int
BY DEF TypesInv, payable, Account

LEMMA PostTyped ==
  ASSUME IInv, TypesInv, NEW w \in Worker, DoPost(w)
  PROVE  \E type \in Journal, k \in Key \cup Payin :
           /\ k = call[w].key /\ type = Head(call[w].todo).what
           /\ Pends(call[w], type)
           /\ type # "collected" => k \in Key /\ AmountsOf(k) \in Amounts
           /\ posted' = posted \cup {<<type, k>>}
           /\ balances' = IF Has(type, k) THEN balances ELSE Both(balances, Lines(<<type, k>>))
<1>1. PICK k, t, type : k = call[w].key /\ t = call[w].todo /\ type = Head(t).what
  OBVIOUS
<1>2. Pends(call[w], type) /\ posted' = posted \cup {<<type, k>>}
  BY <1>1, HeadPends
<1>3. ListFits(k, t)
  BY <1>1, <1>2 DEF TypesInv, CallTyped, Pends
<1>4. Mentions(t, type)
  BY <1>1, <1>2 DEF Pends
<1>5. \/ k \in Key /\ type \in Journal
      \/ k \in Payin /\ type = "collected"
  BY <1>3, <1>4, MentionsOnly DEF ListFits
<1>6. type \in Journal /\ k \in Key \cup Payin /\ (type # "collected" => k \in Key)
  BY <1>5 DEF Journal
<1>7. k \in Key => AmountsOf(k) \in Amounts
  BY DEF TypesInv, Row, AmountsOf
<1>8. balances' = IF Has(type, k) THEN balances ELSE Both(balances, Lines(<<type, k>>))
  BY <1>1 DEF DoPost, Has
<1> QED BY <1>1, <1>2, <1>6, <1>7, <1>8

LEMMA PaidSinceTyped == paidSince \in Nat
<1> DEFINE S == {p \in Late : <<"collected", p>> \in posted}
<1>1. IsFiniteSet(S)
  <2>1. S \subseteq Payin /\ IsFiniteSet(Payin)
    BY SettlementAssumption
  <2> QED BY <2>1, FS_Subset
<1>2. Cardinality(S) \in Nat
  BY <1>1, FS_CardinalityType
<1>3. Amount \in Nat
  BY SettlementAssumption
<1> HIDE DEF S
<1>4. Amount * Cardinality(S) \in Nat
  BY <1>2, <1>3, ProductType
<1> QED BY <1>4 DEF paidSince, S

\* No more is raised than the balance that was read.
LEMMA GrossFits ==
  ASSUME NEW k \in Key, NEW balance \in Int, NEW g \in GrossFor(k, balance), g > 0
  PROVE  g \in Nat /\ g <= balance
<1>1. Limits.max_payout \in Nat /\ Limits.min_payout \in Nat /\ Asked \subseteq Nat
  BY SettlementAssumption
<1>2. PICK since \in Nat : since = paidSince
  BY PaidSinceTyped
<1>3. ASSUME NEW l, NEW s \in Nat, l.max_payout \in Nat, l.min_payout \in Nat
      PROVE  /\ cycleGross(balance, s, l) \in Nat
             /\ cycleGross(balance, s, l) > 0 => cycleGross(balance, s, l) <= balance
  BY <1>3 DEF cycleGross
<1>4. CASE k \in Cycle
  <2>1. g = cycleGross(balance, since, Limits)
    BY <1>2, <1>4 DEF GrossFor
  <2> QED BY <1>1, <1>3, <2>1
<1>5. CASE k \notin Cycle
  <2> DEFINE l == [Limits EXCEPT !.min_payout = 0]
             available == cycleGross(balance, 0, l)
  <2>1. l.max_payout \in Nat /\ l.min_payout \in Nat
    BY SettlementAssumption
  <2>2. g \in Asked \cup {available} /\ g <= available
    BY <1>5 DEF GrossFor
  <2> HIDE DEF l
  <2>3. available \in Nat /\ (available > 0 => available <= balance)
    BY <1>3, <2>1
  <2> HIDE DEF available
  <2> QED BY <1>1, <2>2, <2>3
<1> QED BY <1>4, <1>5

\* An instruction is inserted with amounts that the payable read covers.
LEMMA InsertIs ==
  ASSUME IInv, TypesInv, NEW w \in Worker, RaiseInsert(w)
  PROVE  \/ Becomes(w, Idle) /\ lock' = NoWorker /\ UNCHANGED instr
         \/ \E g \in Nat, s \in InitiateScripts :
              /\ g <= call[w].amount
              /\ Becomes(w, Doing(call[w].key, UnderTheLock(s))) /\ UNCHANGED lock
              /\ instr' = [instr EXCEPT ![call[w].key] =
                             [instr[call[w].key] EXCEPT !.state = "PENDING",
                                                        !.amounts = settlementAmounts(g, Card, Rate)]]
<1>1. PICK k, amount : k = call[w].key /\ amount = call[w].amount
  OBVIOUS
<1>2. k \in Key /\ amount \in Int /\ IsRow(instr[k]) /\ DOMAIN instr = Key
  <2>1. call[w].pc = "insert"
    BY DEF RaiseInsert, Step
  <2>2. call[w] \in Calls
    BY DEF TypesInv, CallTyped
  <2>3. amount \in Int
    BY <1>1, <2>2 DEF Calls
  <2> QED BY <1>1, <2>1, <2>3 DEF IInv, CallInv, TablesInv
<1>3. CASE Over(w) /\ lock' = NoWorker /\ UNCHANGED instr
  BY <1>3 DEF Over
<1>4. CASE /\ \E g \in {g \in GrossFor(k, amount) : g > 0 /\ ~Refused(settlementAmounts(g, Card, Rate))} :
                instr' = [instr EXCEPT ![k].state = "PENDING", ![k].amounts = settlementAmounts(g, Card, Rate)]
           /\ \E s \in InitiateScripts : Becomes(w, Doing(k, UnderTheLock(s)))
           /\ UNCHANGED lock
  <2>1. PICK g \in GrossFor(k, amount) :
          /\ g > 0
          /\ instr' = [instr EXCEPT ![k].state = "PENDING", ![k].amounts = settlementAmounts(g, Card, Rate)]
    BY <1>4
  <2>2. g \in Nat /\ g <= amount
    BY <1>2, <2>1, GrossFits
  <2> DEFINE a == settlementAmounts(g, Card, Rate)
             r == [instr[k] EXCEPT !.state = "PENDING", !.amounts = a]
  <2> HIDE DEF a
  <2>3. instr' = [instr EXCEPT ![k] = r]
    BY <1>2, <2>1 DEF a
  <2> HIDE DEF r
  <2>4. PICK s \in InitiateScripts : Becomes(w, Doing(k, UnderTheLock(s)))
    BY <1>4
  <2>5. /\ g <= call[w].amount
        /\ Becomes(w, Doing(call[w].key, UnderTheLock(s)))
        /\ instr' = [instr EXCEPT ![call[w].key] = [instr[call[w].key] EXCEPT !.state = "PENDING", !.amounts = a]]
    BY <1>1, <2>2, <2>3, <2>4 DEF r
  <2> QED BY <1>4, <2>2, <2>4, <2>5 DEF a
<1> QED BY <1>1, <1>3, <1>4 DEF RaiseInsert

-----------------------------------------------------------------------------
\* Types, table by table.
LEMMA PayinTyped ==
  ASSUME TypesInv, [Next]_vars
  PROVE  payin' \in [Payin -> {"open", "paid", "stamped"}]
<1>1. \/ payin' = payin
      \/ \E p \in Payin : payin' = [payin EXCEPT ![p] = "paid"]
      \/ \E p : payin' = [payin EXCEPT ![p] = "stamped"]
  BY DEF Next, vars, tables, SyncPayins, FollowRead, RaiseStart, CancelRead, ReleaseRead, Crash, PayinPaid, Press,
         Statement, DoPost, DoStamp, DoUnlock, DoMove, DoRequest, DoReserve, DoHold, RaiseLock, RaiseBalance,
         RaiseInsert, FollowStatus
<1> QED BY <1>1 DEF TypesInv

LEMMA LedgerTyped ==
  ASSUME IInv, TypesInv, [Next]_vars
  PROVE  posted' \subseteq Journal \X (Key \cup Payin) /\ balances' \in [Account -> Int]
<1>1. CASE UNCHANGED <<posted, balances>>
  BY <1>1 DEF TypesInv
<1>2. ASSUME NEW w \in Worker, DoPost(w)
      PROVE  posted' \subseteq Journal \X (Key \cup Payin) /\ balances' \in [Account -> Int]
  <2>1. PICK type \in Journal, k \in Key \cup Payin :
           /\ type # "collected" => k \in Key /\ AmountsOf(k) \in Amounts
           /\ posted' = posted \cup {<<type, k>>}
           /\ balances' = IF Has(type, k) THEN balances ELSE Both(balances, Lines(<<type, k>>))
    BY <1>2, PostTyped
  <2>2. PICK l \in [Account -> Int] : l = Lines(<<type, k>>)
    BY <2>1, LinesTyped
  <2>3. balances \in [Account -> Int]
    BY DEF TypesInv
  <2>4. Both(balances, l) \in [Account -> Int]
    BY <2>3, BothTyped
  <2> QED BY <2>1, <2>2, <2>3, <2>4 DEF TypesInv
<1>3. UNCHANGED <<posted, balances>> \/ \E w \in Worker : DoPost(w)
  BY DEF Next, vars, tables, SyncPayins, FollowRead, RaiseStart, CancelRead, ReleaseRead, Crash, PayinPaid, Press,
         Statement, DoStamp, DoUnlock, DoMove, DoRequest, DoReserve, DoHold, RaiseLock, RaiseBalance,
         RaiseInsert, FollowStatus
<1> QED BY <1>1, <1>2, <1>3

\* The rows of the instructions.  A guarded move writes its own state and, for a hold, where it came from.
LEMMA MoveIs ==
  ASSUME IInv, TypesInv, NEW w \in Worker, DoMove(w), instr' # instr
  PROVE  \E from \in State, to \in State, r \in Row :
           /\ r.state = to /\ r.amounts = instr[call[w].key].amounts
           /\ from = instr[call[w].key].state /\ to \in NEXT[from]
           /\ instr' = [instr EXCEPT ![call[w].key] = r]
           /\ Next1(w)
<1>1. PICK k, s : k = call[w].key /\ s = Head(call[w].todo)
  OBVIOUS
<1> DEFINE from == IF s.to = "HELD" THEN s.what ELSE "NONE"
           also == s.what = "PENDING" /\ s.to = "INITIATED"
           r == [instr[k] EXCEPT !.state = s.to, !.heldFrom = from, !.linked = @ \/ also]
<1>2. /\ call[w].pc = "run" /\ s.do = "move"
      /\ instr[k].state = s.what /\ instr' = [instr EXCEPT ![k] = r] /\ Next1(w)
  BY <1>1 DEF DoMove, Running, StillIn
<1>3. s.what \in State /\ s.to \in NEXT[s.what]
  BY <1>1, <1>2, HeadIsReady DEF IInv, Allowed
<1>4. k \in Key /\ instr[k] \in Row
  <2>1. instr \in [Key -> Row]
    BY DEF TypesInv
  <2> HIDE DEF r
  <2>2. k \notin Key => [instr EXCEPT ![k] = r] = instr
    BY <2>1
  <2>3. k \in Key
    BY <1>2, <2>2
  <2> QED BY <2>1, <2>3
<1>5. from \in Holdable \cup {"NONE"} /\ s.to \in State
  BY <1>3 DEF State, NEXT, Holdable
<1>6. also \in BOOLEAN
  OBVIOUS
<1> HIDE DEF from, also
<1>7. r \in Row /\ r.state = s.to /\ r.amounts = instr[k].amounts
  BY <1>4, <1>5, <1>6 DEF Row
<1> HIDE DEF r
<1> QED BY <1>1, <1>2, <1>3, <1>5, <1>7

LEMMA InsertRow ==
  ASSUME NEW row \in Row, NEW g \in Nat
  PROVE  LET r == [row EXCEPT !.state = "PENDING", !.amounts = settlementAmounts(g, Card, Rate)]
         IN  r \in Row /\ r.state = "PENDING" /\ r.amounts.gross = g
<1> DEFINE a == settlementAmounts(g, Card, Rate)
<1>1. a \in Amounts /\ a.gross = g
  BY AmountsTyped
<1>2. "PENDING" \in State
  BY DEF State, NEXT
<1> HIDE DEF a
<1> DEFINE r == [row EXCEPT !.state = "PENDING", !.amounts = a]
<1>3. r \in Row /\ r.state = "PENDING" /\ r.amounts = a
  BY <1>1, <1>2 DEF Row
<1> HIDE DEF r
<1>4. r.amounts.gross = g
  BY <1>1, <1>3
<1> QED BY <1>3, <1>4 DEF r, a

LEMMA RowsWritten ==
  ASSUME [Next]_vars
  PROVE  instr' = instr \/ \E w \in Worker : RaiseInsert(w) \/ DoMove(w)
BY DEF Next, vars, SyncPayins, FollowRead, RaiseStart, CancelRead, ReleaseRead, Crash, PayinPaid, Press,
       Statement, DoPost, DoStamp, DoUnlock, DoRequest, DoReserve, DoHold, RaiseLock, RaiseBalance,
       FollowStatus, tables

LEMMA InstrTyped ==
  ASSUME IInv, TypesInv, [Next]_vars
  PROVE  instr' \in [Key -> Row]
<1>1. instr \in [Key -> Row]
  BY DEF TypesInv
<1>2. ASSUME NEW k, NEW r \in Row, instr' = [instr EXCEPT ![k] = r] PROVE instr' \in [Key -> Row]
  BY <1>1, <1>2
<1>3. ASSUME NEW w \in Worker, DoMove(w) PROVE instr' \in [Key -> Row]
  BY <1>1, <1>2, <1>3, MoveIs
<1>4. ASSUME NEW w \in Worker, RaiseInsert(w) PROVE instr' \in [Key -> Row]
  <2>1. CASE instr' = instr
    BY <1>1, <2>1
  <2>2. CASE instr' # instr
    <3>1. PICK g \in Nat :
            instr' = [instr EXCEPT ![call[w].key] =
                        [instr[call[w].key] EXCEPT !.state = "PENDING",
                                                   !.amounts = settlementAmounts(g, Card, Rate)]]
      BY <1>4, <2>2, InsertIs
    <3>2. call[w].key \in Key
      BY <1>4 DEF RaiseInsert, Step, IInv, CallInv
    <3>3. instr[call[w].key] \in Row
      BY <1>1, <3>2
    <3>4. [instr[call[w].key] EXCEPT !.state = "PENDING", !.amounts = settlementAmounts(g, Card, Rate)] \in Row
      BY <3>3, InsertRow
    <3> QED BY <1>2, <3>1, <3>4
  <2> QED BY <2>1, <2>2
<1> QED BY <1>1, <1>3, <1>4, RowsWritten

LEMMA RequestTyped ==
  ASSUME IInv, TypesInv, [Next]_vars
  PROVE  request' \in [Key -> RequestStatus \cup {"none"}] /\ reopened' \subseteq Key
<1>1. request \in [Key -> RequestStatus \cup {"none"}] /\ reopened \subseteq Key
  BY DEF TypesInv
<1>2. CASE UNCHANGED requests
  BY <1>1, <1>2 DEF requests
<1>3. ASSUME NEW w \in Worker, DoRequest(w)
      PROVE  request' \in [Key -> RequestStatus \cup {"none"}] /\ reopened' \subseteq Key
  <2>1. "REQUESTED" \in RequestStatus
    BY DEF RequestStatus
  <2> QED BY <1>1, <1>3, <2>1 DEF DoRequest
<1>4. ASSUME NEW k \in Followed, Press(k)
      PROVE  request' \in [Key -> RequestStatus \cup {"none"}] /\ reopened' \subseteq Key
  <2>1. PICK b \in Buttons : /\ request' = [request EXCEPT ![k] = TRANSITIONS[b].to]
                             /\ reopened' = IF TakenBack(request[k], TRANSITIONS[b].to)
                                            THEN reopened \cup {k} ELSE reopened
    BY <1>4 DEF Press
  <2>2. b \in DOMAIN TRANSITIONS /\ k \in Key
    BY SettlementAssumption
  <2>3. TRANSITIONS[b].to \in RequestStatus
    BY <2>2 DEF RequestStatus
  <2> QED BY <1>1, <2>1, <2>2, <2>3
<1> QED BY <1>2, <1>3, <1>4, RequestsMove

LEMMA HoldTyped ==
  ASSUME TypesInv, [Next]_vars
  PROVE  hold' \in [Key -> {"none", "HELD", "RELEASED", "CANCELLED"}]
<1> DEFINE H == {"none", "HELD", "RELEASED", "CANCELLED"}
<1>1. hold \in [Key -> H]
  BY DEF TypesInv
<1>2. ASSUME NEW w \in Worker, DoReserve(w) \/ DoHold(w) PROVE hold' \in [Key -> H]
  <2>1. \E k, h : hold' = [hold EXCEPT ![k] = h] /\ (k \in Key => h \in H)
    <3>1. PICK k : k = call[w].key
      OBVIOUS
    <3>2. CASE DoReserve(w)
      <4>1. hold' = [hold EXCEPT ![k] = IF hold[k] = "none" /\ AmountsOf(k).reserve > 0 THEN "HELD" ELSE hold[k]]
        BY <3>1, <3>2 DEF DoReserve
      <4> QED BY <1>1, <4>1
    <3>3. CASE DoHold(w)
      <4>1. PICK what : hold' = [hold EXCEPT ![k] = IF hold[k] # "HELD" THEN hold[k]
                                                   ELSE IF what = "release" THEN "RELEASED" ELSE "CANCELLED"]
        BY <3>1, <3>3 DEF DoHold
      <4> QED BY <1>1, <4>1
    <3> QED BY <1>2, <3>2, <3>3
  <2> QED BY <1>1, <2>1
<1>3. hold' = hold \/ \E w \in Worker : DoReserve(w) \/ DoHold(w)
  BY DEF Next, vars, tables, SyncPayins, FollowRead, RaiseStart, CancelRead, ReleaseRead, Crash, PayinPaid, Press,
         Statement, DoPost, DoStamp, DoUnlock, DoMove, DoRequest, RaiseLock, RaiseBalance,
         RaiseInsert, FollowStatus
<1> QED BY <1>1, <1>2, <1>3

\* Calls.
LEMMA IdleTyped ==
  /\ Idle \in Calls /\ Idle.todo = <<>> /\ Idle.pc = "idle"
  /\ \A k \in Key \cup Payin, t \in Seq(Statements) : [Idle EXCEPT !.pc = "run", !.key = k, !.todo = t] \in Calls
  /\ \A pc \in {"lock", "balance", "insert", "status"}, k \in Key : At(pc, k) \in Calls
<1>1. "NONE" \in State /\ 0 \in Int
  BY DEF State, NEXT
<1>2. <<>> \in Seq(Statements)
  OBVIOUS
<1>3. Idle \in Calls /\ Idle.todo = <<>> /\ Idle.pc = "idle"
  BY <1>1, <1>2 DEF Idle, Calls
<1>4. ASSUME NEW k \in Key \cup Payin, NEW t \in Seq(Statements)
      PROVE  [Idle EXCEPT !.pc = "run", !.key = k, !.todo = t] \in Calls
  BY <1>1, <1>4 DEF Idle, Calls
<1>5. ASSUME NEW pc \in {"lock", "balance", "insert", "status"}, NEW k \in Key
      PROVE  At(pc, k) \in Calls
  BY <1>1, <1>2, <1>5 DEF Idle, At, Calls
<1> QED BY <1>3, <1>4, <1>5

LEMMA ListTyped ==
  ASSUME NEW k, NEW t \in Seq(Statements), ListFits(k, t)
  PROVE  CallTyped(Doing(k, t))
<1>1. k \in Key \cup Payin
  BY DEF ListFits
<1>2. CASE t = <<>>
  BY <1>2, IdleTyped DEF Doing, CallTyped
<1>3. CASE t # <<>>
  <2> DEFINE c == [Idle EXCEPT !.pc = "run", !.key = k, !.todo = t]
  <2>1. c = Doing(k, t)
    BY <1>3 DEF Doing
  <2>2. c \in Calls
    BY <1>1, IdleTyped
  <2>3. c.key = k /\ c.todo = t
    BY DEF Idle
  <2> HIDE DEF c
  <2> QED BY <2>1, <2>2, <2>3 DEF CallTyped
<1> QED BY <1>2, <1>3

LEMMA PlainTyped ==
  ASSUME TypesInv, NEW c, PlainCall(c)
  PROVE  c \in Calls
<1>1. CASE c = Idle
  BY <1>1, IdleTyped
<1>2. ASSUME NEW k \in Key, c \in {At("lock", k), At("balance", k)} PROVE c \in Calls
  BY <1>2, IdleTyped
<1>3. ASSUME NEW k \in Key, c = HasBalance(k) PROVE c \in Calls
  <2>1. PICK a \in Calls, p \in Int : a = At("insert", k) /\ p = payable
    BY IdleTyped, PayableTyped
  <2>2. [a EXCEPT !.amount = p] \in Calls
    BY DEF Calls
  <2>3. c = [a EXCEPT !.amount = p]
    BY <1>3, <2>1 DEF HasBalance
  <2> QED BY <2>2, <2>3
<1>4. ASSUME NEW k \in Key, c = HasRow(k) PROVE c \in Calls
  <2>1. instr[k] \in Row
    BY DEF TypesInv
  <2>2. instr[k].state \in State /\ instr[k].heldFrom \in State
    BY <2>1 DEF Row, Holdable, State, NEXT
  <2>3. PICK a \in Calls, x \in State, y \in State :
          a = At("status", k) /\ x = instr[k].state /\ y = instr[k].heldFrom
    BY <2>2, IdleTyped
  <2>4. [a EXCEPT !.seen = x, !.heldFrom = y] \in Calls
    BY DEF Calls
  <2>5. c = [a EXCEPT !.seen = x, !.heldFrom = y]
    BY <1>4, <2>3 DEF HasRow
  <2> QED BY <2>4, <2>5
<1> QED BY <1>1, <1>2, <1>3, <1>4 DEF PlainCall

LEMMA FitsTail ==
  ASSUME NEW k, NEW t \in Seq(Statements), t # <<>>, ListFits(k, t)
  PROVE  ListFits(k, Tail(t)) /\ Tail(t) \in Seq(Statements)
BY PostsTail DEF ListFits

LEMMA CallsTyped ==
  ASSUME IInv, TypesInv, NEW w \in Worker, Acts(w)
  PROVE  CallTyped(call'[w])
<1>1. CallSteps(w)
  BY CallStepped
<1>2. CASE call'[w].pc # "run" /\ PlainCall(call'[w])
  BY <1>2, PlainTyped DEF CallTyped
<1>3. ASSUME NEW k, NEW t \in Seq(Statements), NEW S, S \subseteq Journal, Listed(w, k, t, S),
             k \in Key \/ (k \in Payin /\ S = {"collected"})
      PROVE  CallTyped(call'[w])
  <2>1. ListFits(k, t)
    BY <1>3, PostsMore DEF ListFits, Listed
  <2>2. call'[w] = Doing(k, t)
    BY <1>3 DEF Listed
  <2> QED BY <1>3, <2>1, <2>2, ListTyped
<1>4. CASE call[w].pc = "run" /\ call'[w] = Doing(call[w].key, Tail(call[w].todo))
  <2>1. PICK k, t : k = call[w].key /\ t = call[w].todo
    OBVIOUS
  <2>2. t \in Seq(Statements) /\ t # <<>>
    BY <1>4, <2>1 DEF IInv, CallInv, InOrder
  <2>3. ListFits(k, t)
    BY <1>4, <2>1 DEF TypesInv, CallTyped
  <2> QED BY <1>4, <2>1, <2>2, <2>3, FitsTail, ListTyped
<1>5. /\ {"collected"} \subseteq Journal /\ {"initiated"} \subseteq Journal
      /\ {"cancelled", "released"} \subseteq Journal /\ \A x, y : Told(x, y) \subseteq Journal
  BY DEF Journal, Told, Outcome
<1> QED BY <1>1, <1>2, <1>3, <1>4, <1>5 DEF CallSteps

\* The banker's lock.
LEMMA UnlockAhead ==
  ASSUME NEW t \in Seq(Statements), t # <<>>, OneUnlock(t), Unlocks(t), Head(t).do # "unlock"
  PROVE  Head(t).do = "post" /\ Tail(t) # <<>> /\ Unlocks(Tail(t))
<1>1. PICK n \in 1..Len(t) : t[n].do = "unlock"
  BY DEF Unlocks
<1>2. Head(t) = t[1] /\ Len(t) \in Nat
  OBVIOUS
<1>3. n = 2 /\ t[1].do = "post"
  BY <1>1, <1>2 DEF OneUnlock
<1>4. Len(Tail(t)) = Len(t) - 1 /\ Tail(t)[1] = t[2] /\ 1 \in 1..Len(Tail(t))
  BY <1>1, <1>2, <1>3
<1>5. Unlocks(Tail(t))
  BY <1>1, <1>3, <1>4 DEF Unlocks
<1>6. Tail(t) # <<>>
  BY <1>1, <1>3, <1>4
<1> QED BY <1>2, <1>3, <1>5, <1>6

LEMMA LockMoves ==
  ASSUME NEW w \in Worker, Acts(w)
  PROVE  \/ lock' = lock \/ lock' = NoWorker
         \/ RaiseLock(w) /\ lock' = w
BY DEF Acts, control, SyncPayins, FollowRead, RaiseStart, CancelRead, ReleaseRead, Crash,
       Statement, DoPost, DoStamp, DoUnlock, DoMove, DoRequest, DoReserve, DoHold, RaiseLock, RaiseBalance,
       RaiseInsert, FollowStatus

LEMMA LockOfList ==
  ASSUME NEW w \in Worker, NEW k \in Key, NEW t, t # <<>>, Unlocks(t), call'[w] = Doing(k, t)
  PROVE  LockInv(w)'
<1> DEFINE c == [Idle EXCEPT !.pc = "run", !.key = k, !.todo = t]
<1>1. call'[w] = c
  BY DEF Doing
<1>2. c.pc = "run" /\ c.key = k /\ c.todo = t
  BY DEF Idle
<1> HIDE DEF c
<1> QED BY <1>1, <1>2 DEF LockInv

LEMMA LockStepped ==
  ASSUME IInv, TypesInv, NEW w \in Worker, Acts(w)
  PROVE  LockInv(w)'
<1> SUFFICES ASSUME lock' = w PROVE LockInv(w)'
  BY DEF LockInv
<1>1. NoWorker # w
  BY SettlementAssumption
<1>2. \A c : Becomes(w, c) => call'[w] = c
  BY BecomesIs DEF IInv
<1>3. CASE RaiseLock(w)
  <2>1. lock # w
    BY <1>1, <1>3 DEF RaiseLock, BankerLockFree
  <2>2. Becomes(w, At("balance", call[w].key))
    BY <1>3, <2>1 DEF RaiseLock
  <2>3. call'[w].pc = "balance"
    BY <1>2, <2>2, PcOfAt
  <2> QED BY <2>3 DEF LockInv
<1>4. ASSUME ~RaiseLock(w) PROVE LockInv(w)'
  <2>1. lock = w
    BY <1>1, <1>4, LockMoves
  <2>2. \/ call[w].pc \in {"balance", "insert"}
        \/ call[w].pc = "run" /\ call[w].key \in Key /\ Unlocks(call[w].todo)
    BY <2>1 DEF TypesInv, LockInv
  <2>3. call[w] # Idle /\ call[w].pc # "status"
    BY <2>2, PcOfAt
  <2>4. ~ \/ \E p \in Payin : SyncPayins(w, p)
          \/ \E k \in Followed : FollowRead(w, k)
          \/ RaiseStart(w) \/ CancelRead(w) \/ ReleaseRead(w) \/ FollowStatus(w)
    BY <2>3 DEF SyncPayins, FollowRead, RaiseStart, CancelRead, ReleaseRead, FollowStatus, Start, Step
  <2>5. ~Crash(w) /\ ~DoUnlock(w)
    BY <1>1, <2>1 DEF Crash, DoUnlock
  <2>6. CASE RaiseBalance(w)
    <3>1. Becomes(w, [At("insert", call[w].key) EXCEPT !.amount = payable])
      BY <2>6 DEF RaiseBalance
    <3> DEFINE c == [At("insert", call[w].key) EXCEPT !.amount = payable]
    <3>2. c.pc = "insert"
      BY PcOfAt
    <3> HIDE DEF c
    <3>3. call'[w].pc = "insert"
      BY <1>2, <3>1, <3>2 DEF c
    <3> QED BY <3>3 DEF LockInv
  <2>7. CASE RaiseInsert(w)
    <3>1. call[w].key \in Key
      BY <2>7 DEF RaiseInsert, Step, IInv, CallInv
    <3>2. PICK s \in InitiateScripts : Becomes(w, Doing(call[w].key, UnderTheLock(s)))
      BY <1>1, <2>7, InsertIs
    <3>3. UnderTheLock(s) # <<>> /\ Unlocks(UnderTheLock(s))
      BY UnderTheLockPosts, UnderTheLockInOrder
    <3>4. call'[w] = Doing(call[w].key, UnderTheLock(s))
      BY <1>2, <3>2
    <3> QED BY <3>1, <3>3, <3>4, LockOfList
  <2>8. CASE DoPost(w) \/ DoStamp(w) \/ DoMove(w) \/ DoRequest(w) \/ DoReserve(w) \/ DoHold(w)
    <3>1. PICK t : t = call[w].todo
      OBVIOUS
    <3>2. call[w].pc = "run" /\ Head(t).do # "unlock"
      BY <2>8, <3>1 DEF DoPost, DoStamp, DoMove, DoRequest, DoReserve, DoHold, Running
    <3>3. t \in Seq(Statements) /\ t # <<>> /\ OneUnlock(t) /\ Unlocks(t) /\ call[w].key \in Key
      BY <2>2, <3>1, <3>2 DEF IInv, CallInv, InOrder
    <3>4. Head(t).do = "post" /\ Tail(t) # <<>> /\ Unlocks(Tail(t))
      BY <3>2, <3>3, UnlockAhead
    <3>5. Next1(w)
      BY <2>8, <3>1, <3>4 DEF DoPost, DoStamp, DoMove, DoRequest, DoReserve, DoHold, Running
    <3>6. call'[w] = Doing(call[w].key, Tail(t))
      BY <1>2, <3>1, <3>5 DEF Next1
    <3> QED BY <3>3, <3>4, <3>6, LockOfList
  <2> QED BY <1>4, <2>4, <2>5, <2>6, <2>7, <2>8 DEF Acts, Statement
<1> QED BY <1>3, <1>4

LEMMA LockKept ==
  ASSUME TypesInv, NEW v \in Worker, call'[v] = call[v], lock' = v => lock = v
  PROVE  LockInv(v)' /\ CallTyped(call'[v])
BY DEF TypesInv, LockInv

LEMMA WorkersTyped ==
  ASSUME IInv, TypesInv, [Next]_vars, NEW v \in Worker
  PROVE  CallTyped(call[v])' /\ LockInv(v)'
<1>1. CASE UNCHANGED <<call, posted, balances, instr, lock, orphans>>
  <2>1. call'[v] = call[v]
    BY <1>1
  <2> QED BY <1>1, <2>1, LockKept DEF CallTyped, Calls
<1>2. ASSUME NEW w \in Worker, Acts(w) PROVE CallTyped(call[v])' /\ LockInv(v)'
  <2>1. CASE v = w
    BY <1>2, <2>1, CallsTyped, LockStepped
  <2>2. CASE v # w
    <3>1. call'[v] = call[v]
      BY <1>2, <2>2, ActsOnly DEF Stepped, Kept
    <3>2. lock' = v => lock = v
      BY <1>2, <2>2, LockMoves, SettlementAssumption
    <3> QED BY <3>1, <3>2, LockKept
  <2> QED BY <2>1, <2>2
<1> QED BY <1>1, <1>2, NextActs

LEMMA ControlTyped ==
  ASSUME IInv, TypesInv, [Next]_vars
  PROVE  /\ lock' \in Worker \cup {NoWorker}
         /\ orphans' \subseteq Key
         /\ faults' \in 0..MaxFaults
<1>1. lock' \in Worker \cup {NoWorker}
  BY NextActs, LockMoves DEF TypesInv
<1>2. orphans \subseteq Key /\ faults \in 0..MaxFaults /\ MaxFaults \in Nat
  BY SettlementAssumption DEF TypesInv
<1>3. ASSUME NEW w \in Worker, Crash(w) PROVE orphans' \subseteq Key /\ faults' \in 0..MaxFaults
  <2>1. lock = w /\ call[w].pc = "run" => call[w].key \in Key
    BY DEF TypesInv, LockInv
  <2>2. orphans' \subseteq Key
    BY <1>2, <1>3, <2>1 DEF Crash
  <2>3. faults' = faults + 1 /\ faults < MaxFaults
    BY <1>3 DEF Crash
  <2> QED BY <1>2, <2>2, <2>3
<1>4. UNCHANGED <<orphans, faults>> \/ \E w \in Worker : Crash(w)
  BY DEF Next, vars, control, SyncPayins, FollowRead, RaiseStart, CancelRead, ReleaseRead, PayinPaid, Press,
         Statement, DoPost, DoStamp, DoUnlock, DoMove, DoRequest, DoReserve, DoHold, RaiseLock, RaiseBalance,
         RaiseInsert, FollowStatus
<1> QED BY <1>1, <1>2, <1>3, <1>4

LEMMA TypesInit == Init => TypesInv
<1> SUFFICES ASSUME Init PROVE TypesInv
  OBVIOUS
<1>1. payin \in [Payin -> {"open", "paid", "stamped"}] /\ posted = {} /\ balances \in [Account -> Int]
  BY DEF Init, NoLines, Account
<1>2. instr \in [Key -> Row]
  <2>1. NoAmounts \in Amounts
    BY DEF NoAmounts, Amounts
  <2>2. "NONE" \in State
    BY DEF State, NEXT
  <2> DEFINE r == [state |-> "NONE", heldFrom |-> "NONE", linked |-> FALSE, amounts |-> NoAmounts]
  <2>3. r \in Row
    BY <2>1, <2>2 DEF Row
  <2>4. instr = [k \in Key |-> r]
    BY DEF Init
  <2> HIDE DEF r
  <2> QED BY <2>3, <2>4
<1>3. /\ request \in [Key -> RequestStatus \cup {"none"}]
      /\ hold \in [Key -> {"none", "HELD", "RELEASED", "CANCELLED"}]
      /\ lock = NoWorker /\ reopened = {} /\ orphans = {} /\ faults = 0
  BY DEF Init
<1>4. \A w \in Worker : call[w] = Idle
  BY DEF Init
<1>5. \A w \in Worker : CallTyped(call[w])
  BY <1>4, IdleTyped DEF CallTyped
<1>6. \A w \in Worker : LockInv(w)
  BY <1>3, SettlementAssumption DEF LockInv
<1>7. call \in [Worker -> Calls]
  BY IdleTyped DEF Init
<1> QED BY <1>1, <1>2, <1>3, <1>5, <1>6, <1>7, SettlementAssumption DEF TypesInv

LEMMA TypesSteps == IInv /\ TypesInv /\ [Next]_vars => TypesInv'
<1> SUFFICES ASSUME IInv, TypesInv, [Next]_vars PROVE TypesInv'
  OBVIOUS
<1>1. \A v \in Worker : CallTyped(call[v])' /\ LockInv(v)'
  BY WorkersTyped
<1>2. call' \in [Worker -> Calls]
  <2>1. call' = [v \in Worker |-> call'[v]]
    BY Inductive DEF IInv, TablesInv
  <2>2. \A v \in Worker : call'[v] \in Calls'
    BY <1>1 DEF CallTyped
  <2>3. Calls' = Calls
    BY DEF Calls
  <2> QED BY <2>1, <2>2, <2>3
<1>3. Calls' = Calls
  BY DEF Calls
<1>4. /\ payin' \in [Payin -> {"open", "paid", "stamped"}]
      /\ posted' \subseteq Journal \X (Key \cup Payin) /\ balances' \in [Account -> Int]
      /\ instr' \in [Key -> Row]
      /\ request' \in [Key -> RequestStatus \cup {"none"}]
      /\ hold' \in [Key -> {"none", "HELD", "RELEASED", "CANCELLED"}]
      /\ lock' \in Worker \cup {NoWorker}
      /\ reopened' \subseteq Key /\ orphans' \subseteq Key
      /\ faults' \in 0..MaxFaults
  BY PayinTyped, LedgerTyped, InstrTyped, RequestTyped, HoldTyped, ControlTyped
<1> QED BY <1>1, <1>2, <1>3, <1>4 DEF TypesInv

\* The tables and the workers hold what their columns and handlers allow, whatever the rate card:
\* among them, that no part of the charges is ever negative and that a hold remembers a state the
\* instruction may go back to.
THEOREM SettlementTypes == Spec => []SettlementTypeOK
<1>1. TypesInv => SettlementTypeOK
  <2>1. Holdable \cup {"NONE"} = {"NONE", "PENDING", "INITIATED", "IN_TRANSIT"}
    BY DEF Holdable
  <2> QED BY <2>1 DEF TypesInv, SettlementTypeOK, Row
<1>2. Spec => [](IInv /\ TypesInv)
  <2>1. Init => IInv /\ TypesInv
    BY InitInv, TypesInit
  <2>2. IInv /\ TypesInv /\ [Next]_vars => (IInv /\ TypesInv)'
    BY Inductive, TypesSteps
  <2> QED BY <2>1, <2>2, PTL DEF Spec
<1> QED BY <1>1, <1>2, PTL

-----------------------------------------------------------------------------
\* The payable.  Worker w posts the first journal of an instruction: the only step that lowers it.
Falls(w) ==
  LET c == call[w]
  IN  /\ DoPost(w) /\ Pends(c, "initiated") /\ ~Has("initiated", c.key)
      /\ payable' = payable - instr[c.key].amounts.gross

LEMMA PayableMoves ==
  ASSUME IInv, TypesInv, NEW w \in Worker, Acts(w)
  PROVE  payable' >= payable \/ Falls(w)
<1>1. PICK b \in Int : b = balances["payable"]
  BY PayableTyped
<1>2. payable = -b /\ payable' = -balances'["payable"]
  BY <1>1 DEF payable
<1>3. CASE balances' = balances
  BY <1>1, <1>2, <1>3
<1>4. CASE DoPost(w)
  <2>1. PICK type \in Journal, k \in Key \cup Payin :
           /\ k = call[w].key /\ Pends(call[w], type)
           /\ type # "collected" => k \in Key /\ AmountsOf(k) \in Amounts
           /\ balances' = IF Has(type, k) THEN balances ELSE Both(balances, Lines(<<type, k>>))
    BY <1>4, PostTyped
  <2>2. CASE Has(type, k)
    BY <1>3, <2>1, <2>2
  <2>3. CASE ~Has(type, k)
    <3>1. PICK l : l = Lines(<<type, k>>)
      OBVIOUS
    <3>2. /\ l \in [Account -> Int]
          /\ type # "initiated" => l["payable"] <= 0
          /\ type = "initiated" => l["payable"] = AmountsOf(k).gross
      BY <2>1, <3>1, LinesTyped
    <3>3. balances \in [Account -> Int]
      BY DEF TypesInv
    <3>4. balances' = Both(balances, l)
      BY <2>1, <2>3, <3>1
    <3>5. Both(balances, l)["payable"] = balances["payable"] + l["payable"]
      BY <3>2, <3>3, BothTyped
    <3>6. PICK x \in Int : x = l["payable"]
      BY <3>2 DEF Account
    <3>7. balances'["payable"] = b + x
      BY <1>1, <3>4, <3>5, <3>6
    <3>8. payable' = payable - x
      BY <1>2, <3>7
    <3>9. CASE type # "initiated"
      BY <1>2, <3>2, <3>6, <3>7, <3>9
    <3>10. CASE type = "initiated"
      BY <1>4, <2>1, <2>3, <3>2, <3>6, <3>8, <3>10 DEF Falls, AmountsOf
    <3> QED BY <3>9, <3>10
  <2> QED BY <2>2, <2>3
<1>5. balances' = balances \/ DoPost(w)
  BY DEF Acts, tables, SyncPayins, FollowRead, RaiseStart, CancelRead, ReleaseRead, Crash,
         Statement, DoStamp, DoUnlock, DoMove, DoRequest, DoReserve, DoHold, RaiseLock, RaiseBalance,
         RaiseInsert, FollowStatus
<1> QED BY <1>3, <1>4, <1>5

LEMMA OrphansGrow == ASSUME NEW w \in Worker, Acts(w) PROVE orphans \subseteq orphans'
BY DEF Acts, control, SyncPayins, FollowRead, RaiseStart, CancelRead, ReleaseRead, Crash,
       Statement, DoPost, DoStamp, DoUnlock, DoMove, DoRequest, DoReserve, DoHold, RaiseLock, RaiseBalance,
       RaiseInsert, FollowStatus

LEMMA RunningActs ==
  ASSUME NEW w \in Worker, Acts(w), call[w].pc = "run", Head(call[w].todo).do = "post"
  PROVE  DoPost(w) \/ Crash(w)
<1>1. call[w] # Idle
  BY PcOfAt
<1> QED BY <1>1 DEF Acts, SyncPayins, FollowRead, RaiseStart, CancelRead, ReleaseRead, Start, Step, Running,
       Statement, DoStamp, DoUnlock, DoMove, DoRequest, DoReserve, DoHold, RaiseLock, RaiseBalance,
       RaiseInsert, FollowStatus

\* Whoever has inserted an instruction posts its first journal next, or dies and leaves an orphan.
LEMMA OpeningPosts ==
  ASSUME IInv, TypesInv, NEW w \in Worker, Acts(w), NEW k, Opening(w, k), orphans' = {}
  PROVE  DoPost(w) /\ Has("initiated", k)'
<1>1. /\ lock = w /\ call[w].pc = "run" /\ call[w].key = k
      /\ Head(call[w].todo).do = "post" /\ Head(call[w].todo).what = "initiated"
  BY DEF Opening, Posts
<1>2. ~Crash(w)
  BY <1>1 DEF Crash
<1>3. DoPost(w)
  BY <1>1, <1>2, RunningActs
<1> QED BY <1>1, <1>3 DEF DoPost, Has

LEMMA OpeningStays ==
  ASSUME NEW v \in Worker, NEW k, Opening(v, k), call'[v] = call[v], lock' = lock
  PROVE  Opening(v, k)'
BY DEF Opening

LEMMA OpeningList ==
  ASSUME NEW w \in Worker, NEW k, NEW s \in InitiateScripts, lock' = w,
         call'[w] = Doing(k, UnderTheLock(s))
  PROVE  Opening(w, k)' /\ call'[w].pc = "run" /\ call'[w].key = k
<1> DEFINE t == UnderTheLock(s)
           c == [Idle EXCEPT !.pc = "run", !.key = k, !.todo = t]
<1>1. t # <<>> /\ Unlocks(t) /\ Posts(Head(t), "initiated")
  BY UnderTheLockPosts, UnderTheLockInOrder
<1> HIDE DEF t
<1>2. call'[w] = c
  BY <1>1 DEF Doing, t
<1>3. c.pc = "run" /\ c.key = k /\ c.todo = t
  BY DEF Idle
<1> HIDE DEF c
<1> QED BY <1>1, <1>2, <1>3 DEF Opening

\* Every instruction's first journal is there, or about to be posted.
LEMMA FirstBooked ==
  ASSUME IInv, TypesInv, PayableInv, orphans = {}, orphans' = {}, NEW w \in Worker, Acts(w), [Next]_vars,
         NEW k \in Key, instr'[k].state # "NONE"
  PROVE  Has("initiated", k)' \/ \E v \in Worker : Opening(v, k)'
<1>1. CASE Has("initiated", k)
  BY <1>1, LedgerGrows
<1>2. ASSUME NEW v \in Worker, Opening(v, k)
      PROVE  Has("initiated", k)' \/ Opening(v, k)'
  <2>1. CASE v = w
    BY <1>2, <2>1, OpeningPosts
  <2>2. CASE v # w
    <3>1. call'[v] = call[v] /\ lock' = lock
      BY <1>2, <2>2, ActsOnly DEF Stepped, Kept, Opening
    <3> QED BY <1>2, <3>1, OpeningStays
  <2> QED BY <2>1, <2>2
<1>3. CASE instr[k].state = "NONE"
  <2>1. instr \in [Key -> Row]
    BY DEF TypesInv
  <2>2. ASSUME NEW v \in Worker, DoMove(v) PROVE FALSE
    <3>1. PICK from \in State, to \in State, r \in Row :
            /\ from = instr[call[v].key].state /\ to \in NEXT[from]
            /\ instr' = [instr EXCEPT ![call[v].key] = r]
      BY <1>3, <2>2, MoveIs
    <3>2. k = call[v].key
      BY <1>3, <2>1, <3>1
    <3>3. NEXT["NONE"] = {}
      BY DEF NEXT
    <3> QED BY <1>3, <3>1, <3>2, <3>3
  <2>3. PICK v \in Worker : RaiseInsert(v)
    BY <1>3, <2>2, RowsWritten
  <2>4. PICK g \in Nat, s \in InitiateScripts :
          /\ Becomes(v, Doing(call[v].key, UnderTheLock(s))) /\ UNCHANGED lock
          /\ instr' = [instr EXCEPT ![call[v].key] =
                         [instr[call[v].key] EXCEPT !.state = "PENDING",
                                                    !.amounts = settlementAmounts(g, Card, Rate)]]
    BY <1>3, <2>3, InsertIs
  <2>5. k = call[v].key
    BY <1>3, <2>1, <2>4
  <2>6. lock = v
    BY <2>3 DEF RaiseInsert, Step, IInv, CallInv
  <2>7. call'[v] = Doing(k, UnderTheLock(s))
    BY <2>4, <2>5, BecomesIs DEF IInv
  <2> QED BY <2>4, <2>6, <2>7, OpeningList
<1> QED BY <1>1, <1>2, <1>3 DEF PayableInv

LEMMA PayableInt ==
  ASSUME IInv, TypesInv, [Next]_vars
  PROVE  payable \in Int /\ payable' \in Int
BY PayableTyped, LedgerTyped DEF payable, Account

LEMMA DoingIs ==
  ASSUME NEW w \in Worker, NEW k, NEW t, call'[w] = Doing(k, t)
  PROVE  /\ call'[w].pc \in {"idle", "run"}
         /\ call'[w].pc = "run" => t # <<>> /\ call'[w].key = k /\ call'[w].todo = t
<1>1. CASE t = <<>>
  <2>1. call'[w] = Idle
    BY <1>1 DEF Doing
  <2> QED BY <2>1, PcOfAt
<1>2. CASE t # <<>>
  <2> DEFINE c == [Idle EXCEPT !.pc = "run", !.key = k, !.todo = t]
  <2>1. call'[w] = c
    BY <1>2 DEF Doing
  <2>2. c.pc = "run" /\ c.key = k /\ c.todo = t
    BY DEF Idle
  <2> HIDE DEF c
  <2> QED BY <1>2, <2>1, <2>2
<1> QED BY <1>1, <1>2

\* The payable falls only under the lock of whoever has read it.
LEMMA FallsCovered ==
  ASSUME IInv, TypesInv, NEW w \in Worker, Covered(w), Falls(w)
  PROVE  lock = w /\ payable' >= 0
<1>1. PICK g : g = instr[call[w].key].amounts.gross
  OBVIOUS
<1>2. /\ Opening(w, call[w].key) /\ g <= payable /\ payable' = payable - g
  BY <1>1 DEF Covered, Falls
<1>3. lock = w /\ call[w].key \in Key
  BY <1>2 DEF Opening, TypesInv, LockInv
<1>4. instr[call[w].key].amounts \in Amounts
  BY <1>3 DEF TypesInv, Row
<1>5. g \in Nat /\ payable \in Int
  BY <1>1, <1>4, PartsTyped, PayableTyped
<1> QED BY <1>2, <1>3, <1>5

\* While a worker that has inserted its instruction holds the lock, nobody writes amounts.
LEMMA AmountsStay ==
  ASSUME IInv, TypesInv, [Next]_vars, NEW v \in Worker, lock = v, call[v].pc = "run", NEW k \in Key
  PROVE  instr'[k].amounts = instr[k].amounts
<1>1. CASE instr' = instr
  BY <1>1
<1>2. ASSUME NEW w \in Worker, RaiseInsert(w) PROVE FALSE
  BY <1>2 DEF RaiseInsert, Step, IInv, CallInv
<1>3. ASSUME NEW w \in Worker, DoMove(w), instr' # instr
      PROVE  instr'[k].amounts = instr[k].amounts
  <2>1. PICK from \in State, to \in State, r \in Row :
           /\ r.amounts = instr[call[w].key].amounts
           /\ instr' = [instr EXCEPT ![call[w].key] = r]
    BY <1>3, MoveIs
  <2>2. instr \in [Key -> Row]
    BY DEF TypesInv
  <2>3. PICK i : i = call[w].key
    OBVIOUS
  <2> QED BY <2>1, <2>2, <2>3
<1> QED BY <1>1, <1>2, <1>3, RowsWritten

LEMMA OthersCovered ==
  ASSUME IInv, TypesInv, NEW w \in Worker, Acts(w), [Next]_vars, Covered(w),
         NEW v \in Worker \ {w}, Covered(v)
  PROVE  Covered(v)'
<1>1. call'[v] = call[v] /\ (lock = v => lock' = v)
  BY ActsOnly DEF Stepped, Kept
<1>2. lock = v => payable' >= payable
  BY PayableMoves, FallsCovered
<1>3. payable \in Int /\ payable' \in Int
  BY PayableInt
<1>4. PICK c : c = call[v]
  OBVIOUS
<1>5. ASSUME c.pc = "insert" PROVE c.amount <= payable'
  <2>1. lock = v /\ c.amount <= payable
    BY <1>4, <1>5 DEF IInv, CallInv, Covered
  <2>2. c.amount \in Int
    BY <1>4 DEF TypesInv, CallTyped, Calls
  <2> QED BY <1>2, <1>3, <2>1, <2>2
<1>6. ASSUME Pends(c, "initiated"), ~Has("initiated", c.key)'
      PROVE  Opening(v, c.key)' /\ instr'[c.key].amounts.gross <= payable'
  <2>1. ~Has("initiated", c.key)
    BY <1>6, LedgerGrows
  <2>2. PICK g : g = instr[c.key].amounts.gross
    OBVIOUS
  <2>3. Opening(v, c.key) /\ g <= payable
    BY <1>4, <1>6, <2>1, <2>2 DEF Covered
  <2>4. lock = v /\ c.pc = "run" /\ c.key \in Key
    BY <1>4, <2>3 DEF Opening, TypesInv, LockInv
  <2>5. Opening(v, c.key)'
    BY <1>1, <2>3, <2>4, OpeningStays
  <2>6. instr'[c.key].amounts = instr[c.key].amounts
    BY <1>4, <2>4, AmountsStay
  <2>7. g \in Int
    <3>1. instr[c.key].amounts \in Amounts
      BY <2>4 DEF TypesInv, Row
    <3> QED BY <2>2, <3>1, PartsTyped
  <2> QED BY <1>2, <1>3, <2>2, <2>3, <2>4, <2>5, <2>6, <2>7
<1>7. ASSUME c.pc = "run", Unlocks(c.todo)
      PROVE  Has("initiated", c.key)' \/ Posts(Head(c.todo), "initiated")
  BY <1>4, <1>7, LedgerGrows DEF Covered
<1> QED BY <1>1, <1>4, <1>5, <1>6, <1>7 DEF Covered

\* A worker that will give the lock back has just inserted its instruction, or goes on with that.
LEMMA UnlocksFrom ==
  ASSUME IInv, TypesInv, NEW w \in Worker, Acts(w), [Next]_vars,
         call'[w].pc = "run", Unlocks(call'[w].todo), ~RaiseInsert(w)
  PROVE  call[w].pc = "run" /\ call'[w] = Doing(call[w].key, Tail(call[w].todo))
<1>1. lock' = w /\ w # NoWorker
  BY Inductive, SettlementAssumption DEF IInv, CallInv
<1>2. \A c : Becomes(w, c) => call'[w] = c
  BY BecomesIs DEF IInv
<1>3. ~RaiseLock(w)
  <2>1. SUFFICES ASSUME RaiseLock(w) PROVE FALSE
    OBVIOUS
  <2>2. Becomes(w, At("balance", call[w].key))
    BY <1>1, <2>1 DEF RaiseLock, BankerLockFree
  <2> QED BY <1>2, <2>2, PcOfAt
<1>4. lock = w
  BY <1>1, <1>3, LockMoves
<1>5. call[w].pc \in {"balance", "insert", "run"}
  BY <1>4 DEF TypesInv, LockInv
<1>6. call[w] # Idle
  BY <1>5, PcOfAt
<1>7. ~RaiseBalance(w)
  <2>1. SUFFICES ASSUME RaiseBalance(w) PROVE FALSE
    OBVIOUS
  <2>2. Becomes(w, HasBalance(call[w].key))
    BY <2>1 DEF RaiseBalance, HasBalance
  <2>3. HasBalance(call[w].key).pc = "insert"
    BY PcOfAt DEF HasBalance
  <2> QED BY <1>2, <2>2, <2>3
<1>8. ~Crash(w) /\ ~Over(w)
  <2>1. ~Over(w)
    BY <1>2, PcOfAt DEF Over
  <2> QED BY <2>1 DEF Crash
<1>9. DoPost(w) \/ DoStamp(w) \/ DoUnlock(w) \/ DoMove(w) \/ DoRequest(w) \/ DoReserve(w) \/ DoHold(w)
  BY <1>3, <1>5, <1>6, <1>7, <1>8 DEF Acts, Statement, SyncPayins, FollowRead, RaiseStart, CancelRead,
     ReleaseRead, FollowStatus, Start, Step
<1>10. call[w].pc = "run" /\ Next1(w)
  BY <1>8, <1>9 DEF DoPost, DoStamp, DoUnlock, DoMove, DoRequest, DoReserve, DoHold, Running
<1> QED BY <1>2, <1>10 DEF Next1

\* A worker that starts on a list of other journals takes nothing from the payable.
LEMMA ListCovered ==
  ASSUME IInv, TypesInv, NEW w \in Worker, Acts(w), [Next]_vars, ~RaiseInsert(w), call[w].pc # "run",
         NEW k, NEW t \in Seq(Statements), call'[w] = Doing(k, t),
         ~Mentions(t, "initiated") \/ Has("initiated", k)'
  PROVE  Covered(w)'
<1>1. call'[w].pc \in {"idle", "run"} /\ (call'[w].pc = "run" => call'[w].key = k /\ call'[w].todo = t)
  BY DoingIs
<1>2. call'[w].pc = "run" => ~Unlocks(call'[w].todo)
  BY UnlocksFrom
<1> QED BY <1>1, <1>2 DEF Covered, Pends

LEMMA InsertCovered ==
  ASSUME IInv, TypesInv, NEW w \in Worker, RaiseInsert(w), Covered(w)
  PROVE  Covered(w)'
<1>1. PICK k : k = call[w].key
  OBVIOUS
<1>2. call[w].pc = "insert" /\ k \in Key /\ lock = w
  BY <1>1 DEF RaiseInsert, Step, IInv, CallInv
<1>3. CASE Becomes(w, Idle)
  <2>1. call'[w] = Idle
    BY <1>3, BecomesIs DEF IInv
  <2>2. call'[w].pc = "idle"
    BY <2>1, PcOfAt
  <2> QED BY <2>2 DEF Covered, Pends
<1>4. CASE ~Becomes(w, Idle)
  <2> DEFINE Written(g) == [instr[k] EXCEPT !.state = "PENDING",
                                            !.amounts = settlementAmounts(g, Card, Rate)]
  <2>1. PICK g \in Nat, s \in InitiateScripts :
          /\ g <= call[w].amount
          /\ Becomes(w, Doing(k, UnderTheLock(s))) /\ UNCHANGED lock
          /\ instr' = [instr EXCEPT ![k] = Written(g)]
    BY <1>1, <1>4, InsertIs
  <2>2. instr \in [Key -> Row]
    BY DEF TypesInv
  <2>3. Written(g).amounts.gross = g
    BY <1>2, <2>2, InsertRow
  <2> HIDE DEF Written
  <2>4. instr'[k].amounts.gross = g
    BY <1>2, <2>1, <2>2, <2>3
  <2>5. call'[w] = Doing(k, UnderTheLock(s))
    BY <2>1, BecomesIs DEF IInv
  <2>6. Opening(w, k)' /\ call'[w].pc = "run" /\ call'[w].key = k
    BY <1>2, <2>1, <2>5, OpeningList
  <2>7. g <= payable
    <3>1. call[w].amount <= payable
      BY <1>2 DEF Covered
    <3>2. call[w].amount \in Int
      BY DEF TypesInv, CallTyped, Calls
    <3> QED BY <2>1, <3>1, <3>2, PayableTyped
  <2>8. payable' = payable
    BY DEF RaiseInsert, payable
  <2> QED BY <2>4, <2>6, <2>7, <2>8 DEF Covered, Opening
<1> QED BY <1>3, <1>4

\* After the first statement of its list a worker takes nothing that it had not read before.
LEMMA RestCovered ==
  ASSUME IInv, TypesInv, NEW w \in Worker, Acts(w), [Next]_vars, Covered(w), orphans' = {},
         call[w].pc = "run", call'[w] = Doing(call[w].key, Tail(call[w].todo))
  PROVE  Covered(w)'
<1>1. PICK k, t : k = call[w].key /\ t = call[w].todo
  OBVIOUS
<1>2. t \in Seq(Statements) /\ t # <<>> /\ OneUnlock(t)
  BY <1>1 DEF IInv, CallInv, InOrder
<1>3. call'[w].pc \in {"idle", "run"} /\ (call'[w].pc = "run" => call'[w].key = k /\ call'[w].todo = Tail(t))
  BY <1>1, DoingIs
<1> SUFFICES ASSUME call'[w].pc = "run"
             PROVE  /\ Mentions(Tail(t), "initiated") => Has("initiated", k)'
                    /\ Unlocks(Tail(t)) => Has("initiated", k)'
  BY <1>3 DEF Covered, Pends
<1>4. ASSUME Mentions(Tail(t), "initiated") PROVE Has("initiated", k)'
  <2>1. Pends(call[w], "initiated")
    BY <1>1, <1>2, <1>4, MentionsTail DEF Pends
  <2>2. Has("initiated", k) \/ Opening(w, k)
    BY <1>1, <2>1 DEF Covered
  <2> QED BY <2>2, OpeningPosts, LedgerGrows
<1>5. ASSUME Unlocks(Tail(t)) PROVE Has("initiated", k)'
  <2>1. Unlocks(t)
    BY <1>2, <1>5, RestUnlocks
  <2>2. Has("initiated", k) \/ Opening(w, k)
    <3>1. Has("initiated", k) \/ Posts(Head(t), "initiated")
      BY <1>1, <2>1 DEF Covered
    <3>2. lock = w
      BY <1>1, <2>1 DEF IInv, CallInv
    <3> QED BY <1>1, <2>1, <3>1, <3>2 DEF Opening
  <2> QED BY <2>2, OpeningPosts, LedgerGrows
<1> QED BY <1>4, <1>5

LEMMA RunningSteps ==
  ASSUME IInv, NEW w \in Worker, Acts(w), call[w].pc = "run"
  PROVE  call'[w] = Doing(call[w].key, Tail(call[w].todo)) \/ call'[w] = Idle
<1>1. call[w] # Idle
  BY PcOfAt
<1>2. Next1(w) \/ Over(w)
  BY <1>1 DEF Acts, SyncPayins, FollowRead, RaiseStart, CancelRead, ReleaseRead, Start, Step, Crash,
     Statement, DoPost, DoStamp, DoUnlock, DoMove, DoRequest, DoReserve, DoHold, RaiseLock, RaiseBalance,
     RaiseInsert, FollowStatus
<1> QED BY <1>2, BecomesIs DEF Next1, Over, IInv

LEMMA WorkerCovered ==
  ASSUME IInv, TypesInv, PayableInv, orphans = {}, orphans' = {}, NEW w \in Worker, Acts(w), [Next]_vars
  PROVE  Covered(w)'
<1>1. CallSteps(w) /\ Covered(w)
  BY CallStepped DEF PayableInv
<1>2. CASE call'[w].pc # "run" /\ PlainCall(call'[w])
  <2>1. CASE call'[w].pc = "insert"
    <3>1. PICK k \in Key : call'[w] = HasBalance(k)
      <4>1. \A k : HasRow(k).pc = "status"
        BY PcOfAt DEF HasRow
      <4> QED BY <1>2, <2>1, <4>1, PcOfAt DEF PlainCall
    <3>2. call'[w].amount = payable
      BY <3>1, PcOfAt DEF HasBalance
    <3>3. ~DoPost(w)
      <4>1. DoPost(w) => call'[w] = Doing(call[w].key, Tail(call[w].todo))
        BY BecomesIs DEF DoPost, Next1, IInv
      <4> QED BY <2>1, <4>1, DoingIs
    <3>4. payable' >= payable
      BY <3>3, PayableMoves DEF Falls
    <3>5. payable \in Int /\ payable' \in Int
      BY PayableInt
    <3>6. call'[w].amount <= payable'
      BY <3>2, <3>4, <3>5
    <3> QED BY <1>2, <3>6 DEF Covered, Pends
  <2>2. CASE call'[w].pc # "insert"
    BY <1>2, <2>2 DEF Covered, Pends
  <2> QED BY <2>1, <2>2
<1>3. CASE RaiseInsert(w)
  BY <1>1, <1>3, InsertCovered
<1>4. CASE call[w].pc = "run"
  <2>1. CASE call'[w] = Idle
    BY <1>2, <2>1, PcOfAt DEF PlainCall
  <2>2. CASE call'[w] = Doing(call[w].key, Tail(call[w].todo))
    BY <1>1, <1>4, <2>2, RestCovered
  <2> QED BY <1>4, <2>1, <2>2, RunningSteps
<1>5. ASSUME ~RaiseInsert(w), NEW k, NEW t \in Seq(Statements), NEW S, Listed(w, k, t, S), call[w].pc # "run",
             "initiated" \notin S \/ Has("initiated", k)'
      PROVE  Covered(w)'
  <2>1. ~Mentions(t, "initiated") \/ Has("initiated", k)'
    BY <1>5, MentionsOnly DEF Listed
  <2>2. call'[w] = Doing(k, t)
    BY <1>5 DEF Listed
  <2> QED BY <1>5, <2>1, <2>2, ListCovered
<1>6. ASSUME RaiseLock(w), NEW k \in Key, k = call[w].key, instr[k].state = "PENDING"
      PROVE  Has("initiated", k)' /\ call[w].pc # "run"
  <2>1. lock = NoWorker /\ call[w].pc # "run"
    BY <1>6 DEF RaiseLock, BankerLockFree, Step
  <2>2. \A v \in Worker : ~Opening(v, k)
    BY <2>1, SettlementAssumption DEF Opening
  <2>3. Has("initiated", k)
    BY <1>6, <2>2 DEF PayableInv
  <2> QED BY <2>1, <2>3, LedgerGrows
<1>7. "initiated" \notin {"collected"} /\ "initiated" \notin {"cancelled", "released"}
      /\ \A x, y : "initiated" \notin Told(x, y)
  BY DEF Told, Outcome
<1>8. ASSUME \E t \in Seq(Statements) : Listed(w, call[w].key, t, {"initiated"}),
             RaiseLock(w) /\ instr[call[w].key].state = "PENDING", call[w].key \in Key
      PROVE  Covered(w)'
  <2>1. PICK k \in Key, t \in Seq(Statements) : k = call[w].key /\ Listed(w, k, t, {"initiated"})
    BY <1>8
  <2> QED BY <1>3, <1>5, <1>6, <1>8, <2>1
<1>9. ASSUME ~RaiseInsert(w), call[w].pc # "run", call'[w].pc = "run" \/ ~PlainCall(call'[w]),
             ~ \/ /\ RaiseLock(w) /\ instr[call[w].key].state = "PENDING" /\ call[w].key \in Key
                  /\ \E t \in Seq(Statements) : Listed(w, call[w].key, t, {"initiated"})
      PROVE  \E k, S : \E t \in Seq(Statements) : Listed(w, k, t, S) /\ "initiated" \notin S
  <2> DEFINE Other == \E k, S : \E t \in Seq(Statements) : Listed(w, k, t, S) /\ "initiated" \notin S
  <2>1. (\E p \in Payin, t \in Seq(Statements) : Listed(w, p, t, {"collected"})) => Other
    BY <1>7
  <2>2. (\E k \in Key, t \in Seq(Statements) : Listed(w, k, t, {"cancelled", "released"})) => Other
    BY <1>7
  <2>3. (\E t \in Seq(Statements) : Listed(w, call[w].key, t, Told(call[w].seen, request[call[w].key]))) => Other
    BY <1>7
  <2> HIDE DEF Other
  <2>4. Other
    BY <1>1, <1>9, <2>1, <2>2, <2>3 DEF CallSteps
  <2> QED BY <2>4 DEF Other
<1> QED BY <1>2, <1>3, <1>4, <1>5, <1>8, <1>9

LEMMA PayableInit == Init => PayableInv
<1> SUFFICES ASSUME Init PROVE PayableInv
  OBVIOUS
<1>1. payable >= 0
  <2>1. balances["payable"] = 0
    BY DEF Init, NoLines, Account
  <2>2. PICK b \in Int : b = balances["payable"] /\ b = 0
    BY <2>1
  <2> QED BY <2>2 DEF payable
<1>2. \A k \in Key : instr[k].state = "NONE"
  BY DEF Init
<1>3. \A w \in Worker : call[w].pc = "idle"
  BY PcOfAt DEF Init
<1> QED BY <1>1, <1>2, <1>3 DEF PayableInv, Covered, Pends

LEMMA PayableSteps == IInv /\ TypesInv /\ PayableInv /\ [Next]_vars => PayableInv'
<1> SUFFICES ASSUME IInv, TypesInv, PayableInv, [Next]_vars, orphans' = {} PROVE PayableInv'
  BY DEF PayableInv
<1>1. CASE UNCHANGED <<call, posted, balances, instr, lock, orphans>>
  <2>1. payable' = payable /\ orphans = {}
    BY <1>1 DEF payable
  <2>2. ASSUME NEW w \in Worker PROVE /\ Covered(w)'
                                      /\ \A k : Opening(w, k) => Opening(w, k)'
    <3>1. Covered(w)
      BY <2>1 DEF PayableInv
    <3> QED BY <1>1, <2>1, <3>1 DEF Covered, Opening, Has
  <2>3. ASSUME NEW k \in Key, instr'[k].state # "NONE"
        PROVE  Has("initiated", k)' \/ \E w \in Worker : Opening(w, k)'
    BY <1>1, <2>1, <2>2, <2>3 DEF PayableInv, Has
  <2> QED BY <2>1, <2>2, <2>3 DEF PayableInv
<1>2. ASSUME NEW w \in Worker, Acts(w) PROVE PayableInv'
  <2>1. orphans = {} /\ Covered(w) /\ payable >= 0
    BY <1>2, OrphansGrow DEF PayableInv
  <2>2. payable' >= 0
    BY <1>2, <2>1, PayableMoves, FallsCovered, PayableInt
  <2>3. \A k \in Key : instr'[k].state # "NONE" => Has("initiated", k)' \/ \E v \in Worker : Opening(v, k)'
    BY <1>2, <2>1, FirstBooked
  <2>4. ASSUME NEW v \in Worker PROVE Covered(v)'
    <3>1. CASE v = w
      BY <1>2, <2>1, <3>1, WorkerCovered
    <3>2. CASE v # w
      <4>1. Covered(v)
        BY <2>1 DEF PayableInv
      <4> QED BY <1>2, <2>1, <3>2, <4>1, OthersCovered
    <3> QED BY <3>1, <3>2
  <2> QED BY <2>2, <2>3, <2>4 DEF PayableInv
<1> QED BY <1>1, <1>2, NextActs

LEMMA BooksHold == Spec => [](IInv /\ BooksInv)
<1>1. Init => BooksInv /\ IInv
  BY InitInv, OutcomeInit, TypesInit, PayableInit DEF BooksInv
<1>2. IInv /\ BooksInv /\ [Next]_vars => (IInv /\ BooksInv)'
  BY Inductive, OutcomeSteps, TypesSteps, PayableSteps DEF BooksInv
<1> QED BY <1>1, <1>2, PTL DEF Spec

\* As long as no process has died between an instruction's insert and its first journal, what is
\* taken out never exceeds what was collected, released or given back: no two runs raise against
\* the same payable, however many raise at once and whatever they ask for.
THEOREM RaisedOnce == Spec => []NeverOverdrawn
<1>1. PayableInv => NeverOverdrawn
  BY DEF PayableInv, NeverOverdrawn
<1> QED BY <1>1, BooksHold, PTL DEF BooksInv

\* A worker has read the payable, and what it takes from it is not on the ledger yet: it is between
\* the look-up of the key and its first journal, or has that journal still to post.
Raising(w) ==
  LET c == call[w]
  IN  \/ c.pc \in {"balance", "insert"}
      \/ Pends(c, "initiated") /\ ~Has("initiated", c.key)
OneRaises == orphans = {} => \A v, w \in Worker : Raising(v) /\ Raising(w) => v = w

\* The banker's advisory lock: from the look-up of the key until the first journal is on the ledger
\* one worker at a time raises, so that no two runs of the engine ever raise from the same reading of
\* the payable, as long as no process has died in that stretch.
THEOREM OneAtATime == Spec => []OneRaises
<1>1. IInv /\ PayableInv => OneRaises
  <2> SUFFICES ASSUME IInv, PayableInv, orphans = {} PROVE \A w \in Worker : Raising(w) => lock = w
    BY DEF OneRaises
  <2> SUFFICES ASSUME NEW w \in Worker, Raising(w) PROVE lock = w
    OBVIOUS
  <2>1. CASE call[w].pc \in {"balance", "insert"}
    BY <2>1 DEF IInv, CallInv
  <2>2. CASE Pends(call[w], "initiated") /\ ~Has("initiated", call[w].key)
    BY <2>2 DEF PayableInv, Covered, Opening
  <2> QED BY <2>1, <2>2 DEF Raising
<1> QED BY <1>1, BooksHold, PTL DEF BooksInv
=============================================================================
