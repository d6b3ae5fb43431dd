---------------------------- MODULE MCPayinOrder ----------------------------
(* PayinOrder with two live orders, one of them held for its amount, or    *)
(* with a live order and a test order whose amount ends in 99 paise.       *)
EXTENDS PayinOrder, TLC

CONSTANTS plain, held, sandbox, u, g, w1, w2

LivePair == {plain, held}
MixedPair == {plain, sandbox}
OnlyHeld == {held}
OnlyPlain == {plain}
MCSandboxOutcome == [o \in Order |-> IF o = sandbox THEN "SUCCESS" ELSE "PENDING"]
MCRef == {u, g}
MCWorker == {w1, w2}
Workers == Permutations(MCWorker)
\* Derived references may collide with each other: the hash is 12 digits.
MCgenRrn == [o \in Order |-> g]
=============================================================================
