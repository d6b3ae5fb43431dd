--------------------------- MODULE MCPayinCallback ---------------------------
(* PayinCallback with one order, live or test, and two requests at once.   *)
EXTENDS PayinCallback, TLC

CONSTANTS plain, sandbox, g, w1, w2

OnlyPlain == {plain}
OnlySandbox == {sandbox}
MCSandboxOutcome == [o \in Order |-> IF o = sandbox THEN "SUCCESS" ELSE "PENDING"]
MCgenRrn == [o \in Order |-> g]
MCWorker == {w1, w2}
Workers == Permutations(MCWorker)
PaidOnly == {"Captured"}
=============================================================================
