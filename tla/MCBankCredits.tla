--------------------------- MODULE MCBankCredits ---------------------------
(* Two payments of one amount in one minute and two orders they may pay.   *)
(* The first is captured by an email that names its order and by a screen  *)
(* read; the second by a screen read of a device nobody trusts yet, and by *)
(* an email of the bank that states reference and time.                    *)
EXTENDS BankCredits, TLC

CONSTANTS p1, p2, o1, o2, u1, u2, clerk, clerk2
Clerks == Permutations({clerk, clerk2})

MCPaidFor == p1 :> o1 @@ p2 :> o2
MCPrice == o1 :> 10 @@ o2 :> 10

Says(p, source, utr, ref, at, trusted) ==
  [pay |-> p, source |-> source, amount |-> 10, utr |-> utr, ref |-> ref,
   vpa |-> IF at = 0 THEN p ELSE NoRef, at |-> at, trusted |-> trusted]

OrderEmail == Says(p1, "EMAIL", NoRef, o1, 1, TRUE)
Screen1    == Says(p1, "ACCESSIBILITY", p1, NoOrder, 0, TRUE)
Screen2    == Says(p2, "ACCESSIBILITY", p2, NoOrder, 0, FALSE)
BankEmail  == Says(p2, "EMAIL", p2, NoOrder, 1, TRUE)

MCCapture == {OrderEmail, Screen1, Screen2, BankEmail}
Agents == {u1, u2}
MCHandles == u1 :> {Screen1} @@ u2 :> {OrderEmail, BankEmail, Screen2}

\* The first payment is captured by a push and an email that state the time of the second.
Push1  == Says(p1, "NOTIFICATION", NoRef, NoOrder, 1, TRUE)
Email1 == Says(p1, "EMAIL", p1, NoOrder, 1, TRUE)
MCSameMinute == {BankEmail, Push1, Email1}
MCOneAgent == u1 :> MCSameMinute
=============================================================================
