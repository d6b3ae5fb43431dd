----------------------------- MODULE MCPayouts -----------------------------
(* One payout, on whichever route, two requests and the cron process.      *)
EXTENDS Payouts, TLC

CONSTANTS r1, r2
Requests == {r1, r2}
Same == Permutations(Requests)
=============================================================================
