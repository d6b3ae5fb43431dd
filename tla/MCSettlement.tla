---------------------------- MODULE MCSettlement ----------------------------
(* One cycle and one settlement raised by hand for the same hundred paise; *)
(* the cron's worker, and one for staff and for an overlapping run.        *)
EXTENDS Settlement, TLC

CONSTANTS w1, w2
Workers == {w1, w2}
MCDuties == w1 :> {"cycle", "sync", "follow"} @@ w2 :> {"byhand", "cancel", "release"}

\* Rates that round, and a maximum charge below the card's sum.
MCCard == [upline_bps |-> 155, katana_bps |-> 250, downline_bps |-> 105, fixed_fee |-> 1, gst_bps |-> 1800,
           min_charge |-> 0, capped |-> TRUE, max_charge |-> 5]
MCRate == [reserve_bps |-> 1000, tds_bps |-> 1000]
MCLimits == [min_payout |-> 90, max_payout |-> 100]
=============================================================================
