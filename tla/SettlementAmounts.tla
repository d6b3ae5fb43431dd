------------------------- MODULE SettlementAmounts -------------------------
(***************************************************************************)
(* The arithmetic of the settlement engine (lib/settlement-engine), in     *)
(* whole paise: what a settlement of a gross amount is made of, how much a *)
(* cycle settles, and the lines of the journals it posts.                  *)
(***************************************************************************)
EXTENDS Integers

\* Basis points of an amount, rounded half up.
bpsOf(amount, bps) == (amount * bps + 5000) \div 10000

Parts == {"upline", "katana", "downline", "fixed"}
Total(p) == p["upline"] + p["katana"] + p["downline"] + p["fixed"]

RateCard == [upline_bps : Nat, katana_bps : Nat, downline_bps : Nat, fixed_fee : Nat, gst_bps : Nat,
             min_charge : Nat,                          \* 0: no minimum
             capped : BOOLEAN, max_charge : Nat]        \* max_charge counts if capped
Rates == [reserve_bps : Nat, tds_bps : Nat]

CardParts(gross, card) == [k \in Parts |-> CASE k = "upline" -> bpsOf(gross, card.upline_bps)
                                             [] k = "katana" -> bpsOf(gross, card.katana_bps)
                                             [] k = "downline" -> bpsOf(gross, card.downline_bps)
                                             [] k = "fixed" -> card.fixed_fee]

Clamp(sum, card) ==
  LET raised == IF sum < card.min_charge THEN card.min_charge ELSE sum
  IN  IF card.capped /\ raised > card.max_charge THEN card.max_charge ELSE raised

\* The part that takes the remainder of a clamp: the largest, katana before its equals.
Largest(p) == LET Larger(m, k) == IF p[k] > p[m] THEN k ELSE m
              IN  Larger(Larger(Larger("katana", "upline"), "downline"), "fixed")

Scaled(p, sum, charges) == [k \in Parts |-> (p[k] * charges) \div sum]

\* Mutant: a clamp is taken out of the fixed fee alone.
FixedTakesAll(p, sum, charges) == [p EXCEPT !["fixed"] = @ + (charges - sum)]

\* The parts made to add up to the clamped charges.
Shared(p, sum, charges) ==
  IF charges = sum THEN p
  ELSE IF sum = 0 THEN [p EXCEPT !["fixed"] = charges]
  ELSE LET q == Scaled(p, sum, charges)
       IN  [q EXCEPT ![Largest(q)] = @ + (charges - Total(q))]

settlementAmounts(gross, card, rates) ==
  LET p == CardParts(gross, card)
      charges == Clamp(Total(p), card)
      gst == bpsOf(charges, card.gst_bps)
      tds == bpsOf(charges, rates.tds_bps)
      reserve == bpsOf(gross, rates.reserve_bps)
  IN  [gross |-> gross, reserve |-> reserve, parts |-> Shared(p, Total(p), charges),
       charges |-> charges, gst |-> gst, tds |-> tds,
       net |-> gross - reserve - charges - gst + tds]

Amounts == [gross : Nat, reserve : Nat, parts : [Parts -> Nat], charges : Nat, gst : Nat, tds : Nat, net : Int]
NoAmounts == [gross |-> 0, reserve |-> 0, parts |-> [k \in Parts |-> 0], charges |-> 0,
              gst |-> 0, tds |-> 0, net |-> 0]

\* Deductions that leave nothing: the settlement is refused.
Refused(a) == a.net <= 0

\* What a cycle settles: the payable less what was paid after the cut-off, within [min, max].
cycleGross(payable, paidAfterCutoff, limits) ==
  LET due == payable - paidAfterCutoff
      g == IF due > limits.max_payout THEN limits.max_payout ELSE due
  IN  IF due <= 0 \/ g < limits.min_payout THEN 0 ELSE g

-----------------------------------------------------------------------------
\* Journal lines by account, debits positive.  The fee accounts of the four parts are one here.
Account == {"held", "payable", "reserve", "transit", "fees", "gst", "tds"}
NoLines == [a \in Account |-> 0]

collectedLines(amount) == [NoLines EXCEPT !["held"] = amount, !["payable"] = -amount]

initiatedLines(a) == [NoLines EXCEPT !["payable"] = a.gross, !["tds"] = a.tds, !["transit"] = -a.net,
                                     !["reserve"] = -a.reserve, !["fees"] = -Total(a.parts),
                                     !["gst"] = -a.gst]
settledLines(net) == [NoLines EXCEPT !["transit"] = net, !["held"] = -net]
reserveReleaseLines(amount) == [NoLines EXCEPT !["reserve"] = amount, !["payable"] = -amount]

reversed(lines) == [a \in Account |-> -lines[a]]
Both(x, y) == [a \in Account |-> x[a] + y[a]]

\* journalProblem, and the database at commit: debits equal credits.
Balanced(l) == l["held"] + l["payable"] + l["reserve"] + l["transit"] + l["fees"] + l["gst"] + l["tds"] = 0
=============================================================================
