-------------------------------- MODULE Wage --------------------------------
(***************************************************************************)
(* The arithmetic of a paid invoice: the shares of technician and company, *)
(* who bears which discount, the platform's fee, and the route of the      *)
(* money.  Amounts are whole rials; percents are out of Hundred.           *)
(***************************************************************************)
EXTENDS Naturals

CONSTANT Hundred  \* what a percent is out of; small in the model-checked instances

ASSUME HundredAssumption == Hundred \in Nat \ {0}

Percents == 0 .. Hundred

\* ROUND_HALF_UP and ROUND_DOWN of the fraction n/d.
HalfUp(n, d) == (2 * n + d) \div (2 * d)
Down(n, d) == n \div d

\* max(a - b, 0)
Floored(a, b) == IF a > b THEN a - b ELSE 0

Categories == {"service", "goods", "travel"}
Sum3(f) == f["service"] + f["goods"] + f["travel"]

Policies == {"company", "technician", "half_half", "proportional_share"}
Strategies == {"direct_to_company", "split_with_technician"}

\* What the technician bears of a discount; the company bears the rest.
Borne(policy, discount, technician, company) ==
  CASE policy = "technician" -> discount
    [] policy = "half_half" -> HalfUp(discount, 2)
    [] policy = "proportional_share" /\ technician + company > 0 ->
         HalfUp(discount * technician, technician + company)
    [] OTHER -> 0

\* Mutant of Rest: the company's half is rounded by itself.
RestRounded(policy, discount, technician, company) ==
  IF policy = "half_half" THEN HalfUp(discount, 2)
  ELSE discount - Borne(policy, discount, technician, company)
Rest(policy, discount, technician, company) ==
  discount - Borne(policy, discount, technician, company)

\* The shares before invoice discounts.
Gross(totals, percents) ==
  Sum3([c \in Categories |-> HalfUp(totals[c] * percents[c], Hundred)])
CompanyGross(totals, percents) == Floored(Sum3(totals), Gross(totals, percents))

\* bill: category totals after row discounts, the tax, the two invoice discounts,
\* and the policy for each.
TechnicianAbsorbed(bill, percents) ==
  LET technician == Gross(bill.totals, percents)
      company == CompanyGross(bill.totals, percents)
  IN  Borne(bill.extraPolicy, bill.extra, technician, company)
        + Borne(bill.campaignPolicy, bill.campaign, technician, company)

CompanyAbsorbed(bill, percents) ==
  LET technician == Gross(bill.totals, percents)
      company == CompanyGross(bill.totals, percents)
  IN  Rest(bill.extraPolicy, bill.extra, technician, company)
        + Rest(bill.campaignPolicy, bill.campaign, technician, company)

\* The final shares.
TechnicianShare(bill, percents) ==
  Floored(Gross(bill.totals, percents), TechnicianAbsorbed(bill, percents))
CompanyShare(bill, percents) ==
  Floored(CompanyGross(bill.totals, percents), CompanyAbsorbed(bill, percents))

\* total_amount of the invoice.  The tax is nobody's share.
Total(bill) == Floored(Sum3(bill.totals) + bill.tax, bill.extra + bill.campaign)

\* The platform's fee as its ledger records it, and as a split takes it off.
LedgerFee(total, percent) == Down(total * percent, Hundred)
SplitFee(total, percent) == Down(total * percent, Hundred)

\* Where the money of one payment goes.
Split(total, fee, wage, direct) ==
  [fee |-> fee,
   direct |-> IF direct THEN wage ELSE 0,
   ledger |-> IF direct THEN 0 ELSE wage,
   deposit |-> Floored(total, fee + (IF direct THEN wage ELSE 0))]

=============================================================================
