-------------------------- MODULE Settlement_proofs --------------------------
(***************************************************************************)
(* The settlement of an invoice, for any amounts, percents and payments:   *)
(* what the shares and the split add up to, and that the percents are      *)
(* those of the issue, while the discount policies are those of the        *)
(* settlement.  Percents are out of any Hundred.                           *)
(***************************************************************************)
EXTENDS Settlement, TLAPS

USE HundredAssumption, SettlementAssumption

----------------------------------------------------------------------------
\* Arithmetic

\* A share rounded half up is a natural number, and no more than the whole.
LEMMA HalfUpShare ==
  ASSUME NEW n \in Nat, NEW p \in Nat, NEW h \in Nat \ {0}, p <= h
  PROVE  HalfUp(n * p, h) \in Nat /\ HalfUp(n * p, h) <= n
<1> DEFINE x == n * p
<1>1. x \in Nat /\ x <= n * h OBVIOUS
<1>2. n * h \in Nat OBVIOUS
<1> DEFINE y == n * h
<1>3. 2 * h \in Nat \ {0} /\ 2 * x + h \in Nat /\ 2 * x + h < 2 * y + 2 * h
  BY <1>1, <1>2
<1>4. 2 * y + 2 * h = (2 * h) * (n + 1) OBVIOUS
<1> DEFINE a == 2 * x + h
           d == 2 * h
<1>5. a \in Nat /\ d \in Nat \ {0} /\ a < d * (n + 1) BY <1>3, <1>4
<1> HIDE DEF x, y
<1>6. HalfUp(x, h) = a \div d BY DEF HalfUp
<1> HIDE DEF a, d
<1>7. a \div d \in Nat /\ d * (a \div d) <= a BY <1>5
<1>8. a \div d < n + 1
  <2>1. SUFFICES ASSUME n + 1 <= a \div d PROVE FALSE BY <1>7
  <2>2. d * (n + 1) <= d * (a \div d) BY <2>1, <1>5, <1>7
  <2>3. d * (n + 1) \in Nat /\ d * (a \div d) \in Nat BY <1>5, <1>7
  <2>4. QED BY <2>2, <2>3, <1>5, <1>7
<1>9. QED BY <1>6, <1>7, <1>8 DEF x

LEMMA FlooredNat ==
  ASSUME NEW a \in Nat, NEW b \in Nat
  PROVE  /\ Floored(a, b) \in Nat /\ Floored(a, b) <= a
         /\ b <= a => Floored(a, b) = a - b
BY DEF Floored

LEMMA DownNat ==
  ASSUME NEW n \in Nat, NEW d \in Nat \ {0}
  PROVE  Down(n, d) \in Nat
BY DEF Down

\* What the technician bears of a discount is part of it.
LEMMA BorneNat ==
  ASSUME NEW rule \in Policies, NEW discount \in Nat, NEW t \in Nat, NEW k \in Nat
  PROVE  /\ Borne(rule, discount, t, k) \in Nat
         /\ Rest(rule, discount, t, k) \in Nat
         /\ Borne(rule, discount, t, k) + Rest(rule, discount, t, k) = discount
<1>1. HalfUp(discount, 2) \in Nat /\ HalfUp(discount, 2) <= discount
  <2>1. HalfUp(discount, 2) = (2 * discount + 2) \div 4 BY DEF HalfUp
  <2>2. QED BY <2>1
<1>2. t + k > 0 => HalfUp(discount * t, t + k) \in Nat /\ HalfUp(discount * t, t + k) <= discount
  <2>1. SUFFICES ASSUME t + k > 0
                 PROVE  HalfUp(discount * t, t + k) \in Nat /\ HalfUp(discount * t, t + k) <= discount
    OBVIOUS
  <2>2. PICK h \in Nat \ {0} : h = t + k /\ t <= h BY <2>1
  <2>3. HalfUp(discount * t, h) \in Nat /\ HalfUp(discount * t, h) <= discount BY <2>2, HalfUpShare
  <2>4. QED BY <2>2, <2>3
<1>3. Borne(rule, discount, t, k) \in Nat /\ Borne(rule, discount, t, k) <= discount
  <2>1. CASE rule = "technician" BY <2>1 DEF Borne
  <2>2. CASE rule = "half_half" BY <2>2, <1>1 DEF Borne
  <2>3. CASE rule = "proportional_share" /\ t + k > 0 BY <2>3, <1>2 DEF Borne
  <2>4. CASE rule = "company" \/ (rule = "proportional_share" /\ ~(t + k > 0))
    BY <2>4 DEF Borne
  <2>5. QED BY <2>1, <2>2, <2>3, <2>4 DEF Policies
<1>4. QED BY <1>3 DEF Rest

LEMMA Sum3Nat ==
  ASSUME NEW f \in [Categories -> Nat]
  PROVE  Sum3(f) \in Nat
BY DEF Sum3, Categories

\* The two gross shares are the rows, divided.
LEMMA GrossShares ==
  ASSUME NEW totals \in [Categories -> Nat], NEW percents \in [Categories -> Percents]
  PROVE  /\ Gross(totals, percents) \in Nat
         /\ CompanyGross(totals, percents) \in Nat
         /\ Gross(totals, percents) + CompanyGross(totals, percents) = Sum3(totals)
<1>1. \A c \in Categories : /\ HalfUp(totals[c] * percents[c], Hundred) \in Nat
                            /\ HalfUp(totals[c] * percents[c], Hundred) <= totals[c]
  <2>1. SUFFICES ASSUME NEW c \in Categories
                 PROVE  /\ HalfUp(totals[c] * percents[c], Hundred) \in Nat
                        /\ HalfUp(totals[c] * percents[c], Hundred) <= totals[c]
    OBVIOUS
  <2>2. totals[c] \in Nat /\ percents[c] \in Nat /\ percents[c] <= Hundred BY DEF Percents
  <2>3. QED BY <2>2, HalfUpShare
<1> DEFINE g == [c \in Categories |-> HalfUp(totals[c] * percents[c], Hundred)]
<1>2. \A c \in Categories : g[c] \in Nat /\ g[c] <= totals[c] BY <1>1
<1>3. Gross(totals, percents) = Sum3(g) BY DEF Gross
<1> HIDE DEF g
<1>4. Sum3(g) \in Nat /\ Sum3(totals) \in Nat /\ Sum3(g) <= Sum3(totals)
  BY <1>2 DEF Sum3, Categories
<1>5. QED BY <1>3, <1>4, FlooredNat DEF CompanyGross

\* A bill: what an invoice is settled by.
FullBill == [totals : [Categories -> Nat], tax : Nat, extra : Nat, campaign : Nat,
          extraPolicy : Policies, campaignPolicy : Policies]

\* Technician and company together bear the discounts.
LEMMA Absorbed ==
  ASSUME NEW bill \in FullBill, NEW percents \in [Categories -> Percents]
  PROVE  /\ TechnicianAbsorbed(bill, percents) \in Nat
         /\ CompanyAbsorbed(bill, percents) \in Nat
         /\ TechnicianAbsorbed(bill, percents) + CompanyAbsorbed(bill, percents)
              = bill.extra + bill.campaign
<1>1. /\ bill.totals \in [Categories -> Nat] /\ bill.extra \in Nat /\ bill.campaign \in Nat
      /\ bill.extraPolicy \in Policies /\ bill.campaignPolicy \in Policies
  BY DEF FullBill
<1>2. PICK t \in Nat, k \in Nat : t = Gross(bill.totals, percents) /\ k = CompanyGross(bill.totals, percents)
  BY <1>1, GrossShares
<1>3. /\ TechnicianAbsorbed(bill, percents)
           = Borne(bill.extraPolicy, bill.extra, t, k) + Borne(bill.campaignPolicy, bill.campaign, t, k)
      /\ CompanyAbsorbed(bill, percents)
           = Rest(bill.extraPolicy, bill.extra, t, k) + Rest(bill.campaignPolicy, bill.campaign, t, k)
  BY <1>2 DEF TechnicianAbsorbed, CompanyAbsorbed
<1>4. /\ Borne(bill.extraPolicy, bill.extra, t, k) \in Nat
      /\ Rest(bill.extraPolicy, bill.extra, t, k) \in Nat
      /\ Borne(bill.extraPolicy, bill.extra, t, k) + Rest(bill.extraPolicy, bill.extra, t, k) = bill.extra
  <2>1. PICK o \in Policies, e \in Nat : o = bill.extraPolicy /\ e = bill.extra BY <1>1
  <2>2. /\ Borne(o, e, t, k) \in Nat /\ Rest(o, e, t, k) \in Nat
        /\ Borne(o, e, t, k) + Rest(o, e, t, k) = e
    BY BorneNat
  <2>3. QED BY <2>1, <2>2
<1>5. /\ Borne(bill.campaignPolicy, bill.campaign, t, k) \in Nat
      /\ Rest(bill.campaignPolicy, bill.campaign, t, k) \in Nat
      /\ Borne(bill.campaignPolicy, bill.campaign, t, k) + Rest(bill.campaignPolicy, bill.campaign, t, k)
           = bill.campaign
  <2>1. PICK o \in Policies, e \in Nat : o = bill.campaignPolicy /\ e = bill.campaign BY <1>1
  <2>2. /\ Borne(o, e, t, k) \in Nat /\ Rest(o, e, t, k) \in Nat
        /\ Borne(o, e, t, k) + Rest(o, e, t, k) = e
    BY BorneNat
  <2>3. QED BY <2>1, <2>2
<1>6. QED BY <1>3, <1>4, <1>5

LEMMA TotalNat ==
  ASSUME NEW bill \in FullBill
  PROVE  Total(bill) \in Nat
<1>1. Sum3(bill.totals) \in Nat /\ bill.tax \in Nat /\ bill.extra \in Nat /\ bill.campaign \in Nat
  BY Sum3Nat DEF FullBill
<1>2. PICK a \in Nat, b \in Nat : a = Sum3(bill.totals) + bill.tax /\ b = bill.extra + bill.campaign
  BY <1>1
<1>3. QED BY <1>2, FlooredNat DEF Total

\* The shares never exceed the rows, and come with the tax to the total unless one
\* side bears more than it has.
LEMMA SharesOfBill ==
  ASSUME NEW bill \in FullBill, NEW percents \in [Categories -> Percents]
  PROVE  /\ TechnicianShare(bill, percents) \in Nat
         /\ CompanyShare(bill, percents) \in Nat
         /\ TechnicianShare(bill, percents) + CompanyShare(bill, percents) <= Sum3(bill.totals)
         /\ /\ TechnicianAbsorbed(bill, percents) <= Gross(bill.totals, percents)
            /\ CompanyAbsorbed(bill, percents) <= CompanyGross(bill.totals, percents)
            => TechnicianShare(bill, percents) + CompanyShare(bill, percents) + bill.tax = Total(bill)
<1>1. bill.totals \in [Categories -> Nat] /\ bill.tax \in Nat /\ bill.extra \in Nat /\ bill.campaign \in Nat
  BY DEF FullBill
<1>2. PICK g \in Nat, k \in Nat :
        /\ g = Gross(bill.totals, percents) /\ k = CompanyGross(bill.totals, percents)
        /\ g + k = Sum3(bill.totals)
  BY <1>1, GrossShares
<1>3. PICK a \in Nat, b \in Nat :
        /\ a = TechnicianAbsorbed(bill, percents) /\ b = CompanyAbsorbed(bill, percents)
        /\ a + b = bill.extra + bill.campaign
  BY Absorbed
<1>4. TechnicianShare(bill, percents) = Floored(g, a) /\ CompanyShare(bill, percents) = Floored(k, b)
  BY <1>2, <1>3 DEF TechnicianShare, CompanyShare
<1>5. Floored(g, a) \in Nat /\ Floored(g, a) <= g /\ (a <= g => Floored(g, a) = g - a)
  BY FlooredNat
<1>6. Floored(k, b) \in Nat /\ Floored(k, b) <= k /\ (b <= k => Floored(k, b) = k - b)
  BY FlooredNat
<1>7. PICK x \in Nat, y \in Nat : x = Sum3(bill.totals) + bill.tax /\ y = bill.extra + bill.campaign
  BY <1>1, <1>2
<1>8. Total(bill) = Floored(x, y) BY <1>7 DEF Total
<1>9. y <= x => Floored(x, y) = x - y BY FlooredNat
<1>10. x = g + k + bill.tax /\ y = a + b BY <1>2, <1>3, <1>7
<1>11. QED BY <1>1, <1>2, <1>3, <1>4, <1>5, <1>6, <1>8, <1>9, <1>10
----------------------------------------------------------------------------
\* The inductive invariant

\* What an invoice with these percents is settled as, under policies p.
Shares(percents, p) ==
  [technician |-> TechnicianShare(BillUnder(p), percents),
   company |-> CompanyShare(BillUnder(p), percents),
   policy |-> p]

\* Rows settled by the frozen percents, under the policies they name.
Fair(rows) == \E p \in DiscountPolicies : rows = {Shares(invoice.percents, p)}

Closed == invoice.status \in {"PAID", "CANCELLED"}

\* A snapshot of a payment goes by the invoice's total, its own percent and the wage.
Fits(r, wage) ==
  /\ r.direct + r.ledger = wage
  /\ r.deposit = Floored(Total(Bill), r.fee + r.direct)
  /\ r.fee = SplitFee(Total(Bill), r.percent)

\* So does a fee.
Charged(e) == e.amount = LedgerFee(Total(Bill), e.percent)

\* The percents are those of the issue, from then on.
Kept ==
  /\ invoice.status = "DRAFT" => invoice.percents = Zero
  /\ invoice.status \in {"ISSUED", "PAID"} => invoice.percents = promised

\* The transaction of a payment has settled the invoice as it still is.
JobFits(j) ==
  /\ j.settled # {} => Fair(j.settled) /\ invoice.status = "ISSUED"
  /\ j.op \in {"settle", "charged"} => j.settled # {}
  /\ j.op \in {"route", "done"} /\ j.settled = {} => Closed
  /\ j.owed # {} => j.settled # {}
  /\ \A e \in j.owed : Charged(e)
  /\ j.split # {} => j.op = "done"
  /\ \A r \in j.split : Fits(r, WageOf(settled \cup j.settled))
AllFit == \A c \in Clients : JobFits(job[c])

\* Only one of them has the invoice locked.
OneSettles == \A c, d \in Clients : job[c].settled # {} /\ job[d].settled # {} => c = d

\* What has been committed came with the payment.
SettledFits == settled # {} => Fair(settled) /\ invoice.status = "PAID"
OwedFits == (owed # {} => invoice.status = "PAID") /\ \A e \in owed : Charged(e)
SplitsFit ==
  \A p \in Payments : /\ split[p] # {} => Closed
                      /\ \A r \in split[p] : Fits(r, WageOf(settled))

Settling == TypeOK /\ Kept /\ AllFit /\ OneSettles /\ SettledFits /\ OwedFits /\ SplitsFit
----------------------------------------------------------------------------
\* Types

LEMMA BillType ==
  ASSUME TypeOK
  PROVE  /\ Bill \in FullBill
         /\ \A p \in DiscountPolicies : BillUnder(p) \in FullBill
<1>1. /\ invoice.totals \in [Categories -> Nat] /\ invoice.tax \in Nat /\ invoice.extra \in Nat
      /\ invoice.campaign \in Nat
  BY DEF TypeOK, Row
<1>2. \A p \in DiscountPolicies : BillUnder(p) \in FullBill
  BY <1>1 DEF BillUnder, FullBill, DiscountPolicies
<1>3. policy \in DiscountPolicies BY DEF TypeOK
<1>4. QED BY <1>2, <1>3 DEF Bill

\* What an invoice comes to does not depend on the policies.
LEMMA TotalUnder == \A p : Total(BillUnder(p)) = Total(Bill)
BY DEF Total, BillUnder, Bill

LEMMA SameBill ==
  ASSUME UNCHANGED <<invoice.totals, invoice.tax, invoice.extra, invoice.campaign, invoice.percents>>
  PROVE  /\ Total(Bill)' = Total(Bill)
         /\ \A rows : Fair(rows) => Fair(rows)'
<1>1. Total(Bill)' = Total(Bill) BY DEF Total, BillUnder, Bill
<1>2. \A p : Shares(invoice.percents, p)' = Shares(invoice.percents, p) BY DEF Shares, BillUnder
<1>3. QED BY <1>1, <1>2 DEF Fair

LEMMA SharesType ==
  ASSUME TypeOK, NEW percents \in [Categories -> Percents], NEW p \in DiscountPolicies
  PROVE  Shares(percents, p) \in Settled
<1>1. PICK bill \in FullBill : bill = BillUnder(p) BY BillType
<1>2. TechnicianShare(bill, percents) \in Nat /\ CompanyShare(bill, percents) \in Nat
  BY SharesOfBill
<1>3. QED BY <1>1, <1>2 DEF Shares, Settled

\* A fee of the invoice's total is a natural number.
LEMMA FeeNat ==
  ASSUME TypeOK, NEW percent \in Percents
  PROVE  /\ Total(Bill) \in Nat
         /\ LedgerFee(Total(Bill), percent) \in Nat
         /\ SplitFee(Total(Bill), percent) = LedgerFee(Total(Bill), percent)
<1>1. PICK total \in Nat : total = Total(Bill) BY BillType, TotalNat
<1>2. total * percent \in Nat BY DEF Percents
<1>3. PICK n \in Nat : n = total * percent BY <1>2
<1>4. Down(n, Hundred) \in Nat BY DownNat
<1>5. QED BY <1>1, <1>3, <1>4 DEF LedgerFee, SplitFee

LEMMA WageNat ==
  ASSUME NEW rows \in SUBSET Settled
  PROVE  /\ WageOf(rows) \in Nat
         /\ \A s : rows = {s} => WageOf(rows) = s.technician
<1>1. CASE rows = {} BY <1>1 DEF WageOf
<1>2. CASE rows # {}
  <2>1. (CHOOSE s \in rows : TRUE) \in rows BY <1>2
  <2>2. WageOf(rows) = (CHOOSE s \in rows : TRUE).technician BY <1>2 DEF WageOf
  <2>3. QED BY <2>1, <2>2 DEF Settled
<1>3. QED BY <1>1, <1>2

LEMMA IdleType == Idle \in Job /\ Idle.op = "none" /\ Idle.settled = {} /\ Idle.owed = {} /\ Idle.split = {}
BY DEF Idle, Job, Ops

----------------------------------------------------------------------------
\* Steps of one request

\* A request that moves on, with everything it goes by unchanged.
LEMMA JobStep ==
  ASSUME Settling, NEW c \in Clients, NEW f \in Job, JobFits(f),
         f.settled # {} => job[c].settled # {} \/ ~Locked,
         job' = [job EXCEPT ![c] = f],
         UNCHANGED <<invoice, money, promised>>,
         policy' \in PolicyPairs, strategy' \in Strategies, fee' \in Fees, technician' \in Technicians, reviewed' \subseteq Accounts
  PROVE  Settling'
<1> USE DEF Settling, money
<1>1. TypeOK' BY DEF TypeOK
<1>2. Total(Bill)' = Total(Bill) /\ \A rows : Fair(rows) => Fair(rows)' BY SameBill
<1>7. /\ Kept' /\ SettledFits' /\ OwedFits' /\ SplitsFit'
  BY <1>2 DEF Kept, SettledFits, OwedFits, SplitsFit, Closed, Fits, Charged
<1>3. job \in [Clients -> Job] BY DEF TypeOK
<1>4. AllFit'
  <2>1. SUFFICES ASSUME NEW d \in Clients PROVE JobFits(job[d])' BY DEF AllFit
  <2>2. PICK j : j = job'[d] /\ JobFits(j)
    <3>1. CASE d = c BY <3>1, <1>3
    <3>2. CASE d # c BY <3>2, <1>3 DEF AllFit
    <3>3. QED BY <3>1, <3>2
  <2>3. QED
    BY <1>2, <2>2 DEF JobFits, Closed, Fits, Charged
<1>5. OneSettles'
  BY <1>3 DEF OneSettles, Locked
<1>6. QED BY <1>1, <1>7, <1>4, <1>5

\* An invoice that is not closed and not locked has no money on it or on its way.
LEMMA NothingYet ==
  ASSUME Settling, ~Locked, ~Closed
  PROVE  /\ settled = {} /\ owed = {}
         /\ \A p \in Payments : split[p] = {}
         /\ \A c \in Clients : /\ job[c].settled = {} /\ job[c].owed = {} /\ job[c].split = {}
                               /\ job[c].op \notin {"settle", "charged", "route", "done"}
<1>1. settled = {} /\ owed = {} BY DEF Settling, SettledFits, OwedFits, Closed
<1>2. \A p \in Payments : split[p] = {} BY DEF Settling, SplitsFit
<1>3. ASSUME NEW c \in Clients
      PROVE /\ job[c].settled = {} /\ job[c].owed = {} /\ job[c].split = {}
            /\ job[c].op \notin {"settle", "charged", "route", "done"}
  BY DEF Settling, AllFit, JobFits, Locked
<1>4. QED BY <1>1, <1>2, <1>3

\* So it may become any other.
LEMMA OpenStep ==
  ASSUME Settling, ~Locked, ~Closed, invoice' \in Row, promised' \in [Categories -> Percents], Kept',
         UNCHANGED <<company, technician, money, job, reviewed>>
  PROVE  Settling'
<1> USE DEF money, company
<1>1. TypeOK' BY DEF Settling, TypeOK
<1>2. settled' = {} /\ owed' = {} /\ \A p \in Payments : split'[p] = {}
  BY NothingYet
<1>3. SettledFits' /\ OwedFits' /\ SplitsFit'
  BY <1>2 DEF SettledFits, OwedFits, SplitsFit
<1>4. OneSettles' BY DEF Settling, OneSettles
<1>5. AllFit'
  <2>1. SUFFICES ASSUME NEW c \in Clients PROVE JobFits(job[c])' BY DEF AllFit
  <2>2. PICK j : /\ j = job[c] /\ j.settled = {} /\ j.owed = {} /\ j.split = {}
                 /\ j.op \notin {"settle", "charged", "route", "done"}
    BY NothingYet
  <2>3. QED BY <2>2 DEF JobFits
<1>6. QED BY <1>1, <1>3, <1>4, <1>5 DEF Settling
----------------------------------------------------------------------------
\* The invoice

LEMMA BillRow ==
  ASSUME NEW bill \in Bills
  PROVE  Drafted(bill) \in Row /\ Drafted(bill).status = "DRAFT" /\ Drafted(bill).percents = Zero
<1>1. /\ bill.totals \in [Categories -> Nat] /\ bill.tax \in Nat /\ bill.extra \in Nat
  OBVIOUS
<1>2. Zero \in [Categories -> Percents] BY DEF Zero, Percents
<1>3. QED BY <1>1, <1>2 DEF Drafted, Row, Status

LEMMA InvoiceStep ==
  ASSUME Settling, EditDraft \/ Issue \/ ApplyCampaign \/ Cancel
  PROVE  Settling'
<1>1. ~Locked /\ ~Closed /\ UNCHANGED <<company, technician, money, job, reviewed>>
  BY DEF EditDraft, Issue, ApplyCampaign, Cancel, Closed
<1>2. invoice \in Row /\ promised \in [Categories -> Percents] /\ Kept
  BY DEF Settling, TypeOK
<1>3. /\ invoice' \in Row /\ promised' \in [Categories -> Percents] /\ Kept'
  <2>1. CASE EditDraft
    BY <1>2, <2>1, BillRow DEF EditDraft, Kept
  <2>2. CASE Issue
    <3>1. technician.percents \in [Categories -> Percents] BY DEF Settling, TypeOK, Technicians
    <3>2. Snapshotted = technician.percents BY <1>2, <2>2 DEF Issue, Kept, Snapshotted
    <3>3. invoice' = [invoice EXCEPT !.status = "ISSUED", !.percents = technician.percents]
          /\ promised' = technician.percents
      BY <2>2, <3>2 DEF Issue
    <3>4. QED BY <1>2, <3>1, <3>3 DEF Row, Status, Kept
  <2>3. CASE ApplyCampaign
    <3>1. PICK amount \in Nat : invoice' = [invoice EXCEPT !.campaign = amount]
      BY <2>3 DEF ApplyCampaign
    <3>2. QED BY <1>2, <2>3, <3>1 DEF Row, Kept, ApplyCampaign
  <2>4. CASE Cancel
    <3>1. invoice' = [invoice EXCEPT !.status = "CANCELLED"] /\ promised' = promised
      BY <2>4 DEF Cancel
    <3>2. QED BY <1>2, <3>1 DEF Row, Status, Kept
  <2>5. QED BY <2>1, <2>2, <2>3, <2>4
<1>4. QED BY <1>1, <1>3, OpenStep

----------------------------------------------------------------------------
\* The technician and the policy

LEMMA ReviewStep ==
  ASSUME Settling, NEW c \in Clients, Review(c) \/ Crash(c)
  PROVE  Settling'
<1> USE DEF Settling
<1>1. technician \in Technicians /\ reviewed \subseteq Accounts /\ job[c] \in Job
      /\ policy \in PolicyPairs /\ strategy \in Strategies /\ fee \in Fees
  BY DEF TypeOK
<1>2. UNCHANGED <<company, invoice, money, promised>>
  BY DEF Review, Crash, BeginEdit, SaveEdit, BeginReview, Approve, Reject, SetMerchant
<1>3. technician' \in Technicians /\ reviewed' \subseteq Accounts
  <2>1. CASE UNCHANGED <<technician, reviewed>> BY <1>1, <2>1
  <2>2. CASE SaveEdit(c)
    <3>1. PICK rates \in [Categories -> Percents], account \in Accounts : technician' = Edited(c, rates, account)
      BY <2>2 DEF SaveEdit
    <3>2. job[c].verified \in BOOLEAN BY <1>1 DEF Job
    <3>3. Edited(c, rates, account) \in Technicians
      <4>1. PICK verified \in BOOLEAN :
              Edited(c, rates, account) = [technician EXCEPT !.percents = rates, !.account = account,
                                                             !.verified = verified]
        BY <3>2 DEF Edited
      <4>2. QED BY <1>1, <4>1 DEF Technicians
    <3>4. reviewed' = reviewed BY <2>2 DEF SaveEdit
    <3>5. QED BY <1>1, <3>1, <3>3, <3>4
  <2>3. CASE Approve(c)
    <3>1. technician.merchant \in BOOLEAN /\ job[c].account \in Accounts BY <1>1 DEF Technicians, Job
    <3>2. PICK merchant \in BOOLEAN :
            technician' = [technician EXCEPT !.verified = TRUE, !.merchant = merchant]
      BY <2>3, <3>1 DEF Approve
    <3>3. reviewed' = reviewed \cup {job[c].account} BY <2>3 DEF Approve
    <3>4. QED BY <1>1, <3>1, <3>2, <3>3 DEF Technicians
  <2>4. CASE Reject(c) BY <1>1, <2>4 DEF Reject, Technicians
  <2>5. CASE SetMerchant(c) BY <1>1, <2>5 DEF SetMerchant, Technicians
  <2>6. QED
    BY <2>1, <2>2, <2>3, <2>4, <2>5 DEF Review, Crash, BeginEdit, BeginReview
<1>4. PICK f \in Job : /\ job' = [job EXCEPT ![c] = f]
                       /\ f.op \in {"none", "edit", "review"}
                       /\ f.settled = {} /\ f.owed = {} /\ f.split = {}
  <2>1. CASE BeginEdit(c)
    <3>1. PICK f : f = [Idle EXCEPT !.op = "edit", !.account = technician.account,
                                    !.verified = technician.verified]
      OBVIOUS
    <3>2. f \in Job /\ f.op = "edit" /\ f.settled = {} /\ f.owed = {} /\ f.split = {}
      BY <1>1, <3>1, IdleType DEF Job, Ops, Technicians
    <3>3. job' = [job EXCEPT ![c] = f] BY <2>1, <3>1 DEF BeginEdit, Begin
    <3>4. QED BY <3>2, <3>3
  <2>2. CASE BeginReview(c)
    <3>1. PICK f : f = [Idle EXCEPT !.op = "review", !.account = technician.account]
      OBVIOUS
    <3>2. f \in Job /\ f.op = "review" /\ f.settled = {} /\ f.owed = {} /\ f.split = {}
      BY <1>1, <3>1, IdleType DEF Job, Ops, Technicians
    <3>3. job' = [job EXCEPT ![c] = f] BY <2>2, <3>1 DEF BeginReview, Begin
    <3>4. QED BY <3>2, <3>3
  <2>3. CASE Done(c) BY <2>3, IdleType DEF Done
  <2>4. QED BY <2>1, <2>2, <2>3 DEF Review, Crash, SaveEdit, Approve, Reject, SetMerchant
<1>5. JobFits(f) BY <1>4 DEF JobFits
<1>6. QED BY <1>1, <1>2, <1>3, <1>4, <1>5, JobStep DEF company

LEMMA PolicyStep ==
  ASSUME Settling, SetStrategy \/ SetFee \/ SetPolicy
  PROVE  Settling'
<1> USE DEF Settling, money
<1>1. TypeOK' BY DEF TypeOK, SetStrategy, SetFee, SetPolicy
<1>2. UNCHANGED <<invoice, money, job, promised>> BY DEF SetStrategy, SetFee, SetPolicy
<1>7. Total(Bill)' = Total(Bill) /\ \A rows : Fair(rows) => Fair(rows)' BY <1>2, SameBill
<1>3. Kept' /\ OneSettles' /\ SettledFits' BY <1>2, <1>7 DEF Kept, OneSettles, SettledFits
<1>4. OwedFits' /\ SplitsFit' BY <1>2, <1>7 DEF OwedFits, SplitsFit, Closed, Fits, Charged
<1>5. AllFit' BY <1>2, <1>7 DEF AllFit, JobFits, Closed, Fits, Charged
<1>6. QED BY <1>1, <1>3, <1>4, <1>5

LEMMA BackfillStep ==
  ASSUME Settling, Backfill
  PROVE  Settling'
<1> USE DEF Settling, money
<1>1. fee \in Percents BY DEF TypeOK
<1>2. PICK e \in Entry : owed' = {e} /\ e.percent = fee /\ e.amount = LedgerFee(Total(Bill), fee)
  <2>1. PICK amount \in Nat : amount = LedgerFee(Total(Bill), fee) BY <1>1, FeeNat
  <2>2. [amount |-> amount, percent |-> fee] \in Entry BY <1>1 DEF Entry
  <2>3. QED BY <2>1, <2>2 DEF Backfill
<1>3. UNCHANGED <<company, technician, invoice, settled, credit, split, paid, job, promised, reviewed>>
      /\ invoice.status = "PAID"
  BY DEF Backfill
<1>4. TypeOK' BY <1>2, <1>3 DEF TypeOK, company
<1>10. Total(Bill)' = Total(Bill) /\ \A rows : Fair(rows) => Fair(rows)' BY <1>3, SameBill
<1>5. OwedFits' BY <1>2, <1>3, <1>10 DEF OwedFits, Charged
<1>6. Kept' /\ OneSettles' /\ SettledFits' BY <1>3, <1>10 DEF Kept, OneSettles, SettledFits
<1>7. SplitsFit' BY <1>3, <1>10 DEF SplitsFit, Closed, Fits, Charged
<1>8. AllFit' BY <1>3, <1>10 DEF AllFit, JobFits, Closed, Fits, Charged
<1>9. QED BY <1>4, <1>5, <1>6, <1>7, <1>8
----------------------------------------------------------------------------
\* The transaction of a payment

LEMMA SettleStep ==
  ASSUME Settling, NEW c \in Clients, NEW by \in SUBSET Payments, Settle(c, by)
  PROVE  Settling'
<1>1. invoice \in Row /\ policy \in PolicyPairs /\ strategy \in Strategies /\ fee \in Fees /\ technician \in Technicians
      /\ reviewed \subseteq Accounts
  BY DEF Settling, TypeOK
<1>2. ~Locked /\ invoice.status = "ISSUED" BY DEF Settle
<1>10. policy \in DiscountPolicies BY DEF Settling, TypeOK
<1>3. Shares(invoice.percents, policy) \in Settled BY <1>1, <1>10, SharesType DEF Settling, Row
<1>4. PICK f : f = [Idle EXCEPT !.op = "settle", !.payment = by,
                                !.settled = {Shares(invoice.percents, policy)}]
  OBVIOUS
<1>5. /\ f \in Job /\ f.op = "settle" /\ f.settled = {Shares(invoice.percents, policy)}
      /\ f.owed = {} /\ f.split = {}
  BY <1>3, <1>4, IdleType DEF Job, Ops
<1>6. job' = [job EXCEPT ![c] = f] BY <1>4 DEF Settle, Begin, Shares, Frozen, Bill
<1>7. JobFits(f) BY <1>2, <1>5, <1>10 DEF JobFits, Fair
<1>8. UNCHANGED <<company, technician, invoice, money, promised, reviewed>> BY DEF Settle
<1>9. QED BY <1>1, <1>2, <1>5, <1>6, <1>7, <1>8, JobStep DEF company

LEMMA ChargeStep ==
  ASSUME Settling, NEW c \in Clients, Charge(c) \/ ChargeFails(c)
  PROVE  Settling'
<1>1. strategy \in Strategies /\ fee \in Fees /\ technician \in Technicians /\ reviewed \subseteq Accounts
      /\ policy \in PolicyPairs /\ job[c] \in Job /\ job \in [Clients -> Job] /\ fee \in Percents
  BY DEF Settling, TypeOK
<1>2. job[c].op = "settle" /\ JobFits(job[c]) BY DEF Charge, ChargeFails, Settling, AllFit
<1>3. PICK rows \in SUBSET Entry :
        /\ job' = [job EXCEPT ![c] = [job[c] EXCEPT !.op = "charged", !.owed = rows]]
        /\ \A e \in rows : Charged(e)
  <2>1. CASE Charge(c)
    <3>1. PICK amount \in Nat : amount = LedgerFee(Total(Bill), fee) BY <1>1, FeeNat DEF Settling
    <3>2. PICK e \in Entry : e = [amount |-> amount, percent |-> fee] BY <1>1 DEF Entry
    <3>3. Charged(e) BY <3>1, <3>2 DEF Charged
    <3>4. PICK rows \in SUBSET Entry : rows = (IF amount > 0 THEN {e} ELSE {})
      OBVIOUS
    <3>5. job' = [job EXCEPT ![c] = [job[c] EXCEPT !.op = "charged", !.owed = rows]]
      BY <1>1, <2>1, <3>1, <3>2, <3>4 DEF Charge
    <3>6. QED BY <3>3, <3>4, <3>5
  <2>2. CASE ChargeFails(c)
    <3>1. PICK rows \in SUBSET Entry : rows = job[c].owed BY <1>1 DEF Job
    <3>2. \A e \in rows : Charged(e) BY <1>2, <3>1 DEF JobFits
    <3>3. job' = [job EXCEPT ![c] = [job[c] EXCEPT !.op = "charged", !.owed = rows]]
      BY <1>1, <2>2, <3>1 DEF ChargeFails, Job
    <3>4. QED BY <3>2, <3>3
  <2>3. QED BY <2>1, <2>2
<1>4. PICK f : f = [job[c] EXCEPT !.op = "charged", !.owed = rows] OBVIOUS
<1>5. /\ f \in Job /\ f.op = "charged" /\ f.settled = job[c].settled /\ f.owed = rows
      /\ f.split = job[c].split
  BY <1>1, <1>4 DEF Job, Ops
<1>6. JobFits(f)
  BY <1>2, <1>3, <1>5 DEF JobFits
<1>7. job[c].settled # {} BY <1>2 DEF JobFits
<1>8. UNCHANGED <<company, technician, invoice, money, promised, reviewed>> BY DEF Charge, ChargeFails
<1>9. QED BY <1>1, <1>3, <1>4, <1>5, <1>6, <1>7, <1>8, JobStep DEF company

LEMMA ReceiveStep ==
  ASSUME Settling, NEW c \in Clients, NEW p \in Payments, ReceiveOnly(c, p)
  PROVE  Settling'
<1>1. strategy \in Strategies /\ fee \in Fees /\ technician \in Technicians /\ reviewed \subseteq Accounts
      /\ policy \in PolicyPairs
  BY DEF Settling, TypeOK
<1>2. PICK f : f = [Idle EXCEPT !.op = "route", !.payment = {p}] OBVIOUS
<1>3. f \in Job /\ f.op = "route" /\ f.settled = {} /\ f.owed = {} /\ f.split = {}
  BY <1>2, IdleType DEF Job, Ops
<1>4. job' = [job EXCEPT ![c] = f] BY <1>2 DEF ReceiveOnly, Begin
<1>5. JobFits(f) BY <1>3 DEF JobFits, ReceiveOnly, Closed
<1>6. UNCHANGED <<company, technician, invoice, money, promised, reviewed>> BY DEF ReceiveOnly
<1>7. QED BY <1>1, <1>3, <1>4, <1>5, <1>6, JobStep DEF company

\* A snapshot is typed, and goes by the total and the wage it was given.
LEMMA RoutedFits ==
  ASSUME TypeOK, NEW wage \in Nat
  PROVE  LET r == Routed(wage)
             s == [percent |-> fee, fee |-> r.fee, direct |-> r.direct,
                   ledger |-> r.ledger, deposit |-> r.deposit]
         IN  s \in Snapshot /\ Fits(s, wage)
<1>1. fee \in Percents BY DEF TypeOK
<1>2. PICK total \in Nat, charge \in Nat : total = Total(Bill) /\ charge = SplitFee(Total(Bill), fee)
  BY <1>1, FeeNat
<1>3. PICK direct \in Nat, ledger \in Nat :
        /\ direct = (IF Direct(wage) THEN wage ELSE 0)
        /\ ledger = (IF Direct(wage) THEN 0 ELSE wage)
  OBVIOUS
<1>4. PICK both \in Nat : both = charge + direct OBVIOUS
<1>5. PICK deposit \in Nat : deposit = Floored(total, both) BY FlooredNat
<1>6. Routed(wage) = [fee |-> charge, direct |-> direct, ledger |-> ledger, deposit |-> deposit]
  BY <1>2, <1>3, <1>4, <1>5 DEF Routed, Split
<1>7. PICK s : s = [percent |-> fee, fee |-> charge, direct |-> direct, ledger |-> ledger,
                    deposit |-> deposit]
  OBVIOUS
<1>8. s \in Snapshot BY <1>1, <1>7 DEF Snapshot
<1>9. Fits(s, wage)
  <2>1. s.direct + s.ledger = wage BY <1>3, <1>7
  <2>2. s.deposit = Floored(Total(Bill), s.fee + s.direct) BY <1>2, <1>4, <1>5, <1>7
  <2>3. s.fee = SplitFee(Total(Bill), s.percent) BY <1>2, <1>7
  <2>4. QED BY <2>1, <2>2, <2>3 DEF Fits
<1>10. QED BY <1>6, <1>7, <1>8, <1>9

LEMMA RouteFailsStep ==
  ASSUME Settling, NEW c \in Clients, RouteFails(c)
  PROVE  Settling'
<1>1. strategy \in Strategies /\ fee \in Fees /\ technician \in Technicians /\ reviewed \subseteq Accounts
      /\ policy \in PolicyPairs /\ job[c] \in Job /\ job \in [Clients -> Job]
  BY DEF Settling, TypeOK
<1>2. job[c].op \in {"charged", "route"} /\ JobFits(job[c]) BY DEF RouteFails, Settling, AllFit
<1>3. PICK f : f = [job[c] EXCEPT !.op = "done"] OBVIOUS
<1>4. /\ f \in Job /\ f.op = "done" /\ f.settled = job[c].settled /\ f.owed = job[c].owed
      /\ f.split = job[c].split
  BY <1>1, <1>3 DEF Job, Ops
<1>5. job' = [job EXCEPT ![c] = f] BY <1>1, <1>3 DEF RouteFails
<1>6. JobFits(f) BY <1>2, <1>4 DEF JobFits
<1>7. UNCHANGED <<company, technician, invoice, money, promised, reviewed>> BY DEF RouteFails
<1>8. QED BY <1>1, <1>4, <1>5, <1>6, <1>7, JobStep DEF company

LEMMA RouteStep ==
  ASSUME Settling, NEW c \in Clients, Route(c)
  PROVE  Settling'
<1>1. strategy \in Strategies /\ fee \in Fees /\ technician \in Technicians /\ reviewed \subseteq Accounts
      /\ policy \in PolicyPairs /\ job[c] \in Job /\ job \in [Clients -> Job] /\ settled \subseteq Settled
  BY DEF Settling, TypeOK
<1>2. job[c].op \in {"charged", "route"} /\ JobFits(job[c]) BY DEF Route, Settling, AllFit
<1>3. PICK wage \in Nat : wage = WageOf(settled \cup job[c].settled)
  <2>1. settled \cup job[c].settled \in SUBSET Settled BY <1>1 DEF Job
  <2>2. QED BY <2>1, WageNat
<1>4. PICK s \in Snapshot :
        /\ Fits(s, wage)
        /\ job' = [job EXCEPT ![c].op = "done", ![c].split = {s}]
  <2>1. PICK s : s = [percent |-> fee, fee |-> Routed(wage).fee, direct |-> Routed(wage).direct,
                      ledger |-> Routed(wage).ledger, deposit |-> Routed(wage).deposit]
    OBVIOUS
  <2>2. s \in Snapshot /\ Fits(s, wage) BY <2>1, RoutedFits DEF Settling
  <2>3. job' = [job EXCEPT ![c].op = "done", ![c].split = {s}] BY <1>3, <2>1 DEF Route
  <2>4. QED BY <2>2, <2>3
<1>5. PICK f : f = [job[c] EXCEPT !.op = "done", !.split = {s}] OBVIOUS
<1>6. /\ f \in Job /\ f.op = "done" /\ f.settled = job[c].settled /\ f.owed = job[c].owed
      /\ f.split = {s}
  BY <1>1, <1>5 DEF Job, Ops
<1>7. job' = [job EXCEPT ![c] = f] BY <1>1, <1>4, <1>5
<1>8. JobFits(f)
  BY <1>2, <1>3, <1>4, <1>6 DEF JobFits
<1>9. UNCHANGED <<company, technician, invoice, money, promised, reviewed>> BY DEF Route
<1>10. QED BY <1>1, <1>6, <1>7, <1>8, <1>9, JobStep DEF company
\* The end of a transaction that has settled the invoice; nothing was there before.
LEMMA CommitSettled ==
  ASSUME Settling, NEW c \in Clients, Commit(c), job[c].settled # {}
  PROVE  Settling'
<1>1. /\ job[c] \in Job /\ job \in [Clients -> Job] /\ invoice \in Row /\ JobFits(job[c])
      /\ promised \in [Categories -> Percents]
  BY DEF Settling, TypeOK, AllFit
<1>2. PICK j : j = job[c] OBVIOUS
<1>3. /\ invoice.status = "ISSUED" /\ invoice.percents = promised
      /\ Fair(j.settled) /\ settled = {} /\ owed = {}
      /\ \A p \in Payments : split[p] = {}
  BY <1>1, <1>2 DEF JobFits, Settling, Kept, SettledFits, OwedFits, SplitsFit, Closed
<1>4. /\ settled' = j.settled /\ owed' = j.owed
      /\ credit' = credit \cup ({s.technician : s \in j.settled} \ {0})
      /\ split' = [p \in Payments |-> IF p \in j.payment THEN j.split ELSE {}]
      /\ paid' = paid \cup j.payment
      /\ invoice' = [invoice EXCEPT !.status = "PAID"]
      /\ job' = [job EXCEPT ![c] = Idle]
      /\ UNCHANGED <<company, technician, promised, reviewed>>
  BY <1>2, <1>3 DEF Commit, Done
<1>5. /\ invoice' \in Row /\ invoice'.status = "PAID" /\ invoice'.percents = invoice.percents
      /\ invoice'.totals = invoice.totals /\ invoice'.tax = invoice.tax
      /\ invoice'.extra = invoice.extra /\ invoice'.campaign = invoice.campaign
  BY <1>1, <1>4 DEF Row, Status
<1>6. Total(Bill)' = Total(Bill) /\ \A rows : Fair(rows) => Fair(rows)' BY <1>5, SameBill
<1>7. TypeOK'
  <2>1. /\ j.settled \subseteq Settled /\ j.owed \subseteq Entry /\ j.split \subseteq Snapshot
        /\ j.payment \subseteq Payments
    BY <1>1, <1>2 DEF Job
  <2>2. {s.technician : s \in j.settled} \subseteq Nat BY <2>1 DEF Settled
  <2>3. credit' \subseteq Nat BY <1>4, <2>2 DEF Settling, TypeOK
  <2>4. split' \in [Payments -> SUBSET Snapshot] BY <1>4, <2>1
  <2>5. job' \in [Clients -> Job] BY <1>1, <1>4, IdleType
  <2>6. paid' \subseteq Payments BY <1>4, <2>1 DEF Settling, TypeOK
  <2>7. QED BY <1>4, <1>5, <2>1, <2>3, <2>4, <2>5, <2>6 DEF Settling, TypeOK, company
<1>8. Kept' BY <1>3, <1>4, <1>5 DEF Kept
<1>9. SettledFits' BY <1>3, <1>4, <1>5, <1>6 DEF SettledFits
<1>10. OwedFits'
  BY <1>1, <1>2, <1>4, <1>5, <1>6 DEF OwedFits, JobFits, Charged
<1>11. SplitsFit'
  <2>1. SUFFICES ASSUME NEW p \in Payments, NEW r \in split'[p]
                 PROVE  Closed' /\ Fits(r, WageOf(settled))'
    BY DEF SplitsFit
  <2>2. Closed' BY <1>5 DEF Closed
  <2>3. r \in j.split BY <1>4
  <2>4. Fits(r, WageOf(settled \cup j.settled)) BY <1>1, <1>2, <2>3 DEF JobFits
  <2>5. settled' = settled \cup j.settled BY <1>3, <1>4
  <2>6. QED BY <1>6, <2>2, <2>4, <2>5 DEF Fits
<1>12. \A d \in Clients : job'[d].settled = {}
  BY <1>1, <1>4, IdleType DEF Settling, OneSettles
<1>13. OneSettles' BY <1>12 DEF OneSettles
<1>14. AllFit'
  <2>1. SUFFICES ASSUME NEW d \in Clients PROVE JobFits(job[d])' BY DEF AllFit
  <2>2. PICK k : k = job'[d] OBVIOUS
  <2>3. k.settled = {} BY <1>12, <2>2
  <2>4. k.op \notin {"settle", "charged", "route", "done"} /\ k.owed = {} /\ k.split = {}
    <3>1. CASE d = c BY <1>1, <1>4, <2>2, <3>1, IdleType
    <3>2. CASE d # c
      <4>1. k = job[d] BY <1>1, <1>4, <2>2, <3>2
      <4>2. JobFits(k) BY <4>1 DEF Settling, AllFit
      <4>3. ~Closed BY <1>3 DEF Closed
      <4>4. QED BY <2>3, <4>2, <4>3 DEF JobFits
    <3>3. QED BY <3>1, <3>2
  <2>5. QED BY <2>2, <2>3, <2>4 DEF JobFits
<1>15. QED BY <1>7, <1>8, <1>9, <1>10, <1>11, <1>13, <1>14 DEF Settling

\* The end of one that has only received a payment.
LEMMA CommitReceived ==
  ASSUME Settling, NEW c \in Clients, Commit(c), job[c].settled = {}
  PROVE  Settling'
<1>1. job[c] \in Job /\ job \in [Clients -> Job] /\ JobFits(job[c])
  BY DEF Settling, TypeOK, AllFit
<1>2. PICK j : j = job[c] OBVIOUS
<1>3. Closed /\ j.owed = {} BY <1>1, <1>2 DEF JobFits, Commit
<1>4. /\ settled' = settled /\ owed' = owed /\ credit' = credit /\ invoice' = invoice
      /\ split' = [p \in Payments |-> IF p \in j.payment THEN j.split ELSE split[p]]
      /\ paid' = paid \cup j.payment
      /\ job' = [job EXCEPT ![c] = Idle]
      /\ UNCHANGED <<company, technician, promised, reviewed>>
  <2>1. {s.technician : s \in {}} = {} OBVIOUS
  <2>2. j.settled = {} BY <1>2
  <2>3. {s.technician : s \in j.settled} \ {0} = {} BY <2>1, <2>2
  <2>4. QED BY <1>2, <1>3, <2>2, <2>3 DEF Commit, Done
<1>5. TypeOK'
  <2>1. j.split \subseteq Snapshot /\ j.payment \subseteq Payments BY <1>1, <1>2 DEF Job
  <2>2. split' \in [Payments -> SUBSET Snapshot] BY <1>4, <2>1 DEF Settling, TypeOK
  <2>3. job' \in [Clients -> Job] BY <1>1, <1>4, IdleType
  <2>4. paid' \subseteq Payments BY <1>4, <2>1 DEF Settling, TypeOK
  <2>5. QED BY <1>4, <2>2, <2>3, <2>4 DEF Settling, TypeOK, company
<1>6. Total(Bill)' = Total(Bill) /\ \A rows : Fair(rows) => Fair(rows)' BY <1>4, SameBill
<1>7. Kept' /\ SettledFits' /\ OwedFits'
  BY <1>4, <1>6 DEF Settling, Kept, SettledFits, OwedFits, Charged
<1>8. SplitsFit'
  <2>1. SUFFICES ASSUME NEW p \in Payments, NEW r \in split'[p]
                 PROVE  Closed' /\ Fits(r, WageOf(settled))'
    BY DEF SplitsFit
  <2>2. Closed' BY <1>3, <1>4 DEF Closed
  <2>3. Fits(r, WageOf(settled))
    <3>1. CASE p \in j.payment
      <4>1. r \in j.split BY <1>4, <3>1
      <4>2. settled \cup j.settled = settled BY <1>2
      <4>3. QED BY <1>1, <1>2, <4>1, <4>2 DEF JobFits
    <3>2. CASE p \notin j.payment BY <1>4, <3>2 DEF Settling, SplitsFit
    <3>3. QED BY <3>1, <3>2
  <2>4. QED BY <1>4, <1>6, <2>2, <2>3 DEF Fits
<1>9. OneSettles' BY <1>1, <1>4, IdleType DEF Settling, OneSettles
<1>10. AllFit'
  <2>1. SUFFICES ASSUME NEW d \in Clients PROVE JobFits(job[d])' BY DEF AllFit
  <2>2. PICK k : k = job'[d] /\ JobFits(k)
    <3>1. CASE d = c
      <4>1. job'[d] = Idle BY <1>1, <1>4, <3>1
      <4>2. JobFits(Idle) BY IdleType DEF JobFits
      <4>3. QED BY <4>1, <4>2
    <3>2. CASE d # c BY <1>1, <1>4, <3>2 DEF Settling, AllFit
    <3>3. QED BY <3>1, <3>2
  <2>3. QED BY <1>4, <1>6, <2>2 DEF JobFits, Closed, Fits, Charged
<1>11. QED BY <1>5, <1>7, <1>8, <1>9, <1>10 DEF Settling

----------------------------------------------------------------------------
\* The invariant

LEMMA SettlingHolds == Spec => []Settling
<1>1. Init => Settling
  <2>1. SUFFICES ASSUME Init PROVE Settling OBVIOUS
  <2>2. Zero \in [Categories -> Percents] BY DEF Zero, Percents
  <2>3. invoice \in Row /\ invoice.status = "DRAFT" /\ invoice.percents = Zero
    BY <2>1, BillRow DEF Init
  <2>4. technician \in Technicians BY <2>1 DEF Init, Technicians
  <2>5. \A c \in Clients : job[c] = Idle BY <2>1 DEF Init
  <2>6. TypeOK BY <2>1, <2>2, <2>3, <2>4, IdleType DEF Init, TypeOK, Strategies
  <2>7. AllFit /\ OneSettles BY <2>5, IdleType DEF AllFit, OneSettles, JobFits
  <2>8. Kept /\ SettledFits /\ OwedFits /\ SplitsFit
    BY <2>1, <2>3 DEF Init, Kept, SettledFits, OwedFits, SplitsFit
  <2>9. QED BY <2>6, <2>7, <2>8 DEF Settling
<1>2. Settling /\ [Next]_vars => Settling'
  <2>1. SUFFICES ASSUME Settling, [Next]_vars PROVE Settling' OBVIOUS
  <2>2. CASE EditDraft \/ Issue \/ ApplyCampaign \/ Cancel BY <2>1, <2>2, InvoiceStep
  <2>3. CASE SetStrategy \/ SetFee \/ SetPolicy BY <2>1, <2>3, PolicyStep
  <2>4. CASE Backfill BY <2>1, <2>4, BackfillStep
  <2>5. ASSUME NEW c \in Clients, Pay(c) PROVE Settling'
    <3>1. CASE \E by \in {{}} \cup {{p} : p \in Payments} : Settle(c, by)
      <4>1. {{}} \cup {{p} : p \in Payments} \subseteq SUBSET Payments OBVIOUS
      <4>2. PICK by \in SUBSET Payments : Settle(c, by) BY <3>1, <4>1
      <4>3. QED BY <2>1, <4>2, SettleStep
    <3>2. CASE \E p \in Payments : ReceiveOnly(c, p) BY <2>1, <3>2, ReceiveStep
    <3>3. CASE Charge(c) \/ ChargeFails(c) BY <2>1, <3>3, ChargeStep
    <3>4. CASE Route(c) \/ RouteFails(c) BY <2>1, <3>4, RouteStep, RouteFailsStep
    <3>5. CASE Commit(c) BY <2>1, <3>5, CommitSettled, CommitReceived
    <3>6. QED BY <2>5, <3>1, <3>2, <3>3, <3>4, <3>5 DEF Pay
  <2>6. ASSUME NEW c \in Clients, Review(c) \/ Crash(c) PROVE Settling' BY <2>1, <2>6, ReviewStep
  <2>7. CASE UNCHANGED vars
    <3>1. Total(Bill)' = Total(Bill) /\ \A rows : Fair(rows) => Fair(rows)'
      BY <2>7, SameBill DEF vars
    <3>2. QED
      BY <2>1, <2>7, <3>1
         DEF Settling, TypeOK, Kept, AllFit, JobFits, OneSettles, SettledFits, OwedFits, SplitsFit,
             Closed, Fits, Charged, vars, company, money
  <2>8. QED BY <2>1, <2>2, <2>3, <2>4, <2>5, <2>6, <2>7 DEF Next
<1>3. QED BY <1>1, <1>2, PTL DEF Spec

\* The rows of the settlement, the fees and the snapshots have the types of their models.
THEOREM SettlementTypeCorrect == Spec => []TypeOK
<1>1. Settling => TypeOK BY DEF Settling
<1>2. QED BY <1>1, SettlingHolds, PTL

\* The technician is settled by the percents of the moment of issue, under the
\* discount policies of the moment of the settlement, which it writes down; and every
\* preview of the issued invoice goes by those percents too
\* (snapshot_wage_percentages_on_invoice, InvoiceSettlementService.settle,
\* InvoiceFinancialPreviewService.compute).
THEOREM SettledAsIssuedAlways == Spec => []SettledAsIssued
<1>1. Settling => SettledAsIssued
  <2>1. SUFFICES ASSUME Settling PROVE SettledAsIssued OBVIOUS
  <2>2. \A s \in settled : s.technician = TechnicianShare(BillUnder(s.policy), promised)
    BY <2>1 DEF Settling, SettledFits, Kept, Fair, Shares
  <2>3. invoice.status = "ISSUED" => Live = promised BY <2>1 DEF Settling, Kept, Live
  <2>4. QED BY <2>2, <2>3 DEF SettledAsIssued
<1>2. QED BY <1>1, SettlingHolds, PTL

\* The settled shares never exceed the rows, and with the tax are together what the
\* customer pays unless one side bears more of a discount than its share, for any
\* amounts, percents and policies (_calculate_policy_aware_wage,
\* _run_settlement_calculation).
THEOREM SharesAddUpAlways == Spec => []SharesAddUp
<1>1. Settling => SharesAddUp
  <2>1. SUFFICES ASSUME Settling PROVE SharesAddUp OBVIOUS
  <2>2. SUFFICES ASSUME NEW s \in settled, NEW bill, bill = BillUnder(s.policy)
                 PROVE  /\ s.technician + s.company <= Sum3(invoice.totals)
                        /\ /\ TechnicianAbsorbed(bill, promised) <= Gross(invoice.totals, promised)
                           /\ CompanyAbsorbed(bill, promised) <= CompanyGross(invoice.totals, promised)
                           => s.technician + s.company + invoice.tax = Total(bill)
    BY DEF SharesAddUp
  <2>3. PICK p \in DiscountPolicies : s = Shares(promised, p) /\ s.policy = p
    BY <2>1, <2>2 DEF Settling, SettledFits, Kept, Fair, Shares
  <2>4. bill \in FullBill BY <2>1, <2>2, <2>3, BillType DEF Settling
  <2>5. promised \in [Categories -> Percents] BY <2>1 DEF Settling, TypeOK
  <2>6. bill.totals = invoice.totals /\ bill.tax = invoice.tax BY <2>2 DEF BillUnder
  <2>7. s.technician = TechnicianShare(bill, promised) /\ s.company = CompanyShare(bill, promised)
    BY <2>2, <2>3 DEF Shares
  <2>8. QED BY <2>4, <2>5, <2>6, <2>7, SharesOfBill
<1>2. QED BY <1>1, SettlingHolds, PTL

\* A snapshot gives away the whole payment and nothing twice, and the whole wage of the
\* settlement, whichever payment settled the invoice; and it takes off the fee that the
\* platform's ledger charges at its percent (PaymentSplitDecisionService.compute,
\* PlatformFeeService.record_invoice_fee).
THEOREM SplitAddsUpAlways == Spec => []SplitAddsUp
<1>1. Settling => SplitAddsUp
  <2>1. SUFFICES ASSUME Settling, NEW p \in Payments, NEW s \in split[p]
                 PROVE  /\ s.direct + s.ledger = WageOf(settled)
                        /\ s.fee + s.direct <= Total(Bill) => s.fee + s.direct + s.deposit = Total(Bill)
                        /\ \A e \in owed : s.percent = e.percent => s.fee = e.amount
    BY DEF SplitAddsUp
  <2>2. Fits(s, WageOf(settled)) BY <2>1 DEF Settling, SplitsFit
  <2>3. s \in Snapshot BY <2>1 DEF Settling, TypeOK
  <2>4. s.percent \in Percents /\ s.fee \in Nat /\ s.direct \in Nat BY <2>3 DEF Snapshot
  <2>5. PICK total \in Nat : total = Total(Bill) BY <2>1, <2>4, FeeNat DEF Settling
  <2>6. PICK given \in Nat : given = s.fee + s.direct BY <2>4
  <2>7. given <= total => Floored(total, given) = total - given BY FlooredNat
  <2>8. s.deposit = Floored(total, given) BY <2>2, <2>5, <2>6 DEF Fits
  <2>9. \A e \in owed : s.percent = e.percent => s.fee = e.amount
    BY <2>1, <2>2, <2>4, FeeNat DEF Fits, Settling, OwedFits, Charged
  <2>10. QED BY <2>2, <2>5, <2>6, <2>7, <2>8, <2>9 DEF Fits
<1>2. QED BY <1>1, SettlingHolds, PTL
----------------------------------------------------------------------------
\* The bank account

\* What the edits and reviews in flight have read is still so, as long as they keep apart.
NotBoth == \A c, d \in Clients : ~(job[c].op = "edit" /\ job[d].op = "review")
ReadAsReviewed == \A c \in Clients : job[c].op = "edit" /\ job[c].verified => job[c].account \in reviewed
ShownIsStill == \A c \in Clients : job[c].op = "review" => job[c].account = technician.account
Reviewed == NotBoth /\ ReadAsReviewed /\ ShownIsStill /\ VerifiedAsReviewed

EditsApart == {<<"edit", "review">>, <<"review", "edit">>} \subseteq Apart

\* The step of a request that neither edits nor reviews.
LEMMA OtherStep ==
  ASSUME TypeOK, Reviewed, NEW c \in Clients, UNCHANGED <<technician, reviewed>>,
         NEW f, f.op \notin {"edit", "review"}, job' = [job EXCEPT ![c] = f]
  PROVE  Reviewed'
<1>1. job \in [Clients -> Job] BY DEF TypeOK
<1>2. \A d \in Clients : job'[d] = IF d = c THEN f ELSE job[d] BY <1>1
<1>3. QED BY <1>2 DEF Reviewed, NotBoth, ReadAsReviewed, ShownIsStill, VerifiedAsReviewed

LEMMA PayReviewed ==
  ASSUME TypeOK, Reviewed, NEW c \in Clients, Pay(c) \/ Crash(c)
  PROVE  Reviewed'
<1>1. UNCHANGED <<technician, reviewed>>
  BY DEF Pay, Crash, Settle, ReceiveOnly, Charge, ChargeFails, Route, RouteFails, Commit
<1>2. job \in [Clients -> Job] /\ job[c] \in Job BY DEF TypeOK
<1>3. PICK f : f.op \notin {"edit", "review"} /\ job' = [job EXCEPT ![c] = f]
  <2>1. CASE \E by : Settle(c, by)
    <3>1. PICK by : Settle(c, by) BY <2>1
    <3>2. PICK rows : job' = [job EXCEPT ![c] = [Idle EXCEPT !.op = "settle", !.payment = by, !.settled = rows]]
      BY <3>1 DEF Settle, Begin
    <3>3. [Idle EXCEPT !.op = "settle", !.payment = by, !.settled = rows].op = "settle" BY DEF Idle
    <3>4. QED BY <3>2, <3>3
  <2>2. CASE \E p \in Payments : ReceiveOnly(c, p)
    <3>1. PICK p \in Payments : job' = [job EXCEPT ![c] = [Idle EXCEPT !.op = "route", !.payment = {p}]]
      BY <2>2 DEF ReceiveOnly, Begin
    <3>2. [Idle EXCEPT !.op = "route", !.payment = {p}].op = "route" BY DEF Idle
    <3>3. QED BY <3>1, <3>2
  <2>3. CASE Charge(c) \/ ChargeFails(c)
    <3>1. PICK rows : job' = [job EXCEPT ![c] = [job[c] EXCEPT !.op = "charged", !.owed = rows]]
      <4>1. CASE Charge(c)
        <5>1. PICK rows : job' = [job EXCEPT ![c].op = "charged", ![c].owed = rows] BY <4>1 DEF Charge
        <5>2. QED BY <1>2, <5>1
      <4>2. CASE ChargeFails(c)
        <5>1. PICK rows : rows = job[c].owed OBVIOUS
        <5>2. job' = [job EXCEPT ![c] = [job[c] EXCEPT !.op = "charged", !.owed = rows]]
          BY <1>2, <4>2, <5>1 DEF ChargeFails, Job
        <5>3. QED BY <5>2
      <4>3. QED BY <2>3, <4>1, <4>2
    <3>2. [job[c] EXCEPT !.op = "charged", !.owed = rows].op = "charged" BY <1>2 DEF Job
    <3>3. QED BY <3>1, <3>2
  <2>4. CASE Route(c)
    <3>1. PICK rows : job' = [job EXCEPT ![c].op = "done", ![c].split = rows] BY <2>4 DEF Route
    <3>2. job' = [job EXCEPT ![c] = [job[c] EXCEPT !.op = "done", !.split = rows]] BY <1>2, <3>1
    <3>3. [job[c] EXCEPT !.op = "done", !.split = rows].op = "done" BY <1>2 DEF Job
    <3>4. QED BY <3>2, <3>3
  <2>5. CASE Done(c) BY <2>5, IdleType DEF Done
  <2>6. CASE RouteFails(c)
    <3>1. job' = [job EXCEPT ![c] = [job[c] EXCEPT !.op = "done"]] BY <1>2, <2>6 DEF RouteFails
    <3>2. [job[c] EXCEPT !.op = "done"].op = "done" BY <1>2 DEF Job
    <3>3. QED BY <3>1, <3>2
  <2>7. QED BY <2>1, <2>2, <2>3, <2>4, <2>5, <2>6 DEF Pay, Crash, Commit
<1>4. QED BY <1>1, <1>3, OtherStep

LEMMA ReviewReviewed ==
  ASSUME EditsApart, TypeOK, Reviewed, NEW c \in Clients, Review(c)
  PROVE  Reviewed'
<1> USE DEF Reviewed
<1>1. job \in [Clients -> Job] /\ job[c] \in Job /\ technician \in Technicians BY DEF TypeOK
<1>2. ASSUME Done(c) PROVE \A d \in Clients : job'[d] = IF d = c THEN Idle ELSE job[d]
  BY <1>1, <1>2 DEF Done
<1>3. CASE BeginEdit(c)
  <2>1. PICK f : f = [Idle EXCEPT !.op = "edit", !.account = technician.account,
                                  !.verified = technician.verified]
    OBVIOUS
  <2>2. f.op = "edit" /\ f.account = technician.account /\ f.verified = technician.verified
    BY <2>1 DEF Idle
  <2>3. \A d \in Clients : job'[d] = IF d = c THEN f ELSE job[d]
    BY <1>1, <1>3, <2>1 DEF BeginEdit, Begin
  <2>4. \A d \in Clients : job[d].op # "review"
    BY <1>3, <2>1, <2>2 DEF BeginEdit, Begin, MayBegin, EditsApart
  <2>5. UNCHANGED <<technician, reviewed>> BY <1>3 DEF BeginEdit
  <2>6. QED BY <2>2, <2>3, <2>4, <2>5 DEF NotBoth, ReadAsReviewed, ShownIsStill, VerifiedAsReviewed
<1>4. CASE SaveEdit(c)
  <2>1. PICK account : /\ technician'.account = account
                       /\ technician'.verified = (job[c].verified /\ account = job[c].account)
    BY <1>1, <1>4 DEF SaveEdit, Edited, Technicians
  <2>2. job[c].op = "edit" /\ Done(c) /\ reviewed' = reviewed BY <1>4 DEF SaveEdit
  <2>3. VerifiedAsReviewed' BY <2>1, <2>2 DEF ReadAsReviewed, VerifiedAsReviewed
  <2>4. \A d \in Clients : job[d].op # "review" BY <2>2 DEF NotBoth
  <2>5. QED BY <1>2, <2>2, <2>3, <2>4, IdleType DEF NotBoth, ReadAsReviewed, ShownIsStill
<1>5. CASE BeginReview(c)
  <2>1. PICK f : f = [Idle EXCEPT !.op = "review", !.account = technician.account] OBVIOUS
  <2>2. f.op = "review" /\ f.account = technician.account BY <2>1 DEF Idle
  <2>3. \A d \in Clients : job'[d] = IF d = c THEN f ELSE job[d]
    BY <1>1, <1>5, <2>1 DEF BeginReview, Begin
  <2>4. \A d \in Clients : job[d].op # "edit"
    BY <1>5, <2>1, <2>2 DEF BeginReview, Begin, MayBegin, EditsApart
  <2>5. UNCHANGED <<technician, reviewed>> BY <1>5 DEF BeginReview
  <2>6. QED BY <2>2, <2>3, <2>4, <2>5 DEF NotBoth, ReadAsReviewed, ShownIsStill, VerifiedAsReviewed
<1>6. CASE Approve(c) \/ Reject(c) \/ SetMerchant(c)
  <2>1. job[c].op = "review" /\ Done(c) BY <1>6 DEF Approve, Reject, SetMerchant
  <2>2. technician'.account = technician.account
    BY <1>1, <1>6 DEF Approve, Reject, SetMerchant, Technicians
  <2>3. \A d \in Clients : job[d].op # "edit" BY <2>1 DEF NotBoth
  <2>4. NotBoth' /\ ReadAsReviewed' /\ ShownIsStill'
    BY <1>2, <2>1, <2>2, <2>3, IdleType DEF NotBoth, ReadAsReviewed, ShownIsStill
  <2>5. VerifiedAsReviewed'
    <3>1. CASE Approve(c)
      <4>1. job[c].account = technician.account BY <2>1 DEF ShownIsStill
      <4>2. technician'.account \in reviewed' BY <2>2, <3>1, <4>1 DEF Approve
      <4>3. QED BY <4>2 DEF VerifiedAsReviewed
    <3>2. CASE Reject(c)
      <4>1. technician'.verified = FALSE BY <1>1, <3>2 DEF Reject, Technicians
      <4>2. QED BY <4>1 DEF VerifiedAsReviewed
    <3>3. CASE SetMerchant(c)
      <4>1. technician'.verified = technician.verified /\ reviewed' = reviewed
        BY <1>1, <3>3 DEF SetMerchant, Technicians
      <4>2. QED BY <2>2, <4>1 DEF VerifiedAsReviewed
    <3>4. QED BY <1>6, <3>1, <3>2, <3>3
  <2>6. QED BY <2>4, <2>5
<1>7. QED BY <1>3, <1>4, <1>5, <1>6 DEF Review

\* An account counts as verified, and may be paid directly, only if the owner's last
\* decision about this account was to approve it, as long as the office does not edit a
\* technician whose review page is open (admin_technician_edit, verification_detail,
\* PaymentSplitDecisionService.compute).
THEOREM VerifiedAsReviewedAlways ==
  ASSUME EditsApart
  PROVE  Spec => []VerifiedAsReviewed
<1>1. Init => Reviewed
  BY IdleType DEF Init, Reviewed, NotBoth, ReadAsReviewed, ShownIsStill, VerifiedAsReviewed
<1>2. TypeOK /\ Reviewed /\ [Next]_vars => Reviewed'
  <2>1. SUFFICES ASSUME TypeOK, Reviewed, [Next]_vars PROVE Reviewed' OBVIOUS
  <2>2. CASE EditDraft \/ Issue \/ ApplyCampaign \/ Cancel \/ SetStrategy \/ SetFee \/ SetPolicy \/ Backfill
    <3>1. UNCHANGED <<technician, job, reviewed>>
      BY <2>2 DEF EditDraft, Issue, ApplyCampaign, Cancel, SetStrategy, SetFee, SetPolicy, Backfill
    <3>2. QED BY <2>1, <3>1 DEF Reviewed, NotBoth, ReadAsReviewed, ShownIsStill, VerifiedAsReviewed
  <2>3. CASE UNCHANGED vars
    BY <2>1, <2>3 DEF vars, Reviewed, NotBoth, ReadAsReviewed, ShownIsStill, VerifiedAsReviewed
  <2>4. ASSUME NEW c \in Clients, Pay(c) \/ Crash(c) PROVE Reviewed' BY <2>1, <2>4, PayReviewed
  <2>5. ASSUME NEW c \in Clients, Review(c) PROVE Reviewed' BY <2>1, <2>5, ReviewReviewed
  <2>6. QED BY <2>1, <2>2, <2>3, <2>4, <2>5 DEF Next
<1>3. Reviewed => VerifiedAsReviewed BY DEF Reviewed
<1>4. QED BY <1>1, <1>2, <1>3, SettlementTypeCorrect, PTL DEF Spec

=============================================================================
