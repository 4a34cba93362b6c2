----------------------------- MODULE Settlement -----------------------------
(***************************************************************************)
(* From the issue of one invoice to the routing of its money: the frozen   *)
(* percents, the settlement, the platform's fee, the split snapshot of     *)
(* each online payment, and the review of the technician's bank account,   *)
(* which decides whether a split may pay the technician directly.          *)
(*                                                                         *)
(* A payment settles the invoice in one transaction that locks its row;    *)
(* the discount policies, which no issue freezes, and the technician are   *)
(* read when they are needed, without a lock.  Which payment may settle, and what races with it on the invoice  *)
(* itself, is the subject of InvoicePayments.                              *)
(***************************************************************************)
EXTENDS Wage, FiniteSets

CONSTANTS
  Clients,     \* requests that may be in flight
  Payments,    \* the online payments of the invoice
  Bills,       \* category totals, tax and extra discount an invoice may be drafted with
  Campaigns,   \* amounts a discount code may take off
  Rates,       \* percents of the three categories a technician may have
  Fees,        \* platform fee percents
  PolicyPairs, \* discount policies a company may have
  Accounts,    \* SHABA numbers; the blank one among them
  Blank,
  Apart        \* pairs of operations that do not overlap

\* Who bears the extra discount, and who a campaign's.
DiscountPolicies == [extra : Policies, campaign : Policies]

ASSUME SettlementAssumption ==
  /\ Bills \subseteq [totals : [Categories -> Nat], tax : Nat, extra : Nat]
  /\ Campaigns \subseteq Nat
  /\ Rates \subseteq [Categories -> Percents]
  /\ Fees \subseteq Percents
  /\ PolicyPairs \subseteq DiscountPolicies
  /\ Blank \in Accounts

VARIABLES
  policy,      \* CompanyFinancialPolicy: the discount policies
  strategy,    \* its payout_strategy
  fee,         \* its platform_fee_percent
  technician,  \* the Technician row: percents, SHABA and its verification
  invoice,     \* the Invoice row
  settled,     \* its settled_* columns, once written
  credit,      \* the wage in the technician's ledger
  owed,        \* the CompanyPlatformFeeEntry of the invoice
  split,       \* the PaymentSplitSnapshot of each payment
  paid,        \* online payments that are PAID
  job,         \* each request in flight: what it does, and what it read or wrote
  promised,    \* history: the technician's percents when the invoice was issued
  reviewed     \* history: accounts the owner approved when last deciding about them

company == <<policy, strategy, fee>>
money == <<settled, credit, owed, split, paid>>
vars == <<company, technician, invoice, money, job, promised, reviewed>>

Zero == [c \in Categories |-> 0]

Status == {"DRAFT", "ISSUED", "PAID", "CANCELLED"}
Row == [totals : [Categories -> Nat], tax : Nat, extra : Nat, campaign : Nat,
        status : Status, percents : [Categories -> Percents]]

Technicians == [percents : [Categories -> Percents], account : Accounts,
                verified : BOOLEAN, merchant : BOOLEAN]

Settled == [technician : Nat, company : Nat, policy : DiscountPolicies]
Entry == [amount : Nat, percent : Percents]
Snapshot == [percent : Percents, fee : Nat, direct : Nat, ledger : Nat, deposit : Nat]

\* account, verified: of the technician, as read; the other fields are what the
\* transaction of a payment has written and not committed.
Ops == {"none", "edit", "review", "settle", "charged", "route", "done"}
Job == [op : Ops, account : Accounts, verified : BOOLEAN, payment : SUBSET Payments,
        settled : SUBSET Settled, owed : SUBSET Entry, split : SUBSET Snapshot]
Idle == [op |-> "none", account |-> Blank, verified |-> FALSE, payment |-> {},
         settled |-> {}, owed |-> {}, split |-> {}]

Drafted(bill) == [totals |-> bill.totals, tax |-> bill.tax, extra |-> bill.extra,
                  campaign |-> 0, status |-> "DRAFT", percents |-> Zero]

Init ==
  /\ policy \in PolicyPairs
  /\ strategy = "direct_to_company"
  /\ fee \in Fees
  /\ technician \in [percents : Rates, account : Accounts, verified : {FALSE}, merchant : {FALSE}]
  /\ invoice \in {Drafted(bill) : bill \in Bills}
  /\ settled = {}
  /\ credit = {}
  /\ owed = {}
  /\ split = [p \in Payments |-> {}]
  /\ paid = {}
  /\ job = [c \in Clients |-> Idle]
  /\ promised = Zero
  /\ reviewed = {}

----------------------------------------------------------------------------
MayBegin(op) == \A c \in Clients : <<op, job[c].op>> \notin Apart

Begin(c, new) ==
  /\ job[c] = Idle
  /\ MayBegin(new.op)
  /\ job' = [job EXCEPT ![c] = new]

Done(c) == job' = [job EXCEPT ![c] = Idle]

\* The row lock of mark_paid.
Locked == \E c \in Clients : job[c].settled # {}

----------------------------------------------------------------------------
\* The invoice

\* What the rows and discounts come to under policies p.
BillUnder(p) ==
  [totals |-> invoice.totals, tax |-> invoice.tax, extra |-> invoice.extra,
   campaign |-> invoice.campaign, extraPolicy |-> p.extra, campaignPolicy |-> p.campaign]

Bill == BillUnder(policy)

\* The percents of a preview, and those of the settlement.
Live ==
  IF invoice.percents = Zero /\ invoice.status = "DRAFT" THEN technician.percents
  ELSE invoice.percents
Frozen == invoice.percents

EditDraft ==
  /\ ~Locked
  /\ invoice.status = "DRAFT"
  /\ \E bill \in Bills : invoice' = Drafted(bill)
  /\ UNCHANGED <<company, technician, money, job, promised, reviewed>>

\* What issue leaves in the snapshot columns; the order has a technician.
\* Mutant of Snapshotted: the snapshot is forgotten.
SnapshotForgotten == invoice.percents
Snapshotted == IF invoice.percents = Zero THEN technician.percents ELSE invoice.percents

Issue ==
  /\ ~Locked
  /\ invoice.status = "DRAFT"
  /\ Total(Bill) > 0
  /\ invoice' = [invoice EXCEPT !.status = "ISSUED", !.percents = Snapshotted]
  /\ promised' = technician.percents
  /\ UNCHANGED <<company, technician, money, job, reviewed>>

\* A discount code on an issued invoice.
ApplyCampaign ==
  /\ ~Locked
  /\ invoice.status = "ISSUED"
  /\ \E amount \in Campaigns : invoice' = [invoice EXCEPT !.campaign = amount]
  /\ UNCHANGED <<company, technician, money, job, promised, reviewed>>

Cancel ==
  /\ ~Locked
  /\ invoice.status \in {"DRAFT", "ISSUED"}
  /\ invoice' = [invoice EXCEPT !.status = "CANCELLED"]
  /\ UNCHANGED <<company, technician, money, job, promised, reviewed>>

----------------------------------------------------------------------------
\* The technician's percents and bank account

\* The office's form reads the row ...
BeginEdit(c) ==
  /\ Begin(c, [Idle EXCEPT !.op = "edit", !.account = technician.account,
                           !.verified = technician.verified])
  /\ UNCHANGED <<company, technician, invoice, money, promised, reviewed>>

\* ... and saves percents, account and verification together.
\* Mutant of Edited: another account keeps the verification.
EditedVerified(c, rates, account) ==
  [technician EXCEPT !.percents = rates, !.account = account, !.verified = job[c].verified]
Edited(c, rates, account) ==
  [technician EXCEPT !.percents = rates, !.account = account,
                     !.verified = job[c].verified /\ account = job[c].account]

SaveEdit(c) ==
  /\ job[c].op = "edit"
  /\ \E rates \in Rates, account \in Accounts : technician' = Edited(c, rates, account)
  /\ Done(c)
  /\ UNCHANGED <<company, invoice, money, promised, reviewed>>

\* The owner opens the page of the technician, which shows the account ...
BeginReview(c) ==
  /\ Begin(c, [Idle EXCEPT !.op = "review", !.account = technician.account])
  /\ UNCHANGED <<company, technician, invoice, money, promised, reviewed>>

\* ... and approves it, with or without a sub-merchant id, ...
Approve(c) ==
  /\ job[c].op = "review"
  /\ \E merchant \in {technician.merchant, TRUE} :
       technician' = [technician EXCEPT !.verified = TRUE, !.merchant = merchant]
  /\ reviewed' = reviewed \cup {job[c].account}
  /\ Done(c)
  /\ UNCHANGED <<company, invoice, money, promised>>

\* ... or rejects or clears it, ...
Reject(c) ==
  /\ job[c].op = "review"
  /\ technician' = [technician EXCEPT !.verified = FALSE]
  /\ reviewed' = reviewed \ {job[c].account}
  /\ Done(c)
  /\ UNCHANGED <<company, invoice, money, promised>>

\* ... or only sets the sub-merchant id, which may be blank.
SetMerchant(c) ==
  /\ job[c].op = "review"
  /\ \E merchant \in BOOLEAN : technician' = [technician EXCEPT !.merchant = merchant]
  /\ Done(c)
  /\ UNCHANGED <<company, invoice, money, promised, reviewed>>

SetStrategy ==
  /\ strategy' \in Strategies
  /\ UNCHANGED <<policy, fee, technician, invoice, money, job, promised, reviewed>>

SetFee ==
  /\ fee' \in Fees
  /\ UNCHANGED <<policy, strategy, technician, invoice, money, job, promised, reviewed>>

\* The discount policies are read anew by each settlement and preview.  No page
\* offers them: who changes them does so in the database.
SetPolicy ==
  /\ policy' \in PolicyPairs
  /\ UNCHANGED <<strategy, fee, technician, invoice, money, job, promised, reviewed>>

----------------------------------------------------------------------------
\* The transaction of a payment; by is empty for cash

\* mark_paid locks the invoice and freezes the shares ...
Settle(c, by) ==
  /\ ~Locked
  /\ invoice.status = "ISSUED"
  /\ by \cap paid = {}
  /\ Begin(c, [Idle EXCEPT !.op = "settle", !.payment = by,
                 !.settled = {[technician |-> TechnicianShare(Bill, Frozen),
                               company |-> CompanyShare(Bill, Frozen),
                               policy |-> policy]}])
  /\ UNCHANGED <<company, technician, invoice, money, promised, reviewed>>

\* ... then the fee is charged, at the percent of now; an error is logged only.
Charge(c) ==
  /\ job[c].op = "settle"
  /\ LET amount == LedgerFee(Total(Bill), fee)
     IN  job' = [job EXCEPT ![c].op = "charged",
                            ![c].owed = IF amount > 0 THEN {[amount |-> amount, percent |-> fee]}
                                        ELSE {}]
  /\ UNCHANGED <<company, technician, invoice, money, promised, reviewed>>

ChargeFails(c) ==
  /\ job[c].op = "settle"
  /\ job' = [job EXCEPT ![c].op = "charged"]
  /\ UNCHANGED <<company, technician, invoice, money, promised, reviewed>>

\* A successful callback for an invoice that is not ISSUED settles nothing.
ReceiveOnly(c, p) ==
  /\ invoice.status \in {"PAID", "CANCELLED"}
  /\ p \notin paid
  /\ \A d \in Clients : p \notin job[d].payment
  /\ Begin(c, [Idle EXCEPT !.op = "route", !.payment = {p}])
  /\ UNCHANGED <<company, technician, invoice, money, promised, reviewed>>

\* The callback takes a snapshot for its payment, whatever it settled, from the
\* policy and the technician as they are by now.
WageOf(rows) == IF rows = {} THEN 0 ELSE (CHOOSE s \in rows : TRUE).technician

Direct(wage) ==
  /\ strategy = "split_with_technician"
  /\ technician.verified
  /\ technician.merchant
  /\ wage > 0

\* Mutant of Routed: the company is left the technician's part as well.
RoutedTwice(wage) ==
  [Split(Total(Bill), SplitFee(Total(Bill), fee), wage, Direct(wage)) EXCEPT
     !.deposit = Floored(Total(Bill), SplitFee(Total(Bill), fee))]
Routed(wage) ==
  Split(Total(Bill), SplitFee(Total(Bill), fee), wage, Direct(wage))

Route(c) ==
  /\ \/ job[c].op = "charged" /\ job[c].payment # {}
     \/ job[c].op = "route"
  /\ LET r == Routed(WageOf(settled \cup job[c].settled))
     IN  job' = [job EXCEPT ![c].op = "done",
                   ![c].split = {[percent |-> fee, fee |-> r.fee, direct |-> r.direct,
                                  ledger |-> r.ledger, deposit |-> r.deposit]}]
  /\ UNCHANGED <<company, technician, invoice, money, promised, reviewed>>

\* An error on the way to the snapshot is logged, and the callback goes on without.
RouteFails(c) ==
  /\ \/ job[c].op = "charged" /\ job[c].payment # {}
     \/ job[c].op = "route"
  /\ job' = [job EXCEPT ![c].op = "done"]
  /\ UNCHANGED <<company, technician, invoice, money, promised, reviewed>>

Commit(c) ==
  /\ \/ job[c].op = "charged" /\ job[c].payment = {}
     \/ job[c].op = "done"
  /\ LET j == job[c]
     IN  /\ settled' = settled \cup j.settled
         /\ credit' = credit \cup ({s.technician : s \in j.settled} \ {0})
         /\ owed' = owed \cup j.owed
         /\ split' = [p \in Payments |-> IF p \in j.payment THEN j.split ELSE split[p]]
         /\ paid' = paid \cup j.payment
         /\ invoice' = IF j.settled = {} THEN invoice ELSE [invoice EXCEPT !.status = "PAID"]
  /\ Done(c)
  /\ UNCHANGED <<company, technician, promised, reviewed>>

\* The command that makes up for a fee that was not recorded.
Backfill ==
  /\ invoice.status = "PAID"
  /\ owed = {}
  /\ LedgerFee(Total(Bill), fee) > 0
  /\ owed' = {[amount |-> LedgerFee(Total(Bill), fee), percent |-> fee]}
  /\ UNCHANGED <<company, technician, invoice, settled, credit, split, paid, job, promised, reviewed>>

\* A request that dies leaves nothing of its transaction.
Crash(c) ==
  /\ job[c] # Idle
  /\ Done(c)
  /\ UNCHANGED <<company, technician, invoice, money, promised, reviewed>>

----------------------------------------------------------------------------
Pay(c) ==
  \/ \E by \in {{}} \cup {{p} : p \in Payments} : Settle(c, by)
  \/ \E p \in Payments : ReceiveOnly(c, p)
  \/ Charge(c) \/ ChargeFails(c) \/ Route(c) \/ RouteFails(c) \/ Commit(c)

Review(c) ==
  \/ BeginEdit(c) \/ SaveEdit(c)
  \/ BeginReview(c) \/ Approve(c) \/ Reject(c) \/ SetMerchant(c)

Next ==
  \/ EditDraft
  \/ Issue
  \/ ApplyCampaign
  \/ Cancel
  \/ SetStrategy
  \/ SetFee
  \/ SetPolicy
  \/ Backfill
  \/ \E c \in Clients : Pay(c) \/ Review(c) \/ Crash(c)

Spec == Init /\ [][Next]_vars

----------------------------------------------------------------------------
\* Properties

\* Every row has the type of its model.
TypeOK ==
  /\ policy \in PolicyPairs
  /\ strategy \in Strategies
  /\ fee \in Fees
  /\ technician \in Technicians
  /\ invoice \in Row
  /\ settled \subseteq Settled
  /\ credit \subseteq Nat
  /\ owed \subseteq Entry
  /\ split \in [Payments -> SUBSET Snapshot]
  /\ paid \subseteq Payments
  /\ job \in [Clients -> Job]
  /\ promised \in [Categories -> Percents]
  /\ reviewed \subseteq Accounts

\* The settled shares never exceed the rows, and with the tax are together what the
\* customer pays unless one side bears more of a discount than its share, under the
\* policies written down with them (_calculate_policy_aware_wage,
\* _run_settlement_calculation).
SharesAddUp ==
  \A s \in settled :
    LET bill == BillUnder(s.policy)
    IN  /\ s.technician + s.company <= Sum3(invoice.totals)
        /\ /\ TechnicianAbsorbed(bill, promised) <= Gross(invoice.totals, promised)
           /\ CompanyAbsorbed(bill, promised) <= CompanyGross(invoice.totals, promised)
           => s.technician + s.company + invoice.tax = Total(bill)

\* The technician is settled by the percents of the moment of issue, whatever the
\* office makes of them later, and every preview of the issued invoice goes by them
\* too.  The discount policies are not frozen: the settlement goes by those of its
\* own moment, which it writes down (snapshot_wage_percentages_on_invoice,
\* InvoiceSettlementService.settle, InvoiceFinancialPreviewService.compute).
SettledAsIssued ==
  /\ \A s \in settled : s.technician = TechnicianShare(BillUnder(s.policy), promised)
  /\ invoice.status = "ISSUED" =>
       TechnicianShare(Bill, Live) = TechnicianShare(Bill, promised)

\* An account counts as verified, and may be paid directly, only if the owner's
\* last decision about this account was to approve it
\* (admin_technician_edit, verification_detail, PaymentSplitDecisionService.compute).
VerifiedAsReviewed == technician.verified => technician.account \in reviewed

\* A snapshot gives away the whole payment and nothing twice, unless fee and wage
\* alone exceed it, and the whole wage of the settlement, also for a payment that
\* did not settle the invoice; and it takes off the fee that the platform's ledger
\* charges at this percent, also when the ledger is filled in later
\* (PaymentSplitDecisionService.compute, PlatformFeeService.record_invoice_fee).
SplitAddsUp ==
  \A p \in Payments : \A s \in split[p] :
    /\ s.direct + s.ledger = WageOf(settled)
    /\ s.fee + s.direct <= Total(Bill) => s.fee + s.direct + s.deposit = Total(Bill)
    /\ \A e \in owed : s.percent = e.percent => s.fee = e.amount

\* The technician gets the wage of an invoice once, into the bank account or as a
\* credit: "technician_ledger_amount -> company owes technician this as internal
\* ledger credit" (services_split.py:23).
WageDueOnce ==
  \A s \in settled : \A p \in Payments : \A r \in split[p] :
    \A w \in credit : w + r.direct <= s.technician

=============================================================================
