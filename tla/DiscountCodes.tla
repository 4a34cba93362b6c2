---------------------------- MODULE DiscountCodes ----------------------------
(***************************************************************************)
(* Discount campaigns of one company: the office gives a code to a list of *)
(* phones, and the customers enter it, or a single-use code, on their      *)
(* issued invoices.                                                        *)
(*                                                                         *)
(* A code is applied in one transaction, which locks the row of the        *)
(* single-use code or of the allowed phone, and writes the invoice from a  *)
(* copy that the page has loaded before.  A campaign is inserted in one    *)
(* transaction, after a check for overlapping ones that locks nothing.     *)
(***************************************************************************)
EXTENDS Integers, Sequences, FiniteSets, FiniteSetsExt

CONSTANTS
  Clients,      \* requests that may be in flight
  Phones,       \* mobile numbers, normalised
  Invoices,     \* invoices of the company, ISSUED
  PhoneOf,      \* the phone of each invoice's customer
  Net,          \* what an invoice comes to before its discounts, with the tax
  Words,        \* codes a campaign may be given
  Singles,      \* rows of DiscountCode
  SingleOf,     \* the phone and the offer of each of them
  Offers,       \* percent and ceiling of a campaign
  Hundred,      \* the whole, of which percents are parts
  MaxCampaigns, \* bound on the campaigns created
  Apart         \* pairs of operations that do not overlap

Offer == [percent : 0 .. Hundred, max : Nat]

\* The phones of the campaigns; their rows are of another table than the single-use codes.
AllowedPhone == (1 .. MaxCampaigns) \X Phones

ASSUME DiscountAssumption ==
  /\ Hundred \in Nat \ {0}
  /\ PhoneOf \in [Invoices -> Phones]
  /\ Net \in [Invoices -> Nat]
  /\ Offers \subseteq Offer
  /\ SingleOf \in [Singles -> [phone : Phones, offer : Offers]]
  /\ MaxCampaigns \in Nat
  /\ Words \cap Singles = {}
  /\ AllowedPhone \cap Singles = {}

VARIABLES
  campaign,  \* DiscountCampaign rows with their allowed phones, oldest first
  single,    \* status of each DiscountCode, and whether its time is up
  use,       \* the used_* columns written: source, invoice, amount
  invoice,   \* status, campaign_discount_amount and total_amount of each Invoice
  task       \* each request in flight: what it does, and what it has read

discountVars == <<campaign, single, use, invoice, task>>

Campaign == [code : Words, offer : Offers, phones : SUBSET Phones, expired : BOOLEAN]
Single == [status : {"CREATED", "USED", "EXPIRED"}, expired : BOOLEAN]
Row == [status : {"ISSUED", "PAID", "CANCELLED"}, campaign : Nat, total : Nat]

\* What bears the used_* columns.
Source == AllowedPhone \cup Singles
Use == [source : Source, invoice : Invoices, amount : Nat]

NoTask == [op |-> "none"]
Task ==
  {NoTask}
  \cup [op : {"create"}, row : Campaign]
  \cup [op : {"apply"}, invoice : Invoices, code : Words \cup Singles, copy : Row,
        target : 0 .. MaxCampaigns]

DiscountInit ==
  /\ campaign = <<>>
  /\ single = [s \in Singles |-> [status |-> "CREATED", expired |-> FALSE]]
  /\ use = {}
  /\ invoice = [i \in Invoices |-> [status |-> "ISSUED", campaign |-> 0, total |-> Net[i]]]
  /\ task = [c \in Clients |-> NoTask]

Done(c) == task' = [task EXCEPT ![c] = NoTask]

----------------------------------------------------------------------------
\* Campaigns

Live(n) == ~campaign[n].expired

Used(source) == {u \in use : u.source = source}

\* The phones that live campaigns allow this code.
Taken(code) ==
  UNION {campaign[n].phones :
           n \in {n \in DOMAIN campaign : campaign[n].code = code /\ Live(n)}}

\* Every page that makes a campaign checks that no phone has the code already ...
BeginCreate(c, phones) ==
  /\ task[c] = NoTask
  /\ \A d \in Clients : task[d].op = "create" => <<"create", "create">> \notin Apart
  /\ \E code \in Words, offer \in Offers :
       /\ phones \cap Taken(code) = {}
       /\ task' = [task EXCEPT ![c] = [op |-> "create",
                    row |-> [code |-> code, offer |-> offer, phones |-> phones, expired |-> FALSE]]]
  /\ UNCHANGED <<campaign, single, use, invoice>>

\* A list of phones that the office types in.
BeginManual(c) == \E phones \in (SUBSET Phones) \ {{}} : BeginCreate(c, phones)

\* One customer, from the page about that customer.
Customers == {PhoneOf[i] : i \in Invoices}
BeginSingle(c) == \E phone \in Customers : BeginCreate(c, {phone})

\* The customers the office ticks in a segment: those with an invoice of some status and
\* of some amount at least.  The segment is computed again from the form, so a customer
\* who has left it since is not included.
Segment(status, least) ==
  {PhoneOf[i] : i \in {i \in Invoices : invoice[i].status = status /\ invoice[i].total >= least}}
BeginSegment(c) ==
  \E ticked \in (SUBSET Customers) \ {{}}, status \in {"ISSUED", "PAID", "CANCELLED"}, least \in {0, 1} :
    BeginCreate(c, ticked \cap Segment(status, least))

\* ... and inserts the campaign and its phones (create_campaign).
Create(c) ==
  /\ task[c].op = "create"
  /\ Len(campaign) < MaxCampaigns
  /\ campaign' = Append(campaign, task[c].row)
  /\ Done(c)
  /\ UNCHANGED <<single, use, invoice>>

\* The time of a campaign, or of a code, is up.
Expire ==
  \/ \E n \in DOMAIN campaign :
       /\ Live(n)
       /\ campaign' = [campaign EXCEPT ![n].expired = TRUE]
       /\ UNCHANGED single
  \/ \E s \in Singles :
       /\ ~single[s].expired
       /\ single' = [single EXCEPT ![s].expired = TRUE]
       /\ UNCHANGED campaign

TimePasses == Expire /\ UNCHANGED <<use, invoice, task>>

----------------------------------------------------------------------------
\* Codes

\* The page loads the invoice; nothing is locked yet.
BeginApply(c, i, code) ==
  /\ task[c] = NoTask
  /\ \A d \in Clients : task[d].op = "apply" /\ task[d].invoice = i =>
       <<"apply", "apply">> \notin Apart
  /\ task' = [task EXCEPT ![c] = [op |-> "apply", invoice |-> i, code |-> code,
                                copy |-> invoice[i], target |-> 0]]
  /\ UNCHANGED <<campaign, single, use, invoice>>

\* The checkout does so only for an invoice without a campaign discount.
BeginCheckout(c, i, code) ==
  /\ invoice[i].status = "ISSUED"
  /\ invoice[i].campaign = 0
  /\ BeginApply(c, i, code)

Refuse(c) ==
  /\ Done(c)
  /\ UNCHANGED <<campaign, use, invoice>>

Reduction(c, offer) ==
  Min({(task[c].copy.total * offer.percent) \div Hundred, offer.max})

\* recalculate_totals on the copy, then the row of the code; both are saved by key.
TakeOff(c, source, amount) ==
  LET i == task[c].invoice
      discount == task[c].copy.campaign + amount
  IN  /\ invoice' = [invoice EXCEPT ![i].campaign = discount,
                                    ![i].total = Max({0, Net[i] - discount})]
      /\ use' = (use \ Used(source))
                \cup {[source |-> source, invoice |-> i, amount |-> amount]}
      /\ Done(c)
      /\ UNCHANGED campaign

Issued(c) == task[c].op = "apply" /\ task[c].copy.status = "ISSUED"

NotIssued(c) ==
  /\ task[c].op = "apply"
  /\ task[c].copy.status # "ISSUED"
  /\ Refuse(c)
  /\ UNCHANGED single

\* A single-use code, with its row locked.
ApplySingle(c) ==
  /\ Issued(c)
  /\ task[c].code \in Singles
  /\ LET s == task[c].code
         amount == Reduction(c, SingleOf[s].offer)
         open == single[s].status # "USED" /\ ~single[s].expired
         fits == SingleOf[s].phone = PhoneOf[task[c].invoice] /\ amount > 0
     IN  \/ /\ open /\ fits
            /\ TakeOff(c, s, amount)
            /\ single' = [single EXCEPT ![s].status = "USED"]
         \/ /\ single[s].status = "USED" \/ (open /\ ~fits)
            /\ Refuse(c)
            /\ UNCHANGED single
         \/ /\ single[s].status # "USED" /\ single[s].expired
            /\ Refuse(c)
            /\ single' = [single EXCEPT ![s].status = "EXPIRED"]

\* Campaigns with the code that allow the phone of the invoice.
Matching(c) ==
  {n \in DOMAIN campaign : /\ campaign[n].code = task[c].code
                           /\ Live(n)
                           /\ PhoneOf[task[c].invoice] \in campaign[n].phones}

\* The code of a campaign: the newest that matches is looked up, without a lock, ...
Match(c) ==
  /\ Issued(c)
  /\ task[c].code \in Words
  /\ task[c].target = 0
  /\ \/ /\ Matching(c) # {}
        /\ task' = [task EXCEPT ![c].target = Max(Matching(c))]
        /\ UNCHANGED <<campaign, use, invoice>>
     \/ Matching(c) = {} /\ Refuse(c)
  /\ UNCHANGED single

\* ... then its row for the phone is locked and must not have been used.
\* Mutant of Unused: a row counts as used for the invoice that used it only.
UnusedHere(c, source) == \A u \in Used(source) : u.invoice # task[c].invoice
Unused(c, source) == Used(source) = {}

ApplyCampaign(c) ==
  /\ task[c].op = "apply" /\ task[c].target # 0
  /\ LET n == task[c].target
         source == <<n, PhoneOf[task[c].invoice]>>
         amount == Reduction(c, campaign[n].offer)
         good == Live(n) /\ Unused(c, source) /\ amount > 0
     IN  \/ good /\ TakeOff(c, source, amount)
         \/ ~good /\ Refuse(c)
  /\ UNCHANGED single

----------------------------------------------------------------------------
\* Payment and cancellation, seen from here.

Close ==
  /\ \E i \in Invoices, status \in {"PAID", "CANCELLED"} :
       /\ invoice[i].status = "ISSUED"
       /\ invoice' = [invoice EXCEPT ![i].status = status]
  /\ UNCHANGED <<campaign, single, use, task>>

\* A request that dies leaves nothing of its transaction.
Dies(c) ==
  /\ task[c] # NoTask
  /\ Done(c)
  /\ UNCHANGED <<campaign, single, use, invoice>>

----------------------------------------------------------------------------
DiscountNext ==
  \/ TimePasses
  \/ Close
  \/ \E c \in Clients :
       \/ BeginManual(c) \/ BeginSingle(c) \/ BeginSegment(c)
       \/ Create(c)
       \/ \E i \in Invoices, code \in Words \cup Singles :
            BeginApply(c, i, code) \/ BeginCheckout(c, i, code)
       \/ NotIssued(c)
       \/ ApplySingle(c)
       \/ Match(c)
       \/ ApplyCampaign(c)
       \/ Dies(c)

DiscountSpec == DiscountInit /\ [][DiscountNext]_discountVars

----------------------------------------------------------------------------
\* Properties

\* Every row has the type of its model.
DiscountTypeOK ==
  /\ campaign \in Seq(Campaign) /\ Len(campaign) <= MaxCampaigns
  /\ single \in [Singles -> Single]
  /\ use \subseteq Use
  /\ invoice \in [Invoices -> Row]
  /\ task \in [Clients -> Task]

\* The discount of an invoice is the sum of what the codes used for it have taken
\* off, and its total is what that leaves, so that the floor at zero is not needed: no
\* code is used up without effect and none counts twice, also when two invoices of one
\* customer compete for a code (apply_to_invoice, _apply_campaign_code,
\* recalculate_totals).
Worth(i) ==
  MapThenSumSet(LAMBDA u : u.amount, {u \in use : u.invoice = i})
DiscountAccounted ==
  \A i \in Invoices : /\ invoice[i].campaign = Worth(i)
                      /\ invoice[i].campaign + invoice[i].total = Net[i]

\* A phone has one live campaign with a code at most
\* (_discount_check_phone_code_overlap).
OneLiveCampaign ==
  \A m, n \in DOMAIN campaign :
    m # n /\ campaign[m].code = campaign[n].code /\ Live(m) /\ Live(n) =>
      campaign[m].phones \cap campaign[n].phones = {}

=============================================================================
