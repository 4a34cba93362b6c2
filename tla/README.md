# A verification project for Rasti

Rasti is a multi-tenant field-service system written in Django. Companies take
service orders, technicians carry them out, invoices are issued and paid, what
technicians earn is kept in a ledger, and customers are told by SMS. This
directory holds TLA+ models of the parts in which concurrent requests meet
shared rows, the TLC configurations that check them, and theorems checked with
TLAPS.

    tlc -workers 2 -config MCInvoicePayments.cfg MCInvoicePayments
    tlapm InvoicePayments_proofs.tla

`PROJECT.json` holds, for each definition, the source lines it models, and the
lists of components, runs, mutants, hazards and theorems.

## 1. Inventory

The code is in `src/apps/`. All state is in PostgreSQL, at its default
isolation level READ COMMITTED (`src/config/settings/base.py`), and in the
browsers' sessions. There is no `ATOMIC_REQUESTS`: a view runs in autocommit and
only what a service wraps in `transaction.atomic` is one transaction. Requests
are served by several workers. There is no task queue: management commands are
run by an operator or cron, beside the requests.

| Part | State | Operations | What makes it correct |
|---|---|---|---|
| Invoices (`invoices`) | `Invoice` row: status, totals, discount, frozen percents, `settled_*` | create, edit, issue, cancel, mark paid | settled once, by money received, for its total; DRAFT → ISSUED → PAID, or CANCELLED; paid out by the percents frozen at the issue |
| Payments (`payments`) | `Payment` rows: status, amount, gateway | checkout, start, callback, verify, expire; cash by office or technician | PAID is final; no payment is both expired and paid |
| Reconciliation, operations dashboard (`payments`) | none, it reads | audit of a report, badge, health, page | trouble with a payment is shown |
| Discount codes (`reports`) | campaigns, allowed phones, single-use codes, the discount on an invoice | create and close a campaign, apply a code | a code is used once, by its phone; the discount is what the codes used say |
| Orders (`orders`) | `Order`: status, technician; `OrderStatusLog` | create, accept, assign, edit, progress, complete, cancel, review, recycle, return | one technician; workload limit; never two live copies of a job; the log tells the truth |
| Order intake (`orders/item_services.py`, `tenants/services.py`, `public`, `api`) | `Customer`, categories, items, answers | public and office form, edit, recycle, settings, customer API | the order is its caller's; answers fit the category |
| Order offers (`orders/eligibility.py`, `selectors.py`) | none, rules | list, page, button, acceptance, telling | the copies of one rule agree |
| Technician ledger (`payouts`) | append-only entries with `balance_after` and a unique key | credit, debit, settle, backfill | each entry once; follows the payment; running balance |
| Fees, splits, wages (`payouts`, `invoices/services_wage.py`) | fee entry, split snapshot, policies | settle, charge the fee, route | every rial once |
| SMS (`sms`, `platform_core/services_sms_credit.py`) | outbox rows, wallet, transactions, recharge invoices | queue, send, retry, debit, refund, recharge | SENT means sent; the wallet is the sum of its transactions |
| SMS templates (`platform_core`, `notifications/sync.py`) | platform type, setting, template, change requests | switch, sync, ask, approve, reject, queue | only endorsed wordings are sent |
| Notifications (`notifications`) | events with a dedup key | emit, dispatch on commit, tell technicians | one message per event and person; every event is dealt with |
| Accounts (`accounts`, `tenants/views_admin.py`) | users, rights, one-time codes, sessions | ask, verify, reset, change; edit, switch, delete | the last choice stands; a code is used once; a right is what was ticked |
| Registration (`public/services.py`) | codes, companies, sessions | form, code, company; owner creates | a company for the phone that was proved |
| Merchant profile (`tenants/services_merchant_profile.py`) | profile, change requests, gateway setting | submit, decide, ask for a change, apply, switch on, pay | a gateway runs on endorsed data only |
| Platform core, billing, dashboards, reports, common | single rows, read models | screens, formatting, demo data | no protocol of their own |

How they interact. The order's completion and the technician's invoice form
create invoices, with `InvoiceDuplicateGuard` against a second one. The public
page applies discounts and starts payments, for which the merchant profile must
be approved, and the gateway calls back. The callback and the two kinds of cash
receipt end in `InvoiceMarkPaidService.mark_paid`, the one place where an
invoice is settled; it calls the ledgers, whose errors it swallows and leaves to
the backfill commands, and then the split of the payment is computed. Orders and
invoices emit events, which become SMS in a wording of the templates, which the
outbox sends for credit of the wallet. Views load a row without a lock and pass
the copy to a service. Some services lock the row and look again (`mark_paid`,
callback, expiration, acceptance, the claim of a message); most test and write
the copy. That difference is what the models are about.

The hard behaviour, line by line, is in the hazards of `PROJECT.json`: two
requests on one row, late and repeated callbacks, an operator's command beside a
customer, locks taken in opposite orders, workers that die between two commits,
errors swallowed after a part of the work, and sequences of legal requests
nobody wrote a test for.

## 2. Modules

| Module | Models | Sources |
|---|---|---|
| `InvoiceWorkflow` | what an invoice promises: its workflow and a single settlement by a payment that stays paid | docs and services of `invoices` |
| `InvoicePayments` | one invoice with its payments and discount codes, under concurrent requests | `invoices`, `payments`, `reports/discount_services.py`, the office's invoice views |
| `Reconciliation` | extends `InvoicePayments` with operators: the audit of a provider's report, badge, health, page | `payments/services_reconciliation.py`, `selectors_operations.py` |
| `DiscountCodes` | campaigns, single-use codes and their use on invoices | `reports/views.py`, `discount_services.py` |
| `OrderLifecycle` | the orders of one company, their log and the invoices made for them | `orders`, the office's order views, invoice creation |
| `OrderHistory` | `OrderLifecycle` with a history variable for the last active status | the same |
| `OrderIntake` | customers, categories, items and answers of an order | `item_services.py`, `tenants/services.py`, `api/views.py`, order forms |
| `OrderOffers` | operators: who sees, opens, may accept and is told of an order | `selectors.py`, `eligibility.py`, `services.py`, `technician_notifications.py` |
| `TechnicianLedger` | the ledger of one technician with all its writers | `payouts/services.py`, `mark_paid`, both backfill commands |
| `Wage` | operators: shares, discounts, fee, route, in whole rials | `services_wage.py`, `services_split.py`, `services_platform_fee.py` |
| `Settlement` | one invoice from issue to routing, and the review of the technician's account | the same, `views_technician_verification.py`, settings pages |
| `SmsOutbox` | both outboxes, the wallet, the recharge invoices | `sms`, `services_sms_credit.py`, `services_platform_sms.py` |
| `SmsTemplates` | the wording of one message and its switches | `views_sms_template_requests.py`, `views_tenant_comm_settings.py`, `sync.py`, provisioning |
| `Notifications` | events from a transaction to the outbox, and the telling of technicians; uses `OrderOffers` | `notifications`, `technician_notifications.py` |
| `Accounts` | users, passwords, one-time codes, the office's edits, switches and deletions | `accounts`, `tenants/views_admin.py` |
| `OperatorAccess` | extends `Accounts` with operators: which rights there are, and who gets a page | `operator_access.py`, the middlewares, `require_tenant_role` |
| `CompanyRegistration` | form, code and rows of a new company | `public/services.py`, `public/views.py`, the owner's page |
| `MerchantReview` | profile, change requests, gateway, first payment | `services_merchant_profile.py`, gateway pages |
| `Onboarding` | composes `CompanyRegistration` with `MerchantReview`: what is reviewed is a registered company's | |
| `InvoicePayments_proofs` | theorems about `InvoicePayments`, its refinement of `InvoiceWorkflow`, and `Reconciliation` | |
| `Accounts_proofs` | theorems about `Accounts` and `OperatorAccess` | |
| `OrderLifecycle_proofs`, `Settlement_proofs` | theorems about the module of that name | |
| `Office_proofs` | theorems about `SmsTemplates` and `OrderIntake` | |
| `Notifications_proofs` | theorems about `Notifications` and `OrderOffers` | |
| `Ledgers_proofs` | theorems about what is counted in money: `SmsOutbox`, `TechnicianLedger`, `DiscountCodes` | |
| `Onboarding_proofs` | theorems about `CompanyRegistration`, `MerchantReview` and their composition | |
| `MC*` | small instances | |

### The common form

A request is a slot in `req`, `job`, `form` or `visit`: the point of the handler
it has reached and what it has read so far. An action runs a handler from one
point where another request can interfere to the next one. A plain read sees
committed rows. An UPDATE, like a SELECT FOR UPDATE, waits for the row's lock and
sees the row as it is when it gets it; it writes only the columns named in
`update_fields`, or, for a bare `save()`, all columns of the copy. A
transaction's writes are visible to others at its commit, where a single action
makes them; a transaction whose locks can make others wait is several actions,
with the rows it holds recorded. Code outside a transaction commits statement by
statement, so it is one action per statement that others can notice. A handler
refused by a guard of its copy changes nothing, so it is not modelled as
starting. A worker dies by losing its slot: an open transaction is undone, what
was committed stays.

A variable commented "history" records what happened for the properties and is
read by no guard, except the counters that bound an instance. Rows are
identified by model values, or by numbers where the code orders them by id.

### InvoicePayments

`inv` is the committed `Invoice` row: status, the total of its items (`net`),
`campaign_discount_amount` (`disc`), whether `settled_at` is set, and the payment
`settled_payment_reference` names. `pay` is the Payment rows in order of
creation, `used` the codes spent, `lock` who holds each row's lock.

| Actions | Code |
|---|---|
| `BeginIssue`/`Issue`, `BeginEdit`/`Edit`, `BeginCancel`/`Cancel` | the services behind `admin_invoice_detail` and `admin_invoice_edit`; none locks the row |
| `BeginDiscount`/`PublicDiscount`, `CheckoutDiscount`, `SaveAmount` | `apply_to_invoice` from the public page and from the checkout page, which then writes the new total on the payment it had picked |
| `Refresh` | what `Issue` and `SaveAmount` read by a statement of its own before they write: the sum of the items, and `refresh_from_db` of the checkout page |
| `BeginCheckout`, `InsertCheckout`, `ShowCheckout`, `StartPayment` | `invoice_pay` and `PaymentStartService` |
| `BeginCallback`, `IgnoreCallback`, `RejectCallback`, `VerifyCallback`, `PayWithoutInvoice`, `GoToInvoice`, `SettleByCallback` | `PaymentCallbackService`, `PaymentVerifyService`, then `mark_paid` |
| `BeginExpire`, `Expire` | `expire_pending_payments`: scan, then a locked re-check per payment |
| `BeginOfficeCash`, `InsertOfficeCash`, `SettleByOffice` | the office's two cash buttons, which differ in metadata only: the payment is committed before `mark_paid` |
| `BeginTechCash`, `LockForCash`, `LockSuperseded`, `CommitTechCash` | `technician_invoice_mark_cash_paid`: one transaction, which ends by cancelling the open payments by key |
| `Deadlock` | PostgreSQL rolls one of two waiting transactions back |

Amounts are small numbers. An edit may leave any total of `Nets` on the draft, a
code takes `Discount` off, and `Total` has the floor at 0 of `recalculate_totals`.
A callback may find its payment expired, the provider may refuse, and a verified
amount may differ: `RejectCallback` is all three. `Alone` names operations that
run with nothing else in flight; it is empty in `MCInvoicePayments.cfg`.

`Reconciliation` has no actions: `Verdict` is the audit's word on one row of a
report, `AlertBadge`, `Problematic`, `OldPending` what the dashboard counts and
lists. `Book` is the payments of a moment as the audit sees them, a file is any of
`Files`, and `TroubleShows` compares the two with what they told.

### DiscountCodes

`campaign`, `single` and `use` are the rows, `invoice` the discounted invoices.
`BeginManual`, `BeginSingle`, `BeginSegment` and `Create` are the three pages that
make a campaign, `BeginApply`/`BeginCheckout` the two that take a code. `ApplySingle`
is the locked single-use code; `Match` and `ApplyCampaign` are the campaign found by
word and phone and the locked row of the allowed phone. The invoice is written
from the copy of the page.

### OrderLifecycle and OrderHistory

`order` is the Order rows (status, technician, with or without a category, the
order it replaces), `log` what the latest log entries say, `bills` the invoices
by the sequence part of their number. `Used` names the operations of an instance
and `Alone` those that run with no other request in flight.

Only an acceptance locks its order (`SelectAccept`, `SaveAccept`); a category
order is accepted by `TechnicianAcceptService` (to WAITING), a legacy one by
`OrderAcceptService` (to IN_PROGRESS), as the view's copy says. Assignment,
cancellation, progress, review, recycling and returning load a copy and write
columns with `Save` or `Replace`. The edit form is four steps (the page shown,
posted, saved, and its technician assigned after the order is read again); one that
is posted without a status saves no status column, and logs the status of its copy
all the same (`SaveBlankEdit`).
A completion updates the order, which then stays locked until its invoice is in.
The number of an invoice is the count plus one; a number taken meanwhile fails
the transaction on the unique constraint. An acceptance may be refused for
reasons the module does not keep (skill, availability, priority delay, date), so
`RefuseAccept` is always possible; `OrderOffers` has those rules.

### OrderOffers

The rule who may have an order is written four times in the code, and here:
`Listed` (the query), `Visible` and `HasButton` (page and button), `Accepts` and
`LegacyAccepts` (the two services), `Told` (notifications). `Agree` and `Stays` say
that they fit together and that waiting does not take an order away.

### OrderIntake

`BeginOrder`, `CreateCustomer`, `PlaceOrder`, `BeginSave`, `CommitSave` are the
public and office forms: customer looked up by phone, order inserted, the answers
saved in a transaction of their own, where those to another category's items are
deleted. `BeginEdit`/`UpdateOrder`, `BeginRecycle`/`Recycle`, the changes of categories
and items (`SettingUp`), and the customer API (`PutCustomer`, `DeleteCustomer`,
each a look and a write) run beside them; `Abandon` is a worker that dies. The
API's POST creates no customer: it passes a field the model does not have
(`api/views.py:307`), so there is no action for it.

### TechnicianLedger

`ledger` is the entries in order of their ids, each with its writer until that
commits. `_write_entry` is six steps, since each is a database statement of its
own: look for the key, choose the latest entry, lock it, sum credits, sum debits,
insert. A row is chosen when the statement starts and stays the same however
long it waits, which is how `ORDER BY id DESC LIMIT 1 FOR UPDATE` behaves. The
unique index lets an insertion wait for another transaction's. `mark_paid`
swallows a failure and goes on (`FailEntry`); any transaction may roll back.

### Wage and Settlement

`Wage` computes, from an invoice's category totals, percents and discounts, the
shares (`TechnicianShare`, `CompanyShare`), the platform's fee and the route of a
payment, with the rounding of the code. `Settlement` runs it: the office drafts,
issues (percents frozen by `Snapshotted`), discounts and cancels; `Settle`, `Charge`
or `ChargeFails`, `Route` or `RouteFails`, `Commit` are the paying transaction. Percents
are frozen at the issue; the discount policies are not: `Settle` reads those of its
moment and writes them down, as `Route` does with strategy and fee. `RouteFails` is
the split that is given up on an error, with which the callback goes on. `ReceiveOnly`
is a payment for an invoice paid otherwise, `Backfill` the command.
`BeginEdit`/`SaveEdit` is the technician's page, `BeginReview`, `Approve`, `Reject`,
`SetMerchant` the owner's.

### SmsOutbox

`BeginProcess` is the command, `BeginRetry` the retry pages with the copies they
loaded. For each message: `TakeUp`, `Claim` (locked), `CannotSend` or `Charge`
(locked wallet) or `ChargeNobody` (platform message), `Call`, then `SaveSent`, or
`Refund` and `MarkFailed`: each commits on its own. `BeginPay`, `SavePaid`,
`CreditWallet` are the payment of a recharge invoice, whose credit reads and
writes the wallet without a lock. `Crash` may come anywhere, and `left` keeps the
messages that were then in hand.

### SmsTemplates

`PostSetting`, `PostTemplate`, `Toggle`, `LookAtSetting`, `Agree` are the pages with
switches, `BeginSync` ... `AlignSetting` the sync command, `Provision` the provisioning,
`Submit`, `BeginApprove`, `WriteOverride`, `SaveApproval`, `Reject` the change
requests. A message that is queued looks at the switches of platform and company
(`BeginQueue`, `Wanted`), finds its text (`Resolve`, `TakeOverride`, `TakeMaster`), looks at
both switches again and is inserted (`LookAgain`, `Insert`). Where the master is
missing or inactive the text is the program's own (`Fallback`).

### Notifications

`BeginWork`, `Emit`, `Commit` are a business transaction with its events;
`Address`, `Queue`, `Close`, `Finish` are the dispatch after the commit, each statement
on its own. `PassAfterCommit`, `PassOfPage`, `PassOfCommand` tell technicians of an order,
`Look` and `Tell` for one of them. What the telling after a commit raises is swallowed
(`PassBreaksOff`); `Die` ends a request, as does a dispatch that raises: the functions
registered after it do not run.

### Accounts and OperatorAccess

`BeginAsk`, `Invalidate`, `InsertCode`, `BeginVerify`, `Enter`, `Consume`, `Select`,
`SaveReset` are the reset of a password, which keeps its way in the session;
`SaveChange` is the change of one's own. The office loads a whole user and saves
it (`SaveUser`), the technician's and the operator's pages differ in what follows
(`SaveTechnician`, `SaveOperator`, `SaveRight` for each page ticked). `ToggleOperator`
and `ToggleTechnician`/`SaveTechnicianToggle` are the switches, `Delete*` the deletions.
The switch of a technician saves three columns, and when that fails, because the
row is gone, saves the whole copy and so inserts the row again (`SwitchedInFull`).
`OperatorAccess` is what log in, `OperatorPermissionMiddleware` and `require_tenant_role`
make of a request. The project's backend admits inactive users
(`config/settings/base.py:128`), so a session outlives the switch and it is the
middleware that refuses it (`MayPass`). `ServedAsTicked` compares what an operator gets
with what the office has switched and ticked.

### CompanyRegistration, MerchantReview, Onboarding

A visitor's form (`BeginRegister`, `SendOtp`, `Respond`) stays in the session until
the code is entered (`BeginVerifyOtp`, `CheckOtp`, `MarkOtp`), and then
`CreateCompany`, `CreateAdmin`, `CreateRest`, `ClearSession` follow one by one; `Vanish`
is a request that dies. `MerchantReview` has the company's `BeginSubmit`/`SaveSubmit`,
`BeginPropose`/`InsertRequest`, `SaveGateway`, `Start` (a payment) and the owner's
`Open`, `Decide`, `Approve`, `BeginApply`, `SaveApply`, `CloseRequest`, `SaveEdit`,
`Activate`. The approval of a change request loads the profile, writes the proposal
on the copy and saves all its columns, so that a document the company has saved
meanwhile is overwritten with the one of the copy.
`Onboarding` puts the two in sequence: the review follows one registration.

## 3. Runs

| Run (config) | Bounds | Distinct states | Shows |
|---|---|---|---|
| `invoice_payments` (`MCInvoicePayments`) | 2 requests, 3 payments, totals 0 or 2, one code of 1 | 645,842 | locked rows stand, money received stays received, PAID implies settled, settled by a PAID payment and for the total; the audit, run on the payments of every state and on every report of up to 2 rows, hides no trouble |
| `invoice_serial_office` (`MCInvoiceSerialOffice`) | the same, with issue, edit and cancel alone | 25,610 | the refinement of `InvoiceWorkflow` |
| `order_lifecycle` (`MCOrderLifecycle`) | 2 requests, 2 technicians, 1 order and a replacement, 1 invoice, the edit form alone | 779,647 | a locked order stands, the log keeps up |
| `order_one_at_a_time` (`MCOrderOneAtATime`) | requests in sequence, 1 order and two replacements, 2 technicians, 2 invoices | 617,965 | assignment matches status, no twin orders, one invoice per order |
| `technician_ledger` (`MCTechnicianLedger`) | 2 requests, 2 invoices, 2 settlement forms | 753,088 | each entry once, entries follow the payment, no cycle of waits |
| `sms_outbox` (`MCSmsOutbox`) | 2 workers, a company's and a platform's message, 3 attempts, 1 recharge paid twice, 1 crash | 223,386 | the wallet's account, sums paid for what was taken, SENT means taken, SENDING ends |
| `accounts` (`MCAccounts`) | 2 browsers, 2 users and a technician's profile, 2 codes, 2 passwords, 1 office edit, 2 rights, 5 pages | 1,365,031 | the last password, switch and rights stand; one reset per code; deleted stays deleted; who is switched off is out, who is on gets what was ticked |
| `onboarding` (`MCOnboarding`) | 2 visitors in 1 session, 3 forms, 2 codes; 2 requests on the review, 3 contents, 1 change request | 1,036,434 | the phone was proved, one company per code, gateways on endorsed data, approved was applied |
| `settlement` (`MCSettlement`) | 2 requests, 1 payment beside cash, 2 rates, fees, pairs of policies, 2 accounts; percents out of 4 | 727,936 | shares add up, the frozen percents decide, the split routes every rial once, the account verified is the one reviewed |
| `discounts` (`MCDiscountCodes`) | 2 requests, 2 invoices of one phone, 2 campaigns, 1 word, 1 single-use code | 2,041,799 | the discount of an invoice is the sum of the codes recorded for it |
| `notifications` (`MCNotifications`) | 2 requests, 3 events, 3 rows, 1 customer, 1 technician, 3 moments | 280,392 | one message per event and phone, technicians told once, four copies of the offer rule agree, events end |
| `office` (`MCOffice`) | 2 requests, 2 change requests, 2 wordings; 2 forms, 2 customers, orders, categories, phones, 1 item | 1,220,459 | endorsed wordings, approved overrides, answers that fit, the caller's order |

Why these bounds are enough. Every interaction in the code is between two
transactions on one row or on two, so two requests reach each pair of handlers
at each pair of points; both may be the same handler. Three payments allow one
that is superseded, one that is being inserted meanwhile and the one that
settles. Totals 0 and 2 with a discount of 1 give an invoice that cannot be
issued, one for the full amount, and one reduced while a payment for the old
total is open. One job and its replacements is the family of orders that share
state. In the ledger two invoices and two forms let each writer write twice, and
wage and total differ, so that sums distinguish the entries. In the outbox three
attempts let two workers hold one message and one of them fail and retry; a
price of 1 and a recharge of 2 make the wallet run dry. Percents out of 4 over
totals of 3, 2 and 1 round both ways. Two codes and one session are what two tabs
can confuse. The rules of the offers are compared for all orders, technicians and
settings of a small domain, at each of three moments, two to a day, and proved for
all (section 5). The theorems hold for any number of each.

Sets of interchangeable requests, technicians, invoices and the like are
symmetric wherever no liveness property is checked. Deadlock checking is off where the system may stop, when the bounds on
payments, orders or messages are used up and nothing is in flight.

`office` holds two components that share no row, wordings and intake: a behaviour
of it is of one or of the other. The type invariant of each module (`TypeOK`,
`RegistrationTypeOK`, `IntakeTypeOK`, `LedgerTypeOK`, `DiscountTypeOK`) holds in these
instances, and can be checked by adding it to the config; it is also proved, for
all modules but `OrderLifecycle`, whose theorems carry the parts they need (`Shape`).

### What the instances leave out, and why

Some properties can only be kept by the code when certain pairs of requests do
not meet. The instance says which, in a constant; with the empty set the
property fails, as section 4 shows.

| Constant | Value | Reason |
|---|---|---|
| `Alone` of `InvoicePayments` | `{}`; issue, edit, cancel in `MCInvoiceSerialOffice` | they write a status tested on an unlocked copy |
| `Alone` of `OrderLifecycle` | the edit form; all in `MCOrderOneAtATime` | an edit that posts no status logs the one of its copy; assigning, editing and returning write stale copies, and the second run shows that no *sequence* of requests breaks the orders |
| `Overrides` of `OrderLifecycle` | `{}` | an administrator may set any status by hand |
| `Alone` of `SmsOutbox` | `{"pay"}` | the credit of the wallet is read, then written, without a lock |
| `Apart` of `Accounts` | an edit with anything; the switch of a technician with a deletion; two requests of codes | the edit saves a whole user, and so does the switch when its row is gone; `attempt_count` is raised on a copy |
| `Overlapping` of `CompanyRegistration` | `FALSE` | a session that verifies a code twice at once makes two companies |
| `Apart` of `Settlement` | technician's page and owner's review | the owner approves the account that is there when the approval is saved |
| `Apart` of `DiscountCodes` | two creations, two applications | the check for overlaps locks nothing; the discount is added to a copy |
| `Apart` of `Notifications` | two transactions on one order or invoice; two passes | the key is looked up before it is inserted, and the insertion that fails takes the transaction with it; a technician would be told twice |
| `Fatal` of `Notifications` | while the transaction is open, or while technicians are told | a request that dies, or a dispatch that raises, after the commit leaves its event RECORDED, and the key keeps it from being emitted again |
| `Apart`, `Fatal` of `SmsTemplates` | two decisions on one request; death between the two saves of an approval | the template is written before the request |
| `Separate` of `OrderIntake` | two forms on one order; an edit and a deletion | answers are saved in a transaction of their own; a customer is saved by key |

### Fairness

`SmsOutbox!FairSpec` has weak fairness on the steps of each worker: no step of a
worker waits for more than a transaction that commits in one action, and a call
of the provider returns or raises (the repository has a fake provider only; one that
hangs for ever is a worker that dies). A worker that
dies takes no further steps and keeps its message; `SendingEnds` excepts those.
`Notifications!FairSpec` has weak fairness on what a request does after its commit,
for the same reason. Nothing is assumed to begin. `InvoicePayments` states no liveness:
that every request ends is there the work of PostgreSQL, which ends the circle of a
callback (payment, then invoice) and a cash receipt (invoice, then payments) by rolling
one of them back, the step `Deadlock`.

## 4. Where the code does otherwise

These properties state what a comment or a document of the repository says, and
the code does not keep them. They are defined in the modules, and each is
reproduced in seconds with the config named, or by the change of a config named;
put the property in place of those listed and leave SYMMETRY out.

| Property | Reproduce with | What happens |
|---|---|---|
| `CashTouchesOnlyOpen` | `MCInvoicePayments.cfg`, PROPERTY | a technician's cash receipt saves CANCELLED by key on rows it selected without a lock, so a payment that became FAILED is cancelled (`invoices/views_technician.py:729`; line 722 says "Never touches PAID, FAILED, or already CANCELLED payments.") |
| `FollowsWorkflow` | `MCInvoicePayments.cfg`, PROPERTY | issue, edit and cancel write a status tested on an unlocked copy: a PAID invoice returns to DRAFT (`invoices/services.py:184`); `PaidIsFinal` and `PaidIsSettled` still hold |
| `RejectRestores` | `MCOrderRejected.cfg`, `MCOrderHistory` | an edit logs a transition from CANCEL_REQUESTED to itself, so a rejection restores WAITING where the order was IN_PROGRESS (`orders/services.py:500`, `cancel_service.py:10`) |
| `AcceptWithinLimit` | `MCOrderAcceptRace.cfg`, `MCOrderLifecycle` | two acceptances of two orders by one technician both count before either commits (`orders/services.py:873`) |
| `InvoicedOnce` | `MCOrderInvoiceRace.cfg`, `MCOrderLifecycle` | a technician's request and a completion both find no invoice, although each re-checks inside its transaction (`invoices/views_technician.py:483`) |
| `RunningBalance` | `MCTechnicianLedger.cfg`, `Tokens = {}`, `CHECK_DEADLOCK FALSE` | an empty ledger has no row to lock, and the row that is locked need not be the latest any more (`payouts/services.py:335`; line 334: "Lock this technician's rows to prevent balance_after races") |
| `BackfillLeavesNoGap` | `MCLedgerBackfill.cfg`, `MCTechnicianLedger` | a debit that fails after its credit is never repaired: the backfill looks for the credit |
| `WageDueOnce` | `MCSettlement.cfg`, INVARIANT | the ledger is credited with the whole wage although the split then routes it to the bank directly (`payouts/services.py:184`, `payments/services.py:292`; `services_split.py:23`: "technician_ledger_amount → company owes technician this as internal ledger credit") |
| `VerifiedAsReviewed` | `MCSettlement.cfg`, `Apart = {}` | the owner verifies the account the office has entered since the page was shown (`views_technician_verification.py:84`) |
| `SentNotResent` | `MCSmsResent.cfg`, `MCSmsOutbox` | a retry puts a message back to QUEUED that a worker has sent meanwhile (`sms/services.py:705`; `sms/views.py:420`: "SENT and DELIVERED messages are not resent.") |
| `OneSwitch` | `MCOffice.cfg`, INVARIANT | one page saves the setting and not the template (`views_tenant_comm_settings.py:153`; `sync.py:30`: they "represent the same user-facing SMS switch") |
| `OverrideIsApproved` | `MCOffice.cfg`, `Apart = {}` | two tabs decide one request: a rejected text stays in force |
| `RegisteredHasAdmin` | `MCOnboarding.cfg`, INVARIANT | the rows of a registration are not one transaction: a name taken meanwhile leaves a company without administrator (`public/services.py:201`) |
| `AnswersFit` | `MCOffice.cfg`, `Separate = {}` | the category changes while answers are saved: those to the old one stay (`orders/item_services.py:145`: "category change cleanup") |
| `KeepsCustomer` | `MCOffice.cfg`, PROPERTY, `Separate = {}` | an order is created between the check and the deletion of its customer (`api/views.py:394`: "Don't delete if customer has orders") |
| `OneLiveCampaign` | `MCDiscountCodes.cfg`, `Apart = {}` | two pages both find no overlapping campaign (`reports/views.py:412`) |
| `DeletedStaysDeleted` | `MCAccounts.cfg`, without the pairs of `toggleTechnician` and `delete` in `MCApart` | a technician is deleted while being switched: the save of the switch finds no row, and the handler of that error saves the whole copy, which inserts it again (`tenants/views_admin.py:2291`) |
| `LoggedStatus` | `MCOrderLifecycle.cfg`, `Alone = {}` | an edit form posted without a status (its page offers no blank, `src/templates/tenants/admin_order_edit.html:54`, the service takes one) logs the status of its copy and saves none: the log ends in WAITING for an order cancelled meanwhile (`orders/services.py:501`) |
| `OnlyTheTechnician` | `MCTechnicianTarget.cfg`, `MCAccounts` | an id of the list of technicians is looked up among the users first: another technician is deactivated (`tenants/views_admin.py:2236`) |

Also seen while modelling: with `TECHNICIAN_MAX_ACTIVE_ORDERS = 0` the page shows the
legacy button, as for no limit, and the acceptance refuses; `OffersAgreeAlways`
assumes the limit is not 0. Callback and cash receipt lock payment and invoice in
opposite orders (`payments/services.py:350`, `invoices/views_technician.py:672`), so that one
of them may be rolled back by the database. A successful callback for an invoice that is cancelled
or already paid leaves a PAID payment that settles nothing (`PayWithoutInvoice`).

## 5. Proofs

Each theorem holds for every value of the constants that the module's named
assumptions admit: any number of requests, rows, codes and prices. What a theorem
assumes beyond that is one of the restrictions of section 3 and is named in the
table; the runs are instances that satisfy it.

| Theorem | Shows | Argument |
|---|---|---|
| **`InvoicePayments_proofs`** | | |
| `TypeCorrect` | `TypeOK` | inductive as it stands: a request keeps working on a payment that exists because none is deleted |
| `HeldRows` | `HeldRowsStand` | inductive with types: every action that changes a row asks for a lock that is free or its own |
| `PaidStaysPaid` | `PaidIsFinal` | from `HeldRowsStand`: the only write that ignores the row's status is the receipt's, on rows it has locked, which are not PAID |
| `SettledByPaidAlways` | `SettledByPaid` | from `PaidIsFinal` and `SoundRows`: the committed row and every copy a request holds satisfy the invariant, because an edit may write a whole copy back |
| `PaidIsSettledAlways` | `PaidIsSettled` | `SoundRows` again: a copy an edit holds is a DRAFT without settlement |
| `SettledForTotalAlways` | `SettledForTotal` | the two settling steps compare the amount under the invoice's lock, and no other names a payment |
| `WorkflowImplemented`, `Alone` has issue, edit and cancel | `ImplementsWorkflow`, the refinement | `OfficeAlone`: while one of the three runs nothing else does, so its copy is the row; each step is then one of `InvoiceWorkflow`'s or a stutter, action by action |
| `TroubleShowsAlways` | `TroubleShows` | for any files and any number of payments: a book has a reference once, so a report without an issue agrees row by row (`NoIssues`, `AuditAgrees`); a limit as large as the book scans all of it (`AllScanned`), and the counts are of disjoint sets (`CleanUpShows`) |
| **`OrderLifecycle_proofs`** | | |
| `LoggedStatusAlways`, `"edit" \in Alone` if a form may post no status | `LoggedStatus` | the copy of an edit that runs alone is the row; every other step changes no order, or writes one row with its log entry, or replaces one (`Changes`) |
| `HeldOrderStandsAlways` | `HeldOrderStands` | whoever writes an order holds its lock or finds it free (`Writer`), and locks are exclusive (`Lawful`) |
| `AssignedWhenActiveAlways`, `Used \subseteq Alone`, `Overrides = {}` | `AssignedWhenActive` | `Serial`: one request at a time, whose copies are the rows, and every order fits its log (`AllFit`), so that what a rejection restores fits too |
| `NoTwinOrdersAlways`, and no `"recycle"` | `NoTwinOrders` | `NoTwins`: what replaces an order replaces a cancelled one, alone, and a cancelled one is never returned again |
| `InvoicedOnceAlways`, completion and technician's form in `Alone`, no office form | `InvoicedOnce` | `Billed`: a request past the guard is alone and its order has no invoice |
| **`Office_proofs`** | | |
| `WordingTypeCorrect` | `TypeOK` of `SmsTemplates` | inductive |
| `WordingEndorsed` | `SentAsEndorsed` | `Endorsed`: every wording in a row, in the hands of an approval, or on its way to the outbox (`CarriedTexts`) is one the owner has endorsed, the platform's or the program's |
| `WordingApproved`, `DecidedOnce`, `ApprovalsFinish` | `OverrideIsApproved` | `InForce`: an approval in flight has the only decision on its request |
| `IntakeTyped` | `IntakeTypeOK` | inductive |
| `CustomerOfCallerAlways`, `EditsApart` | `CustomerOfCaller` | strengthened by `FormsFit` (a form that has found a customer has found one who had its phone), `PhonesRemembered`, and `NoDeleteDuringEdit` |
| `AnswersFitAlways`, `FilledOnce` | `AnswersFit` | `FillInv`: each order in the hands of a form is in no other's, and its answers are pruned as far as the form has come |
| **`Notifications_proofs`** | | |
| `NotificationsTypeCorrect` | `TypeOK` | inductive |
| `TechniciansToldOnce`, passes apart | `ToldOnce` | `Telling`: who is still to be told in a pass has not been told, and there is one pass |
| `OneMessageForPhone`, transactions on one subject apart | `OneMessage` | `Fresh` (a key emitted is in one place: a row, or one transaction's list) and `Serving` (a row is served by the request that inserted it, each phone once) |
| `RulesAgree`, `LegacyLimit > 0` | `Agree` for every order, technician, setting and time | the dates and the ranks of the copies of the rule agree one by one |
| `OffersAgreeAlways`, `LegacyLimit > 0` | `OffersAgree` | `RulesAgree` at the time of each state |
| `OffersStayAlways` | `Stays` | days do not run backwards |
| **`Ledgers_proofs`** | | |
| `LedgerTypeCorrect` | `LedgerTypeOK` | inductive; a roll back takes its rows out of a sequence, and what is left is in order (`WithoutKeeps`) |
| `PostedOnceAlways` | `PostedOnce` | part of `LedgerBooked`: a key is inserted by one transaction, and the unique index refuses the second |
| `EntriesFollowPaymentAlways` | `EntriesFollowPayment` | `LedgerBooked`: what a transaction has entered is what is no more on its list (`RowsEntered`), the cash comes after the wage (`CashFollows`), one transaction pays an invoice (`OnePayer`) |
| `NoWaitCycleAlways` | `NoWaitCycle` | `Queueing`: a lock is of an entry older than every entry its holder has inserted, so along a chain of waits the rows only get newer; of a finite set of requests, one waits for none |
| `DiscountTypeCorrect` | `DiscountTypeOK` | inductive; a part of an amount is not more than it (`PartOfWhole`, `ReductionFits`) |
| `DiscountAccountedAlways`, `PagesApart` | `DiscountAccounted` | `Accounted`: one page per invoice, whose copy holds, and a single-use code recorded is USED; a code that takes effect adds one term to the sum (`TakingsGrow`) |
| `OneLiveCampaignAlways`, `CampaignsApart` | `OneLiveCampaign` | `Distinct`: one request makes a campaign, and none of its phones has the code |
| `OutboxTyped` | `TypeOK` of `SmsOutbox` | inductive; the wallet is a natural number because the debit looks at it under its lock |
| `SentWasAcceptedAlways` | `SentWasAccepted` | strengthened by `Accepting`: who is about to write SENT has an answer in hand; nothing takes an acceptance back |
| `WalletAccountsAlways`, `"pay" \in Alone` | `WalletAccounts` | strengthened by `PayAlone`: who pays is the only one at work, and has the invoice and the balance as they stand |
| `PaidForWhatWasSentAlways`, finitely many workers | `PaidForWhatWasSent` | the workers in some order, and the partial sums of what each has charged and not yet used (`Adds`, `Balanced`): a step changes one term, and all sums after it by the same |
| **`Accounts_proofs`** | | |
| `AccountsTypeCorrect` | `TypeOK` | inductive |
| `LastWritesStand`, `EditsApart`, `TogglesApart` | `LastWriteStands` | `Standing`: an edit has the user as it is; the list of rights is what was ticked, but for what a form has still to save |
| `DeletedAreGone`, `EditsApart`, `TogglesApart` | `DeletedStaysDeleted` | the same invariant: only an edit, or the switch of a technician, could write a deleted user back |
| `ServedAsTickedAlways`, `EditsApart`, `TogglesApart` | `ServedAsTicked` | by `LastWritesStand` an operator at rest is switched and has the rights as was last posted; what is then got follows for each kind of request, and the form's rights reach every page for operators (`FormReachesAll`) |
| `OneResetForEachCode`, `CodesApart` | `OneResetPerCode` | `Coded` (one unused code, one request on it) and `ResetsCovered` (a password set is covered by a right comparison, each by one) |
| **`Onboarding_proofs`** | | |
| `RegistrationTyped` | `RegistrationTypeOK` and that a code entered exists | inductive |
| `PhoneWasProvedAlways` | `PhoneWasProved` | strengthened by `Proved`: past the comparison a request holds a code sent to the phone of its form, whatever the other tabs post |
| `OneCompanyAlways`, `~Overlapping` | `OneCompanyPerOtp` | strengthened by `InTurn` and `Fresh`: a code compared and not yet used up is no company's |
| `ReviewTyped` | `TypeOK` of `MerchantReview` | inductive |
| `GatewayAlways` | `GatewayForEndorsed` | inductive with types: a submission changes the status with the data, and only the owner's steps endorse |
| `AppliedAlways` | `ApprovedWasApplied` | strengthened by `BeingClosed`: an approval in flight has written its proposal |
| `OnboardingIsBoth` | the composition implements both | each step of it is a step of one and leaves the other alone; so all of the above holds in it |
| **`Settlement_proofs`** | | |
| `SettlementTypeCorrect` | `TypeOK` | part of `Settling`: no share is negative, because nothing absorbs more than there is |
| `SettledAsIssuedAlways` | `SettledAsIssued`: the percents of the issue decide, under the policies the settlement has read and written down | `Settling`: the rows and the frozen percents do not change after the issue (`Kept`), and every job, settlement, fee and split fits them (`AllFit`, `SettledFits`, `OwedFits`, `SplitsFit`) |
| `SharesAddUpAlways` | `SharesAddUp` | `Settling`, and arithmetic: shares rounded down by category and then by discount never exceed the rows (`SharesOfBill`) |
| `SplitAddsUpAlways` | `SplitAddsUp` | `Settling`: the deposit is what fee and wage leave |
| `VerifiedAsReviewedAlways`, `EditsApart` | `VerifiedAsReviewed` | `Reviewed`: what a page shows the owner is what the row still says |

The strengthenings are needed where a copy, a session or a request in flight may
become a row later: the invariant of the rows must then hold of what the requests
carry.

Sums over sets and sequences of any length are proved about without induction
theorems, which take operators as parameters and cannot be instantiated here.
`Ledgers_proofs` derives induction over a *set* of numbers (`NatInduct`) from the
well-foundedness of inclusion, and with it that the recursive functions in the
community modules' folds exist (`SumExists`, `TakingsAddUp`) and what one more
element adds (`TakingsGrow`).

Every safety property of a run is stated by a theorem. Only model-checked: liveness
(`SendingEnds`, `EventsEnd`), which is beyond the prover, as is ENABLED;
and what section 4 lists, whose properties fail. What the recursive functions of the
rest compute (running balances) is not stated by a theorem.

## 6. Not modelled

Rendering, lists, filters, paging and exports; texts, placeholders and names;
Jalali dates and phone formats (common helpers); line items below the totals of a
category; item types, addresses, public codes; tenant isolation, a filter on a
query; alerts of low credit; the HTTP of payment gateways and SMS providers, of
which only the answers are modelled; demo data, health checks and smoke tests
(`seed_full_demo`, `smoke_regression`); the billing stub. The running balance of the
platform fee ledger repeats the pattern of the technician ledger. The ledger has one
technician, so that an order whose technician changes between payment and
backfill is a hazard without a property. Recycling from the order page, which is
offered for orders already cancelled, is left out of `MCOrderOneAtATime`: a second
copy is then intended.

## 7. Plan

1. Done: `InvoicePayments` with `InvoiceWorkflow`, `OrderLifecycle`, `TechnicianLedger`,
   and the first theorems.
2. Done: outbox and wallet, templates, notifications, offers, intake, accounts and
   rights, registration and review, discounts, wages and splits, reconciliation,
   and theorems about five of them and the orders.
3. Done: theorems for every safety property of the runs, the refinement of
   `InvoiceWorkflow` among them.
4. Several technicians in the ledger, so that the backfill's choice of one shows; an
   abstract ledger that it and the platform's fees implement.
5. `Notifications` composed with `SmsOutbox` and `SmsTemplates`: from the event to the
   provider in one instance.
