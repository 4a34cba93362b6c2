-------------------------- MODULE InvoicePayments --------------------------
(***************************************************************************)
(* One invoice and the payments made for it, under concurrent requests.    *)
(*                                                                         *)
(* The requests are the HTTP handlers and the clean-up command that read   *)
(* or write the Invoice row and its Payment rows: the public checkout      *)
(* page, the gateway callback, cash receipts by a technician and by the    *)
(* office, the expiration command, and issuing, editing and cancelling.    *)
(* The database is PostgreSQL at READ COMMITTED: a plain read sees         *)
(* committed rows, SELECT FOR UPDATE and UPDATE wait for the row lock and  *)
(* keep it until their transaction ends, and a transaction's writes appear *)
(* at its commit.  Each action below runs a handler from one point where   *)
(* other requests can interfere to the next.  A deadlock is resolved by    *)
(* the database, which rolls one of its transactions back.                 *)
(***************************************************************************)
EXTENDS Naturals, FiniteSets

CONSTANTS
  Requests,     \* request slots: how many handlers may be in flight at once
  MaxPayments,  \* bound: how many Payment rows the invoice may get
  Nets,         \* the item totals an edit may leave on the invoice
  Codes,        \* single-use discount codes the customer holds
  Discount,     \* what a code takes off the total, in the units of Nets
  Alone,        \* operations that run with no other request in flight
  Free          \* the holder of a row lock nobody holds

ASSUME RequestsAssumption == Free \notin Requests
ASSUME BoundAssumption == MaxPayments \in Nat /\ Nets \subseteq Nat /\ Discount \in Nat

VARIABLES
  inv,   \* the committed Invoice row
  pay,   \* the committed Payment rows, numbered in the order of creation
  used,  \* the discount codes with status USED
  lock,  \* the request that holds each row's lock
  req    \* each request: where it is, and what it read earlier

vars == <<inv, pay, used, lock, req>>

Payments == 1..MaxPayments
InvoiceLock == 0
Rows == {InvoiceLock} \cup Payments

InvoiceStatus == {"DRAFT", "ISSUED", "PAID", "CANCELLED"}
PaymentStatus == {"INITIATED", "PENDING", "PAID", "FAILED", "CANCELLED"}
Kinds == {"checkout", "gateway", "techCash", "officeCash"}

\* net: total of the items; disc: campaign_discount_amount; settled: settled_at
\* is set; by: the payment settled_payment_reference names, 0 for none
InvoiceRow == [status : InvoiceStatus, net : Nat, disc : Nat,
               settled : BOOLEAN, by : {0} \cup Payments]

NoRow == [kind |-> "none", status |-> "none", amount |-> 0]
PaymentRow == [kind : Kinds, status : PaymentStatus, amount : Nat]

Places == {"idle", "issue", "edit", "cancel", "discount", "officeCash", "officePaid",
           "techCash", "supersede", "checkout", "checkoutReady", "saveAmount",
           "callback", "verified", "settling", "expire"}

NewDraft(net) == [status |-> "DRAFT", net |-> net, disc |-> 0, settled |-> FALSE, by |-> 0]

\* pc: where the request is; snap, pay: the invoice and the payment it loaded;
\* todo: the payments it has still to lock
Request == [pc : Places, snap : InvoiceRow, pay : {0} \cup Payments, todo : SUBSET Payments]

At(place, snap, p) == [pc |-> place, snap |-> snap, pay |-> p, todo |-> {}]
Superseding(snap, S) == [pc |-> "supersede", snap |-> snap, pay |-> 0, todo |-> S]
Idle == At("idle", NewDraft(0), 0)

Init ==
  /\ \E n \in Nets : inv = NewDraft(n)
  /\ pay = [p \in Payments |-> NoRow]
  /\ used = {}
  /\ lock = [x \in Rows |-> Free]
  /\ req = [r \in Requests |-> Idle]

----------------------------------------------------------------------------
\* Rows

Total(i) == IF i.net > i.disc THEN i.net - i.disc ELSE 0

OpenStatus == {"INITIATED", "PENDING"}
UnfinishedPayments == {p \in Payments : pay[p].status \in OpenStatus \cup {"PAID"}}  \* mutant
OpenPayments == {p \in Payments : pay[p].status \in OpenStatus}

IsLatest(p, S) == p \in S /\ \A q \in S : q <= p

\* The next row to be inserted.
Fresh(p) ==
  /\ pay[p] = NoRow
  /\ \A q \in Payments : q < p => pay[q] # NoRow

\* Bound: room for one more row beside the rows requests in flight will insert.
Creating == {"checkout", "officeCash", "techCash", "supersede"}
Room ==
  Cardinality({q \in Requests : req[q].pc \in Creating})
    < Cardinality({p \in Payments : pay[p] = NoRow})

Insert(p, kind, status, amount) ==
  pay' = [pay EXCEPT ![p] = [kind |-> kind, status |-> status, amount |-> amount]]

SetStatus(p, status) == pay' = [pay EXCEPT ![p].status = status]

\* Mutants of Settleable: a dropped check, of the amount or of the locked row.
SettleableForAnyAmount(i, amount) == i.status = "ISSUED" /\ ~i.settled
SettleableAsLoaded(i, amount) == amount = Total(i)

\* What mark_paid requires of the row it has locked.
Settleable(i, amount) ==
  /\ i.status = "ISSUED"
  /\ ~i.settled
  /\ amount = Total(i)

Settled(i, p) == [i EXCEPT !.status = "PAID", !.settled = TRUE, !.by = p]

----------------------------------------------------------------------------
\* Requests

Goto(r, place) == req' = [req EXCEPT ![r].pc = place]
Finish(r) == req' = [req EXCEPT ![r] = Idle]
Release(r) == lock' = [x \in Rows |-> IF lock[x] = r THEN Free ELSE lock[x]]

\* An operation in Alone waits until no other request is in flight, and no
\* other request begins before it has ended.
MayBegin(r, place) ==
  /\ req[r].pc = "idle"
  /\ place \in Creating => Room
  /\ \A q \in Requests :
       /\ req[q].pc # "idle" => place \notin Alone
       /\ req[q].pc \notin Alone

\* The statuses in which a handler accepts the invoice it loaded.
Admits(place) ==
  CASE place \in {"issue", "edit"} -> {"DRAFT"}
    [] place = "cancel" -> {"DRAFT", "ISSUED"}
    [] OTHER -> {"ISSUED"}

\* A view loads the invoice without a lock and refuses it, changing nothing,
\* unless its status is one it admits; what it loaded is what it will use.
LoadInvoice(r, place) ==
  /\ MayBegin(r, place)
  /\ inv.status \in Admits(place)
  /\ req' = [req EXCEPT ![r] = At(place, inv, 0)]
  /\ UNCHANGED <<inv, pay, used, lock>>

----------------------------------------------------------------------------
\* The office issues, edits and cancels.  None of the three locks the row or
\* looks at its status again before writing.

BeginIssue(r) == LoadInvoice(r, "issue")
BeginEdit(r) == LoadInvoice(r, "edit")
BeginCancel(r) == LoadInvoice(r, "cancel")

\* The items are summed some time between the load and the wait for the row, and the
\* checkout page reads the invoice again some time before it saves its amount.
Refresh(r) ==
  /\ \/ /\ req[r].pc = "issue"
        /\ req' = [req EXCEPT ![r].snap.net = inv.net]
     \/ /\ req[r].pc = "saveAmount"
        /\ req' = [req EXCEPT ![r].snap = inv]
  /\ UNCHANGED <<inv, pay, used, lock>>

\* recalculate_totals writes that sum, and the discount the view had loaded.
Issue(r) ==
  LET row == [inv EXCEPT !.net = req[r].snap.net, !.disc = req[r].snap.disc] IN
  /\ req[r].pc = "issue"
  /\ lock[InvoiceLock] = Free
  /\ inv' = IF Total(row) > 0 THEN [row EXCEPT !.status = "ISSUED"] ELSE inv
  /\ Finish(r)
  /\ UNCHANGED <<pay, used, lock>>

\* Mutant: every column but the status.
EditedExceptStatus(r, n) == [req[r].snap EXCEPT !.net = n, !.status = inv.status]

\* invoice.save() writes every column from what the view had loaded.
Edited(r, n) == [req[r].snap EXCEPT !.net = n]

Edit(r) ==
  /\ req[r].pc = "edit"
  /\ lock[InvoiceLock] = Free
  /\ \E n \in Nets : inv' = Edited(r, n)
  /\ Finish(r)
  /\ UNCHANGED <<pay, used, lock>>

Cancel(r) ==
  /\ req[r].pc = "cancel"
  /\ lock[InvoiceLock] = Free
  /\ inv' = [inv EXCEPT !.status = "CANCELLED"]
  /\ Finish(r)
  /\ UNCHANGED <<pay, used, lock>>

----------------------------------------------------------------------------
\* Discount codes.  The code's row is locked; the invoice is not, and its new
\* discount is computed from the one the view had loaded, its total from items
\* summed some time since.

ApplyCode(r, c) ==
  LET snap == req[r].snap
      base == Total(snap)
      off == IF Discount < base THEN Discount ELSE base
  IN IF c \in used \/ off = 0
       THEN UNCHANGED <<inv, used>>
       ELSE /\ lock[InvoiceLock] = Free
            /\ \E net \in {snap.net, inv.net} :
                 inv' = [inv EXCEPT !.net = net, !.disc = snap.disc + off]
            /\ used' = used \cup {c}

BeginDiscount(r) == LoadInvoice(r, "discount")

PublicDiscount(r) ==
  /\ req[r].pc = "discount"
  /\ \E c \in Codes : ApplyCode(r, c)
  /\ Finish(r)
  /\ UNCHANGED <<pay, lock>>

----------------------------------------------------------------------------
\* The public checkout page.  It picks the invoice's newest open payment, or
\* will insert an internal one; a foreign key check at the insert waits for
\* the lock on the invoice.

BeginCheckout(r) ==
  LET place == IF OpenPayments = {} THEN "checkout" ELSE "checkoutReady" IN
  /\ MayBegin(r, place)
  /\ inv.status \in Admits(place)
  /\ \E p \in {0} \cup Payments :
       /\ IF OpenPayments = {} THEN p = 0 ELSE IsLatest(p, OpenPayments)
       /\ req' = [req EXCEPT ![r] = At(place, inv, p)]
  /\ UNCHANGED <<inv, pay, used, lock>>

InsertCheckout(r) ==
  /\ req[r].pc = "checkout"
  /\ lock[InvoiceLock] = Free
  /\ \E p \in Payments :
       /\ Fresh(p)
       /\ Insert(p, "checkout", "INITIATED", Total(req[r].snap))
       /\ req' = [req EXCEPT ![r] = At("checkoutReady", req[r].snap, p)]
  /\ UNCHANGED <<inv, used, lock>>

ShowCheckout(r) ==
  /\ req[r].pc = "checkoutReady"
  /\ Finish(r)
  /\ UNCHANGED <<inv, pay, used, lock>>

\* PaymentStartService: a new Payment for the total the view had loaded; the
\* provider accepts it (PENDING) or not (FAILED), in one transaction.
StartPayment(r) ==
  /\ req[r].pc = "checkoutReady"
  /\ Room
  /\ lock[InvoiceLock] = Free
  /\ \E p \in Payments, accepted \in BOOLEAN :
       /\ Fresh(p)
       /\ Insert(p, "gateway", IF accepted THEN "PENDING" ELSE "FAILED",
                 Total(req[r].snap))
  /\ Finish(r)
  /\ UNCHANGED <<inv, used, lock>>

CheckoutDiscount(r) ==
  /\ req[r].pc = "checkoutReady"
  /\ req[r].snap.disc = 0
  /\ \E c \in Codes : ApplyCode(r, c)
  /\ req' = [req EXCEPT ![r] = At("saveAmount", inv', req[r].pay)]
  /\ UNCHANGED <<pay, lock>>

\* The page then puts the total it has read on the payment it had picked.
SaveAmount(r) ==
  LET p == req[r].pay IN
  /\ req[r].pc = "saveAmount"
  /\ lock[p] = Free
  /\ pay' = [pay EXCEPT ![p].amount = Total(req[r].snap)]
  /\ Finish(r)
  /\ UNCHANGED <<inv, used, lock>>

----------------------------------------------------------------------------
\* The gateway callback, which may come at any time and more than once.

BeginCallback(r) ==
  /\ MayBegin(r, "callback")
  /\ \E p \in Payments :
       /\ pay[p].kind = "gateway"
       /\ req' = [req EXCEPT ![r] = At("callback", NewDraft(0), p)]
  /\ UNCHANGED <<inv, pay, used, lock>>

\* Anything but PENDING is answered without a change.
IgnoreCallback(r) ==
  /\ req[r].pc = "callback"
  /\ lock[req[r].pay] = Free
  /\ pay[req[r].pay].status # "PENDING"
  /\ Finish(r)
  /\ UNCHANGED <<inv, pay, used, lock>>

\* Expired, refused by the provider, or verified for another amount.
RejectCallback(r) ==
  /\ req[r].pc = "callback"
  /\ lock[req[r].pay] = Free
  /\ pay[req[r].pay].status = "PENDING"
  /\ SetStatus(req[r].pay, "FAILED")
  /\ Finish(r)
  /\ UNCHANGED <<inv, used, lock>>

\* The provider confirms the payment: its row stays locked to the commit.
VerifyCallback(r) ==
  /\ req[r].pc = "callback"
  /\ lock[req[r].pay] = Free
  /\ pay[req[r].pay].status = "PENDING"
  /\ lock' = [lock EXCEPT ![req[r].pay] = r]
  /\ Goto(r, "verified")
  /\ UNCHANGED <<inv, pay, used>>

\* The invoice is read without a lock; only an ISSUED one is settled.
PayWithoutInvoice(r) ==
  /\ req[r].pc = "verified"
  /\ inv.status # "ISSUED"
  /\ SetStatus(req[r].pay, "PAID")
  /\ Release(r)
  /\ Finish(r)
  /\ UNCHANGED <<inv, used>>

GoToInvoice(r) ==
  /\ req[r].pc = "verified"
  /\ inv.status = "ISSUED"
  /\ Goto(r, "settling")
  /\ UNCHANGED <<inv, pay, used, lock>>

\* mark_paid locks the invoice and looks again; a refusal raises, and the
\* whole transaction, the payment's PAID included, is rolled back.
SettleByCallback(r) ==
  LET p == req[r].pay IN
  /\ req[r].pc = "settling"
  /\ lock[InvoiceLock] = Free
  /\ IF Settleable(inv, pay[p].amount)
       THEN inv' = Settled(inv, p) /\ SetStatus(p, "PAID")
       ELSE UNCHANGED <<inv, pay>>
  /\ Release(r)
  /\ Finish(r)
  /\ UNCHANGED used

----------------------------------------------------------------------------
\* expire_pending_payments: a scan, then one locked re-check per payment.
\* The operator chooses the age, so any open gateway payment may be old enough.

StillThere(p) == pay[p] # NoRow  \* mutant: no look at the status under the lock
StillOpen(p) == pay[p].status \in OpenStatus

BeginExpire(r) ==
  /\ MayBegin(r, "expire")
  /\ \E p \in Payments :
       /\ pay[p].kind = "gateway"
       /\ pay[p].status \in OpenStatus
       /\ req' = [req EXCEPT ![r] = At("expire", NewDraft(0), p)]
  /\ UNCHANGED <<inv, pay, used, lock>>

Expire(r) ==
  LET p == req[r].pay IN
  /\ req[r].pc = "expire"
  /\ lock[p] = Free
  /\ IF StillOpen(p) THEN SetStatus(p, "FAILED") ELSE UNCHANGED pay
  /\ Finish(r)
  /\ UNCHANGED <<inv, used, lock>>

----------------------------------------------------------------------------
\* Cash received by the office: a PAID payment is inserted and committed on
\* its own, for the total the view had loaded; then mark_paid runs.

BeginOfficeCash(r) == LoadInvoice(r, "officeCash")

InsertOfficeCash(r) ==
  /\ req[r].pc = "officeCash"
  /\ lock[InvoiceLock] = Free
  /\ \E p \in Payments :
       /\ Fresh(p)
       /\ Insert(p, "officeCash", "PAID", Total(req[r].snap))
       /\ req' = [req EXCEPT ![r] = At("officePaid", req[r].snap, p)]
  /\ UNCHANGED <<inv, used, lock>>

SettleByOffice(r) ==
  LET p == req[r].pay IN
  /\ req[r].pc = "officePaid"
  /\ lock[InvoiceLock] = Free
  /\ inv' = IF Settleable(inv, pay[p].amount) THEN Settled(inv, p) ELSE inv
  /\ Finish(r)
  /\ UNCHANGED <<pay, used, lock>>

----------------------------------------------------------------------------
\* Cash received by the technician: the invoice is locked and its status read
\* again; the payment, the settlement and the cancellation of the payments
\* then open are one transaction.  Each cancelled row is updated by key, with
\* no look at the status it has by then.

BeginTechCash(r) == LoadInvoice(r, "techCash")

TakesCash(i) == i.status = "ISSUED" /\ ~i.settled

LockForCash(r) ==
  /\ req[r].pc = "techCash"
  /\ lock[InvoiceLock] = Free
  /\ IF TakesCash(inv)
       THEN /\ lock' = [lock EXCEPT ![InvoiceLock] = r]
            /\ req' = [req EXCEPT ![r] = Superseding(req[r].snap, OpenPayments)]
       ELSE UNCHANGED lock /\ Finish(r)
  /\ UNCHANGED <<inv, pay, used>>

LockSuperseded(r) ==
  /\ req[r].pc = "supersede"
  /\ \E p \in Payments :
       /\ IsLatest(p, req[r].todo)
       /\ lock[p] = Free
       /\ lock' = [lock EXCEPT ![p] = r]
       /\ req' = [req EXCEPT ![r].todo = @ \ {p}]
  /\ UNCHANGED <<inv, pay, used>>

CommitTechCash(r) ==
  /\ req[r].pc = "supersede"
  /\ req[r].todo = {}
  /\ \E p \in Payments :
       /\ Fresh(p)
       /\ inv' = Settled(inv, p)
       /\ pay' = [q \in Payments |->
                    IF q = p
                      THEN [kind |-> "techCash", status |-> "PAID", amount |-> Total(inv)]
                    ELSE IF lock[q] = r THEN [pay[q] EXCEPT !.status = "CANCELLED"]
                    ELSE pay[q]]
  /\ Release(r)
  /\ Finish(r)
  /\ UNCHANGED used

----------------------------------------------------------------------------
\* Two transactions that wait for each other: one is rolled back.

WaitsFor(r, q) ==
  \/ req[r].pc = "settling" /\ lock[InvoiceLock] = q
  \/ req[r].pc = "supersede"
     /\ \E p \in Payments : IsLatest(p, req[r].todo) /\ lock[p] = q

Deadlock(r) ==
  /\ \E q \in Requests : WaitsFor(r, q) /\ WaitsFor(q, r)
  /\ Release(r)
  /\ Finish(r)
  /\ UNCHANGED <<inv, pay, used>>

----------------------------------------------------------------------------

Begin(r) ==
  \/ BeginIssue(r) \/ BeginEdit(r) \/ BeginCancel(r) \/ BeginDiscount(r)
  \/ BeginCheckout(r) \/ BeginCallback(r) \/ BeginExpire(r)
  \/ BeginOfficeCash(r) \/ BeginTechCash(r)

Step(r) ==
  \/ Issue(r) \/ Edit(r) \/ Cancel(r) \/ PublicDiscount(r)
  \/ InsertCheckout(r) \/ ShowCheckout(r) \/ StartPayment(r)
  \/ CheckoutDiscount(r) \/ SaveAmount(r) \/ Refresh(r)
  \/ IgnoreCallback(r) \/ RejectCallback(r) \/ VerifyCallback(r)
  \/ PayWithoutInvoice(r) \/ GoToInvoice(r) \/ SettleByCallback(r)
  \/ Expire(r) \/ InsertOfficeCash(r) \/ SettleByOffice(r)
  \/ LockForCash(r) \/ LockSuperseded(r) \/ CommitTechCash(r)
  \/ Deadlock(r)

Next == \E r \in Requests : Begin(r) \/ Step(r)

Spec == Init /\ [][Next]_vars

----------------------------------------------------------------------------
\* Properties

\* Rows and requests have the shape the models give them, and a request that
\* works on a payment works on one that exists.
RowsTyped ==
  /\ inv \in InvoiceRow
  /\ pay \in [Payments -> PaymentRow \cup {NoRow}]
  /\ used \subseteq Codes
  /\ lock \in [Rows -> Requests \cup {Free}]
  /\ req \in [Requests -> Request]

PaymentPlaces == {"checkoutReady", "saveAmount", "callback", "verified", "settling",
                  "expire", "officePaid"}
Picked ==
  \A r \in Requests : req[r].pc \in PaymentPlaces =>
    req[r].pay \in Payments /\ pay[req[r].pay] # NoRow

TypeOK == RowsTyped /\ Picked

\* What a transaction has locked and read under the lock stands until it
\* commits: a verified payment stays PENDING, an invoice taking a technician's
\* cash stays ISSUED, and no payment the receipt will cancel becomes PAID.
InTransaction == {"verified", "settling", "supersede"}
HeldRowsStand ==
  /\ \A x \in Rows : lock[x] \in Requests => req[lock[x]].pc \in InTransaction
  /\ \A r \in Requests : req[r].pc \in {"verified", "settling"} =>
       /\ req[r].pay \in Payments
       /\ lock[req[r].pay] = r
       /\ pay[req[r].pay].status = "PENDING"
  /\ \A r \in Requests : req[r].pc = "supersede" =>
       /\ lock[InvoiceLock] = r
       /\ TakesCash(inv)
       /\ \A p \in Payments :
            p \in req[r].todo \/ lock[p] = r => pay[p].status \in PaymentStatus \ {"PAID"}

\* The settlement names a payment that is PAID, whatever has happened since
\* (settled_payment_reference is evidence of a payment that still stands).
SettledByPaid == inv.settled => inv.by \in Payments /\ pay[inv.by].status = "PAID"

\* An invoice shown as PAID has been settled: no handler's stale write can
\* leave the status PAID on a row without its frozen financial result.
PaidIsSettled == inv.status = "PAID" => inv.settled

\* Once PAID, a payment stays PAID: no late callback, expiration or cash
\* receipt ever overwrites it.
PaidIsFinal ==
  [][\A p \in Payments : pay[p].status = "PAID" => pay'[p].status = "PAID"]_vars

\* At the moment an invoice is settled, the payment it names is for exactly
\* its total, however many discounts and edits raced with the payment.
SettledForTotal ==
  [][inv'.by # inv.by /\ inv'.by # 0 => pay'[inv'.by].amount = Total(inv')]_vars

\* Statuses change only along the workflow the Invoice model documents.
Workflow == {<<"DRAFT", "ISSUED">>, <<"ISSUED", "PAID">>,
             <<"DRAFT", "CANCELLED">>, <<"ISSUED", "CANCELLED">>}
FollowsWorkflow ==
  [][inv'.status # inv.status => <<inv.status, inv'.status>> \in Workflow]_vars

\* A cash receipt changes no payment that has already ended.
CashTouchesOnlyOpen ==
  [][\A p \in Payments : pay[p].status = "FAILED" => pay'[p].status = "FAILED"]_vars

\* The workflow and the single settlement, as InvoiceWorkflow states them.
Abstract == INSTANCE InvoiceWorkflow WITH
  status <- inv.status,
  settledBy <- inv.by,
  paid <- {p \in Payments : pay[p].status = "PAID"}
ImplementsWorkflow == Abstract!Spec

=============================================================================
