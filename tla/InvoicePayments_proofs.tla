----------------------- MODULE InvoicePayments_proofs -----------------------
(***************************************************************************)
(* Proofs about InvoicePayments for any number of requests, payments and   *)
(* discount codes, any amounts, and any set of operations run alone; about *)
(* the workflow it implements, and about the audit of its payments in      *)
(* Reconciliation, for any file the provider sends.                        *)
(***************************************************************************)
EXTENDS Reconciliation, FiniteSetTheorems, TLAPS

USE RequestsAssumption, BoundAssumption

----------------------------------------------------------------------------
\* Helpers

\* The invoice's lock is none of the payments' locks.
LEMMA InvoiceLockApart == InvoiceLock \notin Payments /\ InvoiceLock \in Rows
  BY DEF InvoiceLock, Payments, Rows

\* The amount an invoice asks for is a natural number.
LEMMA TotalType == ASSUME NEW i \in InvoiceRow PROVE Total(i) \in Nat
  BY DEF InvoiceRow, Total

\* The settled form of an invoice row is an invoice row.
LEMMA SettledType ==
  ASSUME NEW i \in InvoiceRow, NEW p \in Payments
  PROVE  Settled(i, p) \in InvoiceRow
  BY DEF InvoiceRow, InvoiceStatus, Settled

\* A draft without discount or settlement is an invoice row.
LEMMA NewDraftType == ASSUME NEW n \in Nat PROVE NewDraft(n) \in InvoiceRow
  BY DEF NewDraft, InvoiceRow, InvoiceStatus

\* A request that has loaded an invoice, and perhaps a payment, is typed.
LEMMA AtType ==
  ASSUME NEW place \in Places, NEW snap \in InvoiceRow, NEW p \in {0} \cup Payments
  PROVE  At(place, snap, p) \in Request
  BY DEF At, Request

\* A finished request is typed.
LEMMA IdleType == Idle \in Request
  BY AtType, NewDraftType DEF Idle, Places

\* No Payment row is deleted.
RowsKept == \A p \in Payments : pay[p] # NoRow => pay'[p] # NoRow

\* Ending a request, giving its locks back, and writing one payment keep the types.
LEMMA FinishType ==
  ASSUME RowsTyped, NEW r \in Requests, Finish(r) PROVE req' \in [Requests -> Request]
  BY IdleType DEF RowsTyped, Finish

\* So does moving a request on.
LEMMA GotoType ==
  ASSUME RowsTyped, NEW r \in Requests, NEW place \in Places, Goto(r, place)
  PROVE  req' \in [Requests -> Request]
  BY DEF RowsTyped, Goto, Request

\* Locks that are given back leave every row free or held by a request.
LEMMA ReleaseType ==
  ASSUME RowsTyped, NEW r \in Requests, Release(r)
  PROVE  lock' \in [Rows -> Requests \cup {Free}]
  BY DEF RowsTyped, Release

\* An inserted row is a Payment row, and no row disappears.
LEMMA InsertType ==
  ASSUME RowsTyped, NEW p \in Payments, NEW kind \in Kinds, NEW status \in PaymentStatus,
         NEW amount \in Nat, Insert(p, kind, status, amount)
  PROVE  /\ pay' \in [Payments -> PaymentRow \cup {NoRow}]
         /\ RowsKept
         /\ pay'[p] # NoRow
<1>1. pay'[p].kind # "none"
  BY DEF RowsTyped, Insert, Kinds
<1>2. QED
  BY <1>1 DEF RowsTyped, Insert, PaymentRow, NoRow, Kinds, RowsKept

\* A status written to an existing row leaves a Payment row.
LEMMA SetStatusType ==
  ASSUME RowsTyped, NEW p \in Payments, pay[p] # NoRow, NEW status \in PaymentStatus,
         SetStatus(p, status)
  PROVE  pay' \in [Payments -> PaymentRow \cup {NoRow}] /\ RowsKept
  BY DEF RowsTyped, SetStatus, PaymentRow, NoRow, Kinds, RowsKept

----------------------------------------------------------------------------
\* Rows and requests keep the shape the models give them, whatever the
\* handlers do.

\* The fresh draft without payments is typed.
LEMMA InitType == Init => TypeOK
  BY IdleType, NewDraftType DEF Init, TypeOK, RowsTyped, Rows, Picked, Idle, At, PaymentPlaces

\* A request that keeps its place, or goes to one outside the checkout page.
LEMMA PickedKept ==
  ASSUME Picked, RowsKept, NEW r \in Requests, RowsTyped, RowsTyped',
         \A q \in Requests \ {r} : req'[q] = req[q],
         \/ req'[r].pc \notin PaymentPlaces
         \/ /\ req'[r].pay = req[r].pay
            /\ req[r].pc \in PaymentPlaces
  PROVE  Picked'
  BY DEF Picked, RowsKept

\* A request that has loaded or inserted a payment.
LEMMA LoadedPicked ==
  ASSUME RowsTyped, Picked, RowsKept, NEW r \in Requests, NEW place \in Places,
         NEW snap \in InvoiceRow, NEW p \in Payments, pay'[p] # NoRow,
         req' = [req EXCEPT ![r] = At(place, snap, p)]
  PROVE  req' \in [Requests -> Request] /\ Picked'
<1>1. req' \in [Requests -> Request]
  BY AtType DEF RowsTyped
<1>2. Picked'
  BY DEF RowsTyped, Picked, At, RowsKept
<1>3. QED
  BY <1>1, <1>2

\* A request that ends works on no payment.
LEMMA FinishPicked ==
  ASSUME RowsTyped, RowsTyped', Picked, RowsKept, NEW r \in Requests, Finish(r)
  PROVE  Picked'
  BY PickedKept DEF Finish, Idle, At, RowsTyped, PaymentPlaces

\* A view that loads an invoice or a payment keeps the types.
LEMMA BeginType ==
  ASSUME TypeOK, NEW r \in Requests, Begin(r)
  PROVE  TypeOK'
<1> USE AtType, NewDraftType DEF TypeOK
<1>1. UNCHANGED <<inv, pay, used, lock>>
  BY DEF Begin, BeginIssue, BeginEdit, BeginCancel, BeginDiscount, BeginOfficeCash,
         BeginTechCash, LoadInvoice, BeginCheckout, BeginCallback, BeginExpire
<1>2. RowsKept
  BY <1>1 DEF RowsKept
<1>3. ASSUME NEW place \in Places \ PaymentPlaces,
             NEW snap \in InvoiceRow, NEW p \in {0} \cup Payments,
             req' = [req EXCEPT ![r] = At(place, snap, p)]
      PROVE  TypeOK'
  <2>1. RowsTyped'
    BY <1>1, <1>3 DEF RowsTyped
  <2>2. Picked'
    BY <1>2, <1>3, <2>1, PickedKept DEF RowsTyped, At, PaymentPlaces
  <2>3. QED
    BY <2>1, <2>2
<1>9. ASSUME NEW place \in Places, NEW p \in Payments, pay[p] # NoRow,
             NEW snap \in InvoiceRow, req' = [req EXCEPT ![r] = At(place, snap, p)]
      PROVE  TypeOK'
  BY <1>1, <1>2, <1>9, LoadedPicked DEF RowsTyped
<1>4. ASSUME NEW place \in Places \ PaymentPlaces,
             LoadInvoice(r, place)
      PROVE  TypeOK'
  BY <1>3, <1>4 DEF LoadInvoice, RowsTyped
<1>5. ASSUME BeginCheckout(r) PROVE TypeOK'
  <2>1. PICK p \in {0} \cup Payments :
          /\ IF OpenPayments = {} THEN p = 0 ELSE IsLatest(p, OpenPayments)
          /\ req' = [req EXCEPT ![r] =
               At(IF OpenPayments = {} THEN "checkout" ELSE "checkoutReady", inv, p)]
    BY <1>5 DEF BeginCheckout
  <2>2. CASE OpenPayments = {}
    BY <1>3, <2>1, <2>2 DEF RowsTyped, Places, PaymentPlaces
  <2>3. CASE OpenPayments # {}
    <3>1. p \in Payments /\ pay[p] # NoRow
      BY <2>1, <2>3 DEF IsLatest, OpenPayments, OpenStatus, NoRow
    <3>2. inv \in InvoiceRow
      BY DEF RowsTyped
    <3>3. QED
      BY <1>9, <2>1, <2>3, <3>1, <3>2 DEF Places
  <2>4. QED
    BY <2>2, <2>3
<1>6. ASSUME BeginCallback(r) PROVE TypeOK'
  <2>1. PICK p \in Payments :
          /\ pay[p].kind = "gateway"
          /\ req' = [req EXCEPT ![r] = At("callback", NewDraft(0), p)]
    BY <1>6 DEF BeginCallback
  <2>2. pay[p] # NoRow
    BY <2>1 DEF NoRow
  <2>3. QED
    BY <1>9, <2>1, <2>2 DEF Places
<1>7. ASSUME BeginExpire(r) PROVE TypeOK'
  <2>1. PICK p \in Payments :
          /\ pay[p].kind = "gateway"
          /\ req' = [req EXCEPT ![r] = At("expire", NewDraft(0), p)]
    BY <1>7 DEF BeginExpire
  <2>2. pay[p] # NoRow
    BY <2>1 DEF NoRow
  <2>3. QED
    BY <1>9, <2>1, <2>2 DEF Places
<1>8. QED
  BY <1>4, <1>5, <1>6, <1>7
     DEF Begin, BeginIssue, BeginEdit, BeginCancel, BeginDiscount, BeginOfficeCash,
         BeginTechCash, Places, PaymentPlaces

\* Reading the invoice again changes only the copy the request holds, and the rest of
\* that copy only where the request has not decided anything by it.
LEMMA RefreshKeeps ==
  ASSUME RowsTyped, NEW r \in Requests, Refresh(r)
  PROVE  /\ UNCHANGED <<inv, pay, used, lock>>
         /\ req' \in [Requests -> Request]
         /\ \A q \in Requests \ {r} : req'[q] = req[q]
         /\ req[r].pc \in {"issue", "saveAmount"}
         /\ req'[r].pc = req[r].pc /\ req'[r].pay = req[r].pay
         /\ req'[r].snap \in {inv, [req[r].snap EXCEPT !.net = inv.net]}
         /\ req[r].pc = "issue" => req'[r].snap = [req[r].snap EXCEPT !.net = inv.net]
<1>1. /\ UNCHANGED <<inv, pay, used, lock>>
      /\ req[r] \in Request /\ inv \in InvoiceRow /\ req[r].snap \in InvoiceRow
  BY DEF Refresh, RowsTyped, Request
<1>2. PICK i \in {inv, [req[r].snap EXCEPT !.net = inv.net]} :
        /\ req' = [req EXCEPT ![r] = [req[r] EXCEPT !.snap = i]]
        /\ req[r].pc \in {"issue", "saveAmount"}
        /\ req[r].pc = "issue" => i = [req[r].snap EXCEPT !.net = inv.net]
  <2>1. CASE req[r].pc = "issue"
    <3>1. req' = [req EXCEPT ![r] =
                    [req[r] EXCEPT !.snap = [req[r].snap EXCEPT !.net = inv.net]]]
      BY <2>1 DEF Refresh
    <3>2. QED
      BY <2>1, <3>1
  <2>2. CASE req[r].pc # "issue"
    <3>1. req[r].pc = "saveAmount" /\ req' = [req EXCEPT ![r] = [req[r] EXCEPT !.snap = inv]]
      BY <2>2 DEF Refresh
    <3>2. QED
      BY <3>1
  <2>3. QED
    BY <2>1, <2>2
<1>3. i \in InvoiceRow
  BY <1>1, <1>2 DEF InvoiceRow
<1>4. /\ [req[r] EXCEPT !.snap = i] \in Request
      /\ [req[r] EXCEPT !.snap = i].pc = req[r].pc
      /\ [req[r] EXCEPT !.snap = i].pay = req[r].pay
      /\ [req[r] EXCEPT !.snap = i].snap = i
  BY <1>1, <1>3 DEF Request
<1>5. req' \in [Requests -> Request] /\ \A q \in Requests \ {r} : req'[q] = req[q]
  BY <1>2, <1>4 DEF RowsTyped
<1>6. req'[r] = [req[r] EXCEPT !.snap = i]
  BY <1>2 DEF RowsTyped
<1>7. QED
  BY <1>1, <1>2, <1>4, <1>5, <1>6

\* The types stay as they are.
LEMMA RefreshType ==
  ASSUME TypeOK, NEW r \in Requests, Refresh(r)
  PROVE  TypeOK'
<1>1. RowsTyped'
  BY RefreshKeeps DEF TypeOK, RowsTyped
<1>2. RowsKept
  BY RefreshKeeps DEF TypeOK, RowsKept
<1>3. Picked'
  BY <1>1, <1>2, PickedKept, RefreshKeeps DEF TypeOK, PaymentPlaces
<1>4. QED
  BY <1>1, <1>3 DEF TypeOK

\* Issuing, editing, cancelling and discounting keep the types.
LEMMA OfficeType ==
  ASSUME TypeOK, NEW r \in Requests,
         Issue(r) \/ Edit(r) \/ Cancel(r) \/ PublicDiscount(r) \/ CheckoutDiscount(r)
  PROVE  TypeOK'
<1> USE DEF TypeOK
<1>1. req[r].snap \in InvoiceRow
  BY DEF RowsTyped, Request
<1>2. RowsKept
  BY DEF Issue, Edit, Cancel, PublicDiscount, CheckoutDiscount, RowsKept
<1>3. CASE Issue(r)
  <2>1. RowsTyped'
    BY <1>1, <1>3, FinishType DEF RowsTyped, Issue, InvoiceRow, InvoiceStatus
  <2>2. QED
    BY <1>2, <1>3, <2>1, FinishPicked DEF Issue
<1>4. CASE Edit(r)
  <2>1. RowsTyped'
    BY <1>1, <1>4, FinishType DEF RowsTyped, Edit, Edited, InvoiceRow
  <2>2. QED
    BY <1>2, <1>4, <2>1, FinishPicked DEF Edit
<1>5. CASE Cancel(r)
  <2>1. RowsTyped'
    BY <1>5, FinishType DEF RowsTyped, Cancel, InvoiceRow, InvoiceStatus
  <2>2. QED
    BY <1>2, <1>5, <2>1, FinishPicked DEF Cancel
<1>6. ASSUME NEW c \in Codes, ApplyCode(r, c)
      PROVE  inv' \in InvoiceRow /\ used' \subseteq Codes
  <2>1. Total(req[r].snap) \in Nat /\ inv \in InvoiceRow /\ used \subseteq Codes
    BY <1>1, TotalType DEF RowsTyped
  <2>2. ASSUME NEW net \in {req[r].snap.net, inv.net}, NEW off \in Nat
        PROVE  [inv EXCEPT !.net = net, !.disc = req[r].snap.disc + off] \in InvoiceRow
    <3>1. net \in Nat /\ req[r].snap.disc + off \in Nat
      BY <1>1, <2>1, <2>2 DEF InvoiceRow
    <3>2. QED
      BY <2>1, <3>1 DEF InvoiceRow
  <2>3. (IF Discount < Total(req[r].snap) THEN Discount ELSE Total(req[r].snap)) \in Nat
    BY <2>1, BoundAssumption
  <2>4. QED
    BY <1>6, <2>1, <2>2, <2>3 DEF ApplyCode
<1>7. CASE PublicDiscount(r)
  <2>1. RowsTyped'
    BY <1>6, <1>7, FinishType DEF RowsTyped, PublicDiscount
  <2>2. QED
    BY <1>2, <1>7, <2>1, FinishPicked DEF PublicDiscount
<1>8. CASE CheckoutDiscount(r)
  <2>1. inv' \in InvoiceRow /\ used' \subseteq Codes /\ UNCHANGED <<pay, lock>>
    BY <1>6, <1>8 DEF CheckoutDiscount
  <2>2. /\ req[r].pay \in Payments /\ pay'[req[r].pay] # NoRow
        /\ req' = [req EXCEPT ![r] = At("saveAmount", inv', req[r].pay)]
    BY <1>8, <2>1 DEF CheckoutDiscount, Picked, PaymentPlaces
  <2>3. req' \in [Requests -> Request] /\ Picked'
    BY <1>2, <2>1, <2>2, LoadedPicked DEF Places
  <2>4. QED
    BY <2>1, <2>3 DEF RowsTyped
<1>9. QED
  BY <1>3, <1>4, <1>5, <1>7, <1>8

\* The checkout page keeps the types.
LEMMA CheckoutType ==
  ASSUME TypeOK, NEW r \in Requests,
         InsertCheckout(r) \/ ShowCheckout(r) \/ StartPayment(r) \/ SaveAmount(r)
  PROVE  TypeOK'
<1> USE DEF TypeOK
<1>1. Total(req[r].snap) \in Nat /\ Total(inv) \in Nat
  BY TotalType DEF RowsTyped, Request
<1>2. CASE InsertCheckout(r)
  <2>1. PICK p \in Payments :
          /\ Insert(p, "checkout", "INITIATED", Total(req[r].snap))
          /\ req' = [req EXCEPT ![r] = At("checkoutReady", req[r].snap, p)]
    BY <1>2 DEF InsertCheckout
  <2>2. pay' \in [Payments -> PaymentRow \cup {NoRow}] /\ RowsKept /\ pay'[p] # NoRow
    BY <1>1, <2>1, InsertType DEF Kinds, PaymentStatus
  <2>3. req[r].snap \in InvoiceRow
    BY DEF RowsTyped, Request
  <2>4. req' \in [Requests -> Request] /\ Picked'
    BY <2>1, <2>2, <2>3, LoadedPicked DEF Places
  <2>5. QED
    BY <1>2, <2>2, <2>4 DEF RowsTyped, InsertCheckout
<1>3. CASE ShowCheckout(r)
  <2>1. RowsTyped' /\ RowsKept
    BY <1>3, FinishType DEF RowsTyped, ShowCheckout, RowsKept
  <2>2. QED
    BY <1>3, <2>1, FinishPicked DEF ShowCheckout
<1>4. CASE StartPayment(r)
  <2>1. pay' \in [Payments -> PaymentRow \cup {NoRow}] /\ RowsKept
    BY <1>1, <1>4, InsertType DEF StartPayment, Kinds, PaymentStatus
  <2>2. RowsTyped'
    BY <1>4, <2>1, FinishType DEF RowsTyped, StartPayment
  <2>3. QED
    BY <1>4, <2>1, <2>2, FinishPicked DEF StartPayment
<1>5. CASE SaveAmount(r)
  <2>1. req[r].pay \in Payments /\ pay[req[r].pay] # NoRow
    BY <1>5 DEF SaveAmount, Picked, PaymentPlaces
  <2>2. pay' \in [Payments -> PaymentRow \cup {NoRow}] /\ RowsKept
    BY <1>1, <1>5, <2>1 DEF SaveAmount, RowsTyped, PaymentRow, NoRow, Kinds, RowsKept
  <2>3. RowsTyped'
    BY <1>5, <2>2, FinishType DEF RowsTyped, SaveAmount
  <2>4. QED
    BY <1>5, <2>2, <2>3, FinishPicked DEF SaveAmount
<1>6. QED
  BY <1>2, <1>3, <1>4, <1>5

\* The gateway callback and the expiration keep the types.
LEMMA CallbackType ==
  ASSUME TypeOK, NEW r \in Requests,
         \/ IgnoreCallback(r) \/ RejectCallback(r) \/ VerifyCallback(r)
         \/ PayWithoutInvoice(r) \/ GoToInvoice(r) \/ SettleByCallback(r) \/ Expire(r)
  PROVE  TypeOK'
<1> USE DEF TypeOK
<1> DEFINE p == req[r].pay
<1>1. p \in Payments /\ pay[p] # NoRow
  BY DEF Picked, PaymentPlaces, IgnoreCallback, RejectCallback, VerifyCallback,
         PayWithoutInvoice, GoToInvoice, SettleByCallback, Expire
<1> HIDE DEF p
<1>2. ASSUME NEW status \in PaymentStatus, SetStatus(p, status)
      PROVE  pay' \in [Payments -> PaymentRow \cup {NoRow}] /\ RowsKept
  BY <1>1, <1>2, SetStatusType
<1>3. ASSUME UNCHANGED pay
      PROVE  pay' \in [Payments -> PaymentRow \cup {NoRow}] /\ RowsKept
  BY <1>3 DEF RowsTyped, RowsKept
<1>4. ASSUME Finish(r), RowsKept, pay' \in [Payments -> PaymentRow \cup {NoRow}],
             inv' \in InvoiceRow, used' = used, lock' \in [Rows -> Requests \cup {Free}]
      PROVE  TypeOK'
  <2>1. RowsTyped'
    BY <1>4, FinishType DEF RowsTyped
  <2>2. QED
    BY <1>4, <2>1, FinishPicked
<1>5. CASE IgnoreCallback(r)
  BY <1>3, <1>4, <1>5 DEF IgnoreCallback, RowsTyped
<1>6. CASE RejectCallback(r)
  BY <1>2, <1>4, <1>6 DEF RejectCallback, RowsTyped, PaymentStatus, p
<1>7. ASSUME NEW place \in PaymentPlaces \cap Places, Goto(r, place), UNCHANGED <<inv, pay, used>>,
             lock' \in [Rows -> Requests \cup {Free}], req[r].pc \in PaymentPlaces
      PROVE  TypeOK'
  <2>1. RowsTyped'
    BY <1>7, GotoType DEF RowsTyped
  <2>2. Picked'
    BY <1>3, <1>7, <2>1, PickedKept DEF Goto, RowsTyped, Request
  <2>3. QED
    BY <2>1, <2>2
<1>8. CASE VerifyCallback(r)
  BY <1>7, <1>8 DEF VerifyCallback, PaymentPlaces, Places, RowsTyped
<1>9. CASE GoToInvoice(r)
  BY <1>7, <1>9 DEF GoToInvoice, PaymentPlaces, Places, RowsTyped
<1>10. CASE PayWithoutInvoice(r)
  BY <1>2, <1>4, <1>10, ReleaseType DEF PayWithoutInvoice, RowsTyped, PaymentStatus, p
<1>11. CASE SettleByCallback(r)
  BY <1>1, <1>2, <1>3, <1>4, <1>11, ReleaseType, SettledType
     DEF SettleByCallback, RowsTyped, PaymentStatus, p
<1>12. CASE Expire(r)
  BY <1>2, <1>3, <1>4, <1>12 DEF Expire, RowsTyped, PaymentStatus, p
<1>13. QED
  BY <1>5, <1>6, <1>8, <1>9, <1>10, <1>11, <1>12

\* Both cash receipts and a deadlock's rollback keep the types.
LEMMA CashType ==
  ASSUME TypeOK, HeldRowsStand, NEW r \in Requests,
         \/ InsertOfficeCash(r) \/ SettleByOffice(r)
         \/ LockForCash(r) \/ LockSuperseded(r) \/ CommitTechCash(r) \/ Deadlock(r)
  PROVE  TypeOK'
<1> USE DEF TypeOK
<1>1. Total(req[r].snap) \in Nat /\ Total(inv) \in Nat /\ req[r].snap \in InvoiceRow
  BY TotalType DEF RowsTyped, Request
<1>2. CASE InsertOfficeCash(r)
  <2>1. PICK p \in Payments :
          /\ Insert(p, "officeCash", "PAID", Total(req[r].snap))
          /\ req' = [req EXCEPT ![r] = At("officePaid", req[r].snap, p)]
    BY <1>2 DEF InsertOfficeCash
  <2>2. pay' \in [Payments -> PaymentRow \cup {NoRow}] /\ RowsKept /\ pay'[p] # NoRow
    BY <1>1, <2>1, InsertType DEF Kinds, PaymentStatus
  <2>3. req' \in [Requests -> Request] /\ Picked'
    BY <1>1, <2>1, <2>2, LoadedPicked DEF Places
  <2>4. QED
    BY <1>2, <2>2, <2>3 DEF RowsTyped, InsertOfficeCash
<1>3. ASSUME Finish(r), RowsKept, pay' \in [Payments -> PaymentRow \cup {NoRow}],
             inv' \in InvoiceRow, used' = used, lock' \in [Rows -> Requests \cup {Free}]
      PROVE  TypeOK'
  <2>1. RowsTyped'
    BY <1>3, FinishType DEF RowsTyped
  <2>2. QED
    BY <1>3, <2>1, FinishPicked
<1>4. UNCHANGED pay => RowsKept
  BY DEF RowsKept
<1>5. CASE SettleByOffice(r)
  <2>1. req[r].pay \in Payments
    BY <1>5 DEF SettleByOffice, Picked, PaymentPlaces
  <2>2. QED
    BY <1>3, <1>4, <1>5, <2>1, SettledType DEF SettleByOffice, RowsTyped
<1>6. CASE LockForCash(r)
  <2>1. CASE TakesCash(inv)
    <3>1. Superseding(req[r].snap, OpenPayments) \in Request
      BY <1>1 DEF Superseding, Request, OpenPayments, Places
    <3>2. RowsTyped'
      BY <1>6, <2>1, <3>1 DEF LockForCash, RowsTyped, Rows
    <3>3. Picked'
      BY <1>4, <1>6, <2>1, <3>2, PickedKept
         DEF LockForCash, RowsTyped, Superseding, PaymentPlaces
    <3>4. QED
      BY <3>2, <3>3
  <2>2. CASE ~TakesCash(inv)
    BY <1>3, <1>4, <1>6, <2>2 DEF LockForCash, RowsTyped
  <2>3. QED
    BY <2>1, <2>2
<1>7. CASE LockSuperseded(r)
  <2>1. PICK p \in Payments : req' = [req EXCEPT ![r].todo = @ \ {p}]
    BY <1>7 DEF LockSuperseded
  <2>2. RowsTyped'
    <3>1. lock' \in [Rows -> Requests \cup {Free}] /\ UNCHANGED <<inv, pay, used>>
      BY <1>7 DEF LockSuperseded, RowsTyped
    <3>2. [req[r] EXCEPT !.todo = req[r].todo \ {p}] \in Request
      BY DEF RowsTyped, Request
    <3>3. req' \in [Requests -> Request]
      BY <2>1, <3>2 DEF RowsTyped
    <3>4. QED
      BY <3>1, <3>3 DEF RowsTyped
  <2>3. Picked'
    <3>1. req'[r].pc = "supersede" /\ \A q \in Requests \ {r} : req'[q] = req[q]
      BY <1>7, <2>1 DEF LockSuperseded, RowsTyped, Request
    <3>2. RowsKept
      BY <1>4, <1>7 DEF LockSuperseded, RowsKept
    <3>3. QED
      BY <2>2, <3>1, <3>2, PickedKept DEF PaymentPlaces
  <2>4. QED
    BY <2>2, <2>3
<1>8. CASE CommitTechCash(r)
  <2>1. PICK p \in Payments :
       /\ inv' = Settled(inv, p)
       /\ pay' = [q \in Payments |->
                    IF q = p
                      THEN [kind |-> "techCash", status |-> "PAID", amount |-> Total(inv)]
                    ELSE IF lock[q] = r THEN [pay[q] EXCEPT !.status = "CANCELLED"]
                    ELSE pay[q]]
    BY <1>8 DEF CommitTechCash
  <2>2. inv' \in InvoiceRow
    BY <2>1, SettledType DEF RowsTyped
  <2>3. \A q \in Payments : lock[q] = r => pay[q] # NoRow
    BY <1>8 DEF CommitTechCash, HeldRowsStand, NoRow, PaymentStatus
  <2>4. pay' \in [Payments -> PaymentRow \cup {NoRow}]
    BY <1>1, <2>1, <2>3 DEF RowsTyped, PaymentRow, Kinds, PaymentStatus
  <2>5. RowsKept
    <3>1. SUFFICES ASSUME NEW q \in Payments, pay[q] # NoRow PROVE pay'[q] # NoRow
      BY DEF RowsKept
    <3>2. pay'[q].kind = "techCash" \/ pay'[q].kind = pay[q].kind
      BY <2>1, <2>3 DEF RowsTyped, PaymentRow
    <3>3. pay[q].kind \in Kinds
      BY <3>1 DEF RowsTyped, PaymentRow
    <3>4. QED
      BY <3>2, <3>3 DEF Kinds, NoRow
  <2>6. QED
    BY <1>3, <1>8, <2>2, <2>4, <2>5, ReleaseType DEF CommitTechCash, RowsTyped
<1>9. CASE Deadlock(r)
  BY <1>3, <1>4, <1>9, ReleaseType DEF Deadlock, RowsTyped
<1>10. QED
  BY <1>2, <1>5, <1>6, <1>7, <1>8, <1>9

----------------------------------------------------------------------------
\* What a transaction holds stands until it commits.

\* A step of r that ends outside a transaction, and that writes only rows no
\* other transaction holds, leaves what the others hold as it is.
MayWrite(r, p) ==
  \/ pay[p].status = "none"
  \/ /\ lock[p] \in {Free, r}
     /\ \/ pay'[p].status \in PaymentStatus \ {"PAID"}
        \/ inv.status # "ISSUED"
        \/ lock[InvoiceLock] \in {Free, r}

QuietStep(r) ==
  /\ \A q \in Requests \ {r} : req'[q] = req[q]
  /\ req'[r].pc \notin InTransaction
  /\ \A x \in Rows : lock'[x] = IF lock[x] = r THEN Free ELSE lock[x]
  /\ inv' = inv \/ lock[InvoiceLock] \in {Free, r}
  /\ \A p \in Payments : pay'[p].status = pay[p].status \/ MayWrite(r, p)

\* A step that takes no lock, and respects those others hold, keeps what is held.
LEMMA QuietHeld ==
  ASSUME TypeOK, HeldRowsStand, NEW r \in Requests, QuietStep(r)
  PROVE  HeldRowsStand'
<1>1. \A x \in Rows : lock'[x] \in Requests => req'[lock'[x]].pc \in InTransaction
  BY DEF HeldRowsStand, QuietStep
<1>2. ASSUME NEW q \in Requests, req'[q].pc \in {"verified", "settling"}
      PROVE  /\ req'[q].pay \in Payments
             /\ lock'[req'[q].pay] = q
             /\ pay'[req'[q].pay].status = "PENDING"
  <2>1. q # r /\ req'[q] = req[q]
    BY <1>2 DEF QuietStep, InTransaction
  <2>2. /\ req[q].pay \in Payments
        /\ lock[req[q].pay] = q
        /\ pay[req[q].pay].status = "PENDING"
    BY <1>2, <2>1 DEF HeldRowsStand
  <2>3. ~MayWrite(r, req[q].pay)
    BY <2>1, <2>2 DEF MayWrite
  <2>4. QED
    BY <2>1, <2>2, <2>3 DEF QuietStep, Rows
<1>3. ASSUME NEW q \in Requests, req'[q].pc = "supersede"
      PROVE  /\ lock'[InvoiceLock] = q
             /\ TakesCash(inv')
             /\ \A p \in Payments : p \in req'[q].todo \/ lock'[p] = q
                  => pay'[p].status \in PaymentStatus \ {"PAID"}
  <2>1. q # r /\ req'[q] = req[q]
    BY <1>3 DEF QuietStep, InTransaction
  <2>2. /\ lock[InvoiceLock] = q
        /\ TakesCash(inv)
        /\ \A p \in Payments : p \in req[q].todo \/ lock[p] = q
             => pay[p].status \in PaymentStatus \ {"PAID"}
    BY <1>3, <2>1 DEF HeldRowsStand
  <2>3. inv' = inv /\ lock'[InvoiceLock] = q
    BY <2>1, <2>2 DEF QuietStep, Rows
  <2>4. ASSUME NEW p \in Payments, p \in req'[q].todo \/ lock'[p] = q
        PROVE  pay'[p].status \in PaymentStatus \ {"PAID"}
    <3>1. lock'[p] = q => lock[p] = q
      BY <2>1 DEF QuietStep, Rows
    <3>2. pay[p].status \in PaymentStatus \ {"PAID"}
      BY <2>1, <2>2, <2>4, <3>1
    <3>3. MayWrite(r, p) => pay'[p].status \in PaymentStatus \ {"PAID"}
      BY <2>1, <2>2, <3>2 DEF MayWrite, TakesCash, PaymentStatus
    <3>4. QED
      BY <3>2, <3>3 DEF QuietStep
  <2>5. QED
    BY <2>2, <2>3, <2>4
<1>4. QED
  BY <1>1, <1>2, <1>3 DEF HeldRowsStand, TakesCash

\* A request outside a transaction holds no lock.
LEMMA HoldsNothing ==
  ASSUME HeldRowsStand, NEW r \in Requests, req[r].pc \notin InTransaction
  PROVE  \A x \in Rows : lock[x] # r
  BY DEF HeldRowsStand

\* A request that ends holding nothing takes no lock.
LEMMA FinishQuiet ==
  ASSUME TypeOK, NEW r \in Requests, Finish(r)
  PROVE  (\A q \in Requests \ {r} : req'[q] = req[q]) /\ req'[r].pc \notin InTransaction
  BY DEF TypeOK, RowsTyped, Finish, Idle, At, InTransaction

\* Beginning a request takes no lock.
LEMMA BeginHeld ==
  ASSUME TypeOK, HeldRowsStand, NEW r \in Requests, Begin(r)
  PROVE  HeldRowsStand'
<1>1. UNCHANGED <<inv, pay, used, lock>> /\ req[r].pc = "idle"
  BY DEF Begin, BeginIssue, BeginEdit, BeginCancel, BeginDiscount, BeginOfficeCash, MayBegin,
         BeginTechCash, LoadInvoice, BeginCheckout, BeginCallback, BeginExpire
<1>2. ASSUME NEW place \in Places \ InTransaction, NEW snap \in InvoiceRow,
             NEW p \in {0} \cup Payments, req' = [req EXCEPT ![r] = At(place, snap, p)]
      PROVE  HeldRowsStand'
  <2>1. QuietStep(r)
    BY <1>1, <1>2, HoldsNothing DEF QuietStep, TypeOK, RowsTyped, At, InTransaction
  <2>2. QED
    BY <2>1, QuietHeld
<1>3. inv \in InvoiceRow /\ NewDraft(0) \in InvoiceRow
  BY NewDraftType DEF TypeOK, RowsTyped
<1>4. ASSUME NEW place \in Places \ InTransaction, LoadInvoice(r, place)
      PROVE  HeldRowsStand'
  BY <1>2, <1>3, <1>4 DEF LoadInvoice
<1>5. ASSUME BeginCheckout(r) PROVE HeldRowsStand'
  <2>1. PICK p \in {0} \cup Payments : req' = [req EXCEPT ![r] =
               At(IF OpenPayments = {} THEN "checkout" ELSE "checkoutReady", inv, p)]
    BY <1>5 DEF BeginCheckout
  <2>2. QED
    BY <1>2, <1>3, <2>1 DEF Places, InTransaction
<1>6. ASSUME BeginCallback(r) PROVE HeldRowsStand'
  <2>1. PICK p \in Payments : req' = [req EXCEPT ![r] = At("callback", NewDraft(0), p)]
    BY <1>6 DEF BeginCallback
  <2>2. QED
    BY <1>2, <1>3, <2>1 DEF Places, InTransaction
<1>7. ASSUME BeginExpire(r) PROVE HeldRowsStand'
  <2>1. PICK p \in Payments : req' = [req EXCEPT ![r] = At("expire", NewDraft(0), p)]
    BY <1>7 DEF BeginExpire
  <2>2. QED
    BY <1>2, <1>3, <2>1 DEF Places, InTransaction
<1>8. QED
  BY <1>4, <1>5, <1>6, <1>7
     DEF Begin, BeginIssue, BeginEdit, BeginCancel, BeginDiscount, BeginOfficeCash,
         BeginTechCash, Places, InTransaction

\* The steps of a request, one by one.
LEMMA StepHeld ==
  ASSUME TypeOK, HeldRowsStand, NEW r \in Requests, Step(r)
  PROVE  HeldRowsStand'
<1>1. ASSUME Finish(r), req[r].pc \notin InTransaction, UNCHANGED lock,
             inv' = inv \/ lock[InvoiceLock] = Free,
             \A p \in Payments : pay'[p].status = pay[p].status \/ MayWrite(r, p)
      PROVE  HeldRowsStand'
  <2>1. QuietStep(r)
    BY <1>1, HoldsNothing, FinishQuiet DEF QuietStep
  <2>2. QED
    BY <2>1, QuietHeld
<1>2. ASSUME Issue(r) \/ Edit(r) \/ Cancel(r) \/ PublicDiscount(r) \/ ShowCheckout(r)
             \/ SettleByOffice(r) \/ IgnoreCallback(r)
      PROVE  HeldRowsStand'
  BY <1>1, <1>2
     DEF Issue, Edit, Cancel, PublicDiscount, ApplyCode, ShowCheckout, SettleByOffice,
         IgnoreCallback, InTransaction
<1>3. ASSUME RejectCallback(r) \/ Expire(r) PROVE HeldRowsStand'
  <2>1. \A p \in Payments : pay'[p].status = pay[p].status \/ MayWrite(r, p)
    BY <1>3 DEF RejectCallback, Expire, SetStatus, MayWrite, PaymentStatus, TypeOK, RowsTyped,
                PaymentRow, NoRow
  <2>2. QED
    BY <1>1, <1>3, <2>1 DEF RejectCallback, Expire, InTransaction
<1>4. ASSUME StartPayment(r) PROVE HeldRowsStand'
  <2>1. \A p \in Payments : pay'[p].status = pay[p].status \/ MayWrite(r, p)
    BY <1>4 DEF StartPayment, Insert, Fresh, NoRow, MayWrite, TypeOK, RowsTyped
  <2>2. QED
    BY <1>1, <1>4, <2>1 DEF StartPayment, InTransaction
<1>5. ASSUME SaveAmount(r) PROVE HeldRowsStand'
  <2>1. \A p \in Payments : pay'[p].status = pay[p].status
    BY <1>5 DEF SaveAmount, TypeOK, RowsTyped, PaymentRow, NoRow
  <2>2. QED
    BY <1>1, <1>5, <2>1 DEF SaveAmount, InTransaction
<1>16. ASSUME Refresh(r) PROVE HeldRowsStand'
  <2>1. QuietStep(r)
    BY <1>16, RefreshKeeps, HoldsNothing DEF QuietStep, InTransaction, TypeOK
  <2>2. QED
    BY <2>1, QuietHeld
<1>6. ASSUME CheckoutDiscount(r) \/ InsertCheckout(r) \/ InsertOfficeCash(r)
      PROVE  HeldRowsStand'
  <2>1. \A p \in Payments : pay'[p].status = pay[p].status \/ MayWrite(r, p)
    BY <1>6 DEF CheckoutDiscount, InsertCheckout, InsertOfficeCash, Insert, Fresh, NoRow,
                MayWrite, TypeOK, RowsTyped
  <2>2. /\ \A q \in Requests \ {r} : req'[q] = req[q]
        /\ req'[r].pc \in {"saveAmount", "checkoutReady", "officePaid"}
        /\ req[r].pc \in {"checkoutReady", "checkout", "officeCash"}
    BY <1>6 DEF CheckoutDiscount, InsertCheckout, InsertOfficeCash, Goto, At, TypeOK, RowsTyped,
                Request
  <2>3. UNCHANGED lock /\ (inv' = inv \/ lock[InvoiceLock] = Free)
    BY <1>6 DEF CheckoutDiscount, ApplyCode, InsertCheckout, InsertOfficeCash
  <2>4. QuietStep(r)
    BY <2>1, <2>2, <2>3, HoldsNothing DEF QuietStep, InTransaction
  <2>5. QED
    BY <2>4, QuietHeld
<1>7. ASSUME Finish(r), Release(r), inv' = inv \/ lock[InvoiceLock] \in {Free, r},
             \A p \in Payments : pay'[p].status = pay[p].status \/ MayWrite(r, p)
      PROVE  HeldRowsStand'
  <2>1. QuietStep(r)
    BY <1>7, FinishQuiet DEF QuietStep, Release
  <2>2. QED
    BY <2>1, QuietHeld
<1>8. ASSUME PayWithoutInvoice(r) \/ SettleByCallback(r) PROVE HeldRowsStand'
  <2>1. lock[req[r].pay] = r
    BY <1>8 DEF PayWithoutInvoice, SettleByCallback, HeldRowsStand
  <2>2. \A p \in Payments : pay'[p].status = pay[p].status \/ MayWrite(r, p)
    BY <1>8, <2>1 DEF PayWithoutInvoice, SettleByCallback, SetStatus, MayWrite, TypeOK,
                      RowsTyped, PaymentRow, NoRow
  <2>3. QED
    BY <1>7, <1>8, <2>2 DEF PayWithoutInvoice, SettleByCallback
<1>9. ASSUME CommitTechCash(r) PROVE HeldRowsStand'
  <2>1. lock[InvoiceLock] = r
    BY <1>9 DEF CommitTechCash, HeldRowsStand
  <2>2. \A p \in Payments : pay'[p].status = pay[p].status \/ MayWrite(r, p)
    BY <1>9, <2>1 DEF CommitTechCash, Fresh, NoRow, MayWrite, PaymentStatus
  <2>3. QED
    BY <1>7, <1>9, <2>1, <2>2 DEF CommitTechCash
<1>10. ASSUME Deadlock(r) PROVE HeldRowsStand'
  BY <1>7, <1>10 DEF Deadlock
<1>11. ASSUME VerifyCallback(r) PROVE HeldRowsStand'
  <2> DEFINE p == req[r].pay
  <2>1. p \in Payments /\ lock[p] = Free /\ pay[p].status = "PENDING" /\ req[r].pc = "callback"
    BY <1>11 DEF VerifyCallback, TypeOK, Picked, PaymentPlaces
  <2>2. /\ UNCHANGED <<inv, pay>>
        /\ lock' = [lock EXCEPT ![p] = r]
        /\ req' = [req EXCEPT ![r].pc = "verified"]
    BY <1>11 DEF VerifyCallback, Goto
  <2>3. req'[r].pc = "verified" /\ req'[r].pay = p /\ \A q \in Requests \ {r} : req'[q] = req[q]
    BY <2>2 DEF TypeOK, RowsTyped, Request
  <2>4. lock'[p] = r /\ \A x \in Rows \ {p} : lock'[x] = lock[x]
    BY <2>1, <2>2 DEF TypeOK, RowsTyped, Rows
  <2> HIDE DEF p
  <2>5. \A x \in Rows : lock[x] # r
    BY <2>1, HoldsNothing DEF InTransaction
  <2>6. \A x \in Rows : lock'[x] \in Requests => req'[lock'[x]].pc \in InTransaction
    BY <2>3, <2>4 DEF HeldRowsStand, InTransaction
  <2>7. ASSUME NEW q \in Requests, req'[q].pc \in {"verified", "settling"}
        PROVE  /\ req'[q].pay \in Payments
               /\ lock'[req'[q].pay] = q
               /\ pay'[req'[q].pay].status = "PENDING"
    BY <2>1, <2>2, <2>3, <2>4, <2>7 DEF HeldRowsStand, Rows
  <2>8. ASSUME NEW q \in Requests, req'[q].pc = "supersede"
        PROVE  /\ lock'[InvoiceLock] = q
               /\ TakesCash(inv')
               /\ \A x \in Payments : x \in req'[q].todo \/ lock'[x] = q
                    => pay'[x].status \in PaymentStatus \ {"PAID"}
    <3>1. q # r /\ req'[q] = req[q] /\ p # InvoiceLock
      BY <2>1, <2>3, <2>8, InvoiceLockApart
    <3>2. QED
      BY <2>1, <2>2, <2>3, <2>4, <2>8, <3>1 DEF HeldRowsStand, Rows
  <2>9. QED
    BY <2>6, <2>7, <2>8 DEF HeldRowsStand, TakesCash
<1>12. ASSUME GoToInvoice(r) PROVE HeldRowsStand'
  <2>1. /\ UNCHANGED <<inv, pay, lock>>
        /\ req[r].pc = "verified" /\ req'[r].pc = "settling" /\ req'[r].pay = req[r].pay
        /\ \A q \in Requests \ {r} : req'[q] = req[q]
    BY <1>12 DEF GoToInvoice, Goto, TypeOK, RowsTyped, Request
  <2>2. QED
    BY <2>1 DEF HeldRowsStand, InTransaction, TakesCash
<1>13. ASSUME LockForCash(r) PROVE HeldRowsStand'
  <2>1. CASE ~TakesCash(inv)
    BY <1>1, <1>13, <2>1 DEF LockForCash, InTransaction
  <2>2. CASE TakesCash(inv)
    <3>1. /\ UNCHANGED <<inv, pay>>
          /\ lock[InvoiceLock] = Free /\ req[r].pc = "techCash"
          /\ lock'[InvoiceLock] = r /\ \A x \in Payments : lock'[x] = lock[x]
          /\ req'[r].pc = "supersede" /\ req'[r].todo = OpenPayments
          /\ \A q \in Requests \ {r} : req'[q] = req[q]
      BY <1>13, <2>2, InvoiceLockApart DEF LockForCash, Superseding, TypeOK, RowsTyped, Rows
    <3>2. \A x \in Payments : lock[x] # r
      BY <3>1, HoldsNothing DEF InTransaction, Rows
    <3>3. \A q \in Requests : req[q].pc # "supersede"
      BY <3>1 DEF HeldRowsStand
    <3>4. \A x \in OpenPayments : pay[x].status \in PaymentStatus \ {"PAID"}
      BY DEF OpenPayments, OpenStatus, PaymentStatus
    <3>5. \A x \in Rows : lock'[x] \in Requests => req'[lock'[x]].pc \in InTransaction
      BY <3>1 DEF HeldRowsStand, InTransaction, Rows
    <3>6. QED
      BY <2>2, <3>1, <3>2, <3>3, <3>4, <3>5 DEF HeldRowsStand, TakesCash
  <2>3. QED
    BY <2>1, <2>2
<1>14. ASSUME LockSuperseded(r) PROVE HeldRowsStand'
  <2>1. PICK p \in Payments :
          /\ IsLatest(p, req[r].todo)
          /\ lock[p] = Free
          /\ lock' = [lock EXCEPT ![p] = r]
          /\ req' = [req EXCEPT ![r].todo = @ \ {p}]
    BY <1>14 DEF LockSuperseded
  <2>2. /\ UNCHANGED <<inv, pay>> /\ p \in req[r].todo
        /\ req[r].pc = "supersede" /\ req'[r].pc = "supersede" /\ req'[r].todo \subseteq req[r].todo
        /\ \A q \in Requests \ {r} : req'[q] = req[q]
    BY <1>14, <2>1 DEF LockSuperseded, IsLatest, TypeOK, RowsTyped, Request
  <2>3. lock'[p] = r /\ \A x \in Rows \ {p} : lock'[x] = lock[x]
    BY <2>1 DEF TypeOK, RowsTyped, Rows
  <2>4. \A x \in Rows : lock'[x] \in Requests => req'[lock'[x]].pc \in InTransaction
    BY <2>2, <2>3 DEF HeldRowsStand, InTransaction
  <2>5. ASSUME NEW q \in Requests, req'[q].pc \in {"verified", "settling"}
        PROVE  /\ req'[q].pay \in Payments
               /\ lock'[req'[q].pay] = q
               /\ pay'[req'[q].pay].status = "PENDING"
    <3>1. q # r /\ req'[q] = req[q]
      BY <2>2, <2>5
    <3>2. QED
      BY <2>1, <2>2, <2>3, <2>5, <3>1 DEF HeldRowsStand, Rows
  <2>6. ASSUME NEW q \in Requests, req'[q].pc = "supersede"
        PROVE  /\ lock'[InvoiceLock] = q
               /\ TakesCash(inv')
               /\ \A x \in Payments : x \in req'[q].todo \/ lock'[x] = q
                    => pay'[x].status \in PaymentStatus \ {"PAID"}
    <3>1. req[q].pc = "supersede" /\ req'[q].todo \subseteq req[q].todo
      BY <2>2, <2>6
    <3>2. p # InvoiceLock /\ InvoiceLock \in Rows
      BY InvoiceLockApart
    <3>3. QED
      BY <2>2, <2>3, <3>1, <3>2 DEF HeldRowsStand, Rows
  <2>7. QED
    BY <2>4, <2>5, <2>6 DEF HeldRowsStand, TakesCash
<1>15. QED
  BY <1>2, <1>3, <1>4, <1>5, <1>6, <1>8, <1>9, <1>10, <1>11, <1>12, <1>13, <1>14, <1>16 DEF Step

----------------------------------------------------------------------------
\* The theorems

Safe == TypeOK /\ HeldRowsStand

\* Nothing is locked at the start.
LEMMA InitSafe == Init => Safe
<1>1. Init => HeldRowsStand
  BY InvoiceLockApart DEF Init, HeldRowsStand, Idle, At
<1>2. QED
  BY <1>1, InitType DEF Safe

\* TypeOK and HeldRowsStand together are inductive.
LEMMA NextSafe == Safe /\ [Next]_vars => Safe'
<1> SUFFICES ASSUME Safe, [Next]_vars PROVE Safe'
  OBVIOUS
<1> USE DEF Safe
<1>1. ASSUME NEW r \in Requests, Begin(r) PROVE Safe'
  BY <1>1, BeginType, BeginHeld
<1>2. ASSUME NEW r \in Requests, Step(r) PROVE Safe'
  BY <1>2, OfficeType, CheckoutType, RefreshType, CallbackType, CashType, StepHeld DEF Step
<1>3. CASE UNCHANGED vars
  BY <1>3 DEF vars, TypeOK, RowsTyped, Picked, HeldRowsStand, TakesCash
<1>4. QED
  BY <1>1, <1>2, <1>3 DEF Next

\* Rows and requests keep their shape, and a request works on payments that exist.
THEOREM TypeCorrect == Spec => []TypeOK
<1>1. Safe => TypeOK
  BY DEF Safe
<1>2. QED
  BY <1>1, InitSafe, NextSafe, PTL DEF Spec

\* What a callback or a cash receipt has locked stands until it commits.
THEOREM HeldRows == Spec => []HeldRowsStand
<1>1. Safe => HeldRowsStand
  BY DEF Safe
<1>2. QED
  BY <1>1, InitSafe, NextSafe, PTL DEF Spec

\* No step takes a payment out of PAID.
LEMMA PaidKept ==
  ASSUME Safe, [Next]_vars, NEW p \in Payments, pay[p].status = "PAID"
  PROVE  pay'[p].status = "PAID"
<1> USE DEF Safe, TypeOK
<1>1. ASSUME NEW r \in Requests, Begin(r) PROVE pay' = pay
  BY <1>1 DEF Begin, BeginIssue, BeginEdit, BeginCancel, BeginDiscount, BeginOfficeCash,
         BeginTechCash, LoadInvoice, BeginCheckout, BeginCallback, BeginExpire
<1>2. ASSUME NEW r \in Requests, Step(r) PROVE pay'[p].status = "PAID"
  <2>1. ASSUME InsertCheckout(r) \/ StartPayment(r) \/ InsertOfficeCash(r)
        PROVE  pay'[p].status = "PAID"
    BY <2>1 DEF InsertCheckout, StartPayment, InsertOfficeCash, Fresh, NoRow, Insert, RowsTyped
  <2>2. ASSUME SaveAmount(r) PROVE pay'[p].status = "PAID"
    BY <2>2 DEF SaveAmount, RowsTyped, PaymentRow, NoRow
  <2>3. ASSUME RejectCallback(r) \/ PayWithoutInvoice(r) \/ SettleByCallback(r) \/ Expire(r)
        PROVE  pay'[p].status = "PAID"
    BY <2>3 DEF RejectCallback, PayWithoutInvoice, SettleByCallback, Expire, SetStatus, StillOpen,
                OpenStatus, RowsTyped, PaymentRow, NoRow
  <2>4. ASSUME CommitTechCash(r) PROVE pay'[p].status = "PAID"
    BY <2>4 DEF CommitTechCash, HeldRowsStand, Fresh, NoRow
  <2>5. QED
    BY <1>2, <2>1, <2>2, <2>3, <2>4
       DEF Step, Issue, Edit, Cancel, PublicDiscount, ShowCheckout, CheckoutDiscount,
           IgnoreCallback, VerifyCallback, GoToInvoice, SettleByOffice, LockForCash,
           LockSuperseded, Deadlock, Refresh
<1>3. CASE UNCHANGED vars
  BY <1>3 DEF vars
<1>4. QED
  BY <1>1, <1>2, <1>3 DEF Next

\* Once PAID, a payment stays PAID, whatever callback, expiration or cash
\* receipt runs beside it.
THEOREM PaidStaysPaid == Spec => PaidIsFinal
<1>1. Safe /\ [Next]_vars
        => [\A p \in Payments : pay[p].status = "PAID" => pay'[p].status = "PAID"]_vars
  BY PaidKept
<1>2. QED
  BY <1>1, InitSafe, NextSafe, PTL DEF Spec, PaidIsFinal

\* What is known of an invoice row, the committed one and every copy a request
\* has loaded: an edit may still write the whole copy back.
Sound(i) ==
  /\ i.settled => i.by \in Payments /\ pay[i.by].status = "PAID"
  /\ i.status = "PAID" => i.settled
  /\ i.status = "DRAFT" => i.by = 0 /\ ~i.settled

SoundRows ==
  /\ Sound(inv)
  /\ \A r \in Requests : Sound(req[r].snap)
  /\ \A r \in Requests : req[r].pc = "edit" => req[r].snap.status = "DRAFT"
  /\ \A r \in Requests : req[r].pc = "officePaid" => pay[req[r].pay].status = "PAID"

\* A copy stays sound, because a PAID payment stays PAID.
LEMMA SoundKept ==
  ASSUME Safe, [Next]_vars, NEW i, Sound(i)
  PROVE  Sound(i)'
  BY PaidKept DEF Sound

\* A settlement by a PAID payment gives a sound row.
LEMMA SettledSound ==
  ASSUME NEW i \in InvoiceRow, NEW p \in Payments, pay'[p].status = "PAID"
  PROVE  Sound(Settled(i, p))'
  BY DEF Sound, Settled, InvoiceRow

\* No step leaves the committed row unsound.
LEMMA InvoiceSound ==
  ASSUME Safe, SoundRows, [Next]_vars
  PROVE  Sound(inv)'
<1> USE DEF Safe, TypeOK
<1>0. inv \in InvoiceRow /\ \A r \in Requests : req[r].snap \in InvoiceRow
  BY DEF RowsTyped, Request
<1>1. ASSUME UNCHANGED inv PROVE Sound(inv)'
  BY <1>1, SoundKept DEF SoundRows, Sound
<1>2. ASSUME NEW r \in Requests, Begin(r) PROVE Sound(inv)'
  BY <1>1, <1>2 DEF Begin, BeginIssue, BeginEdit, BeginCancel, BeginDiscount, BeginOfficeCash,
         BeginTechCash, LoadInvoice, BeginCheckout, BeginCallback, BeginExpire
<1>3. ASSUME NEW r \in Requests, Step(r) PROVE Sound(inv)'
  <2>1. ASSUME inv'.status \in {inv.status, "ISSUED", "CANCELLED"},
               inv'.settled = inv.settled, inv'.by = inv.by
        PROVE  Sound(inv)'
    BY <2>1, SoundKept DEF SoundRows, Sound
  <2>2. ASSUME Issue(r) \/ Cancel(r) PROVE Sound(inv)'
    BY <1>0, <2>1, <2>2 DEF Issue, Cancel, InvoiceRow
  <2>3. ASSUME Edit(r) PROVE Sound(inv)'
    <3>1. req[r].snap.status = "DRAFT" /\ Sound(req[r].snap)
      BY <2>3 DEF Edit, SoundRows
    <3>2. inv'.status = "DRAFT" /\ inv'.by = 0 /\ ~inv'.settled
      BY <1>0, <2>3, <3>1 DEF Edit, Edited, InvoiceRow, Sound
    <3>3. QED
      BY <3>2 DEF Sound
  <2>4. ASSUME PublicDiscount(r) \/ CheckoutDiscount(r) PROVE Sound(inv)'
    BY <1>0, <2>1, <2>4 DEF PublicDiscount, CheckoutDiscount, ApplyCode, InvoiceRow
  <2>5. ASSUME SettleByCallback(r) PROVE Sound(inv)'
    <3>1. req[r].pay \in Payments
      BY <2>5 DEF SettleByCallback, Picked, PaymentPlaces
    <3>2. CASE Settleable(inv, pay[req[r].pay].amount)
      <4>1. inv' = Settled(inv, req[r].pay) /\ pay'[req[r].pay].status = "PAID"
        BY <2>5, <3>1, <3>2 DEF SettleByCallback, SetStatus, RowsTyped, PaymentRow, NoRow
      <4>2. QED
        BY <1>0, <3>1, <4>1, SettledSound DEF Sound
    <3>3. CASE ~Settleable(inv, pay[req[r].pay].amount)
      BY <1>1, <2>5, <3>3 DEF SettleByCallback
    <3>4. QED
      BY <3>2, <3>3
  <2>6. ASSUME SettleByOffice(r) PROVE Sound(inv)'
    <3>1. req[r].pay \in Payments /\ pay'[req[r].pay].status = "PAID"
      BY <2>6 DEF SettleByOffice, Picked, PaymentPlaces, SoundRows
    <3>2. inv' = Settled(inv, req[r].pay) => Sound(inv)'
      BY <1>0, <3>1, SettledSound DEF Sound
    <3>3. QED
      BY <1>1, <2>6, <3>2 DEF SettleByOffice
  <2>7. ASSUME CommitTechCash(r) PROVE Sound(inv)'
    <3>1. PICK p \in Payments : inv' = Settled(inv, p) /\ pay'[p].status = "PAID"
      BY <2>7 DEF CommitTechCash
    <3>2. QED
      BY <1>0, <3>1, SettledSound DEF Sound
  <2>8. QED
    BY <1>1, <1>3, <2>2, <2>3, <2>4, <2>5, <2>6, <2>7
       DEF Step, InsertCheckout, StartPayment, InsertOfficeCash, SaveAmount, RejectCallback,
           PayWithoutInvoice, Expire, ShowCheckout, IgnoreCallback, VerifyCallback, GoToInvoice,
           LockForCash, LockSuperseded, Deadlock, Refresh
<1>4. CASE UNCHANGED vars
  BY <1>1, <1>4 DEF vars
<1>5. QED
  BY <1>2, <1>3, <1>4 DEF Next

\* A request that begins copies the committed row; one that edits copies a draft.
LEMMA BeginCopies ==
  ASSUME RowsTyped, NEW r \in Requests, Begin(r)
  PROVE  /\ \A q \in Requests \ {r} : req'[q] = req[q]
         /\ req'[r].snap \in {inv, NewDraft(0)}
         /\ req'[r].pc # "officePaid"
         /\ req'[r].pc = "edit" => req'[r].snap.status = "DRAFT"
<1>1. ASSUME NEW place \in Places \ {"officePaid"}, LoadInvoice(r, place),
             place = "edit" => Admits(place) = {"DRAFT"}
      PROVE  /\ \A q \in Requests \ {r} : req'[q] = req[q]
             /\ req'[r].snap = inv
             /\ req'[r].pc = place
             /\ place = "edit" => inv.status = "DRAFT"
  BY <1>1 DEF LoadInvoice, At, RowsTyped
<1>2. Admits("edit") = {"DRAFT"}
  BY DEF Admits
<1>3. ASSUME BeginCheckout(r) \/ BeginCallback(r) \/ BeginExpire(r)
      PROVE  /\ \A q \in Requests \ {r} : req'[q] = req[q]
             /\ req'[r].snap \in {inv, NewDraft(0)}
             /\ req'[r].pc \in {"checkout", "checkoutReady", "callback", "expire"}
  BY <1>3 DEF BeginCheckout, BeginCallback, BeginExpire, At, RowsTyped
<1>4. CASE BeginIssue(r)
  BY <1>1, <1>4 DEF BeginIssue, Places
<1>5. CASE BeginEdit(r)
  BY <1>1, <1>2, <1>5 DEF BeginEdit, Places
<1>6. CASE BeginCancel(r)
  BY <1>1, <1>6 DEF BeginCancel, Places
<1>7. CASE BeginDiscount(r)
  BY <1>1, <1>7 DEF BeginDiscount, Places
<1>8. CASE BeginOfficeCash(r)
  BY <1>1, <1>8 DEF BeginOfficeCash, Places
<1>9. CASE BeginTechCash(r)
  BY <1>1, <1>9 DEF BeginTechCash, Places
<1>10. QED
  BY <1>3, <1>4, <1>5, <1>6, <1>7, <1>8, <1>9 DEF Begin

\* Two copies alike in all that Sound speaks of.
Alike(i, j) == i.status = j.status /\ i.settled = j.settled /\ i.by = j.by

\* A step keeps a request's copy, reads it anew or drops it, and only the office's
\* insertion of a PAID payment leads to the settlement by the office.
LEMMA StepCopies ==
  ASSUME RowsTyped, NEW r \in Requests, Step(r)
  PROVE  /\ \A q \in Requests \ {r} : req'[q] = req[q]
         /\ \E i \in {req[r].snap, inv', NewDraft(0)} : Alike(req'[r].snap, i)
         /\ req'[r].pc # "edit"
         /\ req'[r].pc = "officePaid" => pay'[req'[r].pay].status = "PAID"
<1>1. req[r] \in Request /\ r \in DOMAIN req
  BY DEF RowsTyped
<1>2. ASSUME Finish(r)
      PROVE  /\ \A q \in Requests \ {r} : req'[q] = req[q]
             /\ req'[r].snap = NewDraft(0) /\ req'[r].pc = "idle"
  BY <1>1, <1>2 DEF Finish, Idle, At
<1>3. ASSUME NEW place, Goto(r, place)
      PROVE  /\ \A q \in Requests \ {r} : req'[q] = req[q]
             /\ req'[r].snap = req[r].snap /\ req'[r].pc = place
  BY <1>1, <1>3 DEF Goto, Request, RowsTyped
<1>4. ASSUME VerifyCallback(r) \/ GoToInvoice(r)
      PROVE  /\ \A q \in Requests \ {r} : req'[q] = req[q]
             /\ req'[r].snap = req[r].snap
             /\ req'[r].pc \in {"verified", "settling"}
  BY <1>3, <1>4 DEF VerifyCallback, GoToInvoice
<1>11. ASSUME CheckoutDiscount(r)
      PROVE  /\ \A q \in Requests \ {r} : req'[q] = req[q]
             /\ req'[r].snap = inv' /\ req'[r].pc = "saveAmount"
  BY <1>1, <1>11 DEF CheckoutDiscount, At, RowsTyped
<1>12. ASSUME Refresh(r)
      PROVE  /\ \A q \in Requests \ {r} : req'[q] = req[q]
             /\ \E i \in {req[r].snap, inv'} : Alike(req'[r].snap, i)
             /\ req'[r].pc \in {"issue", "saveAmount"}
  <2>1. /\ \A q \in Requests \ {r} : req'[q] = req[q]
        /\ req'[r].snap \in {inv, [req[r].snap EXCEPT !.net = inv.net]}
        /\ req'[r].pc \in {"issue", "saveAmount"} /\ inv' = inv
    BY <1>12, RefreshKeeps
  <2>2. Alike([req[r].snap EXCEPT !.net = inv.net], req[r].snap)
    BY <1>1 DEF Alike, Request, InvoiceRow
  <2>3. QED
    BY <2>1, <2>2 DEF Alike
<1>5. ASSUME InsertCheckout(r)
      PROVE  /\ \A q \in Requests \ {r} : req'[q] = req[q]
             /\ req'[r].snap = req[r].snap /\ req'[r].pc = "checkoutReady"
  BY <1>1, <1>5 DEF InsertCheckout, At, RowsTyped
<1>6. ASSUME InsertOfficeCash(r)
      PROVE  /\ \A q \in Requests \ {r} : req'[q] = req[q]
             /\ req'[r].snap = req[r].snap /\ req'[r].pc = "officePaid"
             /\ pay'[req'[r].pay].status = "PAID"
  BY <1>1, <1>6 DEF InsertOfficeCash, Insert, At, RowsTyped
<1>7. ASSUME LockForCash(r)
      PROVE  /\ \A q \in Requests \ {r} : req'[q] = req[q]
             /\ req'[r].snap \in {req[r].snap, NewDraft(0)}
             /\ req'[r].pc \in {"supersede", "idle"}
  <2>1. CASE TakesCash(inv)
    BY <1>1, <1>7, <2>1 DEF LockForCash, Superseding, RowsTyped
  <2>2. CASE ~TakesCash(inv)
    BY <1>2, <1>7, <2>2 DEF LockForCash
  <2>3. QED
    BY <2>1, <2>2
<1>8. ASSUME LockSuperseded(r)
      PROVE  /\ \A q \in Requests \ {r} : req'[q] = req[q]
             /\ req'[r].snap = req[r].snap /\ req'[r].pc = "supersede"
  BY <1>1, <1>8 DEF LockSuperseded, Request, RowsTyped
<1>9. Finish(r) \/ CheckoutDiscount(r) \/ VerifyCallback(r) \/ GoToInvoice(r)
        \/ InsertCheckout(r) \/ InsertOfficeCash(r) \/ LockForCash(r) \/ LockSuperseded(r)
        \/ Refresh(r)
  BY DEF Step, Issue, Edit, Cancel, PublicDiscount, ShowCheckout, StartPayment, SaveAmount,
         IgnoreCallback, RejectCallback, PayWithoutInvoice, SettleByCallback, Expire,
         SettleByOffice, CommitTechCash, Deadlock
<1>10. QED
  BY <1>2, <1>4, <1>5, <1>6, <1>7, <1>8, <1>9, <1>11, <1>12 DEF Alike

\* The copies stay sound, an edit's copy is the draft its view loaded, and the
\* payment the office has inserted is still PAID when it settles the invoice.
LEMMA NextSound == Safe /\ SoundRows /\ [Next]_vars => SoundRows'
<1> SUFFICES ASSUME Safe, SoundRows, [Next]_vars PROVE SoundRows'
  OBVIOUS
<1> USE DEF Safe, TypeOK
<1>1. Sound(inv)'
  BY InvoiceSound
<1>2. ASSUME NEW r \in Requests,
             \A q \in Requests \ {r} : req'[q] = req[q],
             \E i \in {req[r].snap, inv', NewDraft(0)} : Alike(req'[r].snap, i),
             req'[r].pc = "edit" => req'[r].snap.status = "DRAFT",
             req'[r].pc = "officePaid" => pay'[req'[r].pay].status = "PAID"
      PROVE  SoundRows'
  <2> DEFINE Stays(i) == /\ i.settled => i.by \in Payments /\ pay'[i.by].status = "PAID"
                         /\ i.status = "PAID" => i.settled
                         /\ i.status = "DRAFT" => i.by = 0 /\ ~i.settled
  <2>1. \A q \in Requests : Stays(req[q].snap)
    BY PaidKept DEF SoundRows, Sound
  <2>6. Stays(inv') /\ Stays(NewDraft(0))
    BY <1>1 DEF Sound, NewDraft
  <2>7. Stays(req'[r].snap)
    BY <1>2, <2>1, <2>6 DEF Alike
  <2>2. \A q \in Requests : Sound(req[q].snap)'
    BY <1>2, <2>1, <2>7 DEF Sound
  <2>3. \A q \in Requests : req'[q].pc = "edit" => req'[q].snap.status = "DRAFT"
    BY <1>2 DEF SoundRows
  <2>4. ASSUME NEW q \in Requests, req'[q].pc = "officePaid"
        PROVE  pay'[req'[q].pay].status = "PAID"
    <3>1. CASE q = r
      BY <1>2, <2>4, <3>1
    <3>2. CASE q # r
      BY <1>2, <2>4, <3>2, PaidKept DEF SoundRows, Picked, PaymentPlaces
    <3>3. QED
      BY <3>1, <3>2
  <2>5. QED
    BY <1>1, <2>2, <2>3, <2>4 DEF SoundRows
<1>3. ASSUME NEW r \in Requests, Begin(r) PROVE SoundRows'
  <2>1. inv' = inv
    BY <1>3 DEF Begin, BeginIssue, BeginEdit, BeginCancel, BeginDiscount, BeginOfficeCash,
           BeginTechCash, LoadInvoice, BeginCheckout, BeginCallback, BeginExpire
  <2>2. QED
    BY <1>2, <1>3, <2>1, BeginCopies DEF Alike
<1>4. ASSUME NEW r \in Requests, Step(r) PROVE SoundRows'
  BY <1>2, <1>4, StepCopies
<1>5. CASE UNCHANGED vars
  BY <1>1, <1>5 DEF vars, SoundRows, Sound
<1>6. QED
  BY <1>3, <1>4, <1>5 DEF Next

\* The fresh draft is sound, and so is what idle requests hold.
LEMMA InitSound == Init => SoundRows
  BY DEF Init, SoundRows, Sound, NewDraft, Idle, At

\* Safe and SoundRows together are inductive.
LEMMA SoundAlways == Spec => [](Safe /\ SoundRows)
  BY InitSafe, InitSound, NextSafe, NextSound, PTL DEF Spec

\* The payment an invoice's settlement names is PAID, whatever stale copy of
\* the invoice an edit writes back and whatever happens to other payments.
THEOREM SettledByPaidAlways == Spec => []SettledByPaid
<1>1. SoundRows => SettledByPaid
  BY DEF SoundRows, Sound, SettledByPaid
<1>2. QED
  BY <1>1, SoundAlways, PTL

\* An invoice with status PAID has been settled.
THEOREM PaidIsSettledAlways == Spec => []PaidIsSettled
<1>1. SoundRows => PaidIsSettled
  BY DEF SoundRows, Sound, PaidIsSettled
<1>2. QED
  BY <1>1, SoundAlways, PTL

\* A settlement does not change what the invoice asks for.
LEMMA SettledTotal ==
  ASSUME NEW i \in InvoiceRow, NEW p \in Payments
  PROVE  Total(Settled(i, p)) = Total(i) /\ Settled(i, p).by = p
  BY DEF InvoiceRow, Settled, Total

\* The payment that comes to settle the invoice is for exactly its total.
LEMMA SettlementExact ==
  ASSUME Safe, SoundRows, [Next]_vars, inv'.by # inv.by, inv'.by # 0
  PROVE  pay'[inv'.by].amount = Total(inv')
<1> USE DEF Safe, TypeOK
<1>0. inv \in InvoiceRow /\ \A r \in Requests : req[r].snap \in InvoiceRow
  BY DEF RowsTyped, Request
<1>1. PICK r \in Requests : Begin(r) \/ Step(r)
  BY DEF Next, vars
<1>2. CASE Begin(r)
  BY <1>2 DEF Begin, BeginIssue, BeginEdit, BeginCancel, BeginDiscount, BeginOfficeCash,
         BeginTechCash, LoadInvoice, BeginCheckout, BeginCallback, BeginExpire
<1>3. CASE Issue(r) \/ Cancel(r) \/ PublicDiscount(r) \/ CheckoutDiscount(r)
  <2>1. inv'.by = inv.by
    BY <1>0, <1>3 DEF Issue, Cancel, PublicDiscount, CheckoutDiscount, ApplyCode, InvoiceRow
  <2>2. QED
    BY <2>1
<1>4. CASE Edit(r)
  <2>1. req[r].snap.status = "DRAFT" /\ Sound(req[r].snap)
    BY <1>4 DEF Edit, SoundRows
  <2>2. inv'.by = 0
    BY <1>0, <1>4, <2>1 DEF Edit, Edited, InvoiceRow, Sound
  <2>3. QED
    BY <2>2
<1>5. CASE SettleByCallback(r)
  <2>1. req[r].pay \in Payments /\ pay[req[r].pay] # NoRow
    BY <1>5 DEF SettleByCallback, Picked, PaymentPlaces
  <2>2. CASE Settleable(inv, pay[req[r].pay].amount)
    <3>1. inv' = Settled(inv, req[r].pay) /\ pay'[req[r].pay].amount = pay[req[r].pay].amount
      BY <1>5, <2>1, <2>2 DEF SettleByCallback, SetStatus, RowsTyped, PaymentRow
    <3>2. QED
      BY <1>0, <2>1, <2>2, <3>1, SettledTotal DEF Settleable
  <2>3. CASE ~Settleable(inv, pay[req[r].pay].amount)
    BY <1>5, <2>3 DEF SettleByCallback
  <2>4. QED
    BY <2>2, <2>3
<1>6. CASE SettleByOffice(r)
  <2>1. req[r].pay \in Payments /\ pay' = pay
    BY <1>6 DEF SettleByOffice, Picked, PaymentPlaces
  <2>2. inv' # inv => Settleable(inv, pay[req[r].pay].amount) /\ inv' = Settled(inv, req[r].pay)
    BY <1>6 DEF SettleByOffice
  <2>3. QED
    BY <1>0, <2>1, <2>2, SettledTotal DEF Settleable
<1>7. CASE CommitTechCash(r)
  <2>1. PICK p \in Payments : inv' = Settled(inv, p) /\ pay'[p].amount = Total(inv)
    BY <1>7 DEF CommitTechCash
  <2>2. QED
    BY <1>0, <2>1, SettledTotal
<1>8. QED
  BY <1>1, <1>2, <1>3, <1>4, <1>5, <1>6, <1>7
     DEF Step, InsertCheckout, StartPayment, InsertOfficeCash, SaveAmount, RejectCallback,
         PayWithoutInvoice, Expire, ShowCheckout, IgnoreCallback, VerifyCallback, GoToInvoice,
         LockForCash, LockSuperseded, Deadlock, Refresh

\* However discounts, edits and payments race, an invoice is settled only by a
\* payment for exactly the total it then asks for.
THEOREM SettledForTotalAlways == Spec => SettledForTotal
<1>1. Safe /\ SoundRows /\ [Next]_vars
        => [inv'.by # inv.by /\ inv'.by # 0 => pay'[inv'.by].amount = Total(inv')]_vars
  BY SettlementExact
<1>2. QED
  BY <1>1, InitSafe, InitSound, NextSafe, NextSound, PTL DEF Spec, SettledForTotal

----------------------------------------------------------------------------
\* The refinement.  When the office's operations run alone, every step is a
\* step of InvoiceWorkflow or changes nothing that module speaks of.

Office == {"issue", "edit", "cancel"}

\* An office operation finds the row as it was loaded, and a draft has neither
\* payments nor customers: money can only come in after it was issued.
OfficeAlone ==
  /\ \A r \in Requests : req[r].pc \in Office =>
       /\ inv.status \in Admits(req[r].pc)
       /\ req[r].snap = inv
       /\ \A q \in Requests \ {r} : req[q].pc = "idle"
  /\ inv.status = "DRAFT" =>
       /\ \A p \in Payments : pay[p] = NoRow
       /\ \A r \in Requests : req[r].pc \in Office \cup {"idle"}

\* At the start there are no payments and no requests.
LEMMA InitAlone == Init => OfficeAlone
  BY DEF Init, OfficeAlone, Office, Idle, At

\* What a request that begins has loaded, and whom it has waited for.
LEMMA BeginAdmitted ==
  ASSUME RowsTyped, NEW r \in Requests, Begin(r)
  PROVE  /\ UNCHANGED <<inv, pay>>
         /\ \A q \in Requests \ {r} : req'[q] = req[q]
         /\ MayBegin(r, req'[r].pc)
         /\ inv.status \in Admits(req'[r].pc) \/ req'[r].pc \in {"callback", "expire"}
         /\ req'[r].pc \in Office => req'[r].snap = inv
         /\ req'[r].pc \in {"callback", "expire"} => \E p \in Payments : pay[p] # NoRow
<1>1. ASSUME NEW place \in Places, LoadInvoice(r, place)
      PROVE  /\ UNCHANGED <<inv, pay>>
             /\ \A q \in Requests \ {r} : req'[q] = req[q]
             /\ req'[r].pc = place /\ req'[r].snap = inv
             /\ MayBegin(r, place)
             /\ inv.status \in Admits(place)
  BY <1>1 DEF LoadInvoice, At, RowsTyped
<1>2. ASSUME BeginCheckout(r)
      PROVE  /\ UNCHANGED <<inv, pay>>
             /\ \A q \in Requests \ {r} : req'[q] = req[q]
             /\ MayBegin(r, req'[r].pc)
             /\ inv.status \in Admits(req'[r].pc)
             /\ req'[r].pc \in {"checkout", "checkoutReady"}
  BY <1>2 DEF BeginCheckout, At, RowsTyped
<1>3. ASSUME BeginCallback(r) \/ BeginExpire(r)
      PROVE  /\ UNCHANGED <<inv, pay>>
             /\ \A q \in Requests \ {r} : req'[q] = req[q]
             /\ MayBegin(r, req'[r].pc)
             /\ req'[r].pc \in {"callback", "expire"}
             /\ \E p \in Payments : pay[p] # NoRow
  BY <1>3 DEF BeginCallback, BeginExpire, At, RowsTyped, NoRow
<1>4. CASE BeginIssue(r) \/ BeginEdit(r) \/ BeginCancel(r) \/ BeginDiscount(r)
           \/ BeginOfficeCash(r) \/ BeginTechCash(r)
  <2>1. PICK place \in Places \ {"callback", "expire"} : LoadInvoice(r, place)
    BY <1>4 DEF BeginIssue, BeginEdit, BeginCancel, BeginDiscount, BeginOfficeCash,
                BeginTechCash, Places
  <2>2. QED
    BY <1>1, <2>1
<1>5. CASE BeginCheckout(r)
  BY <1>2, <1>5 DEF Office
<1>6. CASE BeginCallback(r) \/ BeginExpire(r)
  BY <1>3, <1>6 DEF Office
<1>7. QED
  BY <1>4, <1>5, <1>6 DEF Begin

\* A handler that is neither idle nor the office's leaves a draft a draft and
\* does not become the office's.
LEMMA OtherStep ==
  ASSUME RowsTyped, NEW r \in Requests, Step(r), req[r].pc \notin Office
  PROVE  /\ req[r].pc # "idle"
         /\ \A q \in Requests \ {r} : req'[q] = req[q]
         /\ req'[r].pc \notin Office
         /\ inv'.status \in {inv.status, "PAID"}
<1>1. ASSUME NEW place \in Places \ Office, Goto(r, place) \/ Finish(r)
      PROVE  (\A q \in Requests \ {r} : req'[q] = req[q]) /\ req'[r].pc \notin Office
  BY <1>1 DEF Goto, Finish, Idle, At, RowsTyped, Request, Office
<1>2. CASE PublicDiscount(r) \/ CheckoutDiscount(r)
  <2>1. inv'.status = inv.status
    BY <1>2 DEF PublicDiscount, CheckoutDiscount, ApplyCode, RowsTyped, InvoiceRow
  <2>2. QED
    BY <1>1, <1>2, <2>1 DEF PublicDiscount, CheckoutDiscount, Places, Office, At, RowsTyped
<1>3. CASE InsertCheckout(r) \/ InsertOfficeCash(r)
  BY <1>3 DEF InsertCheckout, InsertOfficeCash, At, Office, RowsTyped
<1>4. CASE ShowCheckout(r) \/ StartPayment(r) \/ SaveAmount(r) \/ IgnoreCallback(r)
           \/ RejectCallback(r) \/ PayWithoutInvoice(r) \/ Expire(r) \/ SettleByCallback(r)
           \/ SettleByOffice(r) \/ CommitTechCash(r)
  <2>1. inv' = inv \/ \E p : inv' = Settled(inv, p)
    BY <1>4 DEF ShowCheckout, StartPayment, SaveAmount, IgnoreCallback, RejectCallback,
                PayWithoutInvoice, Expire, SettleByCallback, SettleByOffice, CommitTechCash
  <2>2. inv'.status \in {inv.status, "PAID"}
    BY <2>1 DEF Settled, RowsTyped, InvoiceRow
  <2>3. Finish(r) /\ req[r].pc # "idle"
    BY <1>4 DEF ShowCheckout, StartPayment, SaveAmount, IgnoreCallback, RejectCallback,
                PayWithoutInvoice, Expire, SettleByCallback, SettleByOffice, CommitTechCash
  <2>4. "callback" \in Places \ Office
    BY DEF Places, Office
  <2>5. QED
    BY <1>1, <2>2, <2>3, <2>4
<1>5. CASE VerifyCallback(r) \/ GoToInvoice(r)
  BY <1>1, <1>5 DEF VerifyCallback, GoToInvoice, Places, Office
<1>6. CASE LockForCash(r)
  <2>1. CASE TakesCash(inv)
    BY <1>6, <2>1 DEF LockForCash, Superseding, Office, RowsTyped
  <2>2. CASE ~TakesCash(inv)
    BY <1>1, <1>6, <2>2 DEF LockForCash, Places, Office
  <2>3. QED
    BY <2>1, <2>2
<1>7. CASE LockSuperseded(r)
  BY <1>7 DEF LockSuperseded, RowsTyped, Request, Office
<1>8. CASE Deadlock(r)
  BY <1>1, <1>8 DEF Deadlock, WaitsFor, Places, Office
<1>9. CASE Issue(r) \/ Edit(r) \/ Cancel(r)
  BY <1>9 DEF Issue, Edit, Cancel, Office
<1>11. CASE Refresh(r)
  BY <1>11, RefreshKeeps DEF Office
<1>10. QED
  BY <1>2, <1>3, <1>4, <1>5, <1>6, <1>7, <1>8, <1>9, <1>11 DEF Step

\* No other request interferes with the office, and no draft gets a payment.
LEMMA NextAlone ==
  ASSUME Office \subseteq Alone, Safe, OfficeAlone, [Next]_vars
  PROVE  OfficeAlone'
<1> USE DEF Safe, TypeOK
<1>1. ASSUME NEW r \in Requests, Begin(r) PROVE OfficeAlone'
  <2>1. /\ UNCHANGED <<inv, pay>>
        /\ \A q \in Requests \ {r} : req'[q] = req[q]
        /\ MayBegin(r, req'[r].pc)
        /\ inv.status \in Admits(req'[r].pc) \/ req'[r].pc \in {"callback", "expire"}
        /\ req'[r].pc \in Office => req'[r].snap = inv
        /\ req'[r].pc \in {"callback", "expire"} => \E p \in Payments : pay[p] # NoRow
    BY <1>1, BeginAdmitted
  <2>2. /\ \A q \in Requests : req[q].pc \notin Office
        /\ req'[r].pc \in Office => \A q \in Requests : req[q].pc = "idle"
    BY <2>1 DEF MayBegin
  <2>3. req'[r].pc \in Office => inv.status \in Admits(req'[r].pc)
    BY <2>1 DEF Office
  <2>4. ASSUME inv.status = "DRAFT" PROVE req'[r].pc \in Office
    BY <2>1, <2>4 DEF OfficeAlone, Admits, Office
  <2>5. QED
    BY <2>1, <2>2, <2>3, <2>4 DEF OfficeAlone, Admits
<1>2. ASSUME NEW r \in Requests, Step(r) PROVE OfficeAlone'
  <2>1. CASE Issue(r) \/ Edit(r) \/ Cancel(r)
    <3>1. req[r].pc \in Office /\ pay' = pay /\ Finish(r)
      BY <2>1 DEF Issue, Edit, Cancel, Office
    <3>2. \A q \in Requests : req'[q].pc = "idle"
      BY <3>1 DEF OfficeAlone, Finish, Idle, At, RowsTyped
    <3>3. inv'.status = "DRAFT" => inv.status = "DRAFT"
      BY <2>1, <3>1 DEF OfficeAlone, Issue, Edit, Edited, Cancel, RowsTyped, InvoiceRow
    <3>4. QED
      BY <3>1, <3>2, <3>3 DEF OfficeAlone, Office
  <2>4. CASE Refresh(r) /\ req[r].pc \in Office
    <3>1. /\ UNCHANGED <<inv, pay>>
          /\ \A q \in Requests \ {r} : req'[q] = req[q]
          /\ req'[r].pc = req[r].pc /\ req[r].pc = "issue"
          /\ req'[r].snap = [req[r].snap EXCEPT !.net = inv.net]
      BY <2>4, RefreshKeeps DEF Office
    <3>2. req[r].snap = inv /\ inv \in InvoiceRow
      BY <3>1 DEF OfficeAlone, Office, RowsTyped
    <3>3. req'[r].snap = inv
      BY <3>1, <3>2 DEF InvoiceRow
    <3>4. QED
      BY <3>1, <3>3 DEF OfficeAlone
  <2>2. CASE ~(Issue(r) \/ Edit(r) \/ Cancel(r)) /\ ~(Refresh(r) /\ req[r].pc \in Office)
    <3>1. req[r].pc \notin Office
      BY <1>2, <2>2
         DEF Step, Office, PublicDiscount, InsertCheckout, ShowCheckout, StartPayment,
             CheckoutDiscount, SaveAmount, IgnoreCallback, RejectCallback, VerifyCallback,
             PayWithoutInvoice, GoToInvoice, SettleByCallback, Expire, InsertOfficeCash,
             SettleByOffice, LockForCash, LockSuperseded, CommitTechCash, Deadlock, WaitsFor
    <3>2. /\ req[r].pc # "idle"
          /\ \A q \in Requests \ {r} : req'[q] = req[q]
          /\ req'[r].pc \notin Office
          /\ inv'.status \in {inv.status, "PAID"}
      BY <1>2, <3>1, OtherStep
    <3>3. inv.status # "DRAFT" /\ \A q \in Requests : req[q].pc \notin Office
      BY <3>1, <3>2 DEF OfficeAlone
    <3>4. QED
      BY <3>2, <3>3 DEF OfficeAlone
  <2>3. QED
    BY <2>1, <2>2, <2>4
<1>3. CASE UNCHANGED vars
  BY <1>3 DEF vars, OfficeAlone
<1>4. QED
  BY <1>1, <1>2, <1>3 DEF Next

\* A step that leaves the invoice's status and settlement and what was received.
LEMMA Stutters ==
  ASSUME inv'.status = inv.status, inv'.by = inv.by,
         \A p \in Payments : pay'[p].status = "PAID" <=> pay[p].status = "PAID"
  PROVE  UNCHANGED Abstract!abstract
  BY DEF Abstract!abstract

\* A payment that becomes PAID beside an invoice that stays as it is.
LEMMA Receives ==
  ASSUME NEW p \in Payments, inv' = inv, inv.status # "DRAFT", pay[p].status # "PAID",
         \A q \in Payments : pay'[q].status = "PAID" <=> pay[q].status = "PAID" \/ q = p
  PROVE  Abstract!Next
<1>1. Abstract!Receive(p)
  BY DEF Abstract!Receive
<1>2. QED
  BY <1>1 DEF Abstract!Next

\* A payment that settles an issued invoice.
LEMMA Settles ==
  ASSUME RowsTyped, NEW p \in Payments, inv.status = "ISSUED", inv' = Settled(inv, p),
         \A q \in Payments : pay'[q].status = "PAID" <=> pay[q].status = "PAID" \/ q = p
  PROVE  Abstract!Next
<1>1. inv'.status = "PAID" /\ inv'.by = p
  BY DEF Settled, RowsTyped, InvoiceRow
<1>2. Abstract!Settle(p)
  BY <1>1 DEF Abstract!Settle
<1>3. QED
  BY <1>2 DEF Abstract!Next

\* The office's three operations.
LEMMA OfficeSteps ==
  ASSUME Safe, OfficeAlone, NEW r \in Requests, Issue(r) \/ Edit(r) \/ Cancel(r)
  PROVE  Abstract!Next \/ UNCHANGED Abstract!abstract
<1> USE DEF Safe, TypeOK
<1>1. req[r].snap = inv /\ inv.status \in Admits(req[r].pc) /\ pay' = pay /\ inv \in InvoiceRow
  BY DEF OfficeAlone, Office, Issue, Edit, Cancel, RowsTyped
<1>2. CASE Issue(r)
  <2>1. inv.status = "DRAFT" /\ inv'.by = inv.by
    BY <1>1, <1>2 DEF Issue, Admits, InvoiceRow
  <2>2. inv'.status \in {"ISSUED", inv.status}
    BY <1>1, <1>2 DEF Issue, InvoiceRow
  <2>3. CASE inv'.status = "ISSUED"
    BY <1>1, <2>1, <2>3 DEF Abstract!Next, Abstract!Issue
  <2>4. CASE inv'.status = inv.status
    BY <1>1, <2>1, <2>4, Stutters
  <2>5. QED
    BY <2>2, <2>3, <2>4
<1>3. CASE Edit(r)
  <2>1. inv'.status = inv.status /\ inv'.by = inv.by
    BY <1>1, <1>3 DEF Edit, Edited, InvoiceRow
  <2>2. QED
    BY <1>1, <2>1, Stutters
<1>4. CASE Cancel(r)
  <2>1. inv.status \in {"DRAFT", "ISSUED"} /\ inv'.status = "CANCELLED" /\ inv'.by = inv.by
    BY <1>1, <1>4 DEF Cancel, Admits, InvoiceRow
  <2>2. QED
    BY <1>1, <2>1 DEF Abstract!Next, Abstract!Cancel
<1>5. QED
  BY <1>2, <1>3, <1>4

\* The handlers that write payments or settle the invoice.
LEMMA MoneySteps ==
  ASSUME Safe, SoundRows, OfficeAlone, NEW r \in Requests, Step(r), req[r].pc \notin Office
  PROVE  Abstract!Next \/ UNCHANGED Abstract!abstract
<1> USE DEF Safe, TypeOK
<1>1. inv.status # "DRAFT"
  BY OtherStep DEF OfficeAlone
<1>2. ASSUME inv' = inv, pay' = pay PROVE UNCHANGED Abstract!abstract
  BY <1>2, Stutters
<1>3. CASE PublicDiscount(r) \/ CheckoutDiscount(r)
  <2>1. inv'.status = inv.status /\ inv'.by = inv.by /\ pay' = pay
    BY <1>3 DEF PublicDiscount, CheckoutDiscount, ApplyCode, RowsTyped, InvoiceRow
  <2>2. QED
    BY <2>1, Stutters
<1>4. CASE InsertCheckout(r) \/ StartPayment(r) \/ SaveAmount(r) \/ RejectCallback(r) \/ Expire(r)
  <2>1. inv' = inv
    BY <1>4 DEF InsertCheckout, StartPayment, SaveAmount, RejectCallback, Expire
  <2>2. ASSUME NEW p \in Payments PROVE pay'[p].status = "PAID" <=> pay[p].status = "PAID"
    <3>1. CASE InsertCheckout(r) \/ StartPayment(r)
      BY <3>1 DEF InsertCheckout, StartPayment, Insert, Fresh, NoRow, RowsTyped
    <3>2. CASE SaveAmount(r)
      BY <3>2 DEF SaveAmount, RowsTyped, PaymentRow, NoRow
    <3>3. CASE RejectCallback(r) \/ Expire(r)
      BY <3>3 DEF RejectCallback, Expire, SetStatus, StillOpen, OpenStatus, RowsTyped,
                  PaymentRow, NoRow
    <3>4. QED
      BY <1>4, <3>1, <3>2, <3>3
  <2>3. QED
    BY <2>1, <2>2, Stutters
<1>5. CASE PayWithoutInvoice(r)
  <2>1. /\ req[r].pay \in Payments /\ pay[req[r].pay].status = "PENDING" /\ inv' = inv
        /\ SetStatus(req[r].pay, "PAID")
    BY <1>5 DEF PayWithoutInvoice, HeldRowsStand
  <2>2. \A q \in Payments :
          pay'[q].status = "PAID" <=> pay[q].status = "PAID" \/ q = req[r].pay
    BY <2>1 DEF SetStatus, RowsTyped, PaymentRow, NoRow
  <2>3. QED
    BY <1>1, <2>1, <2>2, Receives
<1>6. CASE InsertOfficeCash(r)
  <2>1. PICK p \in Payments : Fresh(p) /\ Insert(p, "officeCash", "PAID", Total(req[r].snap))
    BY <1>6 DEF InsertOfficeCash
  <2>2. \A q \in Payments : pay'[q].status = "PAID" <=> pay[q].status = "PAID" \/ q = p
    BY <2>1 DEF Insert, RowsTyped
  <2>3. inv' = inv /\ pay[p].status # "PAID"
    BY <1>6, <2>1 DEF InsertOfficeCash, Fresh, NoRow
  <2>4. QED
    BY <1>1, <2>2, <2>3, Receives
<1>7. CASE SettleByCallback(r)
  <2> DEFINE p == req[r].pay
  <2>1. p \in Payments
    BY <1>7 DEF SettleByCallback, HeldRowsStand
  <2> HIDE DEF p
  <2>2. CASE Settleable(inv, pay[p].amount)
    <3>1. inv.status = "ISSUED" /\ inv' = Settled(inv, p) /\ SetStatus(p, "PAID")
      BY <1>7, <2>2 DEF SettleByCallback, Settleable, p
    <3>2. \A q \in Payments : pay'[q].status = "PAID" <=> pay[q].status = "PAID" \/ q = p
      BY <2>1, <3>1 DEF SetStatus, RowsTyped, PaymentRow, NoRow
    <3>3. QED
      BY <2>1, <3>1, <3>2, Settles
  <2>3. CASE ~Settleable(inv, pay[p].amount)
    BY <1>2, <1>7, <2>3 DEF SettleByCallback, p
  <2>4. QED
    BY <2>2, <2>3
<1>8. CASE SettleByOffice(r)
  <2> DEFINE p == req[r].pay
  <2>1. p \in Payments /\ pay[p].status = "PAID" /\ pay' = pay
    BY <1>8 DEF SettleByOffice, Picked, PaymentPlaces, SoundRows
  <2> HIDE DEF p
  <2>2. CASE Settleable(inv, pay[p].amount)
    <3>1. inv.status = "ISSUED" /\ inv' = Settled(inv, p)
      BY <1>8, <2>2 DEF SettleByOffice, Settleable, p
    <3>2. QED
      BY <2>1, <3>1, Settles
  <2>3. CASE ~Settleable(inv, pay[p].amount)
    BY <1>2, <1>8, <2>1, <2>3 DEF SettleByOffice, p
  <2>4. QED
    BY <2>2, <2>3
<1>9. CASE CommitTechCash(r)
  <2>1. PICK p \in Payments :
       /\ inv' = Settled(inv, p)
       /\ pay' = [q \in Payments |->
                    IF q = p
                      THEN [kind |-> "techCash", status |-> "PAID", amount |-> Total(inv)]
                    ELSE IF lock[q] = r THEN [pay[q] EXCEPT !.status = "CANCELLED"]
                    ELSE pay[q]]
    BY <1>9 DEF CommitTechCash
  <2>2. /\ inv.status = "ISSUED"
        /\ \A q \in Payments : lock[q] = r => pay[q].status \in PaymentStatus \ {"PAID"}
    BY <1>9 DEF CommitTechCash, HeldRowsStand, TakesCash
  <2>3. \A q \in Payments : lock[q] = r => [pay[q] EXCEPT !.status = "CANCELLED"].status # "PAID"
    BY <2>2 DEF RowsTyped, PaymentRow, NoRow, PaymentStatus
  <2>4. \A q \in Payments : pay'[q].status = "PAID" <=> pay[q].status = "PAID" \/ q = p
    BY <2>1, <2>2, <2>3
  <2>5. QED
    BY <2>1, <2>2, <2>4, Settles
<1>10. QED
  BY <1>2, <1>3, <1>4, <1>5, <1>6, <1>7, <1>8, <1>9
     DEF Step, Issue, Edit, Cancel, Office, ShowCheckout, IgnoreCallback, VerifyCallback,
         GoToInvoice, LockForCash, LockSuperseded, Deadlock, Refresh

\* Every step maps to a step of the workflow or to a stutter.
LEMMA NextImplements ==
  ASSUME Safe, SoundRows, OfficeAlone, [Next]_vars
  PROVE  Abstract!Next \/ UNCHANGED Abstract!abstract
<1>1. ASSUME UNCHANGED <<inv, pay>> PROVE UNCHANGED Abstract!abstract
  BY <1>1, Stutters
<1>2. ASSUME NEW r \in Requests, Begin(r) PROVE UNCHANGED Abstract!abstract
  BY <1>1, <1>2, BeginAdmitted DEF Safe, TypeOK
<1>3. ASSUME NEW r \in Requests, Step(r)
      PROVE  Abstract!Next \/ UNCHANGED Abstract!abstract
  <2>1. CASE req[r].pc \in Office
    <3>1. Issue(r) \/ Edit(r) \/ Cancel(r) \/ Refresh(r)
      BY <1>3, <2>1
         DEF Step, Office, PublicDiscount, InsertCheckout, ShowCheckout, StartPayment,
             CheckoutDiscount, SaveAmount, IgnoreCallback, RejectCallback, VerifyCallback,
             PayWithoutInvoice, GoToInvoice, SettleByCallback, Expire, InsertOfficeCash,
             SettleByOffice, LockForCash, LockSuperseded, CommitTechCash, Deadlock, WaitsFor
    <3>2. CASE Refresh(r)
      BY <1>1, <3>2 DEF Refresh
    <3>3. QED
      BY <3>1, <3>2, OfficeSteps
  <2>2. CASE req[r].pc \notin Office
    BY <1>3, <2>2, MoneySteps
  <2>3. QED
    BY <2>1, <2>2
<1>4. CASE UNCHANGED vars
  BY <1>1, <1>4 DEF vars
<1>5. QED
  BY <1>2, <1>3, <1>4 DEF Next

\* If no other request runs beside issuing, editing and cancelling, the requests
\* together behave as the documented workflow: DRAFT, ISSUED, PAID or CANCELLED,
\* settled once, by a payment that is and stays paid.
THEOREM WorkflowImplemented ==
  ASSUME {"issue", "edit", "cancel"} \subseteq Alone
  PROVE  Spec => ImplementsWorkflow
<1>1. Init => Abstract!Init
  BY DEF Init, NewDraft, NoRow, Abstract!Init, Abstract!NoPayment
<1>2. OfficeAlone /\ Safe /\ [Next]_vars => OfficeAlone'
  BY NextAlone DEF Office
<1>3. Safe /\ SoundRows /\ OfficeAlone /\ [Next]_vars => [Abstract!Next]_(Abstract!abstract)
  BY NextImplements
<1>4. QED
  BY <1>1, <1>2, <1>3, InitSafe, InitSound, InitAlone, NextSafe, NextSound, PTL
     DEF Spec, ImplementsWorkflow, Abstract!Spec

----------------------------------------------------------------------------
\* The audit and the dashboard

\* A set of one number has it for its smallest and its largest.
LEMMA OneExtreme == ASSUME NEW n \in Int PROVE Min({n}) = n /\ Max({n}) = n
  BY DEF Min, Max

\* A book in which a payment through a gateway bears its own number and any other bears
\* none.
Ledgered(book) ==
  \A p \in Payments :
    \/ book[p].ref = p /\ book[p].gateway = TRUE
    \/ book[p].ref = Blank /\ book[p].gateway = FALSE /\ book[p].status = "none"

\* A reference is of one payment.
LEMMA OneBearer ==
  ASSUME NEW book, Ledgered(book), NEW ref, ref # Blank
  PROVE  /\ \A p \in Bearers(book, Payments, ref) : p = ref
         /\ Bearers(book, Payments, ref) # {} =>
              /\ ref \in Payments /\ book[ref].ref = ref
              /\ Max(Bearers(book, Payments, ref)) = ref
<1>1. \A p \in Bearers(book, Payments, ref) : p = ref /\ ref \in Payments /\ book[ref].ref = ref
  BY DEF Bearers, Ledgered
<1>2. ASSUME Bearers(book, Payments, ref) # {} PROVE Max(Bearers(book, Payments, ref)) = ref
  <2>1. Bearers(book, Payments, ref) = {ref} /\ ref \in Int
    BY <1>1, <1>2 DEF Payments
  <2>2. QED BY <2>1, OneExtreme
<1>3. QED BY <1>1, <1>2

\* Of all payments the scan leaves none out.
LEMMA AllScanned ==
  ASSUME NEW S \in SUBSET Payments
  PROVE  Scanned(S, MaxPayments) = S
<1>1. IsFiniteSet(Payments) /\ Cardinality(Payments) = MaxPayments
  BY FS_Interval DEF Payments
<1>2. ASSUME NEW p \in S PROVE Cardinality({q \in S : q > p}) < MaxPayments
  <2> DEFINE L == {q \in S : q > p}
  <2>1. IsFiniteSet(Payments \ {p}) /\ Cardinality(Payments \ {p}) = MaxPayments - 1
    BY <1>1, FS_RemoveElement
  <2>2. L \in SUBSET (Payments \ {p})
    <3>1. p \in Int /\ Payments \subseteq Int
      BY DEF Payments
    <3>2. ASSUME NEW q \in L PROVE q \in Payments \ {p}
      BY <3>1
    <3>3. QED BY <3>2
  <2>3. IsFiniteSet(L) /\ Cardinality(L) <= MaxPayments - 1
    BY <2>1, <2>2, FS_Subset
  <2>4. Cardinality(L) \in Nat
    BY <2>3, FS_CardinalityType
  <2>5. QED BY <2>3, <2>4
<1>3. QED BY <1>2 DEF Scanned

\* Without an issue, every reference in the report is of one line and one payment, which
\* match; and every payment to be expected is in it.
LEMMA NoIssues ==
  ASSUME NEW book, NEW report, Ledgered(book), DOMAIN report \subseteq Int,
         ~HasIssues(Reconcile(book, Payments, report, MaxPayments))
  PROVE  /\ \A i \in DOMAIN report : report[i].ref # Blank =>
              /\ report[i].ref \in Payments
              /\ book[report[i].ref].ref = report[i].ref
              /\ Verdict(report[i], book[report[i].ref]) = "matched"
         /\ \A p \in Payments : book[p].gateway /\ book[p].status \in {"PENDING", "PAID"} =>
              p \in References(report)
<1> DEFINE V(ref) == VerdictOn(book, Payments, report, ref)
<1>1. /\ \A ref \in References(report) :
           V(ref) \notin {"missing_in_internal", "amount_mismatch", "status_mismatch"}
      /\ Unlisted(book, Payments, report, MaxPayments) = {}
      /\ Duplicates(report) = {}
  <2> DEFINE R == Reconcile(book, Payments, report, MaxPayments)
  <2>1. DOMAIN R \ {"matched"} =
          {"missing_in_internal", "amount_mismatch", "status_mismatch", "missing_in_provider",
           "duplicates", "errors"}
    BY DEF Reconcile
  <2>2. /\ R.missing_in_internal = {ref \in References(report) : V(ref) = "missing_in_internal"}
        /\ R.amount_mismatch = {ref \in References(report) : V(ref) = "amount_mismatch"}
        /\ R.status_mismatch = {ref \in References(report) : V(ref) = "status_mismatch"}
        /\ R.missing_in_provider = Unlisted(book, Payments, report, MaxPayments)
        /\ R.duplicates = Duplicates(report)
    BY DEF Reconcile
  <2> HIDE DEF R, V
  <2>3. \A kind \in DOMAIN R \ {"matched"} : R[kind] = {}
    BY DEF HasIssues, R
  <2>4. /\ R.missing_in_internal = {} /\ R.amount_mismatch = {} /\ R.status_mismatch = {}
        /\ R.missing_in_provider = {} /\ R.duplicates = {}
    BY <2>1, <2>3
  <2>5. QED BY <2>2, <2>4
<1>2. ASSUME NEW i \in DOMAIN report, report[i].ref # Blank
      PROVE  /\ report[i].ref \in Payments
             /\ book[report[i].ref].ref = report[i].ref
             /\ Verdict(report[i], book[report[i].ref]) = "matched"
  <2> DEFINE ref == report[i].ref
  <2>1. ref \in References(report)
    BY <1>2 DEF References
  <2>2. RowsOf(report, ref) = {i}
    BY <1>1, <2>1 DEF Duplicates, RowsOf
  <2>3. Min(RowsOf(report, ref)) = i
    BY <2>2, OneExtreme
  <2>4. Bearers(book, Payments, ref) # {}
    BY <1>1, <2>1 DEF VerdictOn
  <2>5. ref \in Payments /\ book[ref].ref = ref /\ Max(Bearers(book, Payments, ref)) = ref
    BY <1>2, <2>4, OneBearer
  <2>6. V(ref) = Verdict(report[i], book[ref])
    BY <2>3, <2>4, <2>5 DEF VerdictOn
  <2>7. Verdict(report[i], book[ref]) \in {"amount_mismatch", "status_mismatch", "matched"}
    BY DEF Verdict
  <2>8. QED BY <1>1, <2>1, <2>5, <2>6, <2>7
<1>3. ASSUME NEW p \in Payments, book[p].gateway, book[p].status \in {"PENDING", "PAID"},
             p \notin References(report)
      PROVE  FALSE
  <2>1. book[p].ref = p /\ p # Blank
    BY <1>3, FilesAssumption DEF Ledgered
  <2>2. ASSUME NEW ref \in References(report), Bearers(book, Payments, ref) # {}
        PROVE  Max(Bearers(book, Payments, ref)) # p
    BY <1>3, <2>2, OneBearer DEF References
  <2>3. p \in Expected(book, Payments, report)
    BY <1>3, <2>2 DEF Expected, Internal
  <2>4. p \in Scanned(Expected(book, Payments, report), MaxPayments)
    BY <2>3, AllScanned DEF Expected
  <2>5. p \in Unlisted(book, Payments, report, MaxPayments)
    BY <1>3, <2>1, <2>4 DEF Unlisted
  <2>6. QED BY <1>1, <2>5
<1>4. QED BY <1>2, <1>3

\* So the audit hides nothing, whatever file it is given.
LEMMA AuditAgrees ==
  ASSUME NEW book, Ledgered(book), NEW file \in Files
  PROVE  Agreeing(book, file)
<1> DEFINE report == Parsed(file)
<1> SUFFICES ASSUME NoActionNeeded(book, Payments, file, MaxPayments)
             PROVE  /\ \A row \in {file.rows[i] : i \in Lines(file)} : Normalised(row.status) = "PAID" =>
                         \E p \in Payments : /\ book[p].ref = row.ref
                                             /\ book[p].status = "PAID"
                                             /\ book[p].amount = row.amount
                    /\ \A p \in Payments : book[p].status \in {"PENDING", "PAID"} =>
                         \E row \in {file.rows[i] : i \in Lines(file)} :
                           row.ref = book[p].ref /\ row.amount = book[p].amount
  BY DEF Agreeing
<1>1. /\ DOMAIN report = Lines(file) /\ \A i \in Lines(file) : report[i] = file.rows[i]
      /\ \A i \in Lines(file) : file.rows[i].ref # Blank
      /\ Lines(file) \subseteq Int
  BY FilesAssumption DEF Parsed, Lines, Readable
<1>2. ~HasIssues(Reconcile(book, Payments, report, MaxPayments))
  BY DEF NoActionNeeded
<1> HIDE DEF report
<1>3. /\ \A i \in Lines(file) : /\ file.rows[i].ref \in Payments
                                /\ book[file.rows[i].ref].ref = file.rows[i].ref
                                /\ Verdict(file.rows[i], book[file.rows[i].ref]) = "matched"
      /\ \A p \in Payments : book[p].gateway /\ book[p].status \in {"PENDING", "PAID"} =>
           p \in References(report)
  BY <1>1, <1>2, NoIssues
<1>4. ASSUME NEW row, NEW payment, Verdict(row, payment) = "matched"
      PROVE  /\ row.amount = payment.amount
             /\ Normalised(row.status) = "PAID" => payment.status = "PAID"
  BY <1>4 DEF Verdict
<1>5. ASSUME NEW i \in Lines(file), Normalised(file.rows[i].status) = "PAID"
      PROVE  \E p \in Payments : /\ book[p].ref = file.rows[i].ref
                                 /\ book[p].status = "PAID"
                                 /\ book[p].amount = file.rows[i].amount
  BY <1>3, <1>4, <1>5
<1>6. ASSUME NEW p \in Payments, book[p].status \in {"PENDING", "PAID"}
      PROVE  \E i \in Lines(file) : file.rows[i].ref = book[p].ref /\ file.rows[i].amount = book[p].amount
  <2>1. book[p].gateway /\ book[p].ref = p
    BY <1>6 DEF Ledgered
  <2>2. PICK i \in Lines(file) : file.rows[i].ref = p
    BY <1>1, <1>3, <1>6, <2>1 DEF References
  <2>3. file.rows[i].amount = book[p].amount
    BY <1>3, <1>4, <2>2
  <2>4. QED BY <2>1, <2>2, <2>3
<1>7. QED BY <1>5, <1>6

\* Of a set of payments and a part of it: they are finite, and the rest is the difference.
LEMMA Counted ==
  ASSUME NEW S \in SUBSET Payments, NEW T \in SUBSET Payments
  PROVE  /\ Cardinality(S) \in Nat
         /\ S # {} => Cardinality(S) > 0
         /\ S \cap T = {} => Cardinality(S \cup T) = Cardinality(S) + Cardinality(T)
<1>1. IsFiniteSet(Payments)
  BY FS_Interval DEF Payments
<1>2. IsFiniteSet(S) /\ IsFiniteSet(T)
  BY <1>1, FS_Subset
<1>3. Cardinality(S) \in Nat /\ Cardinality(T) \in Nat /\ (Cardinality(S) = 0 => S = {})
  BY <1>2, FS_CardinalityType, FS_EmptySet
<1>4. Cardinality({}) = 0
  BY FS_EmptySet
<1>5. QED BY <1>2, <1>3, <1>4, FS_Union

\* The clean-up takes off the badge what is more than a week old, and no more; the page
\* lists what the badge counts.
LEMMA CleanUpShows ==
  ASSUME NEW status \in [Payments -> PaymentStatus \cup {"none"}], NEW age \in Ages
  PROVE  Shown([p \in Payments |-> RowFor(p, status[p])], age)
<1> DEFINE book == [p \in Payments |-> RowFor(p, status[p])]
           after == Expired(book, age)
           Old == OldPending(book, Payments, age)
           gone == {p \in Old : age[p] = "ancient"}
           Failed == FailedRecent(book, Payments, age)
           Now == FailedRecent(after, Payments, age)
           listed == Problematic(after, Payments, age, MaxPayments)
<1>1. \A p \in Payments : book[p].gateway = (status[p] # "none") /\ book[p].status = status[p]
  BY DEF RowFor, BookRow
<1>2. Old = {p \in Payments : status[p] \in Unfinished /\ age[p] # "new"}
  BY <1>1 DEF OldPending, ThroughGateway, Unfinished
<1>3. Failed = {p \in Payments : status[p] = "FAILED" /\ age[p] # "ancient"}
  BY <1>1 DEF FailedRecent, ThroughGateway
<1>4. \A p \in Payments : /\ after[p].gateway = (status[p] # "none")
                          /\ after[p].status = IF p \in Old THEN "FAILED" ELSE status[p]
  BY <1>1 DEF Expired, RowFor, BookRow
<1> HIDE DEF book, after, Old, Failed, Now
<1>5. OldPending(after, Payments, age) = {}
  BY <1>2, <1>4 DEF OldPending, ThroughGateway, Unfinished
<1>6. Now = Failed \cup (Old \ gone)
  BY <1>2, <1>3, <1>4 DEF Now, FailedRecent, ThroughGateway, Unfinished, Ages
<1>7. listed = {p \in Payments : \/ after[p].gateway /\ after[p].status \in Unfinished
                                 \/ p \in Now}
  BY AllScanned DEF Problematic, ThroughGateway, Now, FailedRecent
<1>8. {p \in listed : age[p] # "new" \/ after[p].status = "FAILED"} = Now
  BY <1>2, <1>4, <1>7 DEF Now, FailedRecent, ThroughGateway, Unfinished
<1>9. /\ Cardinality(Failed) \in Nat /\ Cardinality(Old) \in Nat /\ Cardinality(gone) \in Nat
      /\ Cardinality(Old \ gone) \in Nat /\ (Old \ gone # {} => Cardinality(Old \ gone) > 0)
      /\ Cardinality(Now) = Cardinality(Failed) + Cardinality(Old \ gone)
      /\ Cardinality(Old) = Cardinality(gone) + Cardinality(Old \ gone)
  <2>1. Failed \in SUBSET Payments /\ Old \in SUBSET Payments
    BY <1>2, <1>3
  <2>2. Failed \cap (Old \ gone) = {} /\ gone \cap (Old \ gone) = {} /\ Old = gone \cup (Old \ gone)
    BY <1>2, <1>3 DEF Unfinished
  <2>3. gone \in SUBSET Payments /\ Old \ gone \in SUBSET Payments
    BY <2>1
  <2> HIDE DEF gone
  <2>4. QED BY <1>6, <2>1, <2>2, <2>3, Counted
<1>10. /\ AlertBadge(after, Payments, age).total = Cardinality(Now)
       /\ AlertBadge(book, Payments, age).total = Cardinality(Old) + Cardinality(Failed)
       /\ Cardinality(Now) > 0 => AlertBadge(after, Payments, age).severity = "danger"
  <2>1. Cardinality({}) = 0 BY FS_EmptySet
  <2>2. Cardinality(Now) \in Nat BY <1>9
  <2>3. QED BY <1>5, <2>1, <2>2 DEF AlertBadge, Now, Old, Failed
<1>11. Old # gone => Old \ gone # {}
  OBVIOUS
<1>12. /\ AlertBadge(after, Payments, age).total
            = AlertBadge(book, Payments, age).total - Cardinality(gone)
       /\ AlertBadge(after, Payments, age).total
            = Cardinality({p \in listed : age[p] # "new" \/ after[p].status = "FAILED"})
       /\ Old # gone => AlertBadge(after, Payments, age).severity = "danger"
  <2> HIDE DEF gone, listed
  <2>1. AlertBadge(after, Payments, age).total
          = AlertBadge(book, Payments, age).total - Cardinality(gone)
    BY <1>9, <1>10
  <2>2. AlertBadge(after, Payments, age).total
          = Cardinality({p \in listed : age[p] # "new" \/ after[p].status = "FAILED"})
    BY <1>8, <1>10
  <2>3. Old # gone => AlertBadge(after, Payments, age).severity = "danger"
    BY <1>9, <1>10, <1>11
  <2>4. QED BY <2>1, <2>2, <2>3
<1>13. QED BY <1>12 DEF Shown, book, after, Old

\* The payments of any moment are such a book.
LEMMA BookIsAudited == TypeOK => TroubleShows
<1> SUFFICES ASSUME TypeOK PROVE Book \in Audited
  BY DEF TroubleShows
<1> DEFINE status == [p \in Payments |-> IF pay[p].kind = "gateway" THEN pay[p].status ELSE "none"]
<1>1. status \in [Payments -> PaymentStatus \cup {"none"}]
  BY DEF TypeOK, RowsTyped, PaymentRow, NoRow
<1>2. Book = [p \in Payments |-> RowFor(p, status[p])]
  BY DEF Book
<1>3. Book \in Books
  BY <1>1, <1>2 DEF Books
<1>4. Ledgered(Book)
  BY <1>1, <1>2 DEF Ledgered, RowFor, BookRow
<1>5. \A age \in Ages : Shown(Book, age)
  BY <1>1, <1>2, CleanUpShows
<1>6. QED BY <1>3, <1>4, <1>5, AuditAgrees DEF Audited

\* Trouble with a payment shows, at any moment, for any number of payments, any file the
\* provider sends and any ages: an audit that needs no action agrees with the rows, and
\* the clean-up takes off the dashboard only what is more than a week old
\* (PaymentReconciliationService.reconcile, get_company_alert_badge,
\* expire_old_pending_payments).
THEOREM TroubleShowsAlways == Spec => []TroubleShows
  BY TypeCorrect, BookIsAudited, PTL

=============================================================================
