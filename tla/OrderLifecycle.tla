--------------------------- MODULE OrderLifecycle ---------------------------
(***************************************************************************)
(* The service orders of one company, from creation to DONE or CANCELLED,  *)
(* and the invoices made for them, under concurrent requests.              *)
(*                                                                         *)
(* Every view reads the order without a lock and hands the copy to a       *)
(* service; only the technician's acceptance locks the row and looks       *)
(* again.  The other services test the copy and write the columns they     *)
(* name, whatever the row holds by then.  Each action runs a handler from  *)
(* one point where other requests can interfere to the next.               *)
(***************************************************************************)
EXTENDS Naturals, FiniteSets

CONSTANTS
  Requests,     \* request slots: how many handlers may be in flight at once
  Techs,        \* the company's technicians
  NoTech,       \* the technician of an unassigned order
  MaxNew,       \* bound: how many orders are created that replace no other
  MaxOrders,    \* bound: how many orders the company gets, replacements included
  MaxInvoices,  \* bound: how many invoices it gets
  Limit,        \* max_active_orders_per_technician, 0 for no limit
  LegacyLimit,  \* TECHNICIAN_MAX_ACTIVE_ORDERS
  Kinds,        \* the orders the company has: "category", "legacy" or both
  Overrides,    \* the statuses an administrator picks by hand in a form
  Used,         \* the operations in use ("editBlank": edit forms without a status, too)
  Alone         \* those of them that run with no other request in flight

ASSUME TechsAssumption == NoTech \notin Techs
ASSUME LimitsAssumption ==
  /\ {MaxNew, MaxOrders, MaxInvoices, Limit, LegacyLimit} \subseteq Nat
  /\ Kinds \subseteq {"category", "legacy"}

VARIABLES
  order,   \* the committed Order rows, numbered in the order of creation
  log,     \* what the latest OrderStatusLog entries of each order say
  bills,   \* the committed Invoice rows, by the sequence part of their number
  req      \* each request: where it is, and what it read earlier

vars == <<order, log, bills, req>>

Orders == 1..MaxOrders
Numbers == 1..MaxInvoices

ActiveStatus == {"NEW", "WAITING", "IN_PROGRESS"}
Terminal == {"DONE", "CANCELLED"}
Status == ActiveStatus \cup Terminal \cup {"CANCEL_REQUESTED"}
ASSUME OverridesAssumption == Overrides \subseteq Status

\* kind: with a service category or not; from: the order it replaces, 0 for none
OrderRow == [status : Status, tech : Techs \cup {NoTech}, kind : Kinds, from : {0} \cup Orders]
NoOrder == [status |-> "none", tech |-> NoTech, kind |-> "none", from |-> 0]
NewOrder(kind, from) == [status |-> "NEW", tech |-> NoTech, kind |-> kind, from |-> from]

\* new: new_status of the latest entry; asked: old_status of the latest entry
\* whose new_status is CANCEL_REQUESTED
LogEntries == [new : Status \cup {"none"}, asked : Status \cup {"none"}]
FirstEntry(status) == [new |-> status, asked |-> "none"]

\* order: the order an invoice is for, 0 for a number not yet given
Bill == [order : {0} \cup Orders, cancelled : BOOLEAN]

Views == {"accept", "complete", "requestCancel", "forceCancel", "assign", "edit", "status",
          "recycle", "return", "approve", "reject", "techInvoice", "adminInvoice"}
Places == {"loaded", "posted", "selected", "guarded", "numbered", "saved", "reloaded"}

\* op, pc: what the request does and how far it is; o, snap: the order it
\* loaded; tech: the technician it is about; old: a status it read; no:
\* the invoice number it took
Request == [op : Views \cup {"idle"}, pc : Places, o : {0} \cup Orders,
            snap : OrderRow \cup {NoOrder}, tech : Techs \cup {NoTech},
            old : Status \cup {"none"}, no : {0} \cup Numbers]

Loaded(op, o, row, t) ==
  [op |-> op, pc |-> "loaded", o |-> o, snap |-> row, tech |-> t, old |-> "none", no |-> 0]
Idle == Loaded("idle", 0, NoOrder, NoTech)

Init ==
  /\ order = [o \in Orders |-> NoOrder]
  /\ log = [o \in Orders |-> FirstEntry("none")]
  /\ bills = [n \in Numbers |-> [order |-> 0, cancelled |-> FALSE]]
  /\ req = [r \in Requests |-> Idle]

----------------------------------------------------------------------------
\* Rows

Existing == {o \in Orders : order[o] # NoOrder}
Fresh(o) == o \notin Existing /\ \A q \in Orders : q < o => q \in Existing

\* Bound: no request is begun, and no order created, without a row left for
\* what the requests in flight may insert.
Inserting(ops) == Cardinality({r \in Requests : req[r].op \in ops})
RoomForOrder ==
  Inserting({"recycle", "return"}) < MaxOrders - Cardinality(Existing)

\* The orders a transaction in flight has selected for update, or has updated.
Selected(o) == \E r \in Requests : req[r].op = "accept" /\ req[r].pc = "selected" /\ req[r].o = o
Updated(o) ==
  \E r \in Requests : req[r].op = "complete" /\ req[r].pc \in {"guarded", "numbered"} /\ req[r].o = o
Locked(o) == Selected(o) \/ Updated(o)

\* Every service that writes a status adds a log entry, from the status of its
\* copy to the one it writes.  Mutant: logged before the status is changed.
LoggedBefore(o, old, new) == [log EXCEPT ![o] = [@ EXCEPT !.new = old]]
Logged(o, old, new) ==
  [log EXCEPT ![o] = [new |-> new, asked |-> IF new = "CANCEL_REQUESTED" THEN old ELSE @.asked]]

Write(o, row, old) ==
  /\ order' = [order EXCEPT ![o] = row]
  /\ log' = Logged(o, old, row.status)

\* The order is cancelled and a new one takes its place, in one transaction.
Replace(o, row, snap) ==
  \E n \in Orders :
    /\ Fresh(n)
    /\ order' = [order EXCEPT ![o] = row, ![n] = NewOrder(snap.kind, o)]
    /\ log' = [Logged(o, snap.status, row.status) EXCEPT ![n] = FirstEntry("NEW")]

WithStatus(o, status) == [order[o] EXCEPT !.status = status]
Released(o) == [order[o] EXCEPT !.status = "CANCELLED", !.tech = NoTech]
Assigned(o, status, t) == [order[o] EXCEPT !.status = status, !.tech = t]

----------------------------------------------------------------------------
\* Requests

Finish(r) == req' = [req EXCEPT ![r] = Idle]
Goto(r, place) == req' = [req EXCEPT ![r].pc = place]
At(r, op, place) == req[r].op = op /\ req[r].pc = place

\* An operation in Alone waits until no other request is in flight, and no
\* other request begins before it has ended.
MayBegin(r, op) ==
  /\ op \in Used
  /\ req[r].op = "idle"
  /\ \A q \in Requests :
       /\ req[q].op # "idle" => op \notin Alone
       /\ req[q].op \notin Alone

\* The statuses in which a view and its service accept the copy they loaded.
Admits(op) ==
  CASE op \in {"accept", "assign"} -> {"NEW"}
    [] op = "complete" -> {"IN_PROGRESS"}
    [] op = "requestCancel" -> {"NEW", "IN_PROGRESS"}
    [] op = "forceCancel" -> Status \ Terminal
    [] op = "status" -> {"WAITING", "IN_PROGRESS"}
    [] op = "return" -> Status \ Terminal
    [] op \in {"approve", "reject"} -> {"CANCEL_REQUESTED"}
    [] OTHER -> Status

Load(r, op, o, t) ==
  /\ MayBegin(r, op)
  /\ order[o].status \in Admits(op)
  /\ req' = [req EXCEPT ![r] = Loaded(op, o, order[o], t)]
  /\ UNCHANGED <<order, log, bills>>

----------------------------------------------------------------------------
\* Orders are created NEW by the office or the customer; the office may pick a
\* technician, which makes the order WAITING.

Create ==
  /\ "create" \in Used
  /\ \A r \in Requests : req[r].op \notin Alone
  /\ RoomForOrder
  /\ Cardinality({o \in Existing : order[o].from = 0}) < MaxNew
  /\ \E o \in Orders, kind \in Kinds, t \in Techs \cup {NoTech}, s \in {"NEW"} \cup Overrides :
       LET status == IF t = NoTech THEN s ELSE "WAITING" IN
       /\ Fresh(o)
       /\ order' = [order EXCEPT ![o] = [NewOrder(kind, 0) EXCEPT !.status = status, !.tech = t]]
       /\ log' = [log EXCEPT ![o] = FirstEntry(status)]
  /\ UNCHANGED <<bills, req>>

----------------------------------------------------------------------------
\* A technician accepts an order.  Refusals for other reasons than those
\* below (skill, availability, priority delays, service date) may happen.

Workload(t, statuses) == Cardinality({o \in Orders : order[o].tech = t /\ order[o].status \in statuses})
ActiveTechnicianStatuses == {"WAITING", "IN_PROGRESS"}
Below(n, limit) == limit = 0 \/ n < limit

BeginAccept(r) ==
  \E o \in Orders, t \in Techs :
    /\ Load(r, "accept", o, t)
    /\ order[o].tech = NoTech
    /\ Below(Workload(t, ActiveTechnicianStatuses),
             IF order[o].kind = "category" THEN Limit ELSE LegacyLimit)

\* Mutant: no second look at the order under its lock.
AcceptableAsLoaded(row, kind, t) == Below(Workload(t, ActiveTechnicianStatuses), Limit)

\* The view picks the service by its copy's category.  OrderAcceptService, for
\* orders without one, does not ask whether the order is assigned.
Acceptable(row, kind, t) ==
  /\ row.status = "NEW"
  /\ IF kind = "category"
       THEN /\ row.tech = NoTech
            /\ row.kind = "category"
            /\ Below(Workload(t, ActiveTechnicianStatuses), Limit)
       ELSE Workload(t, {"IN_PROGRESS"}) < LegacyLimit

SelectAccept(r) ==
  /\ At(r, "accept", "loaded")
  /\ ~Locked(req[r].o)
  /\ Acceptable(order[req[r].o], req[r].snap.kind, req[r].tech)
  /\ Goto(r, "selected")
  /\ UNCHANGED <<order, log, bills>>

RefuseAccept(r) ==
  /\ At(r, "accept", "loaded")
  /\ ~Locked(req[r].o)
  /\ Finish(r)
  /\ UNCHANGED <<order, log, bills>>

SaveAccept(r) ==
  LET status == IF req[r].snap.kind = "category" THEN "WAITING" ELSE "IN_PROGRESS" IN
  /\ At(r, "accept", "selected")
  /\ Write(req[r].o, Assigned(req[r].o, status, req[r].tech), order[req[r].o].status)
  /\ Finish(r)
  /\ UNCHANGED bills

----------------------------------------------------------------------------
\* The office assigns, cancels and edits; the customer or the technician asks
\* for cancellation; the technician reports progress.

BeginUnlocked(r) ==
  \E o \in Orders, op \in {"requestCancel", "forceCancel", "assign", "approve", "edit"} :
    Load(r, op, o, NoTech)

\* A service that saves the columns it names into the row, once nobody holds it.
Save(r, op, row) ==
  /\ At(r, op, "loaded")
  /\ ~Locked(req[r].o)
  /\ Write(req[r].o, row, req[r].snap.status)
  /\ Finish(r)
  /\ UNCHANGED bills

Assign(r) == \E t \in Techs : Save(r, "assign", Assigned(req[r].o, "WAITING", t))

RequestCancel(r) == Save(r, "requestCancel", WithStatus(req[r].o, "CANCEL_REQUESTED"))

ForceCancel(r) == Save(r, "forceCancel", Released(req[r].o))

Approve(r) == Save(r, "approve", WithStatus(req[r].o, "CANCELLED"))

BeginStatus(r) ==
  \E o \in Orders, t \in Techs :
    /\ order[o].tech = t
    /\ Load(r, "status", o, NoTech)

Progress(status) == IF status = "WAITING" THEN "IN_PROGRESS" ELSE "DONE"

\* TechnicianStatusUpdateService: the next status, or a request to cancel,
\* which the company may have set to be recycled at once.
Advance(r) == Save(r, "status", WithStatus(req[r].o, Progress(req[r].snap.status)))

AskToCancel(r) == Save(r, "status", WithStatus(req[r].o, "CANCEL_REQUESTED"))

AutoRecycle(r) ==
  /\ At(r, "status", "loaded")
  /\ ~Locked(req[r].o)
  /\ Replace(req[r].o, Released(req[r].o), req[r].snap)
  /\ Finish(r)
  /\ UNCHANGED bills

----------------------------------------------------------------------------
\* The edit form.  It is filled in from the order as it was when the page was
\* shown, its status field included, and is posted later.

PostEdit(r) ==
  /\ At(r, "edit", "loaded")
  /\ req' = [req EXCEPT ![r].pc = "posted", ![r].old = order[req[r].o].status]
  /\ UNCHANGED <<order, log, bills>>

SaveEdit(r) ==
  LET o == req[r].o IN
  /\ At(r, "edit", "posted")
  /\ ~Locked(o)
  /\ \E status \in {req[r].snap.status} \cup Overrides, kind \in Kinds :
       Write(o, [WithStatus(o, status) EXCEPT !.kind = kind], req[r].old)
  /\ Goto(r, "saved")
  /\ UNCHANGED bills

\* A form posted without a status: the column is not written, and the entry says twice
\* the status that was read with the form.
SaveBlankEdit(r) ==
  LET o == req[r].o IN
  /\ "editBlank" \in Used
  /\ At(r, "edit", "posted")
  /\ ~Locked(o)
  /\ \E kind \in Kinds : order' = [order EXCEPT ![o] = [@ EXCEPT !.kind = kind]]
  /\ log' = Logged(o, req[r].old, req[r].old)
  /\ Goto(r, "saved")
  /\ UNCHANGED bills

\* The view then reads the order again and assigns the technician of the form,
\* if that is another one and the order may still be assigned.
ReloadEdit(r) ==
  LET row == order[req[r].o] IN
  /\ At(r, "edit", "saved")
  /\ \E t \in Techs \cup {NoTech} :
       IF t \notin {NoTech, row.tech} /\ row.status \in ActiveStatus
         THEN req' = [req EXCEPT ![r].pc = "reloaded", ![r].snap = row, ![r].tech = t]
         ELSE Finish(r)
  /\ UNCHANGED <<order, log, bills>>

\* It writes the technician and the status together.
HandleAssignment(r) ==
  LET snap == req[r].snap
      status == IF snap.status = "NEW" THEN "WAITING" ELSE snap.status IN
  /\ At(r, "edit", "reloaded")
  /\ ~Locked(req[r].o)
  /\ Write(req[r].o, Assigned(req[r].o, status, req[r].tech), snap.status)
  /\ Finish(r)
  /\ UNCHANGED bills

----------------------------------------------------------------------------
\* Recycling and returning to the cycle, neither of which locks the order.

BeginRecycle(r) == RoomForOrder /\ \E o \in Orders : Load(r, "recycle", o, NoTech)

\* The office may recycle an order in any status, a cancelled one included.
Recycle(r) ==
  /\ At(r, "recycle", "loaded")
  /\ ~Locked(req[r].o)
  /\ Replace(req[r].o, Released(req[r].o), req[r].snap)
  /\ Finish(r)
  /\ UNCHANGED bills

ActiveBills(o) == {n \in Numbers : bills[n].order = o /\ ~bills[n].cancelled}

\* Mutant: every status may be returned.
BeginReturnAny(r) ==
  /\ RoomForOrder
  /\ \E o \in Existing :
       /\ MayBegin(r, "return")
       /\ req' = [req EXCEPT ![r] = Loaded("return", o, order[o], NoTech)]
  /\ UNCHANGED <<order, log, bills>>

BeginReturn(r) == RoomForOrder /\ \E o \in Orders : Load(r, "return", o, NoTech)

GuardReturn(r) ==
  /\ At(r, "return", "loaded")
  /\ IF ActiveBills(req[r].o) = {} THEN Goto(r, "guarded") ELSE Finish(r)
  /\ UNCHANGED <<order, log, bills>>

\* The old order keeps its technician.
Return(r) ==
  /\ At(r, "return", "guarded")
  /\ ~Locked(req[r].o)
  /\ Replace(req[r].o, WithStatus(req[r].o, "CANCELLED"), req[r].snap)
  /\ Finish(r)
  /\ UNCHANGED bills

----------------------------------------------------------------------------
\* A rejected request for cancellation: the status to restore is read from the
\* log, and is checked against the statuses that make sense.

BeginReject(r) == \E o \in Orders : Load(r, "reject", o, NoTech)

ReadLog(r) ==
  /\ At(r, "reject", "loaded")
  /\ req' = [req EXCEPT ![r].pc = "guarded", ![r].old = log[req[r].o].asked]
  /\ UNCHANGED <<order, log, bills>>

\* Mutant: WAITING is the fallback for every order.
RestoreWaiting(old, tech) == IF old \in ActiveStatus THEN old ELSE "WAITING"

Restored(old, tech) ==
  IF old \in ActiveStatus THEN old ELSE IF tech # NoTech THEN "WAITING" ELSE "NEW"

Reject(r) ==
  LET status == Restored(req[r].old, req[r].snap.tech) IN
  /\ At(r, "reject", "guarded")
  /\ ~Locked(req[r].o)
  /\ Write(req[r].o, WithStatus(req[r].o, status), req[r].snap.status)
  /\ Finish(r)
  /\ UNCHANGED bills

----------------------------------------------------------------------------
\* Invoices.  A technician's request and the completion look for an active
\* invoice first; the office's does not.  The number is the count of the
\* company's invoices plus one, and must be unique when the row is inserted.

Count == Cardinality({n \in Numbers : bills[n].order # 0})
Billing == {"complete", "techInvoice", "adminInvoice"}
RoomForBill == Inserting(Billing) < MaxInvoices - Count

BeginComplete(r) == RoomForBill /\ \E o \in Orders : Load(r, "complete", o, NoTech)

\* Completing updates the order, which stays locked until the invoice is in.
LookForBill(r) ==
  LET o == req[r].o IN
  /\ At(r, "complete", "loaded")
  /\ ~Locked(o)
  /\ IF ActiveBills(o) = {}
       THEN Goto(r, "guarded") /\ UNCHANGED <<order, log>>
       ELSE Write(o, WithStatus(o, "DONE"), req[r].snap.status) /\ Finish(r)
  /\ UNCHANGED bills

\* Mutant: without InvoiceDuplicateGuard.
MayBillAgain(op, o) == op = "adminInvoice" \/ order[o].tech # NoTech

MayBill(op, o) ==
  \/ op = "adminInvoice"
  \/ order[o].tech # NoTech /\ ActiveBills(o) = {}

BeginBill(r) ==
  /\ RoomForBill
  /\ \E op \in {"techInvoice", "adminInvoice"}, o \in Existing :
       /\ MayBegin(r, op)
       /\ MayBill(op, o)
       /\ req' = [req EXCEPT ![r] = [Loaded(op, o, NoOrder, NoTech) EXCEPT !.pc = "guarded"]]
  /\ UNCHANGED <<order, log, bills>>

TakeNumber(r) ==
  /\ req[r].op \in Billing
  /\ req[r].pc = "guarded"
  /\ req' = [req EXCEPT ![r].pc = "numbered", ![r].no = Count + 1]
  /\ UNCHANGED <<order, log, bills>>

AddBill(r) == bills' = [bills EXCEPT ![req[r].no] = [order |-> req[r].o, cancelled |-> FALSE]]

\* A number that has been taken meanwhile fails the whole transaction.
InsertBill(r) ==
  /\ req[r].op \in {"techInvoice", "adminInvoice"} /\ req[r].pc = "numbered"
  /\ ~Selected(req[r].o)
  /\ IF bills[req[r].no].order = 0 THEN AddBill(r) ELSE UNCHANGED bills
  /\ Finish(r)
  /\ UNCHANGED <<order, log>>

InsertPlaceholder(r) ==
  LET o == req[r].o IN
  /\ At(r, "complete", "numbered")
  /\ IF bills[req[r].no].order = 0
       THEN AddBill(r) /\ Write(o, WithStatus(o, "DONE"), req[r].snap.status)
       ELSE UNCHANGED <<order, log, bills>>
  /\ Finish(r)

CancelBill ==
  /\ "cancelInvoice" \in Used
  /\ \A r \in Requests : req[r].op \notin Alone
  /\ \E n \in Numbers :
       /\ bills[n].order # 0
       /\ ~bills[n].cancelled
       /\ bills' = [bills EXCEPT ![n].cancelled = TRUE]
  /\ UNCHANGED <<order, log, req>>

----------------------------------------------------------------------------

Begin(r) ==
  \/ BeginAccept(r) \/ BeginUnlocked(r) \/ BeginStatus(r) \/ BeginRecycle(r)
  \/ BeginReturn(r) \/ BeginReject(r) \/ BeginComplete(r) \/ BeginBill(r)

Step(r) ==
  \/ SelectAccept(r) \/ RefuseAccept(r) \/ SaveAccept(r)
  \/ Assign(r) \/ RequestCancel(r) \/ ForceCancel(r) \/ Approve(r)
  \/ Advance(r) \/ AskToCancel(r) \/ AutoRecycle(r)
  \/ PostEdit(r) \/ SaveEdit(r) \/ SaveBlankEdit(r) \/ ReloadEdit(r) \/ HandleAssignment(r)
  \/ Recycle(r) \/ GuardReturn(r) \/ Return(r) \/ ReadLog(r) \/ Reject(r)
  \/ LookForBill(r) \/ TakeNumber(r) \/ InsertBill(r) \/ InsertPlaceholder(r)

Next ==
  \/ Create \/ CancelBill
  \/ \E r \in Requests : Begin(r) \/ Step(r)

Spec == Init /\ [][Next]_vars

----------------------------------------------------------------------------
\* Properties

\* Rows, log entries and requests have the shape the models give them.
TypeOK ==
  /\ order \in [Orders -> OrderRow \cup {NoOrder}]
  /\ log \in [Orders -> LogEntries]
  /\ bills \in [Numbers -> Bill]
  /\ req \in [Requests -> Request]

\* What an acceptance has seen under its lock still stands when it saves:
\* two technicians never both get the order, and none gets an order the office
\* has assigned or cancelled meanwhile.
HeldOrderStands ==
  \A r \in Requests : At(r, "accept", "selected") =>
    /\ order[req[r].o].status = "NEW"
    /\ req[r].snap.kind = "category" => order[req[r].o].tech = NoTech
    /\ \A q \in Requests \ {r} :
         req[q].o = req[r].o => ~At(q, "accept", "selected") /\ ~Updated(req[r].o)

\* The newest log entry always says the status the order has, whatever stale
\* copy the writing service worked on.
LoggedStatus == \A o \in Orders : log[o].new = order[o].status

\* An order being worked on has a technician, and one offered to technicians
\* has none, after any sequence of requests and rejections.
AssignedWhenActive ==
  \A o \in Orders :
    /\ order[o].status \in ActiveTechnicianStatuses => order[o].tech # NoTech
    /\ order[o].status = "NEW" => order[o].tech = NoTech

\* An order that has been replaced stays cancelled and is replaced once: the
\* customer's job never lives on twice.
NoTwinOrders ==
  \A a \in Existing : order[a].from # 0 =>
    /\ order[order[a].from].status = "CANCELLED"
    /\ \A b \in Existing \ {a} : order[b].from # order[a].from

\* A technician who accepts an order is then within the company's limit.
AcceptWithinLimit ==
  [][\A r \in Requests : SaveAccept(r) /\ req[r].snap.kind = "category" =>
       \E t \in Techs :
         /\ t = req[r].tech
         /\ Limit = 0 \/ Cardinality({o \in Orders : order'[o].tech = t
              /\ order'[o].status \in ActiveTechnicianStatuses}) <= Limit]_vars

\* No order has two invoices that are not cancelled.
InvoicedOnce == \A o \in Orders : Cardinality(ActiveBills(o)) <= 1

=============================================================================
