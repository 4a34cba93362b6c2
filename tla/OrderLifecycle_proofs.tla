------------------------ MODULE OrderLifecycle_proofs ------------------------
(***************************************************************************)
(* The lock of an acceptance protects what it has seen, and the log says   *)
(* the status of the order, for any number of requests, technicians,       *)
(* orders and invoices; and, where operations run alone, an order in work  *)
(* has a technician, is replaced once and is invoiced once.                *)
(***************************************************************************)
EXTENDS OrderLifecycle, FiniteSetTheorems, TLAPS

USE LimitsAssumption, OverridesAssumption

----------------------------------------------------------------------------
\* The shape of rows and requests

\* A row, or none; a request, whatever number it has taken.
Row == [status : Status \cup {"none"}, tech : Techs \cup {NoTech},
        kind : Kinds \cup {"none"}, from : {0} \cup Orders]
Entry == [new : Status \cup {"none"}, asked : Status \cup {"none"}]
Req == [op : Views \cup {"idle"}, pc : Places, o : {0} \cup Orders, snap : Row,
        tech : Techs \cup {NoTech}, old : Status \cup {"none"}, no : Nat]

Shape ==
  /\ order \in [Orders -> Row]
  /\ log \in [Orders -> Entry]
  /\ req \in [Requests -> Req]
  /\ \A r \in Requests : req[r].op # "idle" => req[r].o \in Orders

LEMMA RowTypes ==
  /\ NoOrder \in Row /\ Idle \in Req /\ Idle.op = "idle" /\ NoOrder.status = "none"
  /\ \A kind \in Kinds \cup {"none"}, o \in {0} \cup Orders : NewOrder(kind, o) \in Row
BY DEF NoOrder, Row, Idle, Loaded, Req, NewOrder, Status, ActiveStatus, Terminal, Views, Places

LEMMA RowChanges ==
  ASSUME NEW row \in Row, NEW status \in Status \cup {"none"}, NEW t \in Techs \cup {NoTech},
         NEW kind \in Kinds
  PROVE  /\ [row EXCEPT !.status = status] \in Row
         /\ [row EXCEPT !.status = status, !.tech = t] \in Row
         /\ [[row EXCEPT !.status = status] EXCEPT !.kind = kind] \in Row
BY DEF Row

\* The requests remain typed when r moves on, ends, or is about something else.
LEMMA Moves ==
  ASSUME Shape, NEW r \in Requests, NEW f \in Req, req' = [req EXCEPT ![r] = f],
         f.op # "idle" => f.o \in Orders
  PROVE  /\ req' \in [Requests -> Req]
         /\ \A q \in Requests : req'[q].op # "idle" => req'[q].o \in Orders
BY DEF Shape

LEMMA Finishes ==
  ASSUME Shape, NEW r \in Requests, Finish(r)
  PROVE  /\ req' \in [Requests -> Req]
         /\ \A q \in Requests : req'[q].op # "idle" => req'[q].o \in Orders
BY Moves, RowTypes DEF Finish

LEMMA Goes ==
  ASSUME Shape, NEW r \in Requests, NEW place \in Places, Goto(r, place)
  PROVE  /\ req' \in [Requests -> Req]
         /\ \A q \in Requests : req'[q].op # "idle" => req'[q].o \in Orders
<1>1. req[r] \in Req BY DEF Shape
<1>2. PICK f : f = [req[r] EXCEPT !.pc = place] OBVIOUS
<1>3. f \in Req /\ f.op = req[r].op /\ f.o = req[r].o BY <1>1, <1>2 DEF Req
<1>4. req' = [req EXCEPT ![r] = f] BY <1>2 DEF Goto
<1>5. QED BY <1>3, <1>4, Moves DEF Shape

\* What a view may load is an order that exists.
LEMMA Admitted == \A op : Admits(op) \subseteq Status
BY DEF Admits, Status, ActiveStatus, Terminal

LEMMA Loads ==
  ASSUME Shape, NEW r \in Requests, NEW op \in Views, NEW o \in Orders,
         NEW t \in Techs \cup {NoTech}, Load(r, op, o, t)
  PROVE  Shape'
<1>1. PICK f : f = Loaded(op, o, order[o], t) OBVIOUS
<1>2. order[o] \in Row BY DEF Shape
<1>3. f \in Req /\ f.o = o BY <1>1, <1>2 DEF Loaded, Req, Places, Status, ActiveStatus, Terminal
<1>4. req' = [req EXCEPT ![r] = f] BY <1>1 DEF Load
<1>5. UNCHANGED <<order, log>> BY DEF Load
<1>6. QED BY <1>3, <1>4, <1>5, Moves DEF Shape

\* Writing a row and its log entry.
LEMMA Writes ==
  ASSUME Shape, NEW o \in Orders, NEW row \in Row, NEW old \in Status \cup {"none"}, Write(o, row, old)
  PROVE  order' \in [Orders -> Row] /\ log' \in [Orders -> Entry]
<1>1. order' \in [Orders -> Row] BY DEF Write, Shape
<1>2. log[o] \in Entry /\ row.status \in Status \cup {"none"} BY DEF Shape, Row
<1>3. [new |-> row.status, asked |-> IF row.status = "CANCEL_REQUESTED" THEN old ELSE log[o].asked]
        \in Entry
  BY <1>2 DEF Entry
<1>4. log' \in [Orders -> Entry] BY <1>3 DEF Write, Logged, Shape
<1>5. QED BY <1>1, <1>4

LEMMA LogsTwice ==
  ASSUME Shape, NEW o \in Orders, NEW row \in Row, NEW old \in Status \cup {"none"},
         order' = [order EXCEPT ![o] = row], log' = Logged(o, old, old)
  PROVE  order' \in [Orders -> Row] /\ log' \in [Orders -> Entry]
<1>1. log[o] \in Entry BY DEF Shape
<1>2. [new |-> old, asked |-> IF old = "CANCEL_REQUESTED" THEN old ELSE log[o].asked] \in Entry
  BY <1>1 DEF Entry
<1>3. QED BY <1>2 DEF Logged, Shape

LEMMA Replaces ==
  ASSUME Shape, NEW o \in Orders, NEW row \in Row, NEW snap \in Row, Replace(o, row, snap)
  PROVE  order' \in [Orders -> Row] /\ log' \in [Orders -> Entry]
<1>1. PICK n \in Orders :
        /\ order' = [order EXCEPT ![o] = row, ![n] = NewOrder(snap.kind, o)]
        /\ log' = [Logged(o, snap.status, row.status) EXCEPT ![n] = FirstEntry("NEW")]
  BY DEF Replace
<1>2. snap.kind \in Kinds \cup {"none"} /\ snap.status \in Status \cup {"none"} BY DEF Row
<1>3. NewOrder(snap.kind, o) \in Row BY <1>2, RowTypes
<1>4. order' \in [Orders -> Row] BY <1>1, <1>3 DEF Shape
<1>5. log[o] \in Entry /\ row.status \in Status \cup {"none"} BY DEF Shape, Row
<1>6. [new |-> row.status,
       asked |-> IF row.status = "CANCEL_REQUESTED" THEN snap.status ELSE log[o].asked] \in Entry
  BY <1>2, <1>5 DEF Entry
<1>7. FirstEntry("NEW") \in Entry BY DEF FirstEntry, Entry, Status, ActiveStatus
<1>8. log' \in [Orders -> Entry] BY <1>1, <1>6, <1>7 DEF Logged, Shape
<1>9. QED BY <1>4, <1>8

----------------------------------------------------------------------------
\* What a step of r does to r

\* The request f that r becomes.  An order is locked by an acceptance that looks under
\* its lock, and by a completion that starts from an order nobody has locked.
Locking(f) == f.op = "accept" /\ f.pc = "selected"
Updating(f) == f.op = "complete" /\ f.pc \in {"guarded", "numbered"}

Becomes(r, f) ==
  /\ req' = [req EXCEPT ![r] = f]
  /\ f.op # "idle" => f.o \in Orders
  /\ Locking(f) => SelectAccept(r) /\ f.o = req[r].o /\ f.snap = req[r].snap
  /\ Updating(f) => f.o = req[r].o /\ (Updating(req[r]) \/ (~Locked(req[r].o) /\ UNCHANGED order))

LEMMA FinishBecomes == \A r \in Requests : Finish(r) => \E f \in Req : Becomes(r, f)
<1> SUFFICES ASSUME NEW r \in Requests, Finish(r) PROVE Idle \in Req /\ Becomes(r, Idle)
  OBVIOUS
<1>1. QED BY RowTypes DEF Finish, Becomes, Locking, Updating

\* A place that is not one of those with a lock.
LEMMA GotoBecomes ==
  ASSUME Shape, NEW r \in Requests, NEW place \in Places, Goto(r, place), req[r].op # "idle",
         req[r].op = "accept" /\ place = "selected" => SelectAccept(r),
         req[r].op = "complete" /\ place \in {"guarded", "numbered"} =>
           Updating(req[r]) \/ (~Locked(req[r].o) /\ UNCHANGED order)
  PROVE  \E f \in Req : Becomes(r, f)
<1>1. req[r] \in Req BY DEF Shape
<1>2. PICK f : f = [req[r] EXCEPT !.pc = place] OBVIOUS
<1>3. /\ f \in Req /\ f.op = req[r].op /\ f.o = req[r].o /\ f.pc = place /\ f.snap = req[r].snap
  BY <1>1, <1>2 DEF Req
<1>4. req' = [req EXCEPT ![r] = f] BY <1>2 DEF Goto
<1>5. Becomes(r, f) BY <1>3, <1>4 DEF Becomes, Shape, Locking, Updating
<1>6. QED BY <1>3, <1>5

LEMMA LoadBecomes ==
  ASSUME Shape, NEW r \in Requests, NEW op \in Views, NEW o \in Orders,
         NEW t \in Techs \cup {NoTech}, Load(r, op, o, t)
  PROVE  \E f \in Req : Becomes(r, f)
<1>1. PICK f : f = Loaded(op, o, order[o], t) OBVIOUS
<1>2. order[o] \in Row BY DEF Shape
<1>3. f \in Req /\ f.o = o /\ f.pc = "loaded"
  BY <1>1, <1>2 DEF Loaded, Req, Places, Status, ActiveStatus, Terminal
<1>4. req' = [req EXCEPT ![r] = f] BY <1>1 DEF Load
<1>5. Becomes(r, f) BY <1>3, <1>4 DEF Becomes, Locking, Updating
<1>6. QED BY <1>3, <1>5

LEMMA BeginBecomes ==
  ASSUME Shape, NEW r \in Requests, Begin(r)
  PROVE  \E f \in Req : Becomes(r, f)
<1>1. CASE \E op \in Views, o \in Orders, t \in Techs \cup {NoTech} : Load(r, op, o, t)
  BY <1>1, LoadBecomes
<1>2. CASE BeginBill(r)
  <2>1. PICK op \in {"techInvoice", "adminInvoice"}, o \in Existing :
          req' = [req EXCEPT ![r] = [Loaded(op, o, NoOrder, NoTech) EXCEPT !.pc = "guarded"]]
    BY <1>2 DEF BeginBill
  <2>2. PICK f : f = [Loaded(op, o, NoOrder, NoTech) EXCEPT !.pc = "guarded"] OBVIOUS
  <2>3. o \in Orders BY DEF Existing
  <2>4. f \in Req /\ f.op = op /\ f.o = o
    BY <2>2, <2>3, RowTypes DEF Loaded, Req, Places, Views
  <2>5. Becomes(r, f) BY <2>1, <2>2, <2>3, <2>4 DEF Becomes, Locking, Updating
  <2>6. QED BY <2>4, <2>5
<1>3. QED
  BY <1>1, <1>2
     DEF Begin, BeginAccept, BeginUnlocked, BeginStatus, BeginRecycle, BeginReturn, BeginReject,
         BeginComplete, Views

\* Those a save ends.
LEMMA SaveFinishes ==
  ASSUME NEW r \in Requests,
         \/ SaveAccept(r) \/ RefuseAccept(r) \/ Assign(r) \/ RequestCancel(r) \/ ForceCancel(r)
         \/ Approve(r) \/ Advance(r) \/ AskToCancel(r) \/ AutoRecycle(r) \/ HandleAssignment(r)
         \/ Recycle(r) \/ Return(r) \/ Reject(r) \/ InsertBill(r) \/ InsertPlaceholder(r)
  PROVE  Finish(r)
BY DEF SaveAccept, RefuseAccept, Assign, RequestCancel, ForceCancel, Approve, Advance, AskToCancel,
       AutoRecycle, HandleAssignment, Recycle, Return, Reject, InsertBill, InsertPlaceholder, Save

\* The number is taken from a count of the rows.
LEMMA CountIsNat == Count \in Nat
<1>1. IsFiniteSet(Numbers) BY FS_Interval DEF Numbers
<1>2. QED BY <1>1, FS_Subset, FS_CardinalityType DEF Count

LEMMA StepBecomes ==
  ASSUME Shape, NEW r \in Requests, Step(r)
  PROVE  \E f \in Req : Becomes(r, f)
<1> USE DEF Places
<1>1. req[r] \in Req BY DEF Shape
<1>2. CASE SelectAccept(r) BY <1>2, GotoBecomes DEF SelectAccept, At
<1>3. CASE PostEdit(r)
  <2>1. PICK f : f = [req[r] EXCEPT !.pc = "posted", !.old = order[req[r].o].status] OBVIOUS
  <2>2. req[r].o \in Orders BY <1>3 DEF PostEdit, At, Shape
  <2>3. order[req[r].o].status \in Status \cup {"none"} BY <2>2 DEF Shape, Row
  <2>4. f \in Req /\ f.op = req[r].op /\ f.o = req[r].o /\ f.pc = "posted"
    BY <1>1, <2>1, <2>3 DEF Req
  <2>5. req' = [req EXCEPT ![r] = f] BY <1>3, <2>1 DEF PostEdit
  <2>6. QED BY <2>2, <2>4, <2>5 DEF Becomes, Locking, Updating
<1>4. CASE SaveEdit(r) \/ SaveBlankEdit(r) BY <1>4, GotoBecomes DEF SaveEdit, SaveBlankEdit, At
<1>5. CASE ReloadEdit(r)
  <2>1. CASE Finish(r) BY <2>1, FinishBecomes
  <2>2. ASSUME NEW t \in Techs \cup {NoTech},
               req' = [req EXCEPT ![r].pc = "reloaded", ![r].snap = order[req[r].o], ![r].tech = t]
        PROVE  \E f \in Req : Becomes(r, f)
    <3>1. PICK f : f = [req[r] EXCEPT !.pc = "reloaded", !.snap = order[req[r].o], !.tech = t] OBVIOUS
    <3>2. req[r].o \in Orders BY <1>5 DEF ReloadEdit, At, Shape
    <3>3. order[req[r].o] \in Row BY <3>2 DEF Shape
    <3>4. f \in Req /\ f.op = req[r].op /\ f.o = req[r].o /\ f.pc = "reloaded"
      BY <1>1, <3>1, <3>3 DEF Req
    <3>5. req' = [req EXCEPT ![r] = f] BY <2>2, <3>1
    <3>6. QED BY <3>2, <3>4, <3>5 DEF Becomes, Locking, Updating
  <2>3. QED BY <1>5, <2>1, <2>2 DEF ReloadEdit
<1>6. CASE GuardReturn(r) BY <1>6, FinishBecomes, GotoBecomes DEF GuardReturn, At
<1>7. CASE ReadLog(r)
  <2>1. PICK f : f = [req[r] EXCEPT !.pc = "guarded", !.old = log[req[r].o].asked] OBVIOUS
  <2>2. req[r].o \in Orders /\ req[r].op = "reject" BY <1>7 DEF ReadLog, At, Shape
  <2>3. log[req[r].o].asked \in Status \cup {"none"} BY <2>2 DEF Shape, Entry
  <2>4. f \in Req /\ f.op = req[r].op /\ f.o = req[r].o BY <1>1, <2>1, <2>3 DEF Req
  <2>5. req' = [req EXCEPT ![r] = f] BY <1>7, <2>1 DEF ReadLog
  <2>6. QED BY <2>2, <2>4, <2>5 DEF Becomes, Locking, Updating
<1>8. CASE LookForBill(r)
  <2>1. ~Locked(req[r].o) /\ At(r, "complete", "loaded") BY <1>8 DEF LookForBill
  <2>2. (Goto(r, "guarded") /\ UNCHANGED order) \/ Finish(r) BY <1>8 DEF LookForBill
  <2>3. QED BY <2>1, <2>2, FinishBecomes, GotoBecomes DEF At
<1>9. CASE TakeNumber(r)
  <2>1. PICK f : f = [req[r] EXCEPT !.pc = "numbered", !.no = Count + 1] OBVIOUS
  <2>2. Count + 1 \in Nat BY CountIsNat
  <2>3. /\ f \in Req /\ f.op = req[r].op /\ f.o = req[r].o /\ f.pc = "numbered"
    BY <1>1, <2>1, <2>2 DEF Req
  <2>4. req' = [req EXCEPT ![r] = f] BY <1>9, <2>1 DEF TakeNumber
  <2>5. req[r].pc = "guarded" BY <1>9 DEF TakeNumber
  <2>6. f.op # "idle" => f.o \in Orders BY <2>3 DEF Shape
  <2>7. ~Locking(f) BY <2>3 DEF Locking
  <2>8. Updating(f) => f.o = req[r].o /\ Updating(req[r]) BY <2>3, <2>5 DEF Updating
  <2>9. Becomes(r, f) BY <2>3, <2>4, <2>5, <2>6 DEF Becomes, Locking, Updating
  <2>10. QED BY <2>3, <2>9
<1>10. QED
  BY <1>2, <1>3, <1>4, <1>5, <1>6, <1>7, <1>8, <1>9, SaveFinishes, FinishBecomes DEF Step

----------------------------------------------------------------------------
\* What a step does to the orders

\* A row is written, or a row is written and replaced by a new one.  Whoever writes
\* holds the lock of the order, or nobody does.
\* An edit without a status says the status it has read, whatever the row holds.
Rewrite(r, o, row) ==
  /\ SaveBlankEdit(r) /\ o = req[r].o /\ row.status = order[o].status
  /\ order' = [order EXCEPT ![o] = row]
  /\ log' = Logged(o, req[r].old, req[r].old)

Writer(r, o) == SaveAccept(r) \/ At(r, "complete", "numbered") \/ ~Locked(o)
Changes(r, o) ==
  /\ Writer(r, o)
  /\ \/ \E row \in Row, old \in Status \cup {"none"} : Write(o, row, old)
     \/ \E row \in Row : Replace(o, row, req[r].snap)
     \/ \E row \in Row : Rewrite(r, o, row)

\* Rows that come of the columns a service writes.
LEMMA Columns ==
  ASSUME Shape, NEW o \in Orders, NEW status \in Status \cup {"none"}, NEW t \in Techs \cup {NoTech}
  PROVE  /\ WithStatus(o, status) \in Row
         /\ Released(o) \in Row
         /\ Assigned(o, status, t) \in Row
         /\ \A kind \in Kinds : [WithStatus(o, status) EXCEPT !.kind = kind] \in Row
<1>1. order[o] \in Row BY DEF Shape
<1>2. "CANCELLED" \in Status BY DEF Status, Terminal
<1>3. QED BY <1>1, <1>2, RowChanges DEF WithStatus, Released, Assigned, Row

LEMMA Columned ==
  ASSUME Shape, NEW r \in Requests, NEW op, NEW row \in Row, Save(r, op, row)
  PROVE  Changes(r, req[r].o)
<1>1. req[r] \in Req BY DEF Shape
<1>2. req[r].snap.status \in Status \cup {"none"} BY <1>1 DEF Req, Row
<1>3. QED BY <1>2 DEF Save, Changes, Writer

\* The columns of a form without a status.
LEMMA BlankRewrites ==
  ASSUME Shape, NEW r \in Requests, req[r].o \in Orders, SaveBlankEdit(r)
  PROVE  \E row \in Row :
           /\ Rewrite(r, req[r].o, row)
           /\ row.tech = order[req[r].o].tech /\ row.from = order[req[r].o].from
<1>1. PICK kind \in Kinds :
        order' = [order EXCEPT ![req[r].o] = [order[req[r].o] EXCEPT !.kind = kind]]
  BY DEF SaveBlankEdit
<1>2. PICK row : row = [order[req[r].o] EXCEPT !.kind = kind] OBVIOUS
<1>3. order[req[r].o] \in Row BY DEF Shape
<1>4. /\ row \in Row /\ row.status = order[req[r].o].status
      /\ row.tech = order[req[r].o].tech /\ row.from = order[req[r].o].from
  BY <1>2, <1>3 DEF Row
<1>5. log' = Logged(req[r].o, req[r].old, req[r].old) BY DEF SaveBlankEdit
<1>6. QED BY <1>1, <1>2, <1>4, <1>5 DEF Rewrite

LEMMA StepChanges ==
  ASSUME Shape, NEW r \in Requests, Step(r)
  PROVE  UNCHANGED <<order, log>> \/ (req[r].o \in Orders /\ Changes(r, req[r].o))
<1> DEFINE o == req[r].o
<1> USE DEF Status, ActiveStatus, Terminal
<1>1. req[r] \in Req BY DEF Shape
<1>2. /\ req[r].snap \in Row /\ req[r].snap.status \in Status \cup {"none"}
      /\ req[r].tech \in Techs \cup {NoTech} /\ req[r].old \in Status \cup {"none"}
  BY <1>1 DEF Req, Row
<1>3. CASE req[r].op = "idle"
  BY <1>3 DEF Step, SelectAccept, RefuseAccept, SaveAccept, Assign, RequestCancel, ForceCancel, Approve,
       Advance, AskToCancel, AutoRecycle, PostEdit, SaveEdit, SaveBlankEdit, ReloadEdit, HandleAssignment, Recycle,
       GuardReturn, Return, ReadLog, Reject, LookForBill, TakeNumber, InsertBill, InsertPlaceholder,
       Save, At, Billing
<1>4. CASE o \in Orders
  <2>1. order[o] \in Row /\ order[o].status \in Status \cup {"none"} BY <1>4 DEF Shape, Row
  <2>2. CASE SaveAccept(r)
    <3>1. PICK status \in Status : Write(o, Assigned(o, status, req[r].tech), order[o].status)
      BY <2>2 DEF SaveAccept
    <3>2. QED BY <1>2, <1>4, <2>1, <2>2, <3>1, Columns DEF Changes, Writer
  <2>3. CASE Assign(r)
    <3>1. PICK t \in Techs : Save(r, "assign", Assigned(o, "WAITING", t)) BY <2>3 DEF Assign
    <3>2. Assigned(o, "WAITING", t) \in Row BY <1>4, Columns
    <3>3. QED BY <1>4, <3>1, <3>2, Columned
  <2>4. CASE RequestCancel(r) \/ AskToCancel(r)
    <3>1. WithStatus(o, "CANCEL_REQUESTED") \in Row BY <1>4, Columns
    <3>2. QED BY <1>4, <2>4, <3>1, Columned DEF RequestCancel, AskToCancel
  <2>5. CASE ForceCancel(r)
    <3>1. Released(o) \in Row BY <1>4, Columns
    <3>2. QED BY <1>4, <2>5, <3>1, Columned DEF ForceCancel
  <2>6. CASE Approve(r)
    <3>1. WithStatus(o, "CANCELLED") \in Row BY <1>4, Columns
    <3>2. QED BY <1>4, <2>6, <3>1, Columned DEF Approve
  <2>7. CASE Advance(r)
    <3>1. Progress(req[r].snap.status) \in Status BY DEF Progress
    <3>2. WithStatus(o, Progress(req[r].snap.status)) \in Row BY <1>4, <3>1, Columns
    <3>3. QED BY <1>4, <2>7, <3>2, Columned DEF Advance
  <2>8. CASE AutoRecycle(r) \/ Recycle(r)
    <3>1. Released(o) \in Row BY <1>4, Columns
    <3>2. ~Locked(o) /\ Replace(o, Released(o), req[r].snap) BY <2>8 DEF AutoRecycle, Recycle
    <3>3. QED BY <1>4, <3>1, <3>2 DEF Changes, Writer
  <2>9. CASE Return(r)
    <3>1. WithStatus(o, "CANCELLED") \in Row BY <1>4, Columns
    <3>2. ~Locked(o) /\ Replace(o, WithStatus(o, "CANCELLED"), req[r].snap) BY <2>9 DEF Return
    <3>3. QED BY <1>4, <3>1, <3>2 DEF Changes, Writer
  <2>10. CASE SaveEdit(r)
    <3>1. PICK status \in {req[r].snap.status} \cup Overrides, kind \in Kinds :
            Write(o, [WithStatus(o, status) EXCEPT !.kind = kind], req[r].old)
      BY <2>10 DEF SaveEdit
    <3>2. status \in Status \cup {"none"} BY <1>2
    <3>3. [WithStatus(o, status) EXCEPT !.kind = kind] \in Row BY <1>4, <3>2, Columns
    <3>4. ~Locked(o) BY <2>10 DEF SaveEdit
    <3>5. QED BY <1>2, <1>4, <3>1, <3>3, <3>4 DEF Changes, Writer
  <2>16. CASE SaveBlankEdit(r)
    <3>1. PICK row \in Row : Rewrite(r, o, row) BY <1>4, <2>16, BlankRewrites
    <3>2. ~Locked(o) BY <2>16 DEF SaveBlankEdit
    <3>3. QED BY <1>4, <3>1, <3>2 DEF Changes, Writer
  <2>11. CASE HandleAssignment(r)
    <3>1. PICK status \in Status \cup {"none"} :
            Write(o, Assigned(o, status, req[r].tech), req[r].snap.status)
      BY <1>2, <2>11 DEF HandleAssignment
    <3>2. Assigned(o, status, req[r].tech) \in Row BY <1>2, <1>4, Columns
    <3>3. ~Locked(o) BY <2>11 DEF HandleAssignment
    <3>4. QED BY <1>2, <1>4, <3>1, <3>2, <3>3 DEF Changes, Writer
  <2>12. CASE Reject(r)
    <3>1. PICK status \in Status : Write(o, WithStatus(o, status), req[r].snap.status)
      BY <2>12 DEF Reject, Restored
    <3>2. WithStatus(o, status) \in Row BY <1>4, Columns
    <3>3. ~Locked(o) BY <2>12 DEF Reject
    <3>4. QED BY <1>2, <1>4, <3>1, <3>2, <3>3 DEF Changes, Writer
  <2>13. CASE LookForBill(r) \/ InsertPlaceholder(r)
    <3>1. \/ UNCHANGED <<order, log>>
          \/ Write(o, WithStatus(o, "DONE"), req[r].snap.status)
      BY <2>13 DEF LookForBill, InsertPlaceholder
    <3>2. WithStatus(o, "DONE") \in Row BY <1>4, Columns
    <3>3. Writer(r, o) BY <2>13 DEF LookForBill, InsertPlaceholder, Writer
    <3>4. QED BY <1>2, <1>4, <3>1, <3>2, <3>3 DEF Changes
  <2>14. CASE \/ SelectAccept(r) \/ RefuseAccept(r) \/ PostEdit(r) \/ ReloadEdit(r) \/ GuardReturn(r)
              \/ ReadLog(r) \/ TakeNumber(r) \/ InsertBill(r)
    BY <2>14 DEF SelectAccept, RefuseAccept, PostEdit, ReloadEdit, GuardReturn, ReadLog, TakeNumber,
                 InsertBill
  <2>15. QED
    BY <2>2, <2>3, <2>4, <2>5, <2>6, <2>7, <2>8, <2>9, <2>10, <2>11, <2>12, <2>13, <2>14, <2>16
       DEF Step
<1>5. QED BY <1>3, <1>4 DEF Shape

LEMMA BeginChanges == \A r \in Requests : Begin(r) => UNCHANGED <<order, log>>
BY DEF Begin, BeginAccept, BeginUnlocked, BeginStatus, BeginRecycle, BeginReturn, BeginReject,
       BeginComplete, BeginBill, Load

----------------------------------------------------------------------------
\* The invariants

LEMMA FreshIsNone == ASSUME Shape, NEW n \in Orders, Fresh(n) PROVE order[n].status = "none"
BY RowTypes DEF Fresh, Existing

LEMMA Creates ==
  ASSUME Shape, Create
  PROVE  \E o \in Orders, row \in Row :
           /\ Fresh(o)
           /\ row.status \in Status
           /\ order' = [order EXCEPT ![o] = row]
           /\ log' = [log EXCEPT ![o] = FirstEntry(row.status)]
           /\ UNCHANGED req
<1>1. PICK o \in Orders, kind \in Kinds, t \in Techs \cup {NoTech}, status \in Status :
        /\ Fresh(o)
        /\ order' = [order EXCEPT ![o] = [NewOrder(kind, 0) EXCEPT !.status = status, !.tech = t]]
        /\ log' = [log EXCEPT ![o] = FirstEntry(status)]
  BY DEF Create, Status, ActiveStatus
<1>2. NewOrder(kind, 0) \in Row BY RowTypes
<1>3. PICK row : row = [NewOrder(kind, 0) EXCEPT !.status = status, !.tech = t] OBVIOUS
<1>4. row \in Row /\ row.status = status BY <1>2, <1>3 DEF Row
<1>5. UNCHANGED req BY DEF Create
<1>6. QED BY <1>1, <1>3, <1>4, <1>5

LEMMA ShapeStarts == Init => Shape
<1> SUFFICES ASSUME Init PROVE Shape OBVIOUS
<1>1. FirstEntry("none") \in Entry BY DEF FirstEntry, Entry
<1>2. QED BY <1>1, RowTypes DEF Init, Shape

LEMMA ShapeSteps == Shape /\ [Next]_vars => Shape'
<1> SUFFICES ASSUME Shape, [Next]_vars PROVE Shape' OBVIOUS
<1>1. ASSUME NEW r \in Requests, Begin(r) \/ Step(r) PROVE Shape'
  <2>1. PICK f \in Req : Becomes(r, f) BY <1>1, BeginBecomes, StepBecomes
  <2>2. /\ req' \in [Requests -> Req]
        /\ \A q \in Requests : req'[q].op # "idle" => req'[q].o \in Orders
    BY <2>1, Moves DEF Becomes
  <2>3. CASE UNCHANGED <<order, log>> BY <2>2, <2>3 DEF Shape
  <2>4. CASE req[r].o \in Orders /\ Changes(r, req[r].o)
    <3>1. req[r].snap \in Row /\ req[r].old \in Status \cup {"none"} BY DEF Shape, Req
    <3>2. order' \in [Orders -> Row] /\ log' \in [Orders -> Entry]
      BY <2>4, <3>1, Writes, Replaces, LogsTwice DEF Changes, Rewrite
    <3>3. QED BY <2>2, <3>2 DEF Shape
  <2>5. QED BY <1>1, <2>3, <2>4, StepChanges, BeginChanges
<1>2. CASE Create
  <2>1. PICK o \in Orders, row \in Row :
          /\ row.status \in Status
          /\ order' = [order EXCEPT ![o] = row]
          /\ log' = [log EXCEPT ![o] = FirstEntry(row.status)]
          /\ UNCHANGED req
    BY <1>2, Creates
  <2>2. FirstEntry(row.status) \in Entry BY <2>1 DEF FirstEntry, Entry
  <2>3. QED BY <2>1, <2>2 DEF Shape
<1>3. CASE CancelBill BY <1>3 DEF CancelBill, Shape
<1>4. CASE UNCHANGED vars BY <1>4 DEF vars, Shape
<1>5. QED BY <1>1, <1>2, <1>3, <1>4 DEF Next

\* A lock that is there after a step was there before, or was free and has just been
\* taken after a look at the order.
Lawful ==
  \A q \in Requests :
    /\ Locking(req'[q]) => \/ req'[q] = req[q] /\ order'[req[q].o] = order[req[q].o]
                           \/ /\ SelectAccept(q) /\ UNCHANGED order
                              /\ req'[q].o = req[q].o /\ req'[q].snap = req[q].snap
                              /\ \A p \in Requests \ {q} : req'[p] = req[p]
    /\ Updating(req'[q]) => /\ req'[q].o = req[q].o
                            /\ \/ Updating(req[q])
                               \/ /\ ~Locked(req[q].o)
                                  /\ \A p \in Requests \ {q} : req'[p] = req[p]

LEMMA Lawfully == Shape /\ HeldOrderStands /\ [Next]_vars => Lawful
<1> SUFFICES ASSUME Shape, HeldOrderStands, [Next]_vars PROVE Lawful OBVIOUS
<1>1. CASE UNCHANGED <<order, req>> BY <1>1 DEF Lawful
<1>2. CASE Create
  <2>1. PICK o \in Orders, row \in Row : Fresh(o) /\ order' = [order EXCEPT ![o] = row] /\ UNCHANGED req
    BY <1>2, Creates
  <2>2. order[o].status = "none" BY <2>1, FreshIsNone
  <2>3. \A q \in Requests : Locking(req[q]) => req[q].o # o
    BY <2>2 DEF HeldOrderStands, Locking, At
  <2>4. \A n : n # o => order'[n] = order[n] BY <2>1 DEF Shape
  <2>5. QED BY <2>1, <2>3, <2>4 DEF Lawful
<1>3. ASSUME NEW r \in Requests, Begin(r) \/ Step(r) PROVE Lawful
  <2>1. PICK f \in Req : Becomes(r, f) BY <1>3, BeginBecomes, StepBecomes
  <2>2. req'[r] = f /\ \A q \in Requests \ {r} : req'[q] = req[q] BY <2>1 DEF Becomes, Shape
  <2>3. ASSUME NEW q \in Requests \ {r}, Locking(req[q]) PROVE order'[req[q].o] = order[req[q].o]
    <3>1. CASE UNCHANGED order BY <3>1
    <3>2. CASE Step(r) /\ req[r].o \in Orders /\ Changes(r, req[r].o)
      <4>1. req[q].o # req[r].o
        <5>1. CASE SaveAccept(r) BY <2>3, <5>1 DEF SaveAccept, HeldOrderStands, At, Locking
        <5>2. CASE At(r, "complete", "numbered")
          BY <2>3, <5>2 DEF HeldOrderStands, At, Locking, Updated
        <5>3. CASE ~Locked(req[r].o) BY <2>3, <5>3 DEF Locked, Selected, Locking
        <5>4. QED BY <3>2, <5>1, <5>2, <5>3 DEF Changes, Writer
      <4>2. order[req[q].o].status = "NEW" BY <2>3 DEF HeldOrderStands, Locking, At
      <4>3. ASSUME NEW n \in Orders, Fresh(n) PROVE n # req[q].o
        BY <4>2, <4>3, FreshIsNone
      <4>4. ASSUME NEW row \in Row, NEW old, Write(req[r].o, row, old)
            PROVE  order'[req[q].o] = order[req[q].o]
        BY <4>1, <4>4 DEF Write, Shape
      <4>5. ASSUME NEW row \in Row, Replace(req[r].o, row, req[r].snap)
            PROVE  order'[req[q].o] = order[req[q].o]
        <5>1. PICK n \in Orders :
                /\ Fresh(n)
                /\ order' = [order EXCEPT ![req[r].o] = row, ![n] = NewOrder(req[r].snap.kind, req[r].o)]
          BY <4>5 DEF Replace
        <5>2. n # req[q].o BY <4>3, <5>1
        <5>3. req[q].o \in Orders BY <2>3 DEF Locking, Shape
        <5>4. QED BY <4>1, <5>1, <5>2, <5>3 DEF Shape
      <4>6. ASSUME NEW row \in Row, Rewrite(r, req[r].o, row)
            PROVE  order'[req[q].o] = order[req[q].o]
        BY <4>1, <4>6 DEF Rewrite, Shape
      <4>7. QED BY <3>2, <4>4, <4>5, <4>6 DEF Changes
    <3>3. QED BY <1>3, <3>1, <3>2, StepChanges, BeginChanges
  <2>4. ASSUME NEW q \in Requests, Locking(req'[q])
        PROVE  \/ req'[q] = req[q] /\ order'[req[q].o] = order[req[q].o]
               \/ /\ SelectAccept(q) /\ UNCHANGED order
                  /\ req'[q].o = req[q].o /\ req'[q].snap = req[q].snap
                  /\ \A p \in Requests \ {q} : req'[p] = req[p]
    <3>1. CASE q # r BY <2>2, <2>3, <2>4, <3>1
    <3>2. CASE q = r
      <4>1. Locking(f) BY <2>2, <2>4, <3>2
      <4>2. SelectAccept(r) /\ f.o = req[r].o /\ f.snap = req[r].snap BY <2>1, <4>1 DEF Becomes
      <4>3. UNCHANGED order BY <4>2 DEF SelectAccept
      <4>4. QED BY <2>2, <3>2, <4>2, <4>3
    <3>3. QED BY <3>1, <3>2
  <2>5. ASSUME NEW q \in Requests, Updating(req'[q])
        PROVE  /\ req'[q].o = req[q].o
               /\ \/ Updating(req[q])
                  \/ ~Locked(req[q].o) /\ \A p \in Requests \ {q} : req'[p] = req[p]
    <3>1. CASE q # r BY <2>2, <2>5, <3>1
    <3>2. CASE q = r
      <4>1. Updating(f) BY <2>2, <2>5, <3>2
      <4>2. f.o = req[r].o /\ (Updating(req[r]) \/ ~Locked(req[r].o)) BY <2>1, <4>1 DEF Becomes
      <4>3. QED BY <2>2, <3>2, <4>2
    <3>3. QED BY <3>1, <3>2
  <2>6. QED BY <2>4, <2>5 DEF Lawful
<1>4. QED BY <1>1, <1>2, <1>3 DEF Next, CancelBill, vars

LEMMA HeldSteps == Shape /\ HeldOrderStands /\ [Next]_vars => HeldOrderStands'
<1> SUFFICES ASSUME Shape, HeldOrderStands, Lawful, NEW r \in Requests, Locking(req'[r])
             PROVE  /\ order'[req'[r].o].status = "NEW"
                    /\ req'[r].snap.kind = "category" => order'[req'[r].o].tech = NoTech
                    /\ \A q \in Requests \ {r} :
                         /\ Locking(req'[q]) => req'[q].o # req'[r].o
                         /\ Updating(req'[q]) => req'[q].o # req'[r].o
  BY Lawfully DEF HeldOrderStands, At, Locking, Updating, Updated
<1>1. CASE Locking(req[r]) /\ req'[r] = req[r] /\ order'[req[r].o] = order[req[r].o]
  <2>1. /\ order[req[r].o].status = "NEW"
        /\ req[r].snap.kind = "category" => order[req[r].o].tech = NoTech
    BY <1>1 DEF HeldOrderStands, At, Locking
  <2>2. Locked(req[r].o) BY <1>1 DEF Locked, Selected, Locking
  <2>3. ASSUME NEW q \in Requests \ {r}, Locking(req'[q]) PROVE req'[q].o # req[r].o
    <3>1. CASE req'[q] = req[q] BY <1>1, <2>3, <3>1 DEF HeldOrderStands, At, Locking
    <3>2. CASE SelectAccept(q) /\ req'[q].o = req[q].o BY <2>2, <3>2 DEF SelectAccept
    <3>3. QED BY <2>3, <3>1, <3>2 DEF Lawful
  <2>4. ASSUME NEW q \in Requests \ {r}, Updating(req'[q]) PROVE req'[q].o # req[r].o
    <3>1. req'[q].o = req[q].o BY <2>4 DEF Lawful
    <3>2. CASE Updating(req[q]) BY <1>1, <3>1, <3>2 DEF HeldOrderStands, At, Locking, Updating, Updated
    <3>3. CASE ~Locked(req[q].o) BY <2>2, <3>1, <3>3
    <3>4. QED BY <2>4, <3>2, <3>3 DEF Lawful
  <2>5. QED BY <1>1, <2>1, <2>3, <2>4
<1>2. CASE /\ SelectAccept(r) /\ UNCHANGED order
           /\ req'[r].o = req[r].o /\ req'[r].snap = req[r].snap
           /\ \A p \in Requests \ {r} : req'[p] = req[p]
  <2>1. /\ order[req[r].o].status = "NEW"
        /\ req[r].snap.kind = "category" => order[req[r].o].tech = NoTech
        /\ ~Locked(req[r].o)
    BY <1>2 DEF SelectAccept, Acceptable
  <2>2. \A q \in Requests \ {r} : /\ Locking(req[q]) => req[q].o # req[r].o
                                  /\ Updating(req[q]) => req[q].o # req[r].o
    BY <2>1 DEF Locked, Selected, Updated, Locking, Updating
  <2>3. QED BY <1>2, <2>1, <2>2
<1>3. QED BY <1>1, <1>2 DEF Lawful

\* What an acceptance has seen under its lock still stands when it saves
\* (OrderCategoryAcceptService, OrderAcceptService).
THEOREM HeldOrderStandsAlways == Spec => []HeldOrderStands
<1>1. Init => HeldOrderStands BY DEF Init, HeldOrderStands, At, Idle, Loaded
<1>2. QED BY <1>1, ShapeStarts, ShapeSteps, HeldSteps, PTL DEF Spec

----------------------------------------------------------------------------
\* Operations alone: one request in flight, whose copy is the row

One ==
  /\ \A r \in Requests : req[r].op # "idle" => req[r].op \in Used
  /\ \A r, q \in Requests : req[r].op # "idle" /\ req[q].op # "idle" => r = q

\* What the request in flight knows of its order, at each place where it looks away.
KnowsRow(r) ==
  \/ req[r].pc = "loaded"
  \/ req[r].op = "edit" /\ req[r].pc \in {"posted", "reloaded"}
  \/ req[r].op \in {"return", "reject"} /\ req[r].pc = "guarded"
  \/ req[r].op = "complete"
Knows(r) ==
  /\ KnowsRow(r) => req[r].snap = order[req[r].o]
  /\ req[r].pc = "loaded" \/ req[r].op = "complete" => order[req[r].o].status \in Admits(req[r].op)
  /\ req[r].op \in {"return", "reject"} => order[req[r].o].status \in Admits(req[r].op)
  /\ req[r].op = "accept" => req[r].tech \in Techs /\ order[req[r].o].status = "NEW"
  /\ At(r, "edit", "posted") => req[r].old = order[req[r].o].status
  /\ At(r, "edit", "reloaded") => order[req[r].o].status \in ActiveStatus /\ req[r].tech \in Techs
  /\ At(r, "reject", "guarded") => req[r].old = log[req[r].o].asked
Informed == \A r \in Requests : req[r].op # "idle" => Knows(r)

\* A row has a technician when its status says so; the status to go back to when a
\* request for cancellation is rejected says so, too, or is none of the log's.
Fits(row, asked) ==
  /\ row.status \in ActiveTechnicianStatuses => row.tech # NoTech
  /\ row.status = "NEW" => row.tech = NoTech
  /\ row.status = "CANCEL_REQUESTED" =>
       /\ asked \in ActiveTechnicianStatuses => row.tech # NoTech
       /\ asked = "NEW" => row.tech = NoTech
AllFit == \A o \in Orders : Fits(order[o], log[o].asked)
Serial == Shape /\ One /\ Informed /\ AllFit

LEMMA AdmittedStatuses ==
  /\ \A op \in {"accept", "assign"} : Admits(op) = {"NEW"}
  /\ Admits("complete") = {"IN_PROGRESS"}
  /\ Admits("requestCancel") = {"NEW", "IN_PROGRESS"}
  /\ Admits("status") = {"WAITING", "IN_PROGRESS"}
  /\ \A op \in {"forceCancel", "return"} : Admits(op) = Status \ Terminal
  /\ \A op \in {"approve", "reject"} : Admits(op) = {"CANCEL_REQUESTED"}
  /\ \A op \in {"edit", "recycle"} : Admits(op) = Status
  BY DEF Admits

\* What may be written: a row of the order it was, cancelled if it was, that fits; or a
\* cancelled one, with a new order in its place.
Proper(r) ==
  LET o == req[r].o IN
  \/ UNCHANGED <<order, log>>
  \/ \E row \in Row, old \in Status \cup {"none"} :
       /\ Write(o, row, old)
       /\ row.from = order[o].from
       /\ order[o].status = "CANCELLED" => row.status = "CANCELLED"
       /\ Fits(row, IF row.status = "CANCEL_REQUESTED" THEN old ELSE log[o].asked)
  \/ \E row \in Row :
       /\ Replace(o, row, req[r].snap)
       /\ row.from = order[o].from /\ row.status = "CANCELLED"
       /\ order[o].status \in Status
       /\ req[r].op = "recycle" \/ order[o].status # "CANCELLED"

\* The columns each service writes.
LEMMA ColumnsOf ==
  ASSUME Shape, NEW o \in Orders, NEW status \in Status \cup {"none"}, NEW t \in Techs \cup {NoTech}
  PROVE  /\ WithStatus(o, status).status = status /\ WithStatus(o, status).tech = order[o].tech
         /\ WithStatus(o, status).from = order[o].from
         /\ Released(o).status = "CANCELLED" /\ Released(o).from = order[o].from
         /\ Assigned(o, status, t).status = status /\ Assigned(o, status, t).tech = t
         /\ Assigned(o, status, t).from = order[o].from
         /\ \A kind \in Kinds :
              LET row == [WithStatus(o, status) EXCEPT !.kind = kind]
              IN  row.status = status /\ row.tech = order[o].tech /\ row.from = order[o].from
<1>1. order[o] \in Row
  BY DEF Shape
<1>2. QED
  BY <1>1 DEF WithStatus, Released, Assigned, Row

\* A write that is proper, from its parts.
LEMMA ProperWrite ==
  ASSUME NEW r \in Requests, NEW row \in Row, NEW old \in Status \cup {"none"},
         Write(req[r].o, row, old), row.from = order[req[r].o].from,
         order[req[r].o].status = "CANCELLED" => row.status = "CANCELLED",
         Fits(row, IF row.status = "CANCEL_REQUESTED" THEN old ELSE log[req[r].o].asked)
  PROVE  Proper(r)
  BY DEF Proper

LEMMA ProperReplace ==
  ASSUME NEW r \in Requests, NEW row \in Row, Replace(req[r].o, row, req[r].snap),
         row.from = order[req[r].o].from, row.status = "CANCELLED",
         order[req[r].o].status \in Status,
         req[r].op = "recycle" \/ order[req[r].o].status # "CANCELLED"
  PROVE  Proper(r)
  BY DEF Proper

LEMMA StepProper ==
  ASSUME Serial, Overrides = {}, NEW r \in Requests, Step(r)
  PROVE  Proper(r)
<1> DEFINE o == req[r].o
<1> USE DEF Status, ActiveStatus, Terminal, ActiveTechnicianStatuses
<1>1. Shape /\ req[r] \in Req
  BY DEF Serial, Shape
<1>2. /\ req[r].snap \in Row /\ req[r].snap.status \in Status \cup {"none"}
      /\ req[r].tech \in Techs \cup {NoTech} /\ req[r].old \in Status \cup {"none"}
  BY <1>1 DEF Req, Row
<1>3. CASE req[r].op = "idle"
  BY <1>3 DEF Step, SelectAccept, RefuseAccept, SaveAccept, Assign, RequestCancel, ForceCancel, Approve,
       Advance, AskToCancel, AutoRecycle, PostEdit, SaveEdit, SaveBlankEdit, ReloadEdit, HandleAssignment, Recycle,
       GuardReturn, Return, ReadLog, Reject, LookForBill, TakeNumber, InsertBill, InsertPlaceholder,
       Save, At, Billing
<1>4. CASE req[r].op # "idle"
  <2> USE AdmittedStatuses
  <2>1. o \in Orders /\ order[o] \in Row /\ order[o].status \in Status \cup {"none"}
    BY <1>1, <1>4 DEF Shape, Row
  <2>2. Knows(r) /\ Fits(order[o], log[o].asked)
    BY <1>4, <2>1 DEF Serial, Informed, AllFit
  <2>3. CASE SaveAccept(r)
    <3>1. PICK status \in {"WAITING", "IN_PROGRESS"} :
            Write(o, Assigned(o, status, req[r].tech), order[o].status)
      BY <2>3 DEF SaveAccept
    <3>2. req[r].tech \in Techs /\ order[o].status = "NEW"
      BY <2>2, <2>3 DEF SaveAccept, At, Knows
    <3>3. /\ Assigned(o, status, req[r].tech) \in Row
          /\ Assigned(o, status, req[r].tech).status = status
          /\ Assigned(o, status, req[r].tech).tech = req[r].tech
          /\ Assigned(o, status, req[r].tech).from = order[o].from
      BY <1>1, <2>1, <3>2, Columns, ColumnsOf
    <3>4. Fits(Assigned(o, status, req[r].tech), log[o].asked)
      BY <3>2, <3>3, TechsAssumption DEF Fits
    <3>5. QED
      BY <2>1, <3>1, <3>2, <3>3, <3>4, ProperWrite
  <2>4. CASE Assign(r)
    <3>1. PICK t \in Techs : Save(r, "assign", Assigned(o, "WAITING", t))
      BY <2>4 DEF Assign
    <3>2. order[o].status = "NEW" /\ Write(o, Assigned(o, "WAITING", t), req[r].snap.status)
      BY <2>2, <3>1 DEF Save, At, Knows
    <3>3. /\ Assigned(o, "WAITING", t) \in Row
          /\ Assigned(o, "WAITING", t).status = "WAITING"
          /\ Assigned(o, "WAITING", t).tech = t
          /\ Assigned(o, "WAITING", t).from = order[o].from
      BY <1>1, <2>1, Columns, ColumnsOf
    <3>4. Fits(Assigned(o, "WAITING", t), log[o].asked)
      BY <3>3, TechsAssumption DEF Fits
    <3>5. QED
      BY <1>2, <3>2, <3>3, <3>4, ProperWrite
  <2>5. ASSUME NEW status \in Status, Save(r, req[r].op, WithStatus(o, status)),
               order[o].status # "CANCELLED" \/ status = "CANCELLED",
               Fits(WithStatus(o, status),
                    IF status = "CANCEL_REQUESTED" THEN req[r].snap.status ELSE log[o].asked)
        PROVE  Proper(r)
    <3>1. /\ WithStatus(o, status) \in Row /\ WithStatus(o, status).status = status
          /\ WithStatus(o, status).from = order[o].from
      BY <1>1, <2>1, Columns, ColumnsOf
    <3>2. Write(o, WithStatus(o, status), req[r].snap.status)
      BY <2>5 DEF Save
    <3>3. QED
      BY <1>2, <2>5, <3>1, <3>2, ProperWrite
  <2>6. CASE RequestCancel(r) \/ AskToCancel(r)
    <3>1. /\ Save(r, req[r].op, WithStatus(o, "CANCEL_REQUESTED"))
          /\ req[r].snap.status = order[o].status
          /\ order[o].status \in {"NEW", "WAITING", "IN_PROGRESS"}
      BY <2>2, <2>6 DEF RequestCancel, AskToCancel, Save, At, Knows, KnowsRow
    <3>2. /\ WithStatus(o, "CANCEL_REQUESTED").status = "CANCEL_REQUESTED"
          /\ WithStatus(o, "CANCEL_REQUESTED").tech = order[o].tech
      BY <1>1, <2>1, ColumnsOf
    <3>3. Fits(WithStatus(o, "CANCEL_REQUESTED"), req[r].snap.status)
      BY <2>2, <3>1, <3>2 DEF Fits
    <3>4. QED
      BY <2>5, <3>1, <3>3
  <2>7. CASE Approve(r)
    <3>1. Save(r, req[r].op, WithStatus(o, "CANCELLED"))
      BY <2>7 DEF Approve, Save, At
    <3>2. WithStatus(o, "CANCELLED").status = "CANCELLED"
      BY <1>1, <2>1, ColumnsOf
    <3>3. Fits(WithStatus(o, "CANCELLED"), log[o].asked)
      BY <3>2 DEF Fits
    <3>4. QED
      BY <2>5, <3>1, <3>3
  <2>8. CASE ForceCancel(r)
    <3>1. Write(o, Released(o), req[r].snap.status)
      BY <2>8 DEF ForceCancel, Save
    <3>2. Released(o) \in Row /\ Released(o).status = "CANCELLED" /\ Released(o).from = order[o].from
      BY <1>1, <2>1, Columns, ColumnsOf
    <3>3. Fits(Released(o), log[o].asked)
      BY <3>2 DEF Fits
    <3>4. QED
      BY <1>2, <3>1, <3>2, <3>3, ProperWrite
  <2>9. CASE Advance(r)
    <3>1. /\ Save(r, req[r].op, WithStatus(o, Progress(req[r].snap.status)))
          /\ order[o].status \in {"WAITING", "IN_PROGRESS"}
      BY <2>2, <2>9 DEF Advance, Save, At, Knows
    <3>2. PICK status \in {"IN_PROGRESS", "DONE"} : status = Progress(req[r].snap.status)
      BY DEF Progress
    <3>3. WithStatus(o, status).status = status /\ WithStatus(o, status).tech = order[o].tech
      BY <1>1, <2>1, ColumnsOf
    <3>4. Fits(WithStatus(o, status), log[o].asked)
      BY <2>2, <3>1, <3>3 DEF Fits
    <3>5. QED
      BY <2>5, <3>1, <3>2, <3>4
  <2>10. CASE AutoRecycle(r) \/ Recycle(r) \/ Return(r)
    <3>1. PICK row : /\ row = Released(o) \/ row = WithStatus(o, "CANCELLED")
                     /\ Replace(o, row, req[r].snap)
      BY <2>10 DEF AutoRecycle, Recycle, Return
    <3>2. row \in Row /\ row.status = "CANCELLED" /\ row.from = order[o].from
      BY <1>1, <2>1, <3>1, Columns, ColumnsOf
    <3>3. order[o].status \in Status /\ (req[r].op = "recycle" \/ order[o].status # "CANCELLED")
      BY <2>2, <2>10 DEF AutoRecycle, Recycle, Return, At, Knows
    <3>4. QED
      BY <3>1, <3>2, <3>3, ProperReplace
  <2>11. CASE SaveEdit(r)
    <3>1. PICK kind \in Kinds :
            Write(o, [WithStatus(o, req[r].snap.status) EXCEPT !.kind = kind], req[r].old)
      BY <2>11 DEF SaveEdit
    <3>2. req[r].snap = order[o] /\ req[r].old = order[o].status
      BY <2>2, <2>11 DEF SaveEdit, At, Knows, KnowsRow
    <3>3. PICK row : row = [WithStatus(o, order[o].status) EXCEPT !.kind = kind]
      OBVIOUS
    <3>4. row \in Row /\ row.status = order[o].status /\ row.tech = order[o].tech /\ row.from = order[o].from
      BY <1>1, <2>1, <3>3, Columns, ColumnsOf
    <3>5. Fits(row, IF row.status = "CANCEL_REQUESTED" THEN order[o].status ELSE log[o].asked)
      BY <2>2, <3>4 DEF Fits
    <3>6. QED
      BY <2>1, <3>1, <3>2, <3>3, <3>4, <3>5, ProperWrite
  <2>17. CASE SaveBlankEdit(r)
    <3>1. PICK row \in Row : /\ Rewrite(r, o, row)
                             /\ row.tech = order[o].tech /\ row.from = order[o].from
      BY <1>1, <2>1, <2>17, BlankRewrites
    <3>2. req[r].old = order[o].status
      BY <2>2, <2>17 DEF SaveBlankEdit, At, Knows
    <3>3. Write(o, row, req[r].old)
      BY <3>1, <3>2 DEF Rewrite, Write
    <3>4. Fits(row, IF row.status = "CANCEL_REQUESTED" THEN req[r].old ELSE log[o].asked)
      BY <2>2, <3>1, <3>2 DEF Fits, Rewrite
    <3>5. QED
      BY <1>2, <3>1, <3>3, <3>4, ProperWrite DEF Rewrite
  <2>12. CASE HandleAssignment(r)
    <3>1. PICK status : /\ status = IF req[r].snap.status = "NEW" THEN "WAITING" ELSE req[r].snap.status
                        /\ Write(o, Assigned(o, status, req[r].tech), req[r].snap.status)
      BY <2>12 DEF HandleAssignment
    <3>2. req[r].snap = order[o] /\ order[o].status \in ActiveStatus /\ req[r].tech \in Techs
      BY <2>2, <2>12 DEF HandleAssignment, At, Knows, KnowsRow
    <3>3. status \in {"WAITING", "IN_PROGRESS"}
      BY <3>1, <3>2
    <3>4. /\ Assigned(o, status, req[r].tech) \in Row
          /\ Assigned(o, status, req[r].tech).status = status
          /\ Assigned(o, status, req[r].tech).tech = req[r].tech
          /\ Assigned(o, status, req[r].tech).from = order[o].from
      BY <1>1, <2>1, <3>2, <3>3, Columns, ColumnsOf
    <3>5. Fits(Assigned(o, status, req[r].tech), log[o].asked)
      BY <3>2, <3>3, <3>4, TechsAssumption DEF Fits
    <3>6. QED
      BY <1>2, <3>1, <3>2, <3>3, <3>4, <3>5, ProperWrite
  <2>13. CASE Reject(r)
    <3>1. PICK status : /\ status = Restored(req[r].old, req[r].snap.tech)
                        /\ Write(o, WithStatus(o, status), req[r].snap.status)
      BY <2>13 DEF Reject
    <3>2. /\ req[r].snap = order[o] /\ req[r].old = log[o].asked
          /\ order[o].status = "CANCEL_REQUESTED"
      BY <2>2, <2>13 DEF Reject, At, Knows, KnowsRow
    <3>3. status \in ActiveStatus
      BY <3>1 DEF Restored
    <3>4. /\ WithStatus(o, status) \in Row /\ WithStatus(o, status).status = status
          /\ WithStatus(o, status).tech = order[o].tech /\ WithStatus(o, status).from = order[o].from
      BY <1>1, <2>1, <3>3, Columns, ColumnsOf
    <3>5. Fits(WithStatus(o, status), log[o].asked)
      BY <2>2, <3>1, <3>2, <3>3, <3>4 DEF Fits, Restored
    <3>6. QED
      BY <1>2, <3>1, <3>2, <3>3, <3>4, <3>5, ProperWrite
  <2>14. CASE LookForBill(r) \/ InsertPlaceholder(r)
    <3>1. \/ UNCHANGED <<order, log>>
          \/ Write(o, WithStatus(o, "DONE"), req[r].snap.status)
      BY <2>14 DEF LookForBill, InsertPlaceholder
    <3>2. order[o].status = "IN_PROGRESS"
      BY <2>2, <2>14 DEF LookForBill, InsertPlaceholder, At, Knows
    <3>3. /\ WithStatus(o, "DONE") \in Row /\ WithStatus(o, "DONE").status = "DONE"
          /\ WithStatus(o, "DONE").from = order[o].from
      BY <1>1, <2>1, Columns, ColumnsOf
    <3>4. Fits(WithStatus(o, "DONE"), log[o].asked)
      BY <3>3 DEF Fits
    <3>5. QED
      BY <1>2, <3>1, <3>2, <3>3, <3>4, ProperWrite DEF Proper
  <2>15. CASE \/ SelectAccept(r) \/ RefuseAccept(r) \/ PostEdit(r) \/ ReloadEdit(r) \/ GuardReturn(r)
              \/ ReadLog(r) \/ TakeNumber(r) \/ InsertBill(r)
    BY <2>15 DEF SelectAccept, RefuseAccept, PostEdit, ReloadEdit, GuardReturn, ReadLog, TakeNumber,
                 InsertBill, Proper
  <2>16. QED
    BY <2>3, <2>4, <2>6, <2>7, <2>8, <2>9, <2>10, <2>11, <2>12, <2>13, <2>14, <2>15, <2>17
       DEF Step
<1>5. QED
  BY <1>3, <1>4

\* A request that goes on knows its row, at the place it has come to.
LEMMA StepKnows ==
  ASSUME Serial, NEW r \in Requests, Step(r)
  PROVE  /\ req[r].op # "idle"
         /\ Finish(r) \/ (req'[r].op = req[r].op /\ Knows(r)' /\ \A q \in Requests \ {r} : req'[q] = req[q])
<1> USE DEF Places
<1>1. Shape /\ req[r] \in Req /\ req \in [Requests -> Req]
  BY DEF Serial, Shape
<1>2. req[r].op # "idle"
  BY DEF Step, SelectAccept, RefuseAccept, SaveAccept, Assign, RequestCancel, ForceCancel, Approve,
       Advance, AskToCancel, AutoRecycle, PostEdit, SaveEdit, SaveBlankEdit, ReloadEdit, HandleAssignment, Recycle,
       GuardReturn, Return, ReadLog, Reject, LookForBill, TakeNumber, InsertBill, InsertPlaceholder,
       Save, At, Billing
<1>3. Knows(r)
  BY <1>2 DEF Serial, Informed
<1>4. ASSUME NEW place \in Places, Goto(r, place)
      PROVE  /\ req'[r].op = req[r].op /\ req'[r].o = req[r].o /\ req'[r].snap = req[r].snap
             /\ req'[r].tech = req[r].tech /\ req'[r].old = req[r].old /\ req'[r].pc = place
             /\ \A q \in Requests \ {r} : req'[q] = req[q]
  BY <1>1, <1>4 DEF Goto, Req
<1>5. CASE SelectAccept(r)
  <2>1. Goto(r, "selected") /\ UNCHANGED <<order, log>> /\ req[r].op = "accept"
    BY <1>5 DEF SelectAccept, At
  <2>2. QED
    BY <1>2, <1>3, <1>4, <2>1 DEF Knows, KnowsRow, At
<1>6. CASE PostEdit(r)
  <2>1. /\ req' = [req EXCEPT ![r].pc = "posted", ![r].old = order[req[r].o].status]
        /\ UNCHANGED <<order, log>> /\ req[r].op = "edit" /\ req[r].pc = "loaded"
    BY <1>6 DEF PostEdit, At
  <2>2. /\ req'[r].op = req[r].op /\ req'[r].o = req[r].o /\ req'[r].snap = req[r].snap
        /\ req'[r].old = order[req[r].o].status /\ req'[r].pc = "posted"
        /\ \A q \in Requests \ {r} : req'[q] = req[q]
    BY <1>1, <2>1 DEF Req
  <2>3. QED
    BY <1>2, <1>3, <2>1, <2>2 DEF Knows, KnowsRow, At
<1>7. CASE SaveEdit(r) \/ SaveBlankEdit(r)
  <2>1. Goto(r, "saved") /\ req[r].op = "edit"
    BY <1>7 DEF SaveEdit, SaveBlankEdit, At
  <2>2. QED
    BY <1>2, <1>4, <2>1 DEF Knows, KnowsRow, At
<1>8. CASE ReloadEdit(r)
  <2>1. CASE Finish(r)
    BY <1>2, <2>1
  <2>2. ASSUME NEW t \in Techs \cup {NoTech}, t \notin {NoTech, order[req[r].o].tech},
               order[req[r].o].status \in ActiveStatus,
               req' = [req EXCEPT ![r].pc = "reloaded", ![r].snap = order[req[r].o], ![r].tech = t]
        PROVE  req'[r].op = req[r].op /\ Knows(r)' /\ \A q \in Requests \ {r} : req'[q] = req[q]
    <3>1. /\ req'[r].op = req[r].op /\ req'[r].o = req[r].o /\ req'[r].snap = order[req[r].o]
          /\ req'[r].tech = t /\ req'[r].pc = "reloaded"
          /\ \A q \in Requests \ {r} : req'[q] = req[q]
      BY <1>1, <2>2 DEF Req
    <3>2. UNCHANGED <<order, log>> /\ req[r].op = "edit"
      BY <1>8 DEF ReloadEdit, At
    <3>3. QED
      BY <2>2, <3>1, <3>2 DEF Knows, KnowsRow, At
  <2>3. QED
    BY <1>2, <1>8, <2>1, <2>2 DEF ReloadEdit
<1>9. CASE GuardReturn(r)
  <2>1. (Goto(r, "guarded") \/ Finish(r)) /\ UNCHANGED <<order, log>> /\ At(r, "return", "loaded")
    BY <1>9 DEF GuardReturn
  <2>2. CASE Goto(r, "guarded")
    BY <1>2, <1>3, <1>4, <2>1, <2>2 DEF Knows, KnowsRow, At
  <2>3. QED
    BY <1>2, <2>1, <2>2
<1>10. CASE ReadLog(r)
  <2>1. /\ req' = [req EXCEPT ![r].pc = "guarded", ![r].old = log[req[r].o].asked]
        /\ UNCHANGED <<order, log>> /\ req[r].op = "reject" /\ req[r].pc = "loaded"
    BY <1>10 DEF ReadLog, At
  <2>2. /\ req'[r].op = req[r].op /\ req'[r].o = req[r].o /\ req'[r].snap = req[r].snap
        /\ req'[r].old = log[req[r].o].asked /\ req'[r].pc = "guarded"
        /\ \A q \in Requests \ {r} : req'[q] = req[q]
    BY <1>1, <2>1 DEF Req
  <2>3. QED
    BY <1>2, <1>3, <2>1, <2>2 DEF Knows, KnowsRow, At
<1>11. CASE LookForBill(r)
  <2>1. (Goto(r, "guarded") /\ UNCHANGED <<order, log>>) \/ Finish(r)
    BY <1>11 DEF LookForBill
  <2>2. At(r, "complete", "loaded")
    BY <1>11 DEF LookForBill
  <2>3. CASE Goto(r, "guarded") /\ UNCHANGED <<order, log>>
    BY <1>2, <1>3, <1>4, <2>2, <2>3 DEF Knows, KnowsRow, At
  <2>4. QED
    BY <1>2, <2>1, <2>3
<1>12. CASE TakeNumber(r)
  <2>1. /\ req' = [req EXCEPT ![r].pc = "numbered", ![r].no = Count + 1]
        /\ UNCHANGED <<order, log>> /\ req[r].op \in Billing
    BY <1>12 DEF TakeNumber
  <2>2. /\ req'[r].op = req[r].op /\ req'[r].o = req[r].o /\ req'[r].snap = req[r].snap
        /\ req'[r].pc = "numbered"
        /\ \A q \in Requests \ {r} : req'[q] = req[q]
    BY <1>1, <2>1 DEF Req
  <2>3. QED
    BY <1>2, <1>3, <2>1, <2>2 DEF Knows, KnowsRow, At, Billing
<1>13. QED
  BY <1>2, <1>5, <1>6, <1>7, <1>8, <1>9, <1>10, <1>11, <1>12, SaveFinishes DEF Step

\* A request that begins is the only one in flight.
LEMMA BeginKnows ==
  ASSUME Serial, Used \subseteq Alone, NEW r \in Requests, Begin(r)
  PROVE  /\ \A q \in Requests : req[q].op = "idle"
         /\ req'[r].op \in Used /\ Knows(r)' /\ \A q \in Requests \ {r} : req'[q] = req[q]
<1>1. req \in [Requests -> Req]
  BY DEF Serial, Shape
<1>2. ASSUME NEW op \in Views, NEW o \in Orders, NEW t \in Techs \cup {NoTech}, Load(r, op, o, t),
             op = "accept" => t \in Techs
      PROVE  /\ \A q \in Requests : req[q].op = "idle"
             /\ req'[r].op \in Used /\ Knows(r)' /\ \A q \in Requests \ {r} : req'[q] = req[q]
  <2>1. MayBegin(r, op) /\ order[o].status \in Admits(op) /\ UNCHANGED <<order, log>>
        /\ req' = [req EXCEPT ![r] = Loaded(op, o, order[o], t)]
    BY <1>2 DEF Load
  <2>2. req'[r] = Loaded(op, o, order[o], t) /\ \A q \in Requests \ {r} : req'[q] = req[q]
    BY <1>1, <2>1
  <2>3. /\ req'[r].op = op /\ req'[r].o = o /\ req'[r].snap = order[o] /\ req'[r].tech = t
        /\ req'[r].pc = "loaded"
    BY <2>2 DEF Loaded
  <2>4. Knows(r)'
    BY <1>2, <2>1, <2>3, AdmittedStatuses DEF Knows, KnowsRow, At
  <2>5. QED
    BY <2>1, <2>2, <2>3, <2>4 DEF MayBegin
<1>3. CASE \/ \E op \in Views \ {"accept"}, o \in Orders : Load(r, op, o, NoTech)
           \/ \E o \in Orders, t \in Techs : Load(r, "accept", o, t)
  BY <1>2, <1>3 DEF Views
<1>4. CASE BeginBill(r)
  <2>1. PICK op \in {"techInvoice", "adminInvoice"}, o \in Existing :
          /\ MayBegin(r, op)
          /\ req' = [req EXCEPT ![r] = [Loaded(op, o, NoOrder, NoTech) EXCEPT !.pc = "guarded"]]
    BY <1>4 DEF BeginBill
  <2>2. /\ req'[r] = [Loaded(op, o, NoOrder, NoTech) EXCEPT !.pc = "guarded"]
        /\ \A q \in Requests \ {r} : req'[q] = req[q]
    BY <1>1, <2>1
  <2>3. req'[r].op = op /\ req'[r].pc = "guarded"
    BY <2>2 DEF Loaded
  <2>4. Knows(r)'
    BY <2>3 DEF Knows, KnowsRow, At
  <2>5. QED
    BY <2>1, <2>2, <2>3, <2>4 DEF MayBegin
<1>5. QED
  BY <1>3, <1>4
     DEF Begin, BeginAccept, BeginUnlocked, BeginStatus, BeginRecycle, BeginReturn, BeginReject,
         BeginComplete, Views

\* The new order is none of those there are.
LEMMA FreshIsNoOrder ==
  ASSUME Shape, NEW n \in Orders, Fresh(n)
  PROVE  order[n] = NoOrder /\ order[n].status = "none" /\ order[n].from = 0
  BY DEF Fresh, Existing, NoOrder

\* With no status picked by hand, an order is created as it should be.
LEMMA CreatesFit ==
  ASSUME Serial, Overrides = {}, Create
  PROVE  /\ \A r \in Requests : req[r].op \notin Alone
         /\ UNCHANGED req
         /\ \E o \in Orders, row \in Row :
              /\ Fresh(o) /\ row.from = 0
              /\ order' = [order EXCEPT ![o] = row]
              /\ log' = [log EXCEPT ![o] = FirstEntry(row.status)]
              /\ Fits(row, "none")
<1>1. PICK o \in Orders, kind \in Kinds, t \in Techs \cup {NoTech} :
        LET status == IF t = NoTech THEN "NEW" ELSE "WAITING" IN
        /\ Fresh(o)
        /\ order' = [order EXCEPT ![o] = [NewOrder(kind, 0) EXCEPT !.status = status, !.tech = t]]
        /\ log' = [log EXCEPT ![o] = FirstEntry(status)]
  BY DEF Create
<1>2. PICK status : status = IF t = NoTech THEN "NEW" ELSE "WAITING"
  OBVIOUS
<1>3. PICK row : row = [NewOrder(kind, 0) EXCEPT !.status = status, !.tech = t]
  OBVIOUS
<1>4. NewOrder(kind, 0) \in Row /\ NewOrder(kind, 0).from = 0
  BY RowTypes DEF NewOrder
<1>5. row \in Row /\ row.status = status /\ row.tech = t /\ row.from = 0
  BY <1>2, <1>3, <1>4 DEF Row, Status, ActiveStatus
<1>6. Fits(row, "none")
  BY <1>2, <1>5 DEF Fits, ActiveTechnicianStatuses
<1>7. QED
  BY <1>1, <1>2, <1>3, <1>5, <1>6 DEF Create

LEMMA FitSteps == Serial /\ Overrides = {} /\ [Next]_vars => AllFit'
<1> SUFFICES ASSUME Serial, Overrides = {}, [Next]_vars PROVE AllFit'
  OBVIOUS
<1>1. Shape /\ AllFit
  BY DEF Serial
<1>2. CASE UNCHANGED <<order, log>>
  BY <1>1, <1>2 DEF AllFit
<1>3. CASE Create
  <2>1. PICK o \in Orders, row \in Row :
          /\ order' = [order EXCEPT ![o] = row]
          /\ log' = [log EXCEPT ![o] = FirstEntry(row.status)]
          /\ Fits(row, "none")
    BY <1>3, CreatesFit
  <2>2. QED
    BY <1>1, <2>1 DEF AllFit, Shape, FirstEntry
<1>4. ASSUME NEW r \in Requests, Step(r) PROVE AllFit'
  <2>1. Proper(r)
    BY <1>4, StepProper
  <2>2. CASE UNCHANGED <<order, log>>
    BY <1>2, <2>2
  <2> DEFINE o == req[r].o
  <2>3. ASSUME NEW row \in Row, NEW old \in Status \cup {"none"}, Write(o, row, old),
               Fits(row, IF row.status = "CANCEL_REQUESTED" THEN old ELSE log[o].asked)
        PROVE  AllFit'
    <3>1. ASSUME NEW p \in Orders PROVE Fits(order'[p], log'[p].asked)
      <4>1. CASE p = o
        BY <1>1, <2>3, <4>1 DEF Write, Logged, Shape
      <4>2. CASE p # o
        BY <1>1, <2>3, <4>2 DEF Write, Logged, Shape, AllFit
      <4>3. QED
        BY <4>1, <4>2
    <3>2. QED
      BY <3>1 DEF AllFit
  <2>4. ASSUME NEW row \in Row, Replace(o, row, req[r].snap), row.status = "CANCELLED"
        PROVE  AllFit'
    <3>1. PICK n \in Orders :
            /\ order' = [order EXCEPT ![o] = row, ![n] = NewOrder(req[r].snap.kind, o)]
            /\ log' = [Logged(o, req[r].snap.status, row.status) EXCEPT ![n] = FirstEntry("NEW")]
      BY <2>4 DEF Replace
    <3>2. ASSUME NEW p \in Orders PROVE Fits(order'[p], log'[p].asked)
      <4>1. CASE p = n
        <5>1. order'[p] = NewOrder(req[r].snap.kind, o)
          BY <1>1, <3>1, <4>1 DEF Shape
        <5>2. QED
          BY <5>1 DEF NewOrder, Fits, ActiveTechnicianStatuses
      <4>2. CASE p # n /\ p = o
        <5>1. order'[p] = row
          BY <1>1, <3>1, <4>2 DEF Shape
        <5>2. QED
          BY <2>4, <5>1 DEF Fits, ActiveTechnicianStatuses
      <4>3. CASE p # n /\ p # o
        BY <1>1, <3>1, <4>3 DEF Logged, Shape, AllFit
      <4>4. QED
        BY <4>1, <4>2, <4>3
    <3>3. QED
      BY <3>2 DEF AllFit
  <2>5. QED
    BY <2>1, <2>2, <2>3, <2>4 DEF Proper
<1>5. QED
  BY <1>2, <1>3, <1>4, BeginChanges DEF Next, CancelBill, vars

LEMMA SerialSteps ==
  Serial /\ Used \subseteq Alone /\ Overrides = {} /\ [Next]_vars => Serial'
<1> SUFFICES ASSUME Serial, Used \subseteq Alone, Overrides = {}, [Next]_vars PROVE Serial'
  OBVIOUS
<1>1. Shape' /\ AllFit'
  BY ShapeSteps, FitSteps DEF Serial
<1>2. req \in [Requests -> Req]
  BY DEF Serial, Shape
<1>3. CASE UNCHANGED vars
  BY <1>1, <1>3 DEF vars, Serial, One, Informed, Knows, KnowsRow, At
<1>4. CASE Create \/ CancelBill
  <2>1. \A r \in Requests : req[r].op \notin Alone
    BY <1>4 DEF Create, CancelBill
  <2>2. \A r \in Requests : req[r].op = "idle"
    BY <2>1 DEF Serial, One
  <2>3. UNCHANGED req
    BY <1>4 DEF Create, CancelBill
  <2>4. QED
    BY <1>1, <2>2, <2>3 DEF Serial, One, Informed
<1>5. ASSUME NEW r \in Requests, Begin(r) PROVE Serial'
  <2>1. /\ \A q \in Requests : req[q].op = "idle"
        /\ req'[r].op \in Used /\ Knows(r)' /\ \A q \in Requests \ {r} : req'[q] = req[q]
    BY <1>5, BeginKnows
  <2>2. One' /\ Informed'
    BY <2>1 DEF One, Informed
  <2>3. QED
    BY <1>1, <2>2 DEF Serial
<1>6. ASSUME NEW r \in Requests, Step(r) PROVE Serial'
  <2>1. /\ req[r].op # "idle"
        /\ Finish(r) \/ (req'[r].op = req[r].op /\ Knows(r)' /\ \A q \in Requests \ {r} : req'[q] = req[q])
    BY <1>6, StepKnows
  <2>2. \A q \in Requests \ {r} : req[q].op = "idle"
    BY <2>1 DEF Serial, One
  <2>3. CASE Finish(r)
    <3>1. \A q \in Requests : req'[q].op = "idle"
      BY <1>2, <2>2, <2>3, RowTypes DEF Finish
    <3>2. QED
      BY <1>1, <3>1 DEF Serial, One, Informed
  <2>4. CASE req'[r].op = req[r].op /\ Knows(r)' /\ \A q \in Requests \ {r} : req'[q] = req[q]
    <3>1. One' /\ Informed'
      BY <2>1, <2>2, <2>4 DEF Serial, One, Informed
    <3>2. QED
      BY <1>1, <3>1 DEF Serial
  <2>5. QED
    BY <2>1, <2>3, <2>4
<1>7. QED
  BY <1>3, <1>4, <1>5, <1>6 DEF Next

LEMMA SerialStarts == Init => Serial
<1> SUFFICES ASSUME Init PROVE Serial
  OBVIOUS
<1>1. \A r \in Requests : req[r].op = "idle"
  BY RowTypes DEF Init
<1>2. \A o \in Orders : order[o].status = "none"
  BY DEF Init, NoOrder
<1>3. AllFit
  BY <1>2 DEF AllFit, Fits, ActiveTechnicianStatuses
<1>4. QED
  BY <1>1, <1>3, ShapeStarts DEF Serial, One, Informed

\* Where operations do not overlap and no status is picked by hand, an order being worked
\* on has a technician and one offered has none, after any sequence of them and for any
\* number of orders: also when a cancellation is rejected, whose status comes from a log
\* that an edit may have overwritten meanwhile (_determine_restore_status).
THEOREM AssignedWhenActiveAlways ==
  ASSUME Used \subseteq Alone, Overrides = {}
  PROVE  Spec => []AssignedWhenActive
<1>1. Serial => AssignedWhenActive
  BY DEF Serial, AllFit, Fits, AssignedWhenActive
<1>2. Serial /\ [Next]_vars => Serial'
  BY SerialSteps
<1>3. QED
  BY <1>1, <1>2, SerialStarts, PTL DEF Spec

----------------------------------------------------------------------------
\* Replacements

\* What replaces an order replaces a cancelled one, alone.
NoTwins ==
  \A a \in Orders : order[a].from # 0 =>
    /\ order[a].from \in Orders /\ order[order[a].from].status = "CANCELLED"
    /\ \A b \in Orders \ {a} : order[b].from # order[a].from

LEMMA TwinSteps ==
  Serial /\ NoTwins /\ Used \subseteq Alone /\ Overrides = {} /\ "recycle" \notin Used /\ [Next]_vars
    => NoTwins'
<1> SUFFICES ASSUME Serial, NoTwins, Used \subseteq Alone, Overrides = {}, "recycle" \notin Used,
                    [Next]_vars
             PROVE  NoTwins'
  OBVIOUS
<1>1. Shape
  BY DEF Serial
<1>2. CASE UNCHANGED order
  BY <1>2 DEF NoTwins
<1>3. CASE Create
  <2>1. PICK o \in Orders, row \in Row :
          Fresh(o) /\ row.from = 0 /\ order' = [order EXCEPT ![o] = row]
    BY <1>3, CreatesFit
  <2>2. order[o].status = "none"
    BY <1>1, <2>1, FreshIsNoOrder
  <2>3. order'[o] = row /\ \A p \in Orders \ {o} : order'[p] = order[p]
    BY <1>1, <2>1 DEF Shape
  <2>4. QED
    BY <2>1, <2>2, <2>3 DEF NoTwins
<1>4. ASSUME NEW r \in Requests, Step(r) PROVE NoTwins'
  <2> DEFINE o == req[r].o
  <2>1. Proper(r) /\ req[r].op # "recycle"
    BY <1>4, StepProper, StepKnows DEF Serial, One
  <2>2. o \in Orders
    BY <1>1, <1>4, StepKnows DEF Shape
  <2>3. CASE UNCHANGED <<order, log>>
    BY <1>2, <2>3
  <2>4. ASSUME NEW row \in Row, NEW old, Write(o, row, old), row.from = order[o].from,
               order[o].status = "CANCELLED" => row.status = "CANCELLED"
        PROVE  NoTwins'
    <3>1. order'[o] = row /\ \A p \in Orders \ {o} : order'[p] = order[p]
      BY <1>1, <2>2, <2>4 DEF Write, Shape
    <3>2. \A p \in Orders : order'[p].from = order[p].from
      BY <2>4, <3>1
    <3>3. \A p \in Orders : order[p].status = "CANCELLED" => order'[p].status = "CANCELLED"
      BY <2>4, <3>1
    <3>4. QED
      BY <3>2, <3>3 DEF NoTwins
  <2>5. ASSUME NEW row \in Row, Replace(o, row, req[r].snap), row.from = order[o].from,
               row.status = "CANCELLED", order[o].status \in Status, order[o].status # "CANCELLED"
        PROVE  NoTwins'
    <3>1. PICK n \in Orders :
            /\ Fresh(n)
            /\ order' = [order EXCEPT ![o] = row, ![n] = NewOrder(req[r].snap.kind, o)]
      BY <2>5 DEF Replace
    <3>2. order[n].status = "none" /\ order[n].from = 0 /\ n # o
      BY <1>1, <2>5, <3>1, FreshIsNoOrder DEF Status, ActiveStatus, Terminal
    <3>3. /\ order'[o] = row /\ order'[n] = NewOrder(req[r].snap.kind, o)
          /\ \A p \in Orders \ {o, n} : order'[p] = order[p]
      BY <1>1, <2>2, <3>1, <3>2 DEF Shape
    <3>4. /\ \A p \in Orders \ {n} : order'[p].from = order[p].from
          /\ order'[n].from = o /\ o # 0
      BY <2>2, <2>5, <3>3 DEF NewOrder, Orders
    <3>5. \A p \in Orders : order[p].status = "CANCELLED" => order'[p].status = "CANCELLED"
      BY <2>5, <3>2, <3>3
    <3>6. \A p \in Orders : order[p].from # o
      BY <2>5, <3>4 DEF NoTwins
    <3>7. QED
      BY <2>2, <2>5, <3>2, <3>3, <3>4, <3>5, <3>6 DEF NoTwins
  <2>6. QED
    BY <2>1, <2>3, <2>4, <2>5 DEF Proper
<1>5. QED
  BY <1>2, <1>3, <1>4, BeginChanges DEF Next, CancelBill, vars

\* Where operations do not overlap and the office does not recycle (it may recycle what
\* is cancelled), an order that has been replaced stays cancelled and is replaced once,
\* however it is returned, edited, rejected or recycled by the company's setting.
THEOREM NoTwinOrdersAlways ==
  ASSUME Used \subseteq Alone, Overrides = {}, "recycle" \notin Used
  PROVE  Spec => []NoTwinOrders
<1>1. Init => NoTwins
  BY DEF Init, NoTwins, NoOrder
<1>2. NoTwins => NoTwinOrders
  BY DEF NoTwins, NoTwinOrders, Existing
<1>3. Serial /\ [Next]_vars => Serial'
  BY SerialSteps
<1>4. Serial /\ NoTwins /\ [Next]_vars => NoTwins'
  BY TwinSteps
<1>5. QED
  BY <1>1, <1>2, <1>3, <1>4, SerialStarts, PTL DEF Spec

----------------------------------------------------------------------------
\* Invoices, where those who look for one before they make one run alone

Guarding == {"complete", "techInvoice"}
PastGuard(f) == f.op \in Guarding /\ f.pc \in {"guarded", "numbered"}

\* A request goes on with its own order, and is past the guard when it has looked.
LEMMA StepGuards ==
  ASSUME Shape, NEW r \in Requests, Step(r)
  PROVE  /\ req[r].op # "idle" /\ \A q \in Requests \ {r} : req'[q] = req[q]
         /\ \/ Finish(r)
            \/ /\ req'[r].op = req[r].op /\ req'[r].o = req[r].o /\ bills' = bills
               /\ PastGuard(req'[r]) => PastGuard(req[r]) \/ ActiveBills(req[r].o) = {}
<1> USE DEF Places
<1>1. req[r] \in Req /\ req \in [Requests -> Req]
  BY DEF Shape
<1>2. req[r].op # "idle"
  BY DEF Step, SelectAccept, RefuseAccept, SaveAccept, Assign, RequestCancel, ForceCancel, Approve,
       Advance, AskToCancel, AutoRecycle, PostEdit, SaveEdit, SaveBlankEdit, ReloadEdit, HandleAssignment, Recycle,
       GuardReturn, Return, ReadLog, Reject, LookForBill, TakeNumber, InsertBill, InsertPlaceholder,
       Save, At, Billing
<1>3. ASSUME Finish(r) PROVE \A q \in Requests \ {r} : req'[q] = req[q]
  BY <1>1, <1>3 DEF Finish
<1>4. ASSUME NEW place \in Places, Goto(r, place)
      PROVE  /\ req'[r].op = req[r].op /\ req'[r].o = req[r].o /\ req'[r].pc = place
             /\ \A q \in Requests \ {r} : req'[q] = req[q]
  BY <1>1, <1>4 DEF Goto, Req
<1>5. CASE SelectAccept(r)
  BY <1>2, <1>4, <1>5 DEF SelectAccept, At, PastGuard, Guarding
<1>6. CASE SaveEdit(r) \/ SaveBlankEdit(r)
  BY <1>2, <1>4, <1>6 DEF SaveEdit, SaveBlankEdit, At, PastGuard, Guarding
<1>7. CASE PostEdit(r) \/ ReadLog(r)
  <2>1. /\ req[r].op \in {"edit", "reject"} /\ bills' = bills
        /\ \E place \in Places, old \in {order[req[r].o].status, log[req[r].o].asked} :
             req' = [req EXCEPT ![r].pc = place, ![r].old = old]
    BY <1>7 DEF PostEdit, ReadLog, At
  <2>2. /\ req'[r].op = req[r].op /\ req'[r].o = req[r].o
        /\ \A q \in Requests \ {r} : req'[q] = req[q]
    BY <1>1, <2>1 DEF Req
  <2>3. QED
    BY <1>2, <2>1, <2>2 DEF PastGuard, Guarding
<1>8. CASE ReloadEdit(r)
  <2>1. ASSUME NEW t \in Techs \cup {NoTech},
               req' = [req EXCEPT ![r].pc = "reloaded", ![r].snap = order[req[r].o], ![r].tech = t]
        PROVE  /\ req'[r].op = req[r].op /\ req'[r].o = req[r].o /\ ~PastGuard(req'[r])
               /\ \A q \in Requests \ {r} : req'[q] = req[q]
    BY <1>1, <2>1 DEF Req, PastGuard
  <2>2. QED
    BY <1>2, <1>3, <1>8, <2>1 DEF ReloadEdit
<1>9. CASE GuardReturn(r)
  BY <1>2, <1>3, <1>4, <1>9 DEF GuardReturn, At, PastGuard, Guarding
<1>10. CASE LookForBill(r)
  <2>1. /\ bills' = bills
        /\ Finish(r) \/ (Goto(r, "guarded") /\ ActiveBills(req[r].o) = {})
    BY <1>10 DEF LookForBill
  <2>2. QED
    BY <1>2, <1>3, <1>4, <2>1
<1>11. CASE TakeNumber(r)
  <2>1. /\ req' = [req EXCEPT ![r].pc = "numbered", ![r].no = Count + 1]
        /\ bills' = bills /\ req[r].pc = "guarded"
    BY <1>11 DEF TakeNumber
  <2>2. /\ req'[r].op = req[r].op /\ req'[r].o = req[r].o
        /\ \A q \in Requests \ {r} : req'[q] = req[q]
    BY <1>1, <2>1 DEF Req
  <2>3. QED
    BY <1>2, <2>1, <2>2 DEF PastGuard
<1>12. QED
  BY <1>2, <1>3, <1>5, <1>6, <1>7, <1>8, <1>9, <1>10, <1>11, SaveFinishes DEF Step

\* What a step does to the invoices: nothing, or it inserts that of a request past its
\* guard, at a number that nobody has.
LEMMA StepBills ==
  ASSUME Shape, NEW r \in Requests, Step(r), req[r].op # "adminInvoice"
  PROVE  \/ bills' = bills
         \/ /\ PastGuard(req[r]) /\ Finish(r)
            /\ bills[req[r].no].order = 0
            /\ bills' = [bills EXCEPT ![req[r].no] = [order |-> req[r].o, cancelled |-> FALSE]]
<1>1. CASE InsertBill(r) \/ InsertPlaceholder(r)
  <2>1. PastGuard(req[r]) /\ Finish(r)
    BY <1>1 DEF InsertBill, InsertPlaceholder, At, PastGuard, Guarding
  <2>2. bills' = bills \/ (bills[req[r].no].order = 0 /\ AddBill(r))
    BY <1>1 DEF InsertBill, InsertPlaceholder
  <2>3. QED
    BY <2>1, <2>2 DEF AddBill
<1>2. QED
  BY <1>1 DEF Step, SelectAccept, RefuseAccept, SaveAccept, Assign, RequestCancel, ForceCancel, Approve,
       Advance, AskToCancel, AutoRecycle, PostEdit, SaveEdit, SaveBlankEdit, ReloadEdit, HandleAssignment, Recycle,
       GuardReturn, Return, ReadLog, Reject, LookForBill, TakeNumber, Save

\* One who looks for an invoice runs with nobody; while past the guard, it finds none.
Billed ==
  /\ bills \in [Numbers -> [order : {0} \cup Orders, cancelled : BOOLEAN]]
  /\ \A r \in Requests : req[r].op # "adminInvoice"
  /\ \A r, q \in Requests : req[r].op \in Guarding /\ req[q].op # "idle" => r = q
  /\ \A r \in Requests : PastGuard(req[r]) => ActiveBills(req[r].o) = {}
  /\ \A o \in Orders : \A m, n \in ActiveBills(o) : m = n

\* Who begins is past the guard when it has found no invoice.
LEMMA BeginGuards ==
  ASSUME Shape, NEW r \in Requests, Begin(r)
  PROVE  /\ MayBegin(r, req'[r].op) /\ bills' = bills
         /\ \A q \in Requests \ {r} : req'[q] = req[q]
         /\ PastGuard(req'[r]) => ActiveBills(req'[r].o) = {}
         /\ req'[r].pc # "posted"
<1>1. req \in [Requests -> Req]
  BY DEF Shape
<1>2. CASE \E op \in Views, o \in Orders, t \in Techs \cup {NoTech} : Load(r, op, o, t)
  <2>1. PICK op \in Views, o \in Orders, t \in Techs \cup {NoTech} :
          /\ MayBegin(r, op) /\ bills' = bills
          /\ req' = [req EXCEPT ![r] = Loaded(op, o, order[o], t)]
    BY <1>2 DEF Load
  <2>2. req'[r] = Loaded(op, o, order[o], t) /\ \A q \in Requests \ {r} : req'[q] = req[q]
    BY <1>1, <2>1
  <2>3. req'[r].op = op /\ req'[r].pc = "loaded"
    BY <2>2 DEF Loaded
  <2>4. QED
    BY <2>1, <2>2, <2>3 DEF PastGuard
<1>3. CASE BeginBill(r)
  <2>1. PICK op \in {"techInvoice", "adminInvoice"}, o \in Existing :
          /\ MayBegin(r, op) /\ MayBill(op, o) /\ bills' = bills
          /\ req' = [req EXCEPT ![r] = [Loaded(op, o, NoOrder, NoTech) EXCEPT !.pc = "guarded"]]
    BY <1>3 DEF BeginBill
  <2>2. /\ req'[r] = [Loaded(op, o, NoOrder, NoTech) EXCEPT !.pc = "guarded"]
        /\ \A q \in Requests \ {r} : req'[q] = req[q]
    BY <1>1, <2>1
  <2>3. req'[r].op = op /\ req'[r].o = o /\ req'[r].pc = "guarded"
    BY <2>2 DEF Loaded
  <2>4. QED
    BY <2>1, <2>2, <2>3 DEF PastGuard, Guarding, MayBill
<1>4. QED
  BY <1>2, <1>3
     DEF Begin, BeginAccept, BeginUnlocked, BeginStatus, BeginRecycle, BeginReturn, BeginReject,
         BeginComplete, Views

LEMMA BilledSteps ==
  ASSUME Shape, Billed, Guarding \subseteq Alone, "adminInvoice" \notin Used, [Next]_vars
  PROVE  Billed'
<1>1. CASE UNCHANGED <<bills, req>>
  BY <1>1 DEF Billed, ActiveBills
<1>2. CASE CancelBill
  <2>1. PICK n \in Numbers : bills' = [bills EXCEPT ![n].cancelled = TRUE]
    BY <1>2 DEF CancelBill
  <2>2. UNCHANGED req
    BY <1>2 DEF CancelBill
  <2>3. /\ bills' \in [Numbers -> [order : {0} \cup Orders, cancelled : BOOLEAN]]
        /\ \A m \in Numbers : bills'[m].order = bills[m].order
        /\ \A m \in Numbers : bills[m].cancelled => bills'[m].cancelled
    BY <2>1 DEF Billed
  <2>4. \A o : ActiveBills(o)' \subseteq ActiveBills(o)
    BY <2>3 DEF ActiveBills, Billed
  <2>5. QED
    BY <2>2, <2>3, <2>4 DEF Billed
<1>3. ASSUME NEW r \in Requests, Begin(r) PROVE Billed'
  <2>1. /\ MayBegin(r, req'[r].op) /\ bills' = bills
        /\ \A q \in Requests \ {r} : req'[q] = req[q]
        /\ PastGuard(req'[r]) => ActiveBills(req'[r].o) = {}
    BY <1>3, BeginGuards
  <2>2. \A o : ActiveBills(o)' = ActiveBills(o)
    BY <2>1 DEF ActiveBills
  <2>3. req'[r].op # "adminInvoice"
    BY <2>1 DEF MayBegin
  <2>4. \A q \in Requests : /\ req[q].op \notin Guarding
                            /\ req[q].op # "idle" => req'[r].op \notin Guarding
    BY <2>1 DEF MayBegin
  <2>5. QED
    BY <2>1, <2>2, <2>3, <2>4 DEF Billed
<1>4. ASSUME NEW r \in Requests, Step(r) PROVE Billed'
  <2>1. /\ req[r].op # "idle" /\ \A q \in Requests \ {r} : req'[q] = req[q]
        /\ \/ Finish(r)
           \/ /\ req'[r].op = req[r].op /\ req'[r].o = req[r].o /\ bills' = bills
              /\ PastGuard(req'[r]) => PastGuard(req[r]) \/ ActiveBills(req[r].o) = {}
    BY <1>4, StepGuards
  <2>2. ASSUME Finish(r) PROVE req'[r].op = "idle" /\ ~PastGuard(req'[r])
    BY <2>2, RowTypes DEF Finish, Shape, PastGuard, Guarding
  <2>3. req'[r].op \in {"idle", req[r].op}
    BY <2>1, <2>2
  <2>4. \A q \in Requests : req'[q].op # "adminInvoice"
    BY <2>1, <2>3 DEF Billed
  <2>5. \A p, q \in Requests : req'[p].op \in Guarding /\ req'[q].op # "idle" => p = q
    BY <2>1, <2>3 DEF Billed, Guarding
  <2>6. CASE bills' = bills
    <3>1. \A o : ActiveBills(o)' = ActiveBills(o)
      BY <2>6 DEF ActiveBills
    <3>2. \A q \in Requests : PastGuard(req'[q]) => ActiveBills(req'[q].o) = {}
      BY <2>1, <2>2 DEF Billed
    <3>3. QED
      BY <2>4, <2>5, <2>6, <3>1, <3>2 DEF Billed
  <2>7. CASE /\ PastGuard(req[r]) /\ Finish(r) /\ bills[req[r].no].order = 0
             /\ bills' = [bills EXCEPT ![req[r].no] = [order |-> req[r].o, cancelled |-> FALSE]]
    <3>1. req[r].o \in Orders /\ req[r].o # 0
      BY <2>1 DEF Shape, Orders
    <3>2. bills' \in [Numbers -> [order : {0} \cup Orders, cancelled : BOOLEAN]]
      BY <2>7, <3>1 DEF Billed
    <3>3. \A n \in Numbers : n # req[r].no => bills'[n] = bills[n]
      BY <2>7 DEF Billed
    <3>4. \A n \in Numbers : n = req[r].no => bills'[n].order = req[r].o
      BY <2>7 DEF Billed
    <3>5. {n \in Numbers : bills'[n].order = req[r].o /\ ~bills'[n].cancelled} \subseteq {req[r].no}
      <4>1. ActiveBills(req[r].o) = {}
        BY <2>7 DEF Billed
      <4>2. \A n \in Numbers : bills'[n].order = req[r].o /\ ~bills'[n].cancelled => n = req[r].no
        BY <3>3, <4>1 DEF ActiveBills
      <4>3. QED
        BY <4>2
    <3>6. \A o \in Orders \ {req[r].o} : ActiveBills(o)' \subseteq ActiveBills(o)
      BY <3>3, <3>4 DEF ActiveBills
    <3>7. \A q \in Requests : ~PastGuard(req'[q])
      BY <2>1, <2>2, <2>7 DEF Billed, PastGuard, Guarding
    <3>8. \A o \in Orders : \A m, n \in ActiveBills(o)' : m = n
      <4>1. SUFFICES ASSUME NEW o \in Orders, NEW m \in ActiveBills(o)', NEW n \in ActiveBills(o)'
                     PROVE  m = n
        OBVIOUS
      <4>2. CASE o = req[r].o
        BY <3>5, <4>2 DEF ActiveBills
      <4>3. CASE o # req[r].o
        BY <3>6, <4>3 DEF Billed
      <4>4. QED
        BY <4>2, <4>3
    <3>9. QED
      BY <2>4, <2>5, <3>2, <3>7, <3>8 DEF Billed
  <2>8. QED
    BY <1>4, <2>6, <2>7, StepBills DEF Billed
<1>5. CASE Create
  BY <1>1, <1>5 DEF Create
<1>6. QED
  BY <1>1, <1>2, <1>3, <1>4, <1>5 DEF Next, vars

\* No order has two invoices that are not cancelled, for any number of orders and
\* invoices, where the technician's request and the completion run alone and the office
\* makes none, as it does not look for one (InvoiceDuplicateGuard, the completion); all
\* other requests may overlap.
THEOREM InvoicedOnceAlways ==
  ASSUME {"complete", "techInvoice"} \subseteq Alone, "adminInvoice" \notin Used
  PROVE  Spec => []InvoicedOnce
<1>1. Init => Billed
  <2>1. SUFFICES ASSUME Init PROVE Billed
    OBVIOUS
  <2>2. \A r \in Requests : req[r].op = "idle"
    BY <2>1, RowTypes DEF Init
  <2>3. \A o \in Orders : ActiveBills(o) = {}
    BY <2>1 DEF Init, ActiveBills, Orders
  <2>4. bills \in [Numbers -> [order : {0} \cup Orders, cancelled : BOOLEAN]]
    BY <2>1 DEF Init
  <2>5. QED
    BY <2>2, <2>3, <2>4 DEF Billed, PastGuard, Guarding
<1>2. Shape /\ Billed /\ [Next]_vars => Billed'
  BY BilledSteps DEF Guarding
<1>3. Billed => InvoicedOnce
  <2>1. SUFFICES ASSUME Billed, NEW o \in Orders PROVE Cardinality(ActiveBills(o)) <= 1
    BY DEF InvoicedOnce
  <2>2. CASE ActiveBills(o) = {}
    BY <2>2, FS_EmptySet
  <2>3. ASSUME NEW n \in ActiveBills(o) PROVE Cardinality(ActiveBills(o)) <= 1
    <3>1. ActiveBills(o) = {n}
      BY <2>1 DEF Billed
    <3>2. Cardinality({n}) = 1
      BY FS_Singleton
    <3>3. QED
      BY <3>1, <3>2
  <2>4. QED
    BY <2>2, <2>3
<1>4. QED
  BY <1>1, <1>2, <1>3, ShapeStarts, ShapeSteps, PTL DEF Spec


----------------------------------------------------------------------------
\* The log

\* Who may log a status it does not write runs with nobody, and has read the row's.
Undisturbed ==
  /\ \A r, q \in Requests :
       req[r].op # "idle" /\ req[r].op \in Alone /\ req[q].op # "idle" => r = q
  /\ \A r \in Requests :
       At(r, "edit", "posted") /\ "edit" \in Alone => req[r].old = order[req[r].o].status

\* An edit is posted by the step that reads the order again.
LEMMA StepPosts ==
  ASSUME Shape, NEW r \in Requests, Step(r), At(r, "edit", "posted")'
  PROVE  PostEdit(r)
<1> USE DEF Places
<1>1. req[r] \in Req /\ req \in [Requests -> Req]
  BY DEF Shape
<1>2. ~Finish(r)
  BY <1>1, RowTypes DEF Finish, At
<1>3. ASSUME NEW place, Goto(r, place) PROVE place = "posted"
  BY <1>1, <1>3 DEF Goto, At, Req
<1>4. ASSUME ReadLog(r) PROVE FALSE
  <2>1. req' = [req EXCEPT ![r].pc = "guarded", ![r].old = log[req[r].o].asked]
    BY <1>4 DEF ReadLog
  <2>2. QED
    BY <1>1, <2>1 DEF At, Req
<1>5. ASSUME ReloadEdit(r) PROVE FALSE
  <2>1. PICK t : req' = [req EXCEPT ![r].pc = "reloaded", ![r].snap = order[req[r].o], ![r].tech = t]
    BY <1>2, <1>5 DEF ReloadEdit
  <2>2. QED
    BY <1>1, <2>1 DEF At, Req
<1>6. ASSUME TakeNumber(r) PROVE FALSE
  <2>1. req' = [req EXCEPT ![r].pc = "numbered", ![r].no = Count + 1]
    BY <1>6 DEF TakeNumber
  <2>2. QED
    BY <1>1, <2>1 DEF At, Req
<1>7. ASSUME \/ SelectAccept(r) \/ SaveEdit(r) \/ SaveBlankEdit(r) \/ GuardReturn(r) \/ LookForBill(r)
      PROVE  FALSE
  <2>1. \E place \in {"selected", "saved", "guarded"} : Goto(r, place)
    BY <1>2, <1>7 DEF SelectAccept, SaveEdit, SaveBlankEdit, GuardReturn, LookForBill
  <2>2. QED
    BY <1>3, <2>1
<1>8. QED
  BY <1>2, <1>4, <1>5, <1>6, <1>7, SaveFinishes DEF Step

LEMMA UndisturbedSteps == Shape /\ Undisturbed /\ [Next]_vars => Undisturbed'
<1> SUFFICES ASSUME Shape, Undisturbed, [Next]_vars PROVE Undisturbed'
  OBVIOUS
<1>1. CASE UNCHANGED <<order, req>>
  BY <1>1 DEF Undisturbed, At
<1>2. CASE Create
  <2>1. UNCHANGED req /\ \A r \in Requests : req[r].op \notin Alone
    BY <1>2 DEF Create
  <2>2. QED
    BY <2>1 DEF Undisturbed, At
<1>3. ASSUME NEW r \in Requests, Begin(r) PROVE Undisturbed'
  <2>1. /\ MayBegin(r, req'[r].op) /\ req'[r].pc # "posted"
        /\ \A q \in Requests \ {r} : req'[q] = req[q]
    BY <1>3, BeginGuards
  <2>2. UNCHANGED order
    BY <1>3, BeginChanges
  <2>3. ASSUME NEW p \in Requests, NEW q \in Requests, req'[p].op # "idle", req'[p].op \in Alone,
               req'[q].op # "idle"
        PROVE  p = q
    BY <2>1, <2>3 DEF Undisturbed, MayBegin
  <2>4. ASSUME NEW q \in Requests, At(q, "edit", "posted")', "edit" \in Alone
        PROVE  req'[q].old = order'[req'[q].o].status
    BY <2>1, <2>2, <2>4 DEF Undisturbed, At
  <2>5. QED
    BY <2>3, <2>4 DEF Undisturbed
<1>4. ASSUME NEW r \in Requests, Step(r) PROVE Undisturbed'
  <2>1. /\ req[r].op # "idle" /\ \A q \in Requests \ {r} : req'[q] = req[q]
        /\ Finish(r) \/ req'[r].op = req[r].op
    BY <1>4, StepGuards
  <2>2. req'[r].op \in {"idle", req[r].op}
    BY <2>1, RowTypes DEF Finish, Shape
  <2>3. ASSUME NEW p \in Requests, NEW q \in Requests, req'[p].op # "idle", req'[p].op \in Alone,
               req'[q].op # "idle"
        PROVE  p = q
    BY <2>1, <2>2, <2>3 DEF Undisturbed
  <2>4. ASSUME NEW q \in Requests, At(q, "edit", "posted")', "edit" \in Alone
        PROVE  req'[q].old = order'[req'[q].o].status
    <3>1. q = r
      BY <2>1, <2>4 DEF Undisturbed, At
    <3>2. PostEdit(r)
      BY <1>4, <2>4, <3>1, StepPosts
    <3>3. /\ req' = [req EXCEPT ![r].pc = "posted", ![r].old = order[req[r].o].status]
          /\ UNCHANGED order
      BY <3>2 DEF PostEdit
    <3>4. QED
      BY <3>1, <3>3 DEF Shape, Req
  <2>5. QED
    BY <2>3, <2>4 DEF Undisturbed
<1>5. QED
  BY <1>1, <1>2, <1>3, <1>4 DEF Next, CancelBill, vars

\* Every service that writes a status logs it.
LEMMA LoggedSteps ==
  ASSUME "editBlank" \in Used => "edit" \in Alone, Shape, Undisturbed, LoggedStatus, [Next]_vars
  PROVE  LoggedStatus'
<1>1. CASE UNCHANGED <<order, log>> BY <1>1 DEF LoggedStatus
<1>2. ASSUME NEW r \in Requests, NEW o \in Orders, Changes(r, o) PROVE LoggedStatus'
  <2>1. ASSUME NEW row \in Row, NEW old, Write(o, row, old) PROVE LoggedStatus'
    BY <2>1 DEF Write, Logged, LoggedStatus, Shape
  <2>2. ASSUME NEW row \in Row, Replace(o, row, req[r].snap) PROVE LoggedStatus'
    BY <2>2 DEF Replace, Logged, LoggedStatus, Shape, NewOrder, FirstEntry
  <2>3. ASSUME NEW row \in Row, Rewrite(r, o, row) PROVE LoggedStatus'
    <3>1. At(r, "edit", "posted") /\ "edit" \in Alone
      BY <2>3 DEF Rewrite, SaveBlankEdit
    <3>2. req[r].old = row.status
      BY <2>3, <3>1 DEF Rewrite, Undisturbed
    <3>3. QED
      BY <2>3, <3>2 DEF Rewrite, Logged, LoggedStatus, Shape
  <2>4. QED BY <1>2, <2>1, <2>2, <2>3 DEF Changes
<1>3. CASE Create
  <2>1. PICK o \in Orders, row \in Row :
          /\ order' = [order EXCEPT ![o] = row]
          /\ log' = [log EXCEPT ![o] = FirstEntry(row.status)]
    BY <1>3, Creates
  <2>2. QED BY <2>1 DEF LoggedStatus, Shape, FirstEntry
<1>4. QED BY <1>1, <1>2, <1>3, StepChanges, BeginChanges DEF Next, CancelBill, vars

\* The newest log entry always says the status the order has, whatever stale copy the
\* writing service worked on, as long as a form that may come without a status is the
\* only request in flight (OrderUpdateService.update logs the status it has read).
THEOREM LoggedStatusAlways ==
  ASSUME "editBlank" \in Used => "edit" \in Alone
  PROVE  Spec => []LoggedStatus
<1>1. Init => LoggedStatus BY DEF Init, LoggedStatus, NoOrder, FirstEntry
<1>2. Init => Undisturbed
  <2>1. Init => \A r \in Requests : req[r].op = "idle"
    BY RowTypes DEF Init
  <2>2. QED
    BY <2>1 DEF Undisturbed, At
<1>3. Shape /\ Undisturbed /\ LoggedStatus /\ [Next]_vars => LoggedStatus'
  BY LoggedSteps
<1>4. QED BY <1>1, <1>2, <1>3, ShapeStarts, ShapeSteps, UndisturbedSteps, PTL DEF Spec

==============================================================================
