---------------------------- MODULE Notifications ----------------------------
(***************************************************************************)
(* How the events of a business transaction become messages: recorded with *)
(* a deduplication key inside the transaction, dispatched after it has     *)
(* committed, and queued as SMS where the company's switch allows it; and  *)
(* how the technicians who can see a new order are told of it in the       *)
(* application, after its commit, by a page request or by a command.       *)
(*                                                                         *)
(* The emitter looks the key up and inserts the event without a lock.      *)
(* After the commit every statement is a transaction of its own.  What     *)
(* becomes of a queued SMS is the subject of SmsOutbox.                    *)
(***************************************************************************)
EXTENDS OrderOffers, Sequences, FiniteSets, SequencesExt

CONSTANTS
  Clients,     \* requests and commands that may be in flight
  Events,      \* deduplication keys: an event of one order or invoice
  Offer,       \* the event that the order is available
  Lots,        \* what one business transaction may emit, in its order
  Creation,    \* the lot of the transaction that creates the order
  Customers,   \* phones
  Technicians, \* phones of the technicians
  Profile,     \* what each technician brings
  NewOrder,    \* what the order asks for
  Company,     \* the company's settings
  Delay2,      \* priority2_delay_minutes
  Delay3,      \* priority3_delay_minutes
  Recipients,  \* whom each event goes to, Offer apart
  Switched,    \* events that the office switches off and on
  MaxRows,     \* bound on the events recorded
  Fatal,       \* what a request may be at when it dies
  Apart,       \* pairs of operations that do not overlap
  OpenOrders, OfferedTo, Companies  \* whom the copies of the offer rule are compared for

ASSUME NotificationAssumption ==
  /\ Offer \in Events
  /\ Lots \subseteq Seq(Events \ {Offer}) /\ Creation \in Lots
  /\ Recipients \in [Events \ {Offer} -> SUBSET Customers]
  /\ Switched \subseteq Events
  /\ MaxRows \in Nat
  /\ Profile \in [Technicians -> Offered]
  /\ NewOrder \in OpenOrder /\ Company \in Settings /\ {Delay2, Delay3} \subseteq Nat

ASSUME ComparedAssumption ==
  OpenOrders \subseteq OpenOrder /\ OfferedTo \subseteq Offered /\ Companies \subseteq Settings

VARIABLES
  now,      \* the time
  order,    \* "NONE", "NEW" with no technician, or "TAKEN"
  since,    \* when the order was created
  row,      \* NotificationEvent rows in the order of their ids
  outbox,   \* SMSOutbox rows: the event that queued them, the phone, the status
  enabled,  \* NotificationSetting.sms_enabled of each event
  told,     \* how often each technician has been told of the order
  throttle, \* whether the key of the page requests is in the cache
  job       \* each request in flight

vars == <<now, order, since, row, outbox, enabled, told, throttle, job>>

Phones == Customers \cup Technicians

Event == [event : Events, status : {"RECORDED", "DISPATCHED", "SKIPPED"}]
Message == [row : 1 .. MaxRows, phone : Phones, status : {"QUEUED", "SENT"}]

\* todo: events not emitted yet; mine: those inserted, not committed; ids: rows whose
\* dispatch is still to run; left: recipients of the first, or technicians, not
\* served yet; telling: the technician found not to have been told; creates: the
\* transaction creates the order, which is still to be offered.
Ops == {"none", "work", "dispatch", "queue", "commit", "page", "command"}
Job == [op : Ops, todo : Seq(Events), mine : Seq(Events), ids : Seq(1 .. MaxRows),
        left : SUBSET Phones, telling : SUBSET Technicians, creates : BOOLEAN]
Idle == [op |-> "none", todo |-> <<>>, mine |-> <<>>, ids |-> <<>>, left |-> {},
         telling |-> {}, creates |-> FALSE]

Passes == {"commit", "page", "command"}

Init ==
  /\ now = 0
  /\ order = "NONE"
  /\ since = 0
  /\ row = <<>>
  /\ outbox = {}
  /\ enabled = [e \in Events |-> TRUE]
  /\ told = [t \in Technicians |-> 0]
  /\ throttle = FALSE
  /\ job = [c \in Clients |-> Idle]

----------------------------------------------------------------------------
\* The transaction

Emits(c) == ToSet(job[c].todo) \cup ToSet(job[c].mine)

BeginWork(c, lot) ==
  /\ job[c] = Idle
  /\ <<"work", "work">> \in Apart =>
       \A d \in Clients : job[d].op = "work" => Emits(d) \cap ToSet(lot) = {}
  /\ lot = Creation => order = "NONE" /\ \A d \in Clients : ~job[d].creates
  /\ job' = [job EXCEPT ![c] = [Idle EXCEPT !.op = "work", !.todo = lot,
                                            !.creates = (lot = Creation)]]
  /\ UNCHANGED <<now, order, since, row, outbox, enabled, told, throttle>>

Recorded(c) == {row[n].event : n \in DOMAIN row} \cup ToSet(job[c].mine)

\* Mutant of Known: only an event that was dispatched counts.
KnownIfDispatched(c, e) ==
  e \in {row[n].event : n \in {n \in DOMAIN row : row[n].status = "DISPATCHED"}}
Known(c, e) == e \in Recorded(c)

\* emit: an event recorded before is not recorded again.
Emit(c) ==
  /\ job[c].op = "work"
  /\ job[c].todo # <<>>
  /\ LET e == Head(job[c].todo)
     IN  job' = [job EXCEPT ![c].todo = Tail(@),
                            ![c].mine = IF Known(c, e) THEN @ ELSE Append(@, e)]
  /\ UNCHANGED <<now, order, since, row, outbox, enabled, told, throttle>>

\* The functions registered with on_commit run in their order.
After(ids, j) == [j EXCEPT !.op = "dispatch", !.mine = <<>>, !.ids = ids]

Commit(c) ==
  /\ job[c].op = "work"
  /\ job[c].todo = <<>>
  /\ LET mine == job[c].mine
         ids == [n \in DOMAIN mine |-> Len(row) + n]
     IN  /\ Len(row) + Len(mine) <= MaxRows
         /\ row' = row \o [n \in DOMAIN mine |-> [event |-> mine[n], status |-> "RECORDED"]]
         /\ job' = [job EXCEPT ![c] = After(ids, @)]
  /\ order' = IF job[c].creates THEN "NEW" ELSE order
  /\ since' = IF job[c].creates THEN now ELSE since
  /\ UNCHANGED <<now, outbox, enabled, told, throttle>>

----------------------------------------------------------------------------
\* The dispatch of a recorded event

Current == Delayed(NewOrder, since, Delay2, Delay3)

\* The offer goes to those whose list has the order.
To(e) ==
  IF e # Offer THEN Recipients[e]
  ELSE {t \in Technicians : order = "NEW" /\ Listed(Current, Profile[t], Company, now)}

\* Mutant of Skipped: the early return forgets the row.
SkippedUnsaved(id) == row
Skipped(id) == [row EXCEPT ![id].status = "SKIPPED"]

\* The target and its recipients are read anew.
Address(c) ==
  /\ job[c].op = "dispatch"
  /\ job[c].ids # <<>>
  /\ LET id == Head(job[c].ids)
         to == To(row[id].event)
     IN  \/ /\ to = {}
            /\ row' = Skipped(id)
            /\ job' = [job EXCEPT ![c].ids = Tail(@)]
         \/ /\ to # {}
            /\ job' = [job EXCEPT ![c].op = "queue", ![c].left = to]
            /\ UNCHANGED row
  /\ UNCHANGED <<now, order, since, outbox, enabled, told, throttle>>

Waiting(e, phone) ==
  \E m \in outbox : row[m.row].event = e /\ m.phone = phone /\ m.status = "QUEUED"

\* queue_from_template for one recipient.
Queue(c) ==
  /\ job[c].op = "queue"
  /\ \E phone \in job[c].left :
       LET id == Head(job[c].ids)
           e == row[id].event
       IN  /\ outbox' = IF enabled[e] /\ ~Waiting(e, phone)
                        THEN outbox \cup {[row |-> id, phone |-> phone, status |-> "QUEUED"]}
                        ELSE outbox
           /\ job' = [job EXCEPT ![c].left = @ \ {phone}]
  /\ UNCHANGED <<now, order, since, row, enabled, told, throttle>>

Close(c) ==
  /\ job[c].op = "queue"
  /\ job[c].left = {}
  /\ row' = [row EXCEPT ![Head(job[c].ids)].status = "DISPATCHED"]
  /\ job' = [job EXCEPT ![c].op = "dispatch", ![c].ids = Tail(@)]
  /\ UNCHANGED <<now, order, since, outbox, enabled, told, throttle>>

Finish(c) ==
  /\ job[c].op = "dispatch"
  /\ job[c].ids = <<>>
  /\ ~job[c].creates
  /\ job' = [job EXCEPT ![c] = Idle]
  /\ UNCHANGED <<now, order, since, row, outbox, enabled, told, throttle>>

----------------------------------------------------------------------------
\* Telling the technicians

MayPass == \A d \in Clients : job[d].op \in Passes => <<"pass", "pass">> \notin Apart

Candidates == {t \in Technicians : order = "NEW" /\ Told(Current, Profile[t], Company, now)}

\* After the commit of the order, when its other events have been dispatched.
PassAfterCommit(c) ==
  /\ job[c].op = "dispatch"
  /\ job[c].ids = <<>>
  /\ job[c].creates
  /\ MayPass
  /\ job' = [job EXCEPT ![c].op = "commit", ![c].left = Candidates]
  /\ UNCHANGED <<now, order, since, row, outbox, enabled, told, throttle>>

\* A page request, at most one of a process in 45 seconds.
PassOfPage(c) ==
  /\ job[c] = Idle
  /\ ~throttle
  /\ \A d \in Clients : job[d].op \in {"commit", "command"} => <<"pass", "pass">> \notin Apart
  /\ throttle' = TRUE
  /\ job' = [job EXCEPT ![c] = [Idle EXCEPT !.op = "page", !.left = Candidates]]
  /\ UNCHANGED <<now, order, since, row, outbox, enabled, told>>

PassOfCommand(c) ==
  /\ job[c] = Idle
  /\ MayPass
  /\ job' = [job EXCEPT ![c] = [Idle EXCEPT !.op = "command", !.left = Candidates]]
  /\ UNCHANGED <<now, order, since, row, outbox, enabled, told, throttle>>

\* The entry of the cache ends after the pass that has set it.
ThrottleEnds ==
  /\ throttle
  /\ \A d \in Clients : job[d].op # "page"
  /\ throttle' = FALSE
  /\ UNCHANGED <<now, order, since, row, outbox, enabled, told, job>>

\* A technician who has a notification for the order is passed over ...
\* Mutant of Untold: the notifications are not looked up.
UntoldAny(t) == TRUE
Untold(t) == told[t] = 0

Look(c) ==
  /\ job[c].op \in Passes
  /\ job[c].telling = {}
  /\ \E t \in job[c].left :
       job' = [job EXCEPT ![c].left = @ \ {t}, ![c].telling = IF Untold(t) THEN {t} ELSE {}]
  /\ UNCHANGED <<now, order, since, row, outbox, enabled, told, throttle>>

\* ... and the others get one.
Tell(c) ==
  /\ \E t \in job[c].telling : told' = [told EXCEPT ![t] = @ + 1]
  /\ job' = [job EXCEPT ![c].telling = {}]
  /\ UNCHANGED <<now, order, since, row, outbox, enabled, throttle>>

EndPass(c) ==
  /\ job[c].op \in {"page", "command"}
  /\ job[c].left = {} /\ job[c].telling = {}
  /\ job' = [job EXCEPT ![c] = Idle]
  /\ UNCHANGED <<now, order, since, row, outbox, enabled, told, throttle>>

\* What the pass after the commit raises is swallowed, and the event for SMS follows ...
PassBreaksOff(c) ==
  /\ job[c].op = "commit"
  /\ job[c].left # {} \/ job[c].telling # {}
  /\ job' = [job EXCEPT ![c].left = {}, ![c].telling = {}]
  /\ UNCHANGED <<now, order, since, row, outbox, enabled, told, throttle>>

\* ... as it does when the pass ends; it is dispatched at once.
EmitOffer(c) ==
  /\ job[c].op = "commit"
  /\ job[c].left = {} /\ job[c].telling = {}
  /\ Len(row) < MaxRows
  /\ \/ /\ Known(c, Offer)
        /\ job' = [job EXCEPT ![c] = Idle]
        /\ UNCHANGED row
     \/ /\ ~Known(c, Offer)
        /\ row' = Append(row, [event |-> Offer, status |-> "RECORDED"])
        /\ job' = [job EXCEPT ![c] = [Idle EXCEPT !.op = "dispatch", !.ids = <<Len(row) + 1>>]]
  /\ UNCHANGED <<now, order, since, outbox, enabled, told, throttle>>

----------------------------------------------------------------------------
\* A transaction is rolled back, a request dies after its commit, or a dispatch raises:
\* the functions registered after it do not run, and where the exception is swallowed,
\* as for the offer, none were left.
Die(c) ==
  /\ job[c].op \in Fatal
  /\ job' = [job EXCEPT ![c] = Idle]
  /\ UNCHANGED <<now, order, since, row, outbox, enabled, told, throttle>>

\* An acceptance or an assignment; its events are among the lots.
Take ==
  /\ order = "NEW"
  /\ order' = "TAKEN"
  /\ UNCHANGED <<now, since, row, outbox, enabled, told, throttle, job>>

\* Bound: time is of no account before there is an order, nor after it is taken.
Tick ==
  /\ order = "NEW"
  /\ now < Horizon
  /\ now' = now + 1
  /\ UNCHANGED <<order, since, row, outbox, enabled, told, throttle, job>>

\* The office's communication settings.
Switch ==
  /\ \E e \in Switched : enabled' = [enabled EXCEPT ![e] = ~@]
  /\ UNCHANGED <<now, order, since, row, outbox, told, throttle, job>>

\* The outbox is emptied by others.
Deliver ==
  /\ \E m \in outbox :
       /\ m.status = "QUEUED"
       /\ outbox' = (outbox \ {m}) \cup {[m EXCEPT !.status = "SENT"]}
  /\ UNCHANGED <<now, order, since, row, enabled, told, throttle, job>>

----------------------------------------------------------------------------
AfterCommit(c) ==
  \/ Address(c) \/ Queue(c) \/ Close(c) \/ Finish(c)
  \/ PassAfterCommit(c) \/ Look(c) \/ Tell(c) \/ EndPass(c) \/ EmitOffer(c)

Next ==
  \/ Tick
  \/ Take
  \/ Switch
  \/ Deliver
  \/ ThrottleEnds
  \/ \E c \in Clients :
       \/ \E lot \in Lots : BeginWork(c, lot)
       \/ Emit(c) \/ Commit(c) \/ AfterCommit(c)
       \/ PassOfPage(c) \/ PassOfCommand(c)
       \/ PassBreaksOff(c) \/ Die(c)

Spec == Init /\ [][Next]_vars

\* A request that has committed goes on to its end.
FairSpec == Spec /\ \A c \in Clients : WF_vars(AfterCommit(c))

----------------------------------------------------------------------------
\* Properties

\* Every row has the type of its model.
TypeOK ==
  /\ now \in Times /\ since \in Times
  /\ order \in {"NONE", "NEW", "TAKEN"}
  /\ row \in Seq(Event) /\ Len(row) <= MaxRows
  /\ outbox \subseteq Message
  /\ enabled \in [Events -> BOOLEAN]
  /\ told \in [Technicians -> Nat]
  /\ throttle \in BOOLEAN
  /\ job \in [Clients -> Job]

\* A phone gets one message at most about an event, whenever it is emitted again,
\* also when the first has been sent meanwhile (NotificationEventService.emit,
\* queue_from_template).
OneMessage ==
  \A m, n \in outbox :
    row[m.row].event = row[n.row].event /\ m.phone = n.phone => m = n

\* A technician is told of an order once, whoever tells: "In-app notification is
\* created only once per technician/order/type" (technician_notifications.py:95).
ToldOnce == \A t \in Technicians : told[t] <= 1

\* An event that is recorded comes to be dispatched or skipped, unless its request dies
\* or its dispatch raises: nothing else would dispatch it, and its key keeps it from
\* being emitted again (emit, NotificationDispatcher.dispatch).
EventsEnd ==
  \A n \in 1 .. MaxRows :
    (n \in DOMAIN row /\ row[n].status = "RECORDED")
      ~> (n \in DOMAIN row /\ row[n].status # "RECORDED")

\* The times at which the copies of the rule agree, and at which waiting takes no
\* order away.
AgreeAt == {n \in Times : \A o \in OpenOrders, t \in OfferedTo, s \in Companies : Agree(o, t, s, n)}
StayAt == {n \in Times : \A o \in OpenOrders, t \in OfferedTo, s \in Companies : Stays(o, t, s, n)}

\* Whoever sees an order in the list sees its page and is told of it, and whoever has
\* its button is not refused for a reason the page knew: is_order_visible_to_technician
\* "is the safe single-order equivalent of the available-orders selector"
\* (eligibility.py:219).
OffersAgree == now \in AgreeAt

\* An order that a technician may accept does not become unacceptable by waiting,
\* past its service date and the company's gate (is_order_accept_allowed_by_service_date).
OffersStay == now \in StayAt

=============================================================================
