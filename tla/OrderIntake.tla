---------------------------- MODULE OrderIntake ----------------------------
(***************************************************************************)
(* How an order comes to be: the customer found or made by phone, the row  *)
(* of the order, and the answers to the items its category asks for.       *)
(*                                                                         *)
(* The form of the public page makes customer and order in one             *)
(* transaction, that of the office commits the customer first; both save   *)
(* the answers in another.  Meanwhile the office changes its categories    *)
(* and items, and the API the customers.                                   *)
(***************************************************************************)
EXTENDS Naturals

CONSTANTS
  Desks,       \* requests that may be in flight
  Categories, Items, Customers, Orders,  \* ids, each used once
  Phones,
  Separate,    \* pairs of operations on one order that do not overlap; deleting is on all
  MaxRequests  \* bound: requests ever begun

ASSUME RequestsAssumption == MaxRequests \in Nat

VARIABLES
  category,  \* CompanyServiceCategory rows
  item,      \* OrderItemDefinition rows
  customer,  \* Customer rows
  order,     \* Order rows, with their OrderItemValue rows
  form,      \* each request in flight
  behind,    \* history: orders whose answers the office, or a worker that died, left behind
  had,       \* history: the phones each customer has had
  begun      \* history: how many requests were begun

intake == <<category, item, customer, order, form, behind, had, begun>>

CategoryRow == {"none", "active", "inactive", "gone"}
ItemRow == [is : {"none", "active", "inactive", "gone"}, category : SUBSET Categories]
NoItem == [is |-> "none", category |-> {}]
CustomerRow == [is : {"none", "here", "gone"}, phone : SUBSET Phones]

\* phone: customer_phone, or that of the ServiceRequest; answers: the items that
\* have an OrderItemValue, of one column or another.
OrderRow == [there : BOOLEAN, category : SUBSET Categories, customer : SUBSET Customers,
             phone : SUBSET Phones, answers : SUBSET Items]
NoOrder == [there |-> FALSE, category |-> {}, customer |-> {}, phone |-> {}, answers |-> {}]

\* posted: the answers, an unticked box being one; was: the customer of the order as
\* loaded; doomed: the answers the save has deleted.
FormOps == {"none", "public", "office", "edit", "recycle", "phone", "delete"}
FormSteps == {"idle", "customer", "place", "update", "clear", "write", "recycle", "phone", "delete"}
Form == [op : FormOps, at : FormSteps, order : SUBSET Orders, phone : SUBSET Phones,
         category : SUBSET Categories, customer : SUBSET Customers, was : SUBSET Customers,
         posted : SUBSET Items, doomed : SUBSET Items]
NoForm == [op |-> "none", at |-> "idle", order |-> {}, phone |-> {}, category |-> {},
           customer |-> {}, was |-> {}, posted |-> {}, doomed |-> {}]

IntakeInit ==
  /\ category \in [Categories -> {"none", "active"}]
  /\ item \in [Items -> {NoItem} \cup [is : {"active"}, category : {{k} : k \in Categories}]]
  /\ \A i \in Items : \A k \in item[i].category : category[k] = "active"
  /\ customer = [c \in Customers |-> [is |-> "none", phone |-> {}]]
  /\ order = [o \in Orders |-> NoOrder]
  /\ form = [d \in Desks |-> NoForm]
  /\ behind = {}
  /\ had = [c \in Customers |-> {}]
  /\ begun = 0

----------------------------------------------------------------------------
\* Rows and requests

Exists(k) == category[k] \in {"active", "inactive"}
Existing(ks) == {k \in ks : Exists(k)}
Asked(ks) == {i \in Items : item[i].is = "active" /\ item[i].category \subseteq ks}
Here(c) == customer[c].is = "here"

\* Mutant of Found: any customer will do.
FoundAny(p) == {c \in Customers : Here(c)}
Found(p) == {c \in Customers : Here(c) /\ customer[c].phone = {p}}

Leave(d) == form' = [form EXCEPT ![d] = NoForm]
Proceed(d, at) == form' = [form EXCEPT ![d].at = at]

Begun == begun < MaxRequests /\ begun' = begun + 1

MayTake(d, op, os) ==
  /\ Begun
  /\ form[d] = NoForm
  /\ \A e \in Desks :
       <<op, form[e].op>> \in Separate =>
         form[e].order \cap os = {} /\ op # "delete" /\ form[e].op # "delete"

AddCustomer(c, p) ==
  /\ customer' = [customer EXCEPT ![c] = [is |-> "here", phone |-> {p}]]
  /\ had' = [had EXCEPT ![c] = @ \cup {p}]

----------------------------------------------------------------------------
\* A new order

\* The form of the public page, or of the office: the customer of its phone is looked up.
BeginOrder(d, op, p, ks, posted) ==
  /\ MayTake(d, op, {})
  /\ \E cs \in SUBSET Found(p) :
       /\ cs = {} <=> Found(p) = {}
       /\ \A c, e \in cs : c = e
       /\ form' = [form EXCEPT ![d] = [NoForm EXCEPT
            !.op = op, !.at = IF op = "office" /\ cs = {} THEN "customer" ELSE "place",
            !.phone = {p}, !.category = ks, !.customer = cs, !.posted = posted]]
  /\ UNCHANGED <<category, item, customer, order, behind, had>>

\* The office commits a new customer on its own; the phone is unique.
CreateCustomer(d) ==
  /\ form[d].at = "customer"
  /\ \E p \in form[d].phone :
       IF Found(p) = {}
       THEN \E c \in Customers :
              /\ customer[c].is = "none"
              /\ AddCustomer(c, p)
              /\ form' = [form EXCEPT ![d].customer = {c},
                                      ![d].at = IF form[d].op = "edit" THEN "update" ELSE "place"]
       ELSE Leave(d) /\ UNCHANGED <<customer, had>>
  /\ UNCHANGED <<category, item, order, behind, begun>>

Placed(d, o, c) ==
  LET ks == IF form[d].op = "public" THEN {k \in form[d].category : category[k] = "active"}
            ELSE Existing(form[d].category)
  IN /\ order' = [order EXCEPT ![o] = [NoOrder EXCEPT
                    !.there = TRUE, !.category = ks, !.customer = {c}, !.phone = form[d].phone]]
     /\ form' = [form EXCEPT ![d].at = "clear", ![d].order = {o}, ![d].category = ks]

\* The order with the customer that was found, or with a new one; a customer deleted
\* meanwhile, or a phone taken meanwhile, fails the request.
PlaceOrder(d) ==
  /\ form[d].at = "place"
  /\ \E o \in Orders, p \in form[d].phone :
       /\ ~order[o].there
       /\ IF form[d].customer = {}
          THEN IF Found(p) = {}
               THEN \E c \in Customers :
                      customer[c].is = "none" /\ AddCustomer(c, p) /\ Placed(d, o, c)
               ELSE Leave(d) /\ UNCHANGED <<order, customer, had>>
          ELSE /\ \E c \in form[d].customer :
                    IF Here(c) THEN Placed(d, o, c) ELSE Leave(d) /\ UNCHANGED order
               /\ UNCHANGED <<customer, had>>
  /\ UNCHANGED <<category, item, behind, begun>>

\* The office or the API picks a customer: no category, no answers.
CreateOrder(c) ==
  /\ Begun /\ Here(c)
  /\ \E o \in Orders :
       /\ ~order[o].there
       /\ order' = [order EXCEPT ![o] = [NoOrder EXCEPT
                      !.there = TRUE, !.customer = {c}, !.phone = customer[c].phone]]
  /\ UNCHANGED <<category, item, customer, form, behind, had>>

----------------------------------------------------------------------------
\* The answers

\* Mutant of Doomed: nothing is deleted.
SpareAll(o, ks) == {}
\* Answers to what the category does not ask are deleted.  The category is that of the
\* order as created, or as read again after an edit.
Doomed(o, ks) == order[o].answers \ Asked(ks)

BeginSave(d) ==
  /\ form[d].at = "clear"
  /\ \E o \in form[d].order :
       LET ks == IF form[d].op = "edit" THEN order[o].category ELSE form[d].category
       IN /\ form' = [form EXCEPT ![d].at = "write", ![d].category = ks,
                                  ![d].doomed = IF ks = {} THEN order[o].answers ELSE Doomed(o, ks)]
          /\ behind' = behind \ {o}
  /\ UNCHANGED <<category, item, customer, order, had, begun>>

\* An empty answer, or one that does not parse, is none.
Answered(asked, posted) == asked \cap posted

\* The items are read again, and each is given its answer or loses it.
CommitSave(d) ==
  /\ form[d].at = "write"
  /\ \E o \in form[d].order :
       LET asked == IF form[d].category = {} THEN {} ELSE Asked(form[d].category)
       IN order' = [order EXCEPT ![o].answers =
                      (@ \ (form[d].doomed \cup asked)) \cup Answered(asked, form[d].posted)]
  /\ Leave(d)
  /\ UNCHANGED <<category, item, customer, behind, had, begun>>

----------------------------------------------------------------------------
\* Editing and recycling

BeginEdit(d, o, p, ks, posted) ==
  /\ order[o].there
  /\ MayTake(d, "edit", {o})
  /\ \E cs \in SUBSET Found(p) :
       /\ cs = {} <=> Found(p) = {}
       /\ \A c, e \in cs : c = e
       /\ form' = [form EXCEPT ![d] = [NoForm EXCEPT
            !.op = "edit", !.at = IF cs = {} THEN "customer" ELSE "update",
            !.order = {o}, !.phone = {p}, !.category = ks,
            !.customer = cs, !.was = order[o].customer, !.posted = posted]]
  /\ UNCHANGED <<category, item, customer, order, behind, had>>

\* A customer who is gone leaves that of the copy; if that one is gone too, it fails.
UpdateOrder(d) ==
  /\ form[d].at = "update"
  /\ \E o \in form[d].order :
       LET new == IF \E c \in form[d].customer : Here(c) THEN form[d].customer ELSE form[d].was
       IN IF \A c \in new : Here(c)
          THEN /\ order' = [order EXCEPT ![o].customer = new, ![o].phone = form[d].phone,
                                         ![o].category = Existing(form[d].category)]
               /\ Proceed(d, "clear")
          ELSE Leave(d) /\ UNCHANGED order
  /\ UNCHANGED <<category, item, customer, behind, had, begun>>

\* The order is loaded, and copied later with the answers it then has.
BeginRecycle(d, o) ==
  /\ order[o].there
  /\ MayTake(d, "recycle", {o})
  /\ form' = [form EXCEPT ![d] = [NoForm EXCEPT
       !.op = "recycle", !.at = "recycle", !.order = {o},
       !.category = order[o].category, !.customer = order[o].customer]]
  /\ UNCHANGED <<category, item, customer, order, behind, had>>

\* The snapshot of the phone is not copied.
Recycle(d) ==
  /\ form[d].at = "recycle"
  /\ IF (\A k \in form[d].category : Exists(k)) /\ (\A c \in form[d].customer : Here(c))
     THEN \E o \in form[d].order, n \in Orders :
            /\ ~order[n].there
            /\ order' = [order EXCEPT ![n] = [NoOrder EXCEPT
                 !.there = TRUE, !.category = form[d].category,
                 !.customer = form[d].customer, !.answers = order[o].answers]]
            /\ behind' = IF o \in behind THEN behind \cup {n} ELSE behind
     ELSE UNCHANGED <<order, behind>>
  /\ Leave(d)
  /\ UNCHANGED <<category, item, customer, had, begun>>

----------------------------------------------------------------------------
\* What the office sets up

CreateCategory(k) ==
  /\ Begun /\ category[k] = "none"
  /\ \E is \in {"active", "inactive"} : category' = [category EXCEPT ![k] = is]
  /\ UNCHANGED <<item, customer, order, form, behind, had>>

SwitchCategory(k) ==
  /\ Begun /\ Exists(k)
  /\ category' = [category EXCEPT ![k] = IF @ = "active" THEN "inactive" ELSE "active"]
  /\ UNCHANGED <<item, customer, order, form, behind, had>>

\* With its items and their answers; its orders have no category any more.
DeleteCategory(k) ==
  LET items == {i \in Items : item[i].category = {k}}
  IN /\ Begun /\ Exists(k)
     /\ category' = [category EXCEPT ![k] = "gone"]
     /\ item' = [i \in Items |-> IF i \in items THEN [is |-> "gone", category |-> {}] ELSE item[i]]
     /\ order' = [o \in Orders |-> [order[o] EXCEPT !.category = @ \ {k}, !.answers = @ \ items]]
     /\ UNCHANGED <<customer, form, behind, had>>

CreateItem(i, k) ==
  /\ Begun /\ item[i].is = "none" /\ Exists(k)
  /\ \E is \in {"active", "inactive"} : item' = [item EXCEPT ![i] = [is |-> is, category |-> {k}]]
  /\ UNCHANGED <<category, customer, order, form, behind, had>>

\* An item that moves to another category leaves its answers where they are.
EditItem(i, k) ==
  /\ Begun /\ item[i].is \in {"active", "inactive"} /\ Exists(k)
  /\ \E is \in {"active", "inactive"} : item' = [item EXCEPT ![i] = [is |-> is, category |-> {k}]]
  /\ behind' = IF item[i].category = {k} THEN behind
               ELSE behind \cup {o \in Orders : i \in order[o].answers}
  /\ UNCHANGED <<category, customer, order, form, had>>

DeleteItem(i) ==
  /\ Begun /\ item[i].is \in {"active", "inactive"}
  /\ item' = [item EXCEPT ![i].is = "inactive"]
  /\ UNCHANGED <<category, customer, order, form, behind, had>>

----------------------------------------------------------------------------
\* The customers of the API

\* Every column of the copy is saved, with the phone posted if there is one.
BeginPutCustomer(d, c, p) ==
  /\ MayTake(d, "phone", {}) /\ Here(c)
  /\ form' = [form EXCEPT ![d] = [NoForm EXCEPT
       !.op = "phone", !.at = "phone", !.customer = {c}, !.phone = {p}]]
  /\ UNCHANGED <<category, item, customer, order, behind, had>>

\* A customer deleted meanwhile is back.
PutCustomer(d) ==
  /\ form[d].at = "phone"
  /\ \E c \in form[d].customer, p \in form[d].phone :
       IF Found(p) \subseteq {c} THEN AddCustomer(c, p) ELSE UNCHANGED <<customer, had>>
  /\ Leave(d)
  /\ UNCHANGED <<category, item, order, behind, begun>>

MayDelete(c) == Here(c) /\ \A o \in Orders : c \notin order[o].customer

BeginDeleteCustomer(d, c) ==
  /\ MayTake(d, "delete", {}) /\ MayDelete(c)
  /\ form' = [form EXCEPT ![d] = [NoForm EXCEPT !.op = "delete", !.at = "delete", !.customer = {c}]]
  /\ UNCHANGED <<category, item, customer, order, behind, had>>

\* Orders placed meanwhile lose their customer.
DeleteCustomer(d) ==
  /\ form[d].at = "delete"
  /\ \E c \in form[d].customer :
       /\ customer' = [customer EXCEPT ![c].is = "gone"]
       /\ order' = [o \in Orders |-> [order[o] EXCEPT !.customer = @ \ {c}]]
  /\ Leave(d)
  /\ UNCHANGED <<category, item, behind, had, begun>>

\* A worker that is killed between an edit and its answers leaves them behind.
Abandon(d) ==
  /\ form[d] # NoForm
  /\ behind' = IF form[d].op = "edit" /\ form[d].at \in {"clear", "write"}
               THEN behind \cup form[d].order ELSE behind
  /\ Leave(d)
  /\ UNCHANGED <<category, item, customer, order, had, begun>>

Filling(d) ==
  \/ \E p \in Phones, ks \in {{}} \cup {{k} : k \in Categories}, posted \in SUBSET Items :
       \/ \E op \in {"public", "office"} : BeginOrder(d, op, p, ks, posted)
       \/ \E o \in Orders : BeginEdit(d, o, p, ks, posted)
  \/ CreateCustomer(d) \/ PlaceOrder(d) \/ UpdateOrder(d) \/ BeginSave(d) \/ CommitSave(d)
  \/ \E o \in Orders : BeginRecycle(d, o)
  \/ Recycle(d)
  \/ \E c \in Customers : BeginDeleteCustomer(d, c) \/ \E p \in Phones : BeginPutCustomer(d, c, p)
  \/ PutCustomer(d) \/ DeleteCustomer(d)
  \/ Abandon(d)

SettingUp ==
  \/ \E k \in Categories : \/ CreateCategory(k) \/ SwitchCategory(k) \/ DeleteCategory(k)
                           \/ \E i \in Items : CreateItem(i, k) \/ EditItem(i, k)
  \/ \E i \in Items : DeleteItem(i)

IntakeNext ==
  \/ \E d \in Desks : Filling(d)
  \/ SettingUp
  \/ \E c \in Customers : CreateOrder(c)

IntakeSpec == IntakeInit /\ [][IntakeNext]_intake

----------------------------------------------------------------------------
\* Properties

\* Rows and requests have their types.
IntakeTypeOK ==
  /\ category \in [Categories -> CategoryRow]
  /\ item \in [Items -> ItemRow]
  /\ customer \in [Customers -> CustomerRow]
  /\ order \in [Orders -> OrderRow]
  /\ form \in [Desks -> Form]
  /\ behind \in SUBSET Orders
  /\ had \in [Customers -> SUBSET Phones]
  /\ begun \in 0..MaxRequests

\* An order whose forms have all been saved answers only what its category asks,
\* although its row and its answers are saved by two transactions while the office
\* changes categories and items; what is left behind is put right by the next edit
\* (OrderItemService.save_items_from_post, "category change cleanup").
AnswersFit ==
  \A o \in Orders \ behind :
    (\A d \in Desks : form[d].at \in {"clear", "write"} => o \notin form[d].order) =>
      \A i \in order[o].answers : item[i].category = order[o].category

\* The customer of an order is somebody who has had the phone it was taken for,
\* whoever else was creating, moving or deleting customers of that phone meanwhile
\* (_get_or_create_customer, OrderCreateByAdminService, OrderUpdateService).
CustomerOfCaller ==
  \A o \in Orders : \A c \in order[o].customer : order[o].phone \subseteq had[c]

\* An order keeps having a customer ("Cannot delete customer with existing orders.").
KeepsCustomer ==
  [][\A o \in Orders : order[o].customer # {} => order'[o].customer # {}]_intake

=============================================================================
