--------------------------- MODULE MCNotifications ---------------------------
EXTENDS Notifications, TLC

CONSTANTS c1, c2, customer, t1, created, paid, offered

MCClients == {c1, c2}
MCEvents == {created, paid, offered}
MCCustomers == {customer}
MCTechnicians == {t1}

\* The customer's event of a created order, and that of its paid invoice.
MCCreation == <<created>>
MCLots == {MCCreation, <<paid>>}
MCRecipients == [e \in MCEvents \ {offered} |-> {customer}]

\* A technician of the second rank, who sees the order a while after its creation.
MCProfile == [t \in MCTechnicians |->
  [free |-> TRUE, rank |-> 2, skill |-> FALSE, waiting |-> 0, started |-> 0]]
MCNewOrder == [category |-> TRUE, skill |-> FALSE, p2 |-> None, p3 |-> None,
               service |-> None, scheduled |-> None]
MCCompany == [limit |-> 1, future |-> FALSE, gate |-> None]

\* The orders, technicians and settings the rules of the offers are compared for.
Dates == {None, 0, 1}
MCOrders ==
  [category : BOOLEAN, skill : BOOLEAN, p2 : {None, 1}, p3 : {None, 2},
   service : Dates, scheduled : {None, 1, 2}]
MCOffered == [free : BOOLEAN, rank : 0 .. 3, skill : BOOLEAN, waiting : 0 .. 1, started : 0 .. 1]
MCSettings == [limit : 0 .. 2, future : BOOLEAN, gate : {None, 0, 1}]

MCSwitched == {created}

\* A request dies while its transaction is open or while it tells technicians.
MCFatal == {"work", "page", "command", "commit"}
\* Work on one order or invoice does not overlap, nor do the passes over an order.
MCApart == {<<"work", "work">>, <<"pass", "pass">>}
=============================================================================
