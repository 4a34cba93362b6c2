--------------------------- MODULE MCDiscountCodes ---------------------------
EXTENDS DiscountCodes, TLC

CONSTANTS c1, c2, p1, p2, i1, i2, w1, s1

MCClients == {c1, c2}
MCPhones == {p1, p2}
MCInvoices == {i1, i2}
MCWords == {w1}
MCSingles == {s1}

\* Both invoices are of one customer, so that they compete for the same rows.
MCPhoneOf == [i \in MCInvoices |-> p1]
MCNet == [i \in MCInvoices |-> 3]

\* Hundred is 2: half of the total, and all of it.
MCOffers == {[percent |-> 1, max |-> 3], [percent |-> 2, max |-> 2]}
MCSingleOf == [s \in MCSingles |-> [phone |-> p1, offer |-> [percent |-> 2, max |-> 2]]]

\* One page at a time makes a campaign, and one at a time works on an invoice.
MCApart == {<<"create", "create">>, <<"apply", "apply">>}
MCSymmetry == Permutations(MCClients) \cup Permutations(MCInvoices)
=============================================================================
