---------------------------- MODULE MCSettlement ----------------------------
EXTENDS Settlement, TLC

CONSTANTS c1, c2, p1, a1, blank

MCClients == {c1, c2}
MCPayments == {p1}
MCAccounts == {a1, blank}

OfEach(s, g, t) == [service |-> s, goods |-> g, travel |-> t]

\* Amounts and percents are small; Hundred is 4, so that quarters are rounded.
MCBills == {[totals |-> OfEach(3, 2, 1), tax |-> 1, extra |-> 1]}
MCCampaigns == {0, 1}
MCRates == {OfEach(0, 0, 0), OfEach(2, 1, 4)}
MCFees == {0, 2}
MCPolicyPairs == {[extra |-> "technician", campaign |-> "company"],
                  [extra |-> "half_half", campaign |-> "proportional_share"]}

\* The office does not edit a technician while the owner has the page open.
MCApart == {<<"edit", "review">>, <<"review", "edit">>}
MCSymmetry == Permutations(MCClients)
=============================================================================
