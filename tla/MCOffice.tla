----------------------------- MODULE MCOffice -----------------------------
(***************************************************************************)
(* The wordings of a company's messages and its orders share no row: a     *)
(* behaviour here is of one or of the other, never of both.                *)
(***************************************************************************)
EXTENDS SmsTemplates, OrderIntake, TLC

CONSTANTS c1, c2, r1, r2, t1, t2, t0, t3
CONSTANTS d1, d2, k1, k2, i1, u1, u2, o1, o2, p1, p2

MCClients == {c1, c2}
MCRequests == {r1, r2}
MCTexts == {t1, t2}

\* One request is decided in one tab at a time.
MCApart == {"approve", "reject"} \X {"approve", "reject"}
\* No process dies between the two saves of an approval.
MCFatal == {"post", "toggled", "agree", "provision", "template", "setting", "approve"}

MCDesks == {d1, d2}
MCCategories == {k1, k2}
MCItems == {i1}
MCCustomers == {u1, u2}
MCOrders == {o1, o2}
MCPhones == {p1, p2}

\* One order is filled in by one request at a time, and no customer is deleted during an edit.
Filled == {"public", "office", "edit", "recycle"}
MCSeparate == (Filled \X Filled) \cup {<<"edit", "delete">>, <<"delete", "edit">>}

OfficeInit == Init /\ IntakeInit
Wording == IntakeInit /\ (\A k \in Categories : category[k] = "none") /\ Next /\ UNCHANGED intake
Taking == Init /\ IntakeNext /\ UNCHANGED vars
OfficeSpec == OfficeInit /\ [][Wording \/ Taking]_<<intake, vars>>

\* Either part has the symmetries of its own sets; those of the two are taken in pairs.
Pair(S, T, a, b, c, d) == {[x \in S \cup T |-> x],
                           [x \in S \cup T |-> CASE x = a -> b [] x = b -> a [] x = c -> d [] x = d -> c]}
Symmetry ==
  Pair(MCClients, MCDesks, c1, c2, d1, d2)
  \cup Pair(MCRequests, MCCategories, r1, r2, k1, k2)
  \cup Pair(MCTexts, MCCustomers, t1, t2, u1, u2)
  \cup Permutations(MCOrders)
=============================================================================
