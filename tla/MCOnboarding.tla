---------------------------- MODULE MCOnboarding ----------------------------
EXTENDS Onboarding, TLC

CONSTANTS c1, c2, text, blank, d1, d2, none, r1, v1, v2, s1, k1, k2, n1, n2, p1, p2

MCClients == {c1, c2}
MCTexts == {text, blank}
MCFilled == {text}
MCCards == {d1, d2, none}
MCRequests == {r1}

MCVisitors == {v1, v2}
MCSessions == {s1}
MCCodes == {k1, k2}
MCNames == {n1, n2}
MCPhones == {p1, p2}

\* The second form is for another phone, the third for another company of the first.
MCForms == {[code |-> k1, name |-> n1, phone |-> p1],
            [code |-> k1, name |-> n1, phone |-> p2],
            [code |-> k2, name |-> n2, phone |-> p1]}

MCPlain == [code |-> k1, name |-> n1, phone |-> p1]

MCSymmetry ==
  Permutations(MCClients) \cup Permutations({d1, d2})

=============================================================================
