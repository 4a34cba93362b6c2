------------------------- MODULE MCTechnicianLedger -------------------------
(* Small instances of TechnicianLedger for TLC. *)
EXTENDS TechnicianLedger

CONSTANTS r1, r2, i1, i2, s1, s2

Symmetry == Permutations(Requests) \cup Permutations(WageInvoices) \cup Permutations(Tokens)

=============================================================================
