------------------------- MODULE MCInvoicePayments -------------------------
(* A small instance of InvoicePayments for TLC, with files for the audit of its payments. *)
EXTENDS Reconciliation, TLC

CONSTANTS r1, r2, r3, c1

Symmetry == Permutations(Requests)

MCCells == [ref : Payments \cup {Blank}, amount : {1, 2, Garbled}, status : {"verified", "failed"}]
MCFiles == {[header |-> TRUE, rows |-> rows] : rows \in UNION {[1 .. n -> MCCells] : n \in 0 .. 2}}

=============================================================================
