-------------------------- MODULE InvoiceWorkflow --------------------------
(***************************************************************************)
(* What the invoice promises its readers, without requests, locks or       *)
(* amounts: the workflow DRAFT -> ISSUED -> PAID, DRAFT/ISSUED ->          *)
(* CANCELLED of the Invoice model, and a settlement made once, by a        *)
(* payment that stays paid.                                                *)
(***************************************************************************)
EXTENDS Naturals

CONSTANT Payments

NoPayment == 0

VARIABLES
  status,     \* the invoice's status
  settledBy,  \* the payment that settled it, or NoPayment
  paid        \* the payments that are PAID

abstract == <<status, settledBy, paid>>

Init ==
  /\ status = "DRAFT"
  /\ settledBy = NoPayment
  /\ paid = {}

Issue ==
  /\ status = "DRAFT"
  /\ status' = "ISSUED"
  /\ UNCHANGED <<settledBy, paid>>

Cancel ==
  /\ status \in {"DRAFT", "ISSUED"}
  /\ status' = "CANCELLED"
  /\ UNCHANGED <<settledBy, paid>>

\* A payment received that settles nothing: the invoice is cancelled or paid
\* already, or the payment is for another total.
Receive(p) ==
  /\ status # "DRAFT"
  /\ p \notin paid
  /\ paid' = paid \cup {p}
  /\ UNCHANGED <<status, settledBy>>

\* A payment, received now or before, settles the invoice.
Settle(p) ==
  /\ status = "ISSUED"
  /\ status' = "PAID"
  /\ settledBy' = p
  /\ paid' = paid \cup {p}

Next ==
  \/ Issue
  \/ Cancel
  \/ \E p \in Payments : Receive(p) \/ Settle(p)

Spec == Init /\ [][Next]_abstract

=============================================================================
