----------------------------- MODULE MCAccounts -----------------------------
(* A small instance of Accounts for TLC, with pages for its operators. *)
EXTENDS OperatorAccess, TLC

CONSTANTS c1, c2

MCClients == {c1, c2}
MCKeys == {"admin_invoice_detail", "admin_invoice_cancel"}

\* The profile's id is no user's.
MCUserOf == 3 :> 1
\* The profile's id is another technician's.
MCUserOfCrossed == 1 :> 2 @@ 2 :> 1

\* Codes are asked for and entered one request at a time, an edit runs alone, and no
\* account is deleted beside the toggle of a technician.
MCApart ==
  {<<"ask", "ask">>, <<"verify", "verify">>}
    \cup {<<"toggleTechnician", "delete">>, <<"delete", "toggleTechnician">>}
    \cup {<<"edit", op>> : op \in Ops \ {"none"}} \cup {<<op, "edit">> : op \in Ops \ {"none"}}
ClientSymmetry == Permutations(MCClients)

MCStaffPages == {"home", "admin_invoice_detail", "admin_orders"}
MCPages == MCStaffPages \cup {"admin_base_items", "admin_operator_list"}

=============================================================================
