--------------------------- MODULE OperatorAccess ---------------------------
(***************************************************************************)
(* How a request of an operator to a page under admin/ is answered.        *)
(*                                                                         *)
(* An operator who is switched off keeps the session: the project's        *)
(* backend admits inactive users, so the log in and the middleware test    *)
(* the switch themselves.  Accounts leaves switch and rights in the rows.  *)
(***************************************************************************)
EXTENDS Accounts

CONSTANTS
  Pages,       \* the names of the pages under admin/
  StaffPages,  \* those whose role check admits operators
  Invoices     \* those about invoices

----------------------------------------------------------------------------
\* Rights

AutoAllowed == {"home", "admin_home", "admin_dashboard"}
Synthetic == {"admin_invoice_cancel", "admin_invoice_edit"}
Excluded == {"admin_operator_list", "admin_operator_create", "admin_operator_edit",
             "admin_operator_permissions"}

\* What the office's form offers to tick.
Listed == Synthetic \cup (Pages \ Excluded)

\* The routes (tenants/urls.py, dashboard/urls.py): none of the pages for operators
\* is left off the form.
ASSUME PagesAssumption == StaffPages \subseteq Pages \ Excluded

\* A request: its page, whether it posts, and whether the path or what is posted has
\* a word for cancelling in it.
Requests == [page : Pages, posts : BOOLEAN, cancels : BOOLEAN]

\* Mutant of EffectiveKey: the right to the page is enough.
PageKey(request) == request.page
\* The right a request needs.
EffectiveKey(request) ==
  IF request.page \in Invoices /\ request.posts
    THEN IF request.cancels THEN "admin_invoice_cancel" ELSE "admin_invoice_edit"
    ELSE request.page

----------------------------------------------------------------------------
\* Answers

\* unified_login, for a company that is active.
MayLogIn(active) == active

\* OperatorPermissionMiddleware, for somebody logged in who is no administrator;
\* granted: the keys of the OperatorPermission rows.
MayPass(active, granted, request) ==
  /\ active
  /\ EffectiveKey(request) \in AutoAllowed \cup granted

\* require_tenant_role
HasRole(request) == request.page \in StaffPages

GetsPage(active, granted, request) == MayPass(active, granted, request) /\ HasRole(request)

----------------------------------------------------------------------------
\* Properties

Granted(u) == {k \in Keys : rights[u][k] = "yes"}
Gets(u, request) == GetsPage(user[u].active, Granted(u), request)

\* Who is switched off neither logs in nor gets anything with the session of before.
SwitchedOffIsOut(u) ==
  ~switched[u] => ~MayLogIn(user[u].active) /\ \A request \in Requests : ~Gets(u, request)

\* Without the right to cancel ticked no invoice is cancelled, and with neither of the
\* two rights to act ticked nothing is posted about one, whatever pages are ticked.
ViewingIsNotActing(u) ==
  \A request \in Requests : Gets(u, request) /\ request.posts /\ request.page \in Invoices =>
    /\ posted[u] \cap Synthetic # {}
    /\ request.cancels => "admin_invoice_cancel" \in posted[u]

\* No page is shown that was not ticked, but for those everybody may see.
ShownWasTicked(u) ==
  \A request \in Requests : Gets(u, request) /\ ~request.posts => request.page \in posted[u] \cup AutoAllowed

\* Who is switched on logs in, and is shown the pages ticked.
TickedIsShown(u) ==
  switched[u] =>
    /\ MayLogIn(user[u].active)
    /\ \A request \in Requests :
         ~request.posts /\ request.page \in StaffPages \cap posted[u] => Gets(u, request)

\* Between requests an operator may do what the office has last ticked and no more:
\* who is switched off is out, to see an invoice is not to act on it, and the pages
\* shown are those ticked.  Nothing is out of the reach of the form: with all it offers
\* an operator gets every page for operators (OperatorPermissionMiddleware,
\* get_effective_permission_key_for_request, list_operator_permission_items,
\* require_tenant_role, admin_operator_list).
ServedAsTicked ==
  /\ \A u \in Operators \cap Present : AtRest(u) =>
       SwitchedOffIsOut(u) /\ ViewingIsNotActing(u) /\ ShownWasTicked(u) /\ TickedIsShown(u)
  /\ \A request \in Requests : request.page \in StaffPages => GetsPage(TRUE, Listed, request)

=============================================================================
