--------------------------- MODULE Reconciliation ---------------------------
(***************************************************************************)
(* What the office and the platform are told of the payments: the audit    *)
(* that compares a provider's settlement report with the Payment rows, and *)
(* the alert badge and the health page of the operations dashboard.  All   *)
(* of it only reads, so there are no actions here.                         *)
(*                                                                         *)
(* A book is the Payment rows of one moment, numbered in the order of      *)
(* their creation; a report is the provider's rows by their line.          *)
(***************************************************************************)
EXTENDS InvoicePayments, Integers, Sequences, FiniteSetsExt

CONSTANTS
  Blank,    \* an empty cell, or a payment without a reference
  Garbled,  \* a cell that is not a number
  Cells,    \* the rows of a file
  Files     \* the provider's files

ASSUME FilesAssumption ==
  /\ \A file \in Files : file.header \in BOOLEAN /\ file.rows \in Seq(Cells)
  /\ Blank \notin Payments

\* amount, status and reference of a row; gateway: it was made through one
BookRow(ref, status, amount, gateway) ==
  [ref |-> ref, status |-> status, amount |-> amount, gateway |-> gateway]

----------------------------------------------------------------------------
\* The report

\* Rows that lack a cell, or whose amount is no number, are left out and named; so is
\* the whole file when a required column is missing.
Readable(row) == row.ref # Blank /\ row.amount # Garbled /\ row.status # Blank
Lines(file) == {i \in DOMAIN file.rows : file.header /\ Readable(file.rows[i])}
Parsed(file) == [i \in Lines(file) |-> file.rows[i]]
ParseFails(file) == ~file.header \/ \E i \in DOMAIN file.rows : ~Readable(file.rows[i])

\* The provider's words for a status, in the words of Payment.Status.
StatusMap ==
  [successful |-> "PAID", success |-> "PAID", verified |-> "PAID", paid |-> "PAID",
   failed |-> "FAILED", failure |-> "FAILED", error |-> "FAILED",
   cancelled |-> "CANCELLED", canceled |-> "CANCELLED", pending |-> "PENDING"]
Normalised(status) == IF status \in DOMAIN StatusMap THEN StatusMap[status] ELSE status

----------------------------------------------------------------------------
\* The audit

RowsOf(report, ref) == {i \in DOMAIN report : report[i].ref = ref}
References(report) == {report[i].ref : i \in DOMAIN report} \ {Blank}

Duplicates(report) ==
  {ref \in References(report) : \E i, j \in RowsOf(report, ref) : i # j}

\* The newest payment with the reference, if there is one.
Bearers(book, scope, ref) == {p \in scope : book[p].ref = ref}
Internal(book, scope, report) ==
  {Max(Bearers(book, scope, ref)) :
     ref \in {r \in References(report) : Bearers(book, scope, r) # {}}}

\* What is wrong with a row of the report and the payment it is about.
\* Mutant of Verdict: only a payment that is still open is compared.
VerdictIfOpen(row, payment) ==
  LET said == Normalised(row.status) IN
  CASE row.amount # payment.amount -> "amount_mismatch"
    [] row.amount = payment.amount /\ said = "PAID" /\ payment.status = "PENDING"
         -> "status_mismatch"
    [] OTHER -> "matched"
Verdict(row, payment) ==
  LET said == Normalised(row.status) IN
  CASE row.amount # payment.amount -> "amount_mismatch"
    [] /\ row.amount = payment.amount
       /\ \/ said = "PAID" /\ payment.status # "PAID"
          \/ said = "FAILED" /\ payment.status = "PENDING" -> "status_mismatch"
    [] OTHER -> "matched"

\* Of several rows with one reference, the first is compared.
VerdictOn(book, scope, report, ref) ==
  IF Bearers(book, scope, ref) = {}
    THEN "missing_in_internal"
    ELSE Verdict(report[Min(RowsOf(report, ref))], book[Max(Bearers(book, scope, ref))])

\* Payments the provider should know of; the newest of them, up to a limit, are looked for.
Expected(book, scope, report) ==
  {p \in scope \ Internal(book, scope, report) :
     book[p].gateway /\ book[p].status \in {"PENDING", "PAID"}}
Scanned(S, limit) == {p \in S : Cardinality({q \in S : q > p}) < limit}
Unlisted(book, scope, report, limit) ==
  {p \in Scanned(Expected(book, scope, report), limit) :
     book[p].ref # Blank /\ book[p].ref \notin References(report)}

\* The ReconciliationSummary: what was found, of each kind.
Reconcile(book, scope, report, limit) ==
  LET found(verdict) ==
        {ref \in References(report) : VerdictOn(book, scope, report, ref) = verdict}
  IN  [matched             |-> found("matched"),
       missing_in_internal |-> found("missing_in_internal"),
       amount_mismatch     |-> found("amount_mismatch"),
       status_mismatch     |-> found("status_mismatch"),
       missing_in_provider |-> Unlisted(book, scope, report, limit),
       duplicates          |-> Duplicates(report),
       errors              |-> {i \in DOMAIN report : report[i].ref = Blank}]

HasIssues(summary) == \E kind \in DOMAIN summary \ {"matched"} : summary[kind] # {}

\* reconcile_payments gives up on a file with errors and no row it can read.  It says
\* that no action is needed when the comparison shows no issue; rows it left out are
\* printed, but do not count.
GivesUp(file) == ParseFails(file) /\ Lines(file) = {}
NoActionNeeded(book, scope, file, limit) ==
  ~GivesUp(file) /\ ~HasIssues(Reconcile(book, scope, Parsed(file), limit))

----------------------------------------------------------------------------
\* The operations dashboard; age: "new" up to the expiration time, "old" up to a week

Unfinished == {"PENDING", "INITIATED"}
ThroughGateway(book, scope) == {p \in scope : book[p].gateway}
OldPending(book, scope, age) ==
  {p \in ThroughGateway(book, scope) : book[p].status \in Unfinished /\ age[p] # "new"}
FailedRecent(book, scope, age) ==
  {p \in ThroughGateway(book, scope) : book[p].status = "FAILED" /\ age[p] # "ancient"}

AlertBadge(book, scope, age) ==
  LET old == Cardinality(OldPending(book, scope, age))
      failed == Cardinality(FailedRecent(book, scope, age))
  IN  [total    |-> old + failed,
       severity |-> CASE failed > 0 \/ old > 2 -> "danger"
                      [] failed = 0 /\ old \in {1, 2} -> "warning"
                      [] OTHER -> "ok"]

\* The payments the health page lists, the newest up to a limit.
Problematic(book, scope, age, limit) ==
  Scanned({p \in ThroughGateway(book, scope) : book[p].status \in Unfinished}
          \cup FailedRecent(book, scope, age), limit)

----------------------------------------------------------------------------
\* What they are to show

\* What a moment's payments are to the audit: those of a gateway, with their status.
\* Only amounts that differ matter, so a provider's row has the right one, 1, or another.
RowFor(p, status) ==
  BookRow(IF status = "none" THEN Blank ELSE p, status, 1, status # "none")
Book ==
  [p \in Payments |-> RowFor(p, IF pay[p].kind = "gateway" THEN pay[p].status ELSE "none")]
Books ==
  {[p \in Payments |-> RowFor(p, s[p])] : s \in [Payments -> PaymentStatus \cup {"none"}]}

\* No action is needed only if the provider's report and the book agree.
Agreeing(book, file) ==
  LET report == {file.rows[i] : i \in Lines(file)}
      collected == {row \in report : Normalised(row.status) = "PAID"}
  IN  NoActionNeeded(book, Payments, file, MaxPayments) =>
        /\ \A row \in collected : \E p \in Payments :
             book[p].ref = row.ref /\ book[p].status = "PAID" /\ book[p].amount = row.amount
        /\ \A p \in Payments : book[p].status \in {"PENDING", "PAID"} =>
             \E row \in report : row.ref = book[p].ref /\ row.amount = book[p].amount

\* What the clean-up of old payments leaves on the dashboard: only those more than a
\* week old go, and the page lists all that the badge counts.
Expired(book, age) ==
  [p \in Payments |-> IF p \in OldPending(book, Payments, age)
                        THEN [book[p] EXCEPT !.status = "FAILED"] ELSE book[p]]
Shown(book, age) ==
  LET after == Expired(book, age)
      gone == {p \in OldPending(book, Payments, age) : age[p] = "ancient"}
      listed == Problematic(after, Payments, age, MaxPayments)
  IN  /\ AlertBadge(after, Payments, age).total
           = AlertBadge(book, Payments, age).total - Cardinality(gone)
      /\ AlertBadge(after, Payments, age).total
           = Cardinality({p \in listed : age[p] # "new" \/ after[p].status = "FAILED"})
      /\ OldPending(book, Payments, age) # gone =>
           AlertBadge(after, Payments, age).severity = "danger"

Ages == [Payments -> {"new", "old", "ancient"}]
Audited ==
  {book \in Books : /\ \A file \in Files : Agreeing(book, file)
                    /\ \A age \in Ages : Shown(book, age)}

\* Trouble with a payment shows, at any moment.  When the audit says that no action is
\* needed, every payment in the rows it could read that the provider collected is PAID
\* here for that amount, and every payment made or awaited here is among those rows,
\* whatever the report holds twice; and expiring old payments takes off the badge and
\* the page only those of more than a week ago (PaymentReconciliationService.reconcile,
\* get_company_alert_badge, get_company_payment_health, expire_old_pending_payments).
TroubleShows == Book \in Audited

=============================================================================
