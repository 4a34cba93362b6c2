-------------------------- MODULE TechnicianLedger --------------------------
(***************************************************************************)
(* The ledger of one technician: the wages credited when invoices are paid,*)
(* the cash he keeps debited, the settlements the office posts, and the    *)
(* command that fills in what is missing.                                  *)
(*                                                                         *)
(* Every entry is written by _write_entry: look for the key, lock the      *)
(* latest entry, add up credits and debits, insert.  Each is a statement of*)
(* its own, which sees what is committed when it starts and what its own   *)
(* transaction wrote.  Locks last until the transaction ends.              *)
(***************************************************************************)
EXTENDS Integers, SequencesExt

CONSTANTS
  Requests,      \* transactions that may be in flight at once
  WageInvoices,  \* invoices whose order has the technician and a wage
  Tokens,        \* idempotency tokens of the settlement forms the office opened
  Nobody,        \* the writer of a committed entry
  Wage,          \* settled_technician_wage of each invoice
  Total,         \* its total_amount
  Settled        \* the amounts of settlements, negative when the company pays

ASSUME NobodyAssumption == Nobody \notin Requests
ASSUME AmountsAssumption == {Wage, Total} \subseteq Nat \ {0} /\ Settled \subseteq Int \ {0}

VARIABLES
  ledger,   \* the entries, committed or not, in the order of their ids
  payment,  \* each invoice: ISSUED, PAID, or PAID in cash to the technician
  req       \* each request: what it has still to write, and how far it is

ledgerVars == <<ledger, payment, req>>

\* idempotency_key
Keys == [kind : {"technician_credit", "cash_received_by_technician"}, of : WageInvoices]
        \cup [kind : {"manual_settlement"}, of : Tokens]
Credit(i) == [kind |-> "technician_credit", of |-> i]
Debit(i) == [kind |-> "cash_received_by_technician", of |-> i]

\* An entry's amount is positive in a credit and negative in a debit.
Post(key, amount) == [key |-> key, amount |-> amount]
Amounts == {Wage, -Total} \cup Settled
Posts == [key : Keys, amount : Amounts]

NoTransaction ==
  [op |-> "idle", of |-> Nobody, cash |-> FALSE, todo |-> <<>>, pc |-> "next",
   target |-> {}, held |-> {}, credits |-> 0, balance |-> 0]

LedgerInit ==
  /\ ledger = <<>>
  /\ payment = [i \in WageInvoices |-> "ISSUED"]
  /\ req = [r \in Requests |-> NoTransaction]

----------------------------------------------------------------------------
\* What a statement of request r sees

Committed == {n \in DOMAIN ledger : ledger[n].by = Nobody}
Visible(r) == Committed \cup {n \in DOMAIN ledger : ledger[n].by = r}
Exists(r, key) == \E n \in Visible(r) : ledger[n].key = key

AddUp(rows) == FoldSet(LAMBDA n, sum : ledger[n].amount + sum, 0, rows)
Credits(r) == AddUp({n \in Visible(r) : ledger[n].amount > 0})
Debits(r) == -AddUp({n \in Visible(r) : ledger[n].amount < 0})

\* The entries [:1] of order_by("-id") returns: none when the ledger is empty.
\* Mutant: without the ordering.
AnyEntry(r) == {ledger[n].key : n \in Visible(r)}
Latest(r) == {ledger[n].key : n \in {m \in Visible(r) : \A k \in Visible(r) : k <= m}}

----------------------------------------------------------------------------
\* Transactions

BeginTransaction(r, op, of, cash, todo) ==
  /\ req[r] = NoTransaction
  /\ req' = [req EXCEPT ![r] = [NoTransaction EXCEPT !.op = op, !.of = of, !.cash = cash, !.todo = todo]]
  /\ UNCHANGED <<ledger, payment>>

\* Mutant: the debit is written first.
DebitFirst(i, cash) ==
  (IF cash THEN <<Post(Debit(i), -Total)>> ELSE <<>>) \o <<Post(Credit(i), Wage)>>

\* create_invoice_entries: the wage, and the cash if the technician keeps it.
InvoiceEntries(i, cash) ==
  <<Post(Credit(i), Wage)>> \o (IF cash THEN <<Post(Debit(i), -Total)>> ELSE <<>>)

\* InvoiceMarkPaidService holds the invoice's lock from here to its end.
BeginMarkPaid(r) ==
  \E i \in WageInvoices, cash \in BOOLEAN :
    /\ payment[i] = "ISSUED"
    /\ \A q \in Requests : req[q].op = "markPaid" => req[q].of # i
    /\ BeginTransaction(r, "markPaid", i, cash, InvoiceEntries(i, cash))

\* The backfill commands pass over an invoice that has its credit, and write
\* the entries of the others without their payment.
BeginBackfill(r) ==
  \E i \in WageInvoices :
    /\ payment[i] # "ISSUED"
    /\ ~Exists(r, Credit(i))
    /\ BeginTransaction(r, "backfill", i, FALSE, InvoiceEntries(i, FALSE))

\* A settlement form may be posted more than once.
BeginSettlement(r) ==
  \E token \in Tokens, amount \in Settled :
    BeginTransaction(r, "settlement", token, FALSE,
          <<Post([kind |-> "manual_settlement", of |-> token], amount)>>)

Rows(r) == {n \in DOMAIN ledger : ledger[n].by = r}

Commit(r) ==
  /\ req[r] # NoTransaction
  /\ req[r].todo = <<>>
  /\ ledger' = [n \in DOMAIN ledger |-> IF n \in Rows(r) THEN [ledger[n] EXCEPT !.by = Nobody]
                                                       ELSE ledger[n]]
  /\ IF req[r].op = "markPaid"
       THEN payment' = [payment EXCEPT ![req[r].of] = IF req[r].cash THEN "CASH" ELSE "PAID"]
       ELSE UNCHANGED payment
  /\ req' = [req EXCEPT ![r] = NoTransaction]

\* The entries that are not of r, in their order.
Without(r) ==
  LET upTo[n \in 0 .. Len(ledger)] ==
        IF n = 0 THEN <<>>
        ELSE IF ledger[n].by = r THEN upTo[n - 1] ELSE Append(upTo[n - 1], ledger[n])
  IN  upTo[Len(ledger)]

\* An error after the entries, in the code around the service, or a lost
\* connection.
Rollback(r) ==
  /\ req[r] # NoTransaction
  /\ ledger' = Without(r)
  /\ req' = [req EXCEPT ![r] = NoTransaction]
  /\ UNCHANGED payment

----------------------------------------------------------------------------
\* _write_entry

Entry(r) == Head(req[r].todo)
At(r, pc) == req[r].todo # <<>> /\ req[r].pc = pc

Written(r) == [req[r] EXCEPT !.todo = Tail(@), !.pc = "next", !.target = {},
                              !.credits = 0, !.balance = 0]

LookForKey(r) ==
  /\ At(r, "next")
  /\ req' = [req EXCEPT ![r] = IF Exists(r, Entry(r).key) THEN Written(r) ELSE [@ EXCEPT !.pc = "new"]]
  /\ UNCHANGED <<ledger, payment>>

\* The entry to lock is chosen when the statement starts; it stays the same
\* however long the statement waits.
ChooseEntry(r) ==
  /\ At(r, "new")
  /\ \E target \in IF Latest(r) = {} THEN {{}} ELSE {{key} : key \in Latest(r)} :
       req' = [req EXCEPT ![r].pc = "waiting", ![r].target = target]
  /\ UNCHANGED <<ledger, payment>>

\* The keys q has locked.
Held(q) == req[q].held \cup IF req[q].pc \in {"locked", "credited", "added"} THEN req[q].target ELSE {}

LockEntry(r) ==
  /\ At(r, "waiting")
  /\ \A q \in Requests \ {r} : Held(q) \cap req[r].target = {}
  /\ req' = [req EXCEPT ![r].pc = "locked"]
  /\ UNCHANGED <<ledger, payment>>

\* get_balance takes two statements.
AddCredits(r) ==
  /\ At(r, "locked")
  /\ req' = [req EXCEPT ![r].pc = "credited", ![r].credits = Credits(r)]
  /\ UNCHANGED <<ledger, payment>>

SubtractDebits(r) ==
  /\ At(r, "credited")
  /\ req' = [req EXCEPT ![r].pc = "added", ![r].balance = req[r].credits - Debits(r), ![r].credits = 0]
  /\ UNCHANGED <<ledger, payment>>

\* The unique index: the insertion waits for another transaction that has
\* inserted the key, and fails if that one commits.
Inserted(key) == {n \in DOMAIN ledger : ledger[n].key = key}

\* Mutant: without the unique index.
MayInsertAny(r) == TRUE
MayInsert(r) == Inserted(Entry(r).key) = {}

Insert(r) ==
  /\ At(r, "added")
  /\ MayInsert(r)
  /\ ledger' = Append(ledger, [key |-> Entry(r).key, amount |-> Entry(r).amount,
                               after |-> req[r].balance + Entry(r).amount, by |-> r])
  /\ req' = [req EXCEPT ![r] = [Written(r) EXCEPT !.held = @ \cup req[r].target]]
  /\ UNCHANGED payment

\* A statement that fails, for its key or any other reason, rolls back to the
\* savepoint around the entry.  mark_paid logs the error and goes on without
\* the rest of the entries.  Everyone else lets the transaction roll back.
FailEntry(r) ==
  /\ req[r].op = "markPaid"
  /\ req[r].todo # <<>>
  /\ req' = [req EXCEPT ![r] = [Written(r) EXCEPT !.todo = <<>>]]
  /\ UNCHANGED <<ledger, payment>>

----------------------------------------------------------------------------

WriteEntry(r) ==
  \/ LookForKey(r) \/ ChooseEntry(r) \/ LockEntry(r)
  \/ AddCredits(r) \/ SubtractDebits(r) \/ Insert(r)

LedgerNext ==
  \E r \in Requests :
    \/ BeginMarkPaid(r) \/ BeginBackfill(r) \/ BeginSettlement(r)
    \/ WriteEntry(r) \/ FailEntry(r) \/ Commit(r) \/ Rollback(r)

LedgerSpec == LedgerInit /\ [][LedgerNext]_ledgerVars

----------------------------------------------------------------------------
\* Properties

LedgerRow == [key : Keys, amount : Amounts, after : Int, by : Requests \cup {Nobody}]
Transaction ==
  [op : {"idle", "markPaid", "backfill", "settlement"}, of : WageInvoices \cup Tokens \cup {Nobody},
   cash : BOOLEAN, todo : Seq(Posts),
   pc : {"next", "new", "waiting", "locked", "credited", "added"},
   target : SUBSET Keys, held : SUBSET Keys, credits : Nat, balance : Int]

\* Entries, invoices and requests have the shape the models give them.
LedgerTypeOK ==
  /\ ledger \in Seq(LedgerRow)
  /\ payment \in [WageInvoices -> {"ISSUED", "PAID", "CASH"}]
  /\ req \in [Requests -> Transaction]

\* No key is posted twice, however often a form is posted, a command run or a
\* callback replayed, at once or in turn.
PostedOnce == \A n, m \in DOMAIN ledger : ledger[n].key = ledger[m].key => n = m

Posted(key) == \E n \in Committed : ledger[n].key = key

\* The committed entries of an invoice are those of a payment that was
\* committed with them: none before it is paid, the cash only when the
\* technician took it, and never the cash without the wage.
EntriesFollowPayment ==
  \A i \in WageInvoices :
    /\ Posted(Credit(i)) => payment[i] # "ISSUED"
    /\ Posted(Debit(i)) => payment[i] = "CASH" /\ Posted(Credit(i))

\* r waits for q: for a lock q holds, or for the end of q's insertion of a key.
WaitsFor(r, q) ==
  /\ q # r
  /\ \/ At(r, "waiting") /\ Held(q) \cap req[r].target # {}
     \/ At(r, "added") /\ \E n \in Rows(q) : ledger[n].key = Entry(r).key

\* The requests never all wait for each other, although a transaction that
\* writes two entries locks two rows and inserts two keys.
NoWaitCycle ==
  \A waiting \in (SUBSET Requests) \ {{}} : \E r \in waiting : \A q \in waiting : ~WaitsFor(r, q)

\* balance_after is the technician's running balance immediately after the
\* entry was applied.
RunningBalance ==
  \A n \in Committed : ledger[n].after = AddUp({m \in Committed : m <= n})

\* An invoice that has its credit, and so is not looked at by the backfill
\* any more, has all the entries its payment calls for.
BackfillLeavesNoGap ==
  \A i \in WageInvoices : payment[i] = "CASH" /\ Posted(Credit(i)) => Posted(Debit(i))

=============================================================================
