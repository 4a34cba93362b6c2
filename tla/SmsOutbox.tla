----------------------------- MODULE SmsOutbox -----------------------------
(***************************************************************************)
(* The messages of the two outboxes, the company's prepaid wallet, and the *)
(* recharge invoices that fill it.                                         *)
(*                                                                         *)
(* A message is claimed under a lock of its row, priced, charged to the    *)
(* wallet, handed to the provider, and marked SENT, or refunded and marked *)
(* FAILED.  Each of these commits on its own, so that another worker, or a *)
(* crash, may come between any two of them.  Platform messages go the same *)
(* way without the wallet.                                                 *)
(***************************************************************************)
EXTENDS Naturals, FiniteSets

LOCAL INSTANCE FiniteSetsExt

CONSTANTS
  Workers,      \* processes that send, and requests that retry or pay
  Messages,     \* outbox rows, by id
  Platform,     \* those of them that are PlatformSMSOutbox rows
  Bills,        \* recharge invoices
  Amount,       \* what each of them is for
  Prices,       \* what an attempt may cost, at the pricing of that moment
  MaxAttempts,  \* bound: attempts to send, of all messages
  MaxPays,      \* bound: how often a recharge invoice is marked paid
  MaxCrashes,   \* bound: workers that die on the way
  Alone         \* operations that run with no other in flight

ASSUME NumbersAssumption ==
  /\ Amount \in Nat
  /\ Prices \subseteq Nat
  /\ {MaxAttempts, MaxPays, MaxCrashes} \subseteq Nat
ASSUME BillsAssumption == IsFiniteSet(Bills)
ASSUME WorkersAssumption == IsFiniteSet(Workers)
ASSUME PlatformAssumption == Platform \subseteq Messages

VARIABLES
  sms,       \* the committed outbox rows
  wallet,    \* balance_rial of the company's wallet
  tx,        \* the sums of its transactions, by type
  bill,      \* the status of the recharge invoices
  job,       \* each worker: where it is, and what it read earlier
  accepted,  \* history: how often the provider took each message
  earned,    \* history: the price of what it took of the company's messages
  pays,      \* history: how often the owner has pressed "paid"
  crashes,   \* history: how many workers have died
  left       \* history: the messages they had in hand

sent == <<accepted, earned>>
died == <<crashes, left>>
vars == <<sms, wallet, tx, bill, job, sent, pays, died>>

\* Nothing sets DELIVERED or CANCELLED, whatever the code that reads them expects.
Status == {"none", "QUEUED", "SENDING", "SENT", "FAILED"}
SmsRow == [status : Status, attempts : Nat]
NoRow == [status |-> "none", attempts |-> 0]

BillStatus == {"none", "UNPAID", "PAID"}
Sums == [credit : Nat, debit : Nat, refund : Nat]

\* todo: the messages still to look at; copies: their status as a retry loaded
\* it, "none" where the processor reads each again; m: the message in hand,
\* cost: what was charged for it; bill, balance: the invoice being paid and
\* the balance read for it
Places == {"idle", "next", "lock", "locked", "charged", "accepted", "refused", "failing",
           "pay", "credit"}
Sending == {"locked", "charged", "accepted", "refused", "failing"}
Paying == {"pay", "credit"}
Copies == [Messages -> Status]
Job == [pc : Places, todo : SUBSET Messages, copies : Copies, m : SUBSET Messages,
        cost : Nat, bill : SUBSET Bills, copy : BillStatus, balance : Nat]

NoCopies == [m \in Messages |-> "none"]
Idle == [pc |-> "idle", todo |-> {}, copies |-> NoCopies, m |-> {},
         cost |-> 0, bill |-> {}, copy |-> "none", balance |-> 0]

Init ==
  /\ sms = [m \in Messages |-> NoRow]
  /\ wallet = 0
  /\ tx = [credit |-> 0, debit |-> 0, refund |-> 0]
  /\ bill = [b \in Bills |-> "none"]
  /\ job = [w \in Workers |-> Idle]
  /\ accepted = [m \in Messages |-> 0]
  /\ earned = 0
  /\ pays = 0
  /\ crashes = 0
  /\ left = {}

----------------------------------------------------------------------------
\* Rows and jobs

Mark(m, status) == sms' = [sms EXCEPT ![m].status = status]

\* The claim counts the attempt on the row it has locked.
Claimed(m) == [sms[m] EXCEPT !.status = "SENDING", !.attempts = @ + 1]

InHand(w, m) == job[w].m = {m}
Goto(w, place) == job' = [job EXCEPT ![w].pc = place]

\* The loop goes on with the rest of its messages, the job ends after the last.
Onward(w, m) ==
  LET rest == job[w].todo \ {m}
  IN job' = [job EXCEPT ![w] =
       IF rest = {} THEN Idle
       ELSE [@ EXCEPT !.pc = "next", !.todo = rest, !.m = {}, !.cost = 0]]

InFlight == {w \in Workers : job[w].pc # "idle"}
MayBegin(w, op) ==
  /\ job[w].pc = "idle"
  /\ op \in Alone => InFlight = {}
  /\ "pay" \in Alone => \A v \in Workers : job[v].pc \notin Paying

----------------------------------------------------------------------------
\* Queueing

\* A message enters its outbox; without a valid phone number it enters as
\* FAILED.  That a waiting twin or a switch keeps others out only means that
\* some are never queued.
Queue(m) ==
  /\ sms[m] = NoRow
  /\ \E status \in {"QUEUED", "FAILED"} : Mark(m, status)
  /\ UNCHANGED <<wallet, tx, bill, job, sent, pays, died>>

----------------------------------------------------------------------------
\* Sending

\* Bound: no job takes up messages for which there may be no attempt left.
Spare(ids) ==
  MapThenSumSet(LAMBDA m : sms[m].attempts, Messages)
    + MapThenSumSet(LAMBDA w : Cardinality(job[w].todo), Workers)
    + Cardinality(ids) <= MaxAttempts

Sendable == {"QUEUED", "FAILED"}
Queued == {m \in Messages : sms[m].status = "QUEUED"}

\* The processor of one outbox notes the ids of queued messages: those whose
\* window is open, up to its limit.
BeginProcess(w) ==
  /\ MayBegin(w, "process")
  /\ \E box \in {Platform, Messages \ Platform} : \E ids \in SUBSET (Queued \cap box) :
       /\ ids # {}
       /\ Spare(ids)
       /\ job' = [job EXCEPT ![w] = [Idle EXCEPT !.pc = "next", !.todo = ids]]
  /\ UNCHANGED <<sms, wallet, tx, bill, sent, pays, died>>

\* A person retries messages, of the company one or many at once; the request
\* keeps the rows it loaded.
BeginRetry(w) ==
  /\ MayBegin(w, "retry")
  /\ \E ids \in (SUBSET (Messages \ Platform)) \cup {{m} : m \in Platform} :
       /\ ids # {}
       /\ \A m \in ids : sms[m].status \in Sendable
       /\ Spare(ids)
       /\ job' = [job EXCEPT ![w] = [Idle EXCEPT !.pc = "next", !.todo = ids,
                    !.copies = [m \in Messages |-> IF m \in ids THEN sms[m].status ELSE "none"]]]
  /\ UNCHANGED <<sms, wallet, tx, bill, sent, pays, died>>

\* The status send goes by: of the copy, or of a row read again.
SeenStatus(w, m) == IF job[w].copies[m] = "none" THEN sms[m].status ELSE job[w].copies[m]

\* send_single puts a failed company message back in the queue first.
Requeues(w, m) == job[w].copies[m] = "FAILED" /\ m \notin Platform

TakeUp(w, m) ==
  /\ job[w].pc = "next"
  /\ m \in job[w].todo
  /\ IF SeenStatus(w, m) \in Sendable
     THEN /\ job' = [job EXCEPT ![w].pc = "lock", ![w].m = {m}]
          /\ IF Requeues(w, m) THEN Mark(m, "QUEUED") ELSE UNCHANGED sms
     ELSE Onward(w, m) /\ UNCHANGED sms
  /\ UNCHANGED <<wallet, tx, bill, sent, pays, died>>

\* SENDING is not among the statuses refused under the lock.
Refused == {"SENT"}

Claim(w, m) ==
  /\ job[w].pc = "lock"
  /\ InHand(w, m)
  /\ IF sms[m].status \in Refused
     THEN Onward(w, m) /\ UNCHANGED sms
     ELSE sms' = [sms EXCEPT ![m] = Claimed(m)] /\ Goto(w, "locked")
  /\ UNCHANGED <<wallet, tx, bill, sent, pays, died>>

\* Mutant of AfterNoSend: the return without _mark_failed.
AfterNoSendSilent(w, m) == Onward(w, m)
AfterNoSend(w, m) == Goto(w, "failing")

\* No active provider, no implementation of it, or a BLOCKED transaction.
CannotSend(w, m) ==
  /\ job[w].pc = "locked"
  /\ InHand(w, m)
  /\ AfterNoSend(w, m)
  /\ UNCHANGED <<sms, wallet, tx, bill, sent, pays, died>>

\* Mutant of Affords: no look at the balance.
AffordsAny(cost) == TRUE
Affords(cost) == wallet >= cost

\* The attempt is priced at the moment's pricing, and the wallet, locked, pays.
Charge(w, m) ==
  /\ job[w].pc = "locked"
  /\ InHand(w, m)
  /\ m \notin Platform
  /\ \E cost \in Prices :
       /\ Affords(cost)
       /\ wallet' = wallet - cost
       /\ tx' = [tx EXCEPT !.debit = @ + cost]
       /\ job' = [job EXCEPT ![w].pc = "charged", ![w].cost = cost]
  /\ UNCHANGED <<sms, bill, sent, pays, died>>

\* The platform pays for its own messages, there is no wallet.
ChargeNobody(w, m) ==
  /\ job[w].pc = "locked"
  /\ InHand(w, m)
  /\ m \in Platform
  /\ Goto(w, "charged")
  /\ UNCHANGED <<sms, wallet, tx, bill, sent, pays, died>>

\* The provider takes the message; or it refuses it, or raises.
Call(w, m) ==
  /\ job[w].pc = "charged"
  /\ InHand(w, m)
  /\ \/ /\ accepted' = [accepted EXCEPT ![m] = @ + 1]
        /\ earned' = earned + job[w].cost
        /\ Goto(w, "accepted")
     \/ /\ Goto(w, "refused")
        /\ UNCHANGED <<accepted, earned>>
  /\ UNCHANGED <<sms, wallet, tx, bill, pays, died>>

SaveSent(w, m) ==
  /\ job[w].pc = "accepted"
  /\ InHand(w, m)
  /\ Mark(m, "SENT")
  /\ Onward(w, m)
  /\ UNCHANGED <<wallet, tx, bill, sent, pays, died>>

Refunded(cost) == wallet + cost

\* A charge of 0, as of a platform message, is not refunded.  Mutant: off by one.
RefundableOverOne(cost) == cost > 1
Refundable(cost) == cost > 0

\* Mutant of AfterRefund: the branch falls through to the success.
AfterRefundSent == "accepted"
AfterRefund == "failing"

Refund(w, m) ==
  /\ job[w].pc = "refused"
  /\ InHand(w, m)
  /\ IF Refundable(job[w].cost)
     THEN wallet' = Refunded(job[w].cost) /\ tx' = [tx EXCEPT !.refund = @ + job[w].cost]
     ELSE UNCHANGED <<wallet, tx>>
  /\ Goto(w, AfterRefund)
  /\ UNCHANGED <<sms, bill, sent, pays, died>>

\* The row becomes FAILED whatever another worker has made of it.
MarkFailed(w, m) ==
  /\ job[w].pc = "failing"
  /\ InHand(w, m)
  /\ Mark(m, "FAILED")
  /\ Onward(w, m)
  /\ UNCHANGED <<wallet, tx, bill, sent, pays, died>>

----------------------------------------------------------------------------
\* Recharging the wallet

CreateBill(b) ==
  /\ bill[b] = "none"
  /\ bill' = [bill EXCEPT ![b] = "UNPAID"]
  /\ UNCHANGED <<sms, wallet, tx, job, sent, pays, died>>

\* The owner marks an invoice paid; the request keeps the status it loaded.
BeginPay(w, b) ==
  /\ MayBegin(w, "pay")
  /\ bill[b] # "none"
  /\ pays < MaxPays
  /\ job' = [job EXCEPT ![w] = [Idle EXCEPT !.pc = "pay", !.bill = {b}, !.copy = bill[b]]]
  /\ pays' = pays + 1
  /\ UNCHANGED <<sms, wallet, tx, bill, sent, died>>

AlreadyPaid(w) == job[w].copy = "PAID"

\* The transaction updates the invoice row, which another payment of the same
\* invoice waits for, and reads the wallet.
SavePaid(w) ==
  /\ job[w].pc = "pay"
  /\ IF AlreadyPaid(w)
     THEN job' = [job EXCEPT ![w] = Idle]
     ELSE /\ \A v \in Workers : ~(job[v].pc = "credit" /\ job[v].bill = job[w].bill)
          /\ job' = [job EXCEPT ![w].pc = "credit", ![w].balance = wallet]
  /\ UNCHANGED <<sms, wallet, tx, bill, sent, pays, died>>

\* The balance is written as it was read plus the amount, and all is committed.
CreditWallet(w, b) ==
  /\ job[w].pc = "credit"
  /\ job[w].bill = {b}
  /\ bill' = [bill EXCEPT ![b] = "PAID"]
  /\ wallet' = job[w].balance + Amount
  /\ tx' = [tx EXCEPT !.credit = @ + Amount]
  /\ job' = [job EXCEPT ![w] = Idle]
  /\ UNCHANGED <<sms, sent, pays, died>>

----------------------------------------------------------------------------
\* The process of a worker dies; what it has committed stays, an open
\* transaction is rolled back, and nothing takes up the rest.
Crash(w) ==
  /\ crashes < MaxCrashes
  /\ job[w].pc # "idle"
  /\ job' = [job EXCEPT ![w] = Idle]
  /\ crashes' = crashes + 1
  /\ left' = left \cup job[w].m
  /\ UNCHANGED <<sms, wallet, tx, bill, sent, pays>>

SendStep(w, m) ==
  \/ TakeUp(w, m)
  \/ Claim(w, m)
  \/ CannotSend(w, m)
  \/ Charge(w, m)
  \/ ChargeNobody(w, m)
  \/ Call(w, m)
  \/ SaveSent(w, m)
  \/ Refund(w, m)
  \/ MarkFailed(w, m)

PayStep(w) == SavePaid(w) \/ \E b \in Bills : CreditWallet(w, b)

Step(w) == PayStep(w) \/ \E m \in Messages : SendStep(w, m)

Begin(w) ==
  \/ BeginProcess(w)
  \/ BeginRetry(w)
  \/ \E b \in Bills : BeginPay(w, b)

Next ==
  \/ \E m \in Messages : Queue(m)
  \/ \E b \in Bills : CreateBill(b)
  \/ \E w \in Workers : Begin(w) \/ Step(w) \/ Crash(w)

Spec == Init /\ [][Next]_vars

\* A worker that is not killed runs on: the database and the provider answer.
FairSpec == Spec /\ \A w \in Workers : WF_vars(Step(w))

----------------------------------------------------------------------------
\* Properties

\* The rows, sums and jobs have their types.
TypeOK ==
  /\ sms \in [Messages -> SmsRow]
  /\ wallet \in Nat
  /\ tx \in Sums
  /\ bill \in [Bills -> BillStatus]
  /\ job \in [Workers -> Job]
  /\ accepted \in [Messages -> Nat]
  /\ earned \in Nat
  /\ pays \in Nat
  /\ crashes \in Nat
  /\ left \in SUBSET Messages

\* The wallet is what its transactions and the paid recharge invoices say, and
\* never below zero although several workers charge it; each invoice is credited
\* once however often it is marked paid, as long as recharges run alone
\* (mark_invoice_paid, credit_wallet, try_debit_for_sms, refund_sms_debit).
Paid == {b \in Bills : bill[b] = "PAID"}
WalletAccounts ==
  /\ wallet >= 0
  /\ wallet + tx.debit = tx.credit + tx.refund
  /\ tx.credit = Amount * Cardinality(Paid)

\* The company has paid for every message of its own that the provider took;
\* and once all is quiet it has paid for nothing else, unless a worker died
\* between the charge and the answer (SMSSendService.send).
PaidForWhatWasSent ==
  /\ tx.debit >= tx.refund + earned
  /\ InFlight = {} /\ crashes = 0 => tx.debit = tx.refund + earned

\* A message shown as SENT was taken by the provider, whichever of several
\* workers wrote the status last (SMSSendService.send).
SentWasAccepted == \A m \in Messages : sms[m].status = "SENT" => accepted[m] > 0

\* A message in SENDING leaves it, unless a worker that had it in hand has died
\* (SMSSendService.send); nothing else would ever take it up again.
SendingEnds ==
  \A m \in Messages :
    sms[m].status = "SENDING" ~> sms[m].status # "SENDING" \/ m \in left

\* No message that is SENT is claimed, charged or sent again
\* (sms_outbox_send_now, sms_outbox_bulk_retry).
SentNotResent ==
  [][\A m \in Messages : sms[m].status = "SENT" => sms'[m].status = "SENT"]_vars

============================================================================
