-------------------------------- MODULE Billing --------------------------------
(***************************************************************************)
(* The money ledger of one learning center: internal/usecase/finance,      *)
(* internal/repo/postgres/finance_repo.go and their queries.  Invoices say *)
(* what a student owes, payments what reception recorded; an invoice keeps *)
(* the running total of its payments in paid_amount.                       *)
(*                                                                         *)
(* Every operation is one READ COMMITTED transaction and none locks what   *)
(* it reads, so a transaction that reads first is two steps: the read, and *)
(* the writes with the commit.  The writes of one transaction are one step *)
(* because the row locks they take are held until the commit.              *)
(***************************************************************************)
EXTENDS Integers, FiniteSets, FiniteSetsExt

CONSTANTS
  Students,     \* ids a student row can have, never reused
  Groups,       \* groups with a course
  Periods,      \* months that are billed
  Copies,       \* bound: invoices ever made for one student, group and month
  Payments,     \* ids a payment row can have, never reused: a bound
  Workers,      \* request handlers running at the same time
  Price,        \* per group: the price of its course
  Amounts,      \* amounts of manual invoices, payments and refunds
  MaxRequests   \* bound: requests in one behaviour

ASSUME BillingAssumption ==
  /\ Price \in [Groups -> Nat]
  /\ Amounts \subseteq Nat \ {0}
  /\ Copies \in Nat
  /\ MaxRequests \in Nat
  /\ IsFiniteSet(Payments) /\ IsFiniteSet(Workers)

VARIABLES
  members,    \* the active students of each group: group_members JOIN students
  enrolled,   \* the students that exist
  invoice,    \* per invoice id: its row
  payment,    \* per payment id: its row
  past,       \* per invoice id: what happened to its total, for the properties
  req,        \* per worker: the request it is serving
  clock       \* requests so far

vars == <<members, enrolled, invoice, payment, past, req, clock>>

-----------------------------------------------------------------------------
(* An invoice id says whom, what and when it bills.                       *)
Slots    == [student : Students, group : Groups, period : Periods]
Invoices == [slot : Slots, copy : 1..Copies]
Charged  == {slot \in Slots : Price[slot.group] > 0}

(* A row that is not there yet, and one that no longer is.                *)
Unborn   == [status |-> "unborn"]
Deleted  == [status |-> "deleted"]

InvoiceRow == [status : {"live"}, origin : {"manual", "monthly"}, amount : Nat \ {0}, paid : Nat]
PaymentRow == [status : {"live"}, invoice : Invoices, amount : Int]

(* pc: "record" has read the invoice and fits, "delete" has read the        *)
(* payment, "generate" has the snapshot of its SELECT.                     *)
RecordReq   == [pc : {"record"}, invoice : Invoices, amount : Int, seen : Nat]
DeleteReq   == [pc : {"delete"}, payment : Payments, invoice : Invoices, amount : Int]
GenerateReq == [pc : {"generate"}, slots : SUBSET Charged]
Idle        == [pc |-> "idle"]

Events == {"refunded", "floored", "reversed_twice"}

Billed(i)     == invoice[i].status = "live"
Recorded(p)   == payment[p].status = "live"
PaymentsOf(i) == {p \in Payments : Recorded(p) /\ payment[p].invoice = i}
SumOf(i)      == MapThenSumSet(LAMBDA p : payment[p].amount, PaymentsOf(i))

Fresh(slot, i) ==
  /\ i.slot = slot /\ invoice[i] = Unborn
  /\ \A j \in Invoices : j.slot = slot /\ j.copy < i.copy => invoice[j] # Unborn

Floor(n) == IF n < 0 THEN 0 ELSE n

-----------------------------------------------------------------------------
TypeOK ==
  /\ members \subseteq Students \X Groups
  /\ enrolled \subseteq Students
  /\ invoice \in [Invoices -> InvoiceRow \cup {Unborn, Deleted}]
  /\ payment \in [Payments -> PaymentRow \cup {Unborn, Deleted}]
  /\ past \in [Invoices -> SUBSET Events]
  /\ req \in [Workers -> RecordReq \cup DeleteReq \cup GenerateReq \cup {Idle}]
  /\ clock \in Nat

Init ==
  /\ members = Students \X Groups
  /\ enrolled = Students
  /\ invoice = [i \in Invoices |-> Unborn]
  /\ payment = [p \in Payments |-> Unborn]
  /\ past = [i \in Invoices |-> {}]
  /\ req = [w \in Workers |-> Idle]
  /\ clock = 0

Tick == clock < MaxRequests /\ clock' = clock + 1

Asks(w) == req[w] = Idle /\ Tick

-----------------------------------------------------------------------------
(* Students come to a group and leave it, or are deleted with all that is  *)
(* theirs.                                                                *)
Join(s, g) ==
  /\ Tick
  /\ s \in enrolled /\ <<s, g>> \notin members
  /\ members' = members \cup {<<s, g>>}
  /\ UNCHANGED <<enrolled, invoice, payment, past, req>>

Leave(s, g) ==
  /\ Tick
  /\ <<s, g>> \in members
  /\ members' = members \ {<<s, g>>}
  /\ UNCHANGED <<enrolled, invoice, payment, past, req>>

(* A deleted invoice takes its payments with it.                          *)
Drop(gone) ==
  /\ invoice' = [i \in Invoices |-> IF i \in gone /\ Billed(i) THEN Deleted ELSE invoice[i]]
  /\ payment' = [p \in Payments |->
                   IF Recorded(p) /\ payment[p].invoice \in gone THEN Deleted ELSE payment[p]]

DeleteStudent(s) ==
  /\ Tick
  /\ s \in enrolled
  /\ enrolled' = enrolled \ {s}
  /\ members' = {m \in members : m[1] # s}
  /\ Drop({i \in Invoices : i.slot.student = s})
  /\ UNCHANGED <<past, req>>

-----------------------------------------------------------------------------
(* Invoices.                                                              *)
CreateInvoice(slot, amount) ==
  /\ Tick
  /\ slot.student \in enrolled
  /\ \E i \in Invoices :
       /\ Fresh(slot, i)
       /\ invoice' = [invoice EXCEPT ![i] = [status |-> "live", origin |-> "manual",
                                             amount |-> amount, paid |-> 0]]
  /\ UNCHANGED <<members, enrolled, payment, past, req>>

DeleteInvoice(i) ==
  /\ Tick
  /\ Billed(i)
  /\ Drop({i})
  /\ UNCHANGED <<members, enrolled, past, req>>

(* Mutant: the INSERT does not skip who is invoiced already.              *)
EveryMember(period) ==
  {slot \in Charged : slot.period = period /\ <<slot.student, slot.group>> \in members}

(* The active members of groups with a price whose month has no invoice.   *)
NotYetInvoiced(period) ==
  {slot \in Charged :
                    /\ slot.period = period
                    /\ <<slot.student, slot.group>> \in members
                    /\ \A i \in Invoices : i.slot = slot => ~Billed(i)}

GenerateMonthly(w, period) ==
  /\ Asks(w)
  /\ req' = [req EXCEPT ![w] = [pc |-> "generate", slots |-> NotYetInvoiced(period)]]
  /\ UNCHANGED <<members, enrolled, invoice, payment, past>>

(* The rows of the INSERT and its commit; a student deleted meanwhile fails *)
(* the statement.                                                         *)
InsertMonthly(w) ==
  /\ req[w].pc = "generate"
  /\ LET slots == req[w].slots
         row(slot) == [status |-> "live", origin |-> "monthly",
                       amount |-> Price[slot.group], paid |-> 0]
     IN  IF \A slot \in slots : slot.student \in enrolled
         THEN /\ \A slot \in slots : \E i \in Invoices : Fresh(slot, i)
              /\ invoice' = [i \in Invoices |->
                               IF i.slot \in slots /\ Fresh(i.slot, i) THEN row(i.slot)
                                                                       ELSE invoice[i]]
         ELSE UNCHANGED invoice
  /\ req' = [req EXCEPT ![w] = Idle]
  /\ UNCHANGED <<members, enrolled, payment, past, clock>>

-----------------------------------------------------------------------------
(***************************************************************************)
(* Payments; a refund is a payment of a negative amount, of any size.      *)
(***************************************************************************)
(* Mutant: the check compares with the amount of the invoice.             *)
FitsAmount(i, amount) == amount > 0 => amount <= invoice[i].amount

Fits(i, amount) == amount > 0 => amount <= invoice[i].amount - invoice[i].paid

(* Reads the invoice; an overpayment and an unknown invoice are refused.   *)
RecordPayment(w, i, amount) ==
  /\ Asks(w)
  /\ Billed(i) /\ Fits(i, amount)
  /\ req' = [req EXCEPT ![w] = [pc |-> "record", invoice |-> i, amount |-> amount,
                                seen |-> invoice[i].paid]]
  /\ UNCHANGED <<members, enrolled, invoice, payment, past>>

RefundPayment(w, i, amount) == RecordPayment(w, i, -amount)

(* AdjustInvoicePaid; an invoice that is gone is not an error.            *)
AdjustInvoicePaid(i, amount, event) ==
  /\ invoice' = IF Billed(i) THEN [invoice EXCEPT ![i].paid = Floor(@ + amount)] ELSE invoice
  /\ past' = IF Billed(i)
             THEN [past EXCEPT ![i] = @ \cup event \cup
                     (IF invoice[i].paid + amount < 0 THEN {"floored"} ELSE {})]
             ELSE past

(* Mutant: the total that was read is written back with the payment added. *)
InsertPaymentOverRead(w) ==
  /\ req[w].pc = "record"
  /\ LET i == req[w].invoice
     IN  IF Billed(i)
         THEN /\ \E p \in Payments :
                   /\ payment[p] = Unborn
                   /\ payment' = [payment EXCEPT ![p] = [status |-> "live", invoice |-> i,
                                                         amount |-> req[w].amount]]
              /\ invoice' = [invoice EXCEPT ![i].paid = Floor(req[w].seen + req[w].amount)]
              /\ UNCHANGED past
         ELSE UNCHANGED <<invoice, payment, past>>
  /\ req' = [req EXCEPT ![w] = Idle]
  /\ UNCHANGED <<members, enrolled, clock>>

(* The payment, the adjustment of its invoice and the commit; without the  *)
(* invoice the insert fails.                                              *)
InsertPayment(w) ==
  /\ req[w].pc = "record"
  /\ LET i == req[w].invoice
     IN  IF Billed(i)
         THEN /\ \E p \in Payments :
                   /\ payment[p] = Unborn
                   /\ payment' = [payment EXCEPT ![p] = [status |-> "live", invoice |-> i,
                                                         amount |-> req[w].amount]]
              /\ AdjustInvoicePaid(i, req[w].amount,
                                   IF req[w].amount < 0 THEN {"refunded"} ELSE {})
         ELSE UNCHANGED <<invoice, payment, past>>
  /\ req' = [req EXCEPT ![w] = Idle]
  /\ UNCHANGED <<members, enrolled, clock>>

DeletePayment(w, p) ==
  /\ Asks(w)
  /\ Recorded(p)
  /\ req' = [req EXCEPT ![w] = [pc |-> "delete", payment |-> p,
                                invoice |-> payment[p].invoice, amount |-> payment[p].amount]]
  /\ UNCHANGED <<members, enrolled, invoice, payment, past>>

(* The DELETE, which may find no row any more, the reversal of what was    *)
(* read and the commit.                                                   *)
ReversePayment(w) ==
  /\ req[w].pc = "delete"
  /\ payment' = [payment EXCEPT ![req[w].payment] = Deleted]
  /\ AdjustInvoicePaid(req[w].invoice, -req[w].amount,
                       IF Recorded(req[w].payment) THEN {} ELSE {"reversed_twice"})
  /\ req' = [req EXCEPT ![w] = Idle]
  /\ UNCHANGED <<members, enrolled, clock>>

(* A crash, a cancelled request, a deadlock victim: rolled back.          *)
Fail(w) ==
  /\ Tick
  /\ req[w] # Idle
  /\ req' = [req EXCEPT ![w] = Idle]
  /\ UNCHANGED <<members, enrolled, invoice, payment, past>>

-----------------------------------------------------------------------------
StaffStep ==
  \/ \E s \in Students, g \in Groups : Join(s, g) \/ Leave(s, g)
  \/ \E s \in Students : DeleteStudent(s)
  \/ \E slot \in Slots, amount \in Amounts : CreateInvoice(slot, amount)
  \/ \E i \in Invoices : DeleteInvoice(i)

WorkerStep(w) ==
  \/ \E period \in Periods : GenerateMonthly(w, period)
  \/ InsertMonthly(w)
  \/ \E i \in Invoices, amount \in Amounts : RecordPayment(w, i, amount) \/ RefundPayment(w, i, amount)
  \/ InsertPayment(w)
  \/ \E p \in Payments : DeletePayment(w, p)
  \/ ReversePayment(w)
  \/ Fail(w)

Next == StaffStep \/ \E w \in Workers : WorkerStep(w)

Spec == Init /\ [][Next]_vars
-----------------------------------------------------------------------------
(* Money and rows agree through any interleaving: paid_amount is the sum   *)
(* of the recorded payments as long as no refund or reversal hit the floor *)
(* of zero and no payment was deleted by two requests at once.  Those two  *)
(* are the only ways to drift; concurrent payments lose nothing.           *)
DriftExplained ==
  \A i \in Invoices :
    Billed(i) /\ past[i] \cap {"floored", "reversed_twice"} = {} => invoice[i].paid = SumOf(i)

(* How far the unlocked overpayment check lets an invoice go when nothing  *)
(* was refunded: each handler can add at most the invoice once more, so    *)
(* with one handler an invoice is never overpaid.                         *)
OverpayBounded ==
  \A i \in Invoices :
    Billed(i) /\ "refunded" \notin past[i]
      => invoice[i].paid <= Cardinality(Workers) * invoice[i].amount

(* Every payment belongs to an invoice that exists, also when the invoice  *)
(* or the student is deleted while the payment is being recorded; income   *)
(* reports count no money of a deleted invoice.                           *)
PaymentsHaveInvoice == \A p \in Payments : Recorded(p) => Billed(payment[p].invoice)

(* "Idempotent - safe to run repeatedly" (GenerateMonthlyInvoices): nobody *)
(* has two monthly invoices of a group and month.  Kept by one handler,    *)
(* not by two.                                                            *)
OneMonthlyInvoice ==
  \A i, j \in Invoices :
    /\ Billed(i) /\ Billed(j) /\ i.slot = j.slot
    /\ invoice[i].origin = "monthly" /\ invoice[j].origin = "monthly"
    => i = j

(* How far overlapping generations go: each handler can bill a student     *)
(* once for a group and month, so with one handler nobody is billed twice. *)
(* A generation that starts after another has committed adds nothing.      *)
DuplicatesBounded ==
  \A slot \in Slots :
    Cardinality({i \in Invoices : /\ i.slot = slot /\ Billed(i)
                                  /\ invoice[i].origin = "monthly"}) <= Cardinality(Workers)

(* "Positive payments may not exceed the remaining balance": a payment     *)
(* leaves its invoice at most paid.  Kept by one handler, not by two.      *)
PaymentFits ==
  [][\A p \in Payments :
       /\ payment[p] = Unborn /\ payment'[p] # Unborn
       /\ payment'[p].amount > 0
       => invoice'[payment'[p].invoice].paid <= invoice'[payment'[p].invoice].amount]_vars

=============================================================================
