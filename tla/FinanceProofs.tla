---------------------------- MODULE FinanceProofs ----------------------------
(***************************************************************************)
(* Billing, for every set of students, groups, months, payments and        *)
(* prices: its types, that a recorded payment always has its invoice, what *)
(* a single handler keeps (one monthly invoice for each member, and no     *)
(* invoice paid beyond its amount by a payment), and what any number of    *)
(* handlers keeps: totals that drift for two reasons only, invoices        *)
(* overpaid and members billed twice only as often as there are handlers.  *)
(* Then Payroll, which shares nothing with it but the ledger of expenses.  *)
(***************************************************************************)
EXTENDS Billing, Payroll, TLAPS, FiniteSetTheorems, WellFoundedInduction

-----------------------------------------------------------------------------
LEMMA FloorType ==
  ASSUME NEW n \in Int
  PROVE  Floor(n) \in Nat
BY DEF Floor

(* What a request is doing tells what it carries.                         *)
LEMMA ReqType ==
  ASSUME TypeOK, NEW w \in Workers
  PROVE  /\ req[w].pc = "record" => req[w] \in RecordReq
         /\ req[w].pc = "delete" => req[w] \in DeleteReq
         /\ req[w].pc = "generate" => req[w] \in GenerateReq
BY DEF TypeOK, RecordReq, DeleteReq, GenerateReq, Idle

LEMMA RowType ==
  ASSUME TypeOK
  PROVE  /\ \A i \in Invoices : Billed(i) => invoice[i] \in InvoiceRow
         /\ \A i \in Invoices : invoice[i] = Unborn => ~Billed(i)
         /\ \A p \in Payments : Recorded(p) => payment[p] \in PaymentRow
         /\ \A p \in Payments : payment[p] = Unborn => ~Recorded(p)
BY DEF TypeOK, Billed, Recorded, InvoiceRow, PaymentRow, Unborn, Deleted

LEMMA DropType ==
  ASSUME TypeOK, NEW taken \in SUBSET Invoices, Drop(taken)
  PROVE  /\ invoice' \in [Invoices -> InvoiceRow \cup {Unborn, Deleted}]
         /\ payment' \in [Payments -> PaymentRow \cup {Unborn, Deleted}]
BY DEF TypeOK, Drop

(* The adjusted row differs from the row in its total only.               *)
LEMMA AdjustEffect ==
  ASSUME TypeOK, NEW i \in Invoices, NEW amount \in Int, NEW event \in SUBSET Events,
         AdjustInvoicePaid(i, amount, event)
  PROVE  /\ invoice' \in [Invoices -> InvoiceRow \cup {Unborn, Deleted}]
         /\ past' \in [Invoices -> SUBSET Events]
         /\ \A j \in Invoices :
              /\ invoice'[j].status = invoice[j].status
              /\ Billed(j) => /\ invoice'[j].origin = invoice[j].origin
                              /\ invoice'[j].amount = invoice[j].amount
              /\ j # i => invoice'[j] = invoice[j]
         /\ Billed(i) => invoice'[i].paid = Floor(invoice[i].paid + amount)
<1>1. past' \in [Invoices -> SUBSET Events]
  <2>1. {"floored"} \in SUBSET Events
    BY DEF Events
  <2> QED
    BY <2>1 DEF AdjustInvoicePaid, TypeOK
<1>2. CASE ~Billed(i)
  BY <1>1, <1>2 DEF AdjustInvoicePaid, TypeOK
<1>3. CASE Billed(i)
  <2> DEFINE row == [invoice[i] EXCEPT !.paid = Floor(@ + amount)]
  <2>1. invoice[i] \in InvoiceRow
    BY <1>3, RowType
  <2>2. Floor(invoice[i].paid + amount) \in Nat
    BY <2>1, FloorType DEF InvoiceRow
  <2>3. /\ row \in InvoiceRow
        /\ row.paid = Floor(invoice[i].paid + amount)
        /\ row.status = invoice[i].status
        /\ row.origin = invoice[i].origin
        /\ row.amount = invoice[i].amount
    BY <2>1, <2>2 DEF InvoiceRow
  <2>4. invoice' = [invoice EXCEPT ![i] = row]
    BY <1>3 DEF AdjustInvoicePaid
  <2> HIDE DEF row
  <2> QED
    BY <1>1, <2>3, <2>4 DEF TypeOK
<1> QED
  BY <1>2, <1>3

-----------------------------------------------------------------------------
(* Type correctness.                                                      *)

LEMMA InitType == Init => TypeOK
BY DEF Init, TypeOK

LEMMA StaffStepType ==
  ASSUME TypeOK, StaffStep
  PROVE  TypeOK'
<1>0. Tick => clock' \in Nat
  BY DEF Tick, TypeOK
<1>1. ASSUME NEW s \in Students, NEW g \in Groups, Join(s, g) \/ Leave(s, g)
      PROVE  TypeOK'
  BY <1>0, <1>1 DEF Join, Leave, TypeOK
<1>2. ASSUME NEW s \in Students, DeleteStudent(s)
      PROVE  TypeOK'
  <2>1. Drop({i \in Invoices : i.slot.student = s})
    BY <1>2 DEF DeleteStudent
  <2>2. /\ invoice' \in [Invoices -> InvoiceRow \cup {Unborn, Deleted}]
        /\ payment' \in [Payments -> PaymentRow \cup {Unborn, Deleted}]
    BY <2>1, DropType
  <2> QED
    BY <1>0, <1>2, <2>2 DEF DeleteStudent, TypeOK
<1>3. ASSUME NEW slot \in Slots, NEW amount \in Amounts, CreateInvoice(slot, amount)
      PROVE  TypeOK'
  <2> DEFINE row == [status |-> "live", origin |-> "manual", amount |-> amount, paid |-> 0]
  <2>1. row \in InvoiceRow
    BY BillingAssumption DEF InvoiceRow
  <2> HIDE DEF row
  <2>2. PICK i \in Invoices : invoice' = [invoice EXCEPT ![i] = row]
    BY <1>3 DEF CreateInvoice, row
  <2>3. invoice' \in [Invoices -> InvoiceRow \cup {Unborn, Deleted}]
    BY <2>1, <2>2 DEF TypeOK
  <2> QED
    BY <1>0, <1>3, <2>3 DEF CreateInvoice, TypeOK
<1>4. ASSUME NEW i \in Invoices, DeleteInvoice(i)
      PROVE  TypeOK'
  <2>1. /\ invoice' \in [Invoices -> InvoiceRow \cup {Unborn, Deleted}]
        /\ payment' \in [Payments -> PaymentRow \cup {Unborn, Deleted}]
    BY <1>4, DropType DEF DeleteInvoice
  <2> QED
    BY <1>0, <1>4, <2>1 DEF DeleteInvoice, TypeOK
<1> QED
  BY <1>1, <1>2, <1>3, <1>4 DEF StaffStep

LEMMA WorkerStepType ==
  ASSUME TypeOK, NEW w \in Workers, WorkerStep(w)
  PROVE  TypeOK'
<1>0. Tick => clock' \in Nat
  BY DEF Tick, TypeOK
<1>1. ASSUME NEW period \in Periods, GenerateMonthly(w, period)
      PROVE  TypeOK'
  <2>1. [pc |-> "generate", slots |-> NotYetInvoiced(period)] \in GenerateReq
    BY DEF GenerateReq, NotYetInvoiced
  <2> QED
    BY <1>0, <1>1, <2>1 DEF GenerateMonthly, Asks, TypeOK
<1>2. CASE InsertMonthly(w)
  <2>1. req[w].slots \subseteq Charged
    BY <1>2, ReqType DEF InsertMonthly, GenerateReq
  <2>2. invoice' \in [Invoices -> InvoiceRow \cup {Unborn, Deleted}]
    <3>1. ASSUME NEW slot \in Charged
          PROVE  [status |-> "live", origin |-> "monthly", amount |-> Price[slot.group], paid |-> 0]
                   \in InvoiceRow
      BY BillingAssumption DEF Charged, Slots, InvoiceRow
    <3>2. CASE invoice' = invoice
      BY <3>2 DEF TypeOK
    <3>3. CASE invoice' # invoice
      BY <1>2, <2>1, <3>1, <3>3 DEF InsertMonthly, TypeOK
    <3> QED
      BY <3>2, <3>3
  <2> QED
    BY <1>2, <2>2 DEF InsertMonthly, TypeOK
<1>3. ASSUME NEW i \in Invoices, NEW amount \in Amounts,
             RecordPayment(w, i, amount) \/ RefundPayment(w, i, amount)
      PROVE  TypeOK'
  <2>1. PICK signed \in Int : RecordPayment(w, i, signed)
    BY <1>3, BillingAssumption DEF RefundPayment
  <2>2. invoice[i].paid \in Nat
    BY <2>1, RowType DEF RecordPayment, InvoiceRow
  <2>3. [pc |-> "record", invoice |-> i, amount |-> signed, seen |-> invoice[i].paid] \in RecordReq
    BY <2>2 DEF RecordReq
  <2> QED
    BY <1>0, <2>1, <2>3 DEF RecordPayment, Asks, TypeOK
<1>4. CASE InsertPayment(w)
  <2>1. req[w].invoice \in Invoices /\ req[w].amount \in Int
    BY <1>4, ReqType DEF InsertPayment, RecordReq
  <2>2. CASE ~Billed(req[w].invoice)
    BY <1>4, <2>2 DEF InsertPayment, TypeOK
  <2>3. CASE Billed(req[w].invoice)
    <3> DEFINE event == IF req[w].amount < 0 THEN {"refunded"} ELSE {}
               row   == [status |-> "live", invoice |-> req[w].invoice, amount |-> req[w].amount]
    <3>1. event \in SUBSET Events
      BY DEF Events
    <3>2. row \in PaymentRow
      BY <2>1 DEF PaymentRow
    <3>3. AdjustInvoicePaid(req[w].invoice, req[w].amount, event)
      BY <1>4, <2>3 DEF InsertPayment
    <3> HIDE DEF event, row
    <3>4. /\ invoice' \in [Invoices -> InvoiceRow \cup {Unborn, Deleted}]
          /\ past' \in [Invoices -> SUBSET Events]
      BY <2>1, <3>1, <3>3, AdjustEffect
    <3>5. payment' \in [Payments -> PaymentRow \cup {Unborn, Deleted}]
      <4>1. PICK p \in Payments : payment' = [payment EXCEPT ![p] = row]
        BY <1>4, <2>3 DEF InsertPayment, row
      <4> QED
        BY <3>2, <4>1 DEF TypeOK
    <3> QED
      BY <1>4, <3>4, <3>5 DEF InsertPayment, TypeOK
  <2> QED
    BY <2>2, <2>3
<1>5. ASSUME NEW p \in Payments, DeletePayment(w, p)
      PROVE  TypeOK'
  <2>1. payment[p] \in PaymentRow
    BY <1>5, RowType DEF DeletePayment
  <2>2. [pc |-> "delete", payment |-> p, invoice |-> payment[p].invoice,
         amount |-> payment[p].amount] \in DeleteReq
    BY <2>1 DEF DeleteReq, PaymentRow
  <2> QED
    BY <1>0, <1>5, <2>2 DEF DeletePayment, Asks, TypeOK
<1>6. CASE ReversePayment(w)
  <2>1. req[w].invoice \in Invoices /\ req[w].payment \in Payments /\ -req[w].amount \in Int
    BY <1>6, ReqType DEF ReversePayment, DeleteReq
  <2> DEFINE event == IF Recorded(req[w].payment) THEN {} ELSE {"reversed_twice"}
  <2>2. event \in SUBSET Events
    BY DEF Events
  <2>3. AdjustInvoicePaid(req[w].invoice, -req[w].amount, event)
    BY <1>6 DEF ReversePayment
  <2> HIDE DEF event
  <2>4. /\ invoice' \in [Invoices -> InvoiceRow \cup {Unborn, Deleted}]
        /\ past' \in [Invoices -> SUBSET Events]
    BY <2>1, <2>2, <2>3, AdjustEffect
  <2> QED
    BY <1>6, <2>1, <2>4 DEF ReversePayment, TypeOK
<1>7. CASE Fail(w)
  BY <1>0, <1>7 DEF Fail, TypeOK
<1> QED
  BY <1>1, <1>2, <1>3, <1>4, <1>5, <1>6, <1>7 DEF WorkerStep

LEMMA NextType ==
  ASSUME TypeOK, [Next]_vars
  PROVE  TypeOK'
<1>1. CASE StaffStep
  BY <1>1, StaffStepType
<1>2. ASSUME NEW w \in Workers, WorkerStep(w)
      PROVE  TypeOK'
  BY <1>2, WorkerStepType
<1>3. CASE UNCHANGED vars
  BY <1>3 DEF vars, TypeOK
<1> QED
  BY <1>1, <1>2, <1>3 DEF Next

(* Billing keeps its types; in particular no total falls below zero.       *)
THEOREM TypeCorrect == Spec => []TypeOK
<1>1. Init => TypeOK
  BY InitType
<1>2. TypeOK /\ [Next]_vars => TypeOK'
  BY NextType
<1> QED
  BY <1>1, <1>2, PTL DEF Spec

-----------------------------------------------------------------------------
(* A payment has its invoice.                                             *)

LEMMA DropKeeps ==
  ASSUME TypeOK, PaymentsHaveInvoice, NEW taken \in SUBSET Invoices, Drop(taken)
  PROVE  PaymentsHaveInvoice'
<1> SUFFICES ASSUME NEW p \in Payments, Recorded(p)'
             PROVE  Billed(payment[p].invoice)'
  BY DEF PaymentsHaveInvoice
<1>1. Recorded(p) /\ payment'[p] = payment[p] /\ payment[p].invoice \notin taken
  BY DEF Drop, Recorded, Deleted, TypeOK
<1>2. payment[p].invoice \in Invoices /\ Billed(payment[p].invoice)
  BY <1>1, RowType DEF PaymentsHaveInvoice, PaymentRow
<1> QED
  BY <1>1, <1>2 DEF Drop, Billed

LEMMA PaymentsStaff ==
  ASSUME TypeOK, PaymentsHaveInvoice, StaffStep
  PROVE  PaymentsHaveInvoice'
<1>1. ASSUME NEW s \in Students, NEW g \in Groups, Join(s, g) \/ Leave(s, g)
      PROVE  PaymentsHaveInvoice'
  BY <1>1 DEF Join, Leave, PaymentsHaveInvoice, Recorded, Billed
<1>2. ASSUME NEW s \in Students, DeleteStudent(s)
      PROVE  PaymentsHaveInvoice'
  <2>1. Drop({i \in Invoices : i.slot.student = s})
    BY <1>2 DEF DeleteStudent
  <2> QED
    BY <2>1, DropKeeps
<1>3. ASSUME NEW slot \in Slots, NEW amount \in Amounts, CreateInvoice(slot, amount)
      PROVE  PaymentsHaveInvoice'
  <2>1. PICK i \in Invoices :
          /\ invoice[i] = Unborn
          /\ invoice' = [invoice EXCEPT ![i] = [status |-> "live", origin |-> "manual",
                                                amount |-> amount, paid |-> 0]]
    BY <1>3 DEF CreateInvoice, Fresh
  <2>2. \A j \in Invoices : Billed(j) => Billed(j)'
    BY <2>1 DEF Billed, TypeOK
  <2>3. payment' = payment
    BY <1>3 DEF CreateInvoice
  <2> QED
    BY <2>2, <2>3, RowType DEF PaymentsHaveInvoice, Recorded, PaymentRow
<1>4. ASSUME NEW i \in Invoices, DeleteInvoice(i)
      PROVE  PaymentsHaveInvoice'
  BY <1>4, DropKeeps DEF DeleteInvoice
<1> QED
  BY <1>1, <1>2, <1>3, <1>4 DEF StaffStep

LEMMA PaymentsWorker ==
  ASSUME TypeOK, PaymentsHaveInvoice, NEW w \in Workers, WorkerStep(w)
  PROVE  PaymentsHaveInvoice'
<1>1. CASE UNCHANGED <<invoice, payment>>
  BY <1>1 DEF PaymentsHaveInvoice, Recorded, Billed
<1>2. CASE InsertMonthly(w)
  <2>1. payment' = payment
    BY <1>2 DEF InsertMonthly
  <2>2. \A i \in Invoices : Billed(i) => Billed(i)'
    BY <1>2, RowType DEF InsertMonthly, Fresh, Billed, TypeOK
  <2> QED
    BY <2>1, <2>2, RowType DEF PaymentsHaveInvoice, Recorded, PaymentRow
<1>3. CASE InsertPayment(w) /\ Billed(req[w].invoice)
  <2>1. req[w].invoice \in Invoices /\ req[w].amount \in Int
    BY <1>3, ReqType DEF InsertPayment, RecordReq
  <2> DEFINE event == IF req[w].amount < 0 THEN {"refunded"} ELSE {}
  <2>2. event \in SUBSET Events
    BY DEF Events
  <2>3. AdjustInvoicePaid(req[w].invoice, req[w].amount, event)
    BY <1>3 DEF InsertPayment
  <2> HIDE DEF event
  <2>4. \A i \in Invoices : Billed(i) => Billed(i)'
    BY <2>1, <2>2, <2>3, AdjustEffect DEF Billed
  <2>5. PICK p \in Payments :
          payment' = [payment EXCEPT ![p] = [status |-> "live", invoice |-> req[w].invoice,
                                             amount |-> req[w].amount]]
    BY <1>3 DEF InsertPayment
  <2>6. ASSUME NEW q \in Payments, Recorded(q)'
        PROVE  payment'[q].invoice \in Invoices /\ Billed(payment'[q].invoice)
    <3>1. CASE q = p
      BY <1>3, <2>1, <2>5, <3>1 DEF TypeOK
    <3>2. CASE q # p
      <4>1. payment'[q] = payment[q]
        BY <2>5, <3>2 DEF TypeOK
      <4> QED
        BY <2>6, <4>1, RowType DEF PaymentsHaveInvoice, Recorded, PaymentRow
    <3> QED
      BY <3>1, <3>2
  <2> QED
    BY <2>4, <2>6 DEF PaymentsHaveInvoice, Billed
<1>4. CASE ReversePayment(w)
  <2>1. req[w].invoice \in Invoices /\ req[w].payment \in Payments /\ -req[w].amount \in Int
    BY <1>4, ReqType DEF ReversePayment, DeleteReq
  <2> DEFINE event == IF Recorded(req[w].payment) THEN {} ELSE {"reversed_twice"}
  <2>2. event \in SUBSET Events
    BY DEF Events
  <2>3. AdjustInvoicePaid(req[w].invoice, -req[w].amount, event)
    BY <1>4 DEF ReversePayment
  <2> HIDE DEF event
  <2>4. \A i \in Invoices : Billed(i) => Billed(i)'
    BY <2>1, <2>2, <2>3, AdjustEffect DEF Billed
  <2>5. ASSUME NEW q \in Payments, Recorded(q)'
        PROVE  payment'[q] = payment[q]
    BY <1>4, <2>1, <2>5 DEF ReversePayment, Recorded, Deleted, TypeOK
  <2>6. ASSUME NEW q \in Payments, Recorded(q)'
        PROVE  Billed(payment[q].invoice)'
    BY <2>4, <2>5, <2>6, RowType DEF PaymentsHaveInvoice, Recorded, Billed, PaymentRow
  <2> QED
    BY <2>6 DEF PaymentsHaveInvoice
<1>5. \/ UNCHANGED <<invoice, payment>>
      \/ InsertMonthly(w)
      \/ InsertPayment(w) /\ Billed(req[w].invoice)
      \/ ReversePayment(w)
  BY DEF WorkerStep, GenerateMonthly, RecordPayment, RefundPayment, InsertPayment, DeletePayment, Fail
<1> QED
  BY <1>1, <1>2, <1>3, <1>4, <1>5

(* No payment outlives its invoice, whatever is deleted while it is being  *)
(* recorded.                                                              *)
THEOREM PaymentsHaveInvoiceHolds == Spec => []PaymentsHaveInvoice
<1> DEFINE IInv == TypeOK /\ PaymentsHaveInvoice
<1>1. Init => IInv
  BY InitType DEF Init, PaymentsHaveInvoice, Recorded, Unborn
<1>2. IInv /\ [Next]_vars => IInv'
  <2> SUFFICES ASSUME IInv, [Next]_vars
               PROVE  IInv'
    OBVIOUS
  <2>1. TypeOK'
    BY NextType
  <2>2. CASE StaffStep
    BY <2>1, <2>2, PaymentsStaff
  <2>3. ASSUME NEW w \in Workers, WorkerStep(w)
        PROVE  IInv'
    BY <2>1, <2>3, PaymentsWorker
  <2>4. CASE UNCHANGED vars
    BY <2>1, <2>4 DEF vars, PaymentsHaveInvoice, Recorded, Billed
  <2> QED
    BY <2>2, <2>3, <2>4 DEF Next
<1>3. IInv => PaymentsHaveInvoice
  OBVIOUS
<1> QED
  BY <1>1, <1>2, <1>3, PTL DEF Spec

-----------------------------------------------------------------------------
(* One handler: what was read still holds when it is used, because the     *)
(* steps of the staff in between bill nobody for a month and pay nothing.  *)

Monthly(i) == Billed(i) /\ invoice[i].origin = "monthly"

(* The slots a generation is about to bill have no monthly invoice.        *)
SnapshotHolds ==
  \A w \in Workers : req[w].pc = "generate" =>
    \A i \in Invoices : i.slot \in req[w].slots => ~Monthly(i)

(* A payment about to be recorded still fits its invoice; what a request    *)
(* has read was there.                                                    *)
ReadHolds ==
  \A w \in Workers :
    /\ req[w].pc = "record" =>
         /\ invoice[req[w].invoice] # Unborn
         /\ Billed(req[w].invoice) => Fits(req[w].invoice, req[w].amount)
    /\ req[w].pc = "delete" => payment[req[w].payment] # Unborn

LEMMA StaffKeepsRows ==
  ASSUME TypeOK, StaffStep
  PROVE  /\ \A i \in Invoices : invoice[i] # Unborn /\ Billed(i)' => invoice'[i] = invoice[i]
         /\ \A i \in Invoices : invoice[i] # Unborn => invoice'[i] # Unborn
         /\ \A i \in Invoices : Monthly(i)' => Monthly(i)
         /\ \A p \in Payments : payment[p] = Unborn <=> payment'[p] = Unborn
         /\ req' = req
<1>1. ASSUME NEW taken \in SUBSET Invoices, Drop(taken)
      PROVE  /\ \A i \in Invoices : Billed(i)' => invoice'[i] = invoice[i]
             /\ \A i \in Invoices : invoice[i] # Unborn => invoice'[i] # Unborn
             /\ \A p \in Payments : payment[p] = Unborn <=> payment'[p] = Unborn
  BY <1>1 DEF Drop, Billed, Recorded, Deleted, Unborn, TypeOK
<1>2. ASSUME NEW s \in Students, NEW g \in Groups, Join(s, g) \/ Leave(s, g)
      PROVE  invoice' = invoice /\ payment' = payment /\ req' = req
  BY <1>2 DEF Join, Leave
<1>3. ASSUME NEW s \in Students, DeleteStudent(s)
      PROVE  Drop({i \in Invoices : i.slot.student = s}) /\ req' = req
  BY <1>3 DEF DeleteStudent
<1>4. ASSUME NEW slot \in Slots, NEW amount \in Amounts, CreateInvoice(slot, amount)
      PROVE  /\ \A i \in Invoices : invoice[i] # Unborn => invoice'[i] = invoice[i]
             /\ \A i \in Invoices : Monthly(i)' => Monthly(i)
             /\ payment' = payment /\ req' = req
  BY <1>4 DEF CreateInvoice, Fresh, Monthly, Billed, TypeOK
<1>5. ASSUME NEW i \in Invoices, DeleteInvoice(i)
      PROVE  Drop({i}) /\ req' = req
  BY <1>5 DEF DeleteInvoice
<1>6. CASE \E taken \in SUBSET Invoices : Drop(taken) /\ req' = req
  BY <1>1, <1>6 DEF Monthly, Billed
<1>7. CASE invoice' = invoice /\ payment' = payment /\ req' = req
  BY <1>7 DEF Monthly, Billed
<1>8. CASE \E slot \in Slots, amount \in Amounts : CreateInvoice(slot, amount)
  BY <1>4, <1>8
<1>9. \/ \E taken \in SUBSET Invoices : Drop(taken) /\ req' = req
      \/ invoice' = invoice /\ payment' = payment /\ req' = req
      \/ \E slot \in Slots, amount \in Amounts : CreateInvoice(slot, amount)
  <2>1. ASSUME NEW s \in Students, DeleteStudent(s)
        PROVE  \E taken \in SUBSET Invoices : Drop(taken) /\ req' = req
    <3>1. {i \in Invoices : i.slot.student = s} \in SUBSET Invoices
      OBVIOUS
    <3> QED
      BY <1>3, <2>1, <3>1
  <2> QED
    BY <1>2, <1>5, <2>1 DEF StaffStep
<1> QED
  BY <1>6, <1>7, <1>8, <1>9

(* The steps of the handler that write, seen from the rows.                *)
LEMMA InsertMonthlyEffect ==
  ASSUME TypeOK, NEW w \in Workers, InsertMonthly(w)
  PROVE  /\ req' = [req EXCEPT ![w] = Idle]
         /\ payment' = payment
         /\ \A i \in Invoices : \/ invoice'[i] = invoice[i]
                                \/ i.slot \in req[w].slots /\ Fresh(i.slot, i)
BY DEF InsertMonthly, TypeOK

LEMMA OtherStepsBillNobody ==
  ASSUME TypeOK, NEW w \in Workers, WorkerStep(w), ~InsertMonthly(w)
  PROVE  \A i \in Invoices : Monthly(i)' => Monthly(i)
<1>1. CASE invoice' = invoice
  BY <1>1 DEF Monthly, Billed
<1>2. CASE InsertPayment(w) /\ Billed(req[w].invoice)
  <2>1. req[w].invoice \in Invoices /\ req[w].amount \in Int
    BY <1>2, ReqType DEF InsertPayment, RecordReq
  <2> DEFINE event == IF req[w].amount < 0 THEN {"refunded"} ELSE {}
  <2>2. event \in SUBSET Events
    BY DEF Events
  <2>3. AdjustInvoicePaid(req[w].invoice, req[w].amount, event)
    BY <1>2 DEF InsertPayment
  <2> HIDE DEF event
  <2> QED
    BY <2>1, <2>2, <2>3, AdjustEffect DEF Monthly, Billed
<1>3. CASE ReversePayment(w)
  <2>1. req[w].invoice \in Invoices /\ -req[w].amount \in Int
    BY <1>3, ReqType DEF ReversePayment, DeleteReq
  <2> DEFINE event == IF Recorded(req[w].payment) THEN {} ELSE {"reversed_twice"}
  <2>2. event \in SUBSET Events
    BY DEF Events
  <2>3. AdjustInvoicePaid(req[w].invoice, -req[w].amount, event)
    BY <1>3 DEF ReversePayment
  <2> HIDE DEF event
  <2> QED
    BY <2>1, <2>2, <2>3, AdjustEffect DEF Monthly, Billed
<1>4. invoice' = invoice \/ (InsertPayment(w) /\ Billed(req[w].invoice)) \/ ReversePayment(w)
  BY DEF WorkerStep, GenerateMonthly, RecordPayment, RefundPayment, InsertPayment, DeletePayment, Fail
<1> QED
  BY <1>1, <1>2, <1>3, <1>4

(* Running the monthly generation over and over by one handler bills each  *)
(* member of a group once a month, whatever the staff does in between.     *)
THEOREM OneHandlerBillsOnce ==
  ASSUME NEW CONSTANT h, Workers = {h}
  PROVE  Spec => []OneMonthlyInvoice
<1> DEFINE IInv == TypeOK /\ SnapshotHolds /\ OneMonthlyInvoice
<1>1. Init => IInv
  BY InitType DEF Init, SnapshotHolds, OneMonthlyInvoice, Idle, Billed, Unborn
<1>2. IInv /\ [Next]_vars => IInv'
  <2> SUFFICES ASSUME IInv, [Next]_vars
               PROVE  IInv'
    OBVIOUS
  <2>1. TypeOK'
    BY NextType
  <2>2. ASSUME \A i \in Invoices : Monthly(i)' => Monthly(i)
        PROVE  OneMonthlyInvoice'
    BY <2>2 DEF OneMonthlyInvoice, Monthly
  <2>3. CASE StaffStep
    <3>1. SnapshotHolds'
      BY <2>3, StaffKeepsRows DEF SnapshotHolds
    <3> QED
      BY <2>1, <2>2, <2>3, <3>1, StaffKeepsRows
  <2>4. CASE InsertMonthly(h)
    <3>1. SnapshotHolds'
      BY <2>4, InsertMonthlyEffect DEF SnapshotHolds, Idle, TypeOK
    <3>2. ASSUME NEW i \in Invoices, NEW j \in Invoices,
                 Monthly(i)', Monthly(j)', i.slot = j.slot
          PROVE  i = j
      <4>1. req[h].pc = "generate"
        BY <2>4 DEF InsertMonthly
      <4>2. CASE invoice'[i] = invoice[i] /\ invoice'[j] = invoice[j]
        BY <3>2, <4>2 DEF OneMonthlyInvoice, Monthly, Billed
      <4>3. CASE invoice'[i] # invoice[i] /\ invoice'[j] # invoice[j]
        <5>1. Fresh(i.slot, i) /\ Fresh(j.slot, j)
          BY <2>4, <4>3, InsertMonthlyEffect
        <5>2. ~(i.copy < j.copy) /\ ~(j.copy < i.copy)
          BY <3>2, <5>1 DEF Fresh
        <5>3. i.copy = j.copy
          BY <5>2, BillingAssumption DEF Invoices
        <5> QED
          BY <3>2, <5>3 DEF Invoices
      <4>4. CASE invoice'[i] = invoice[i] /\ invoice'[j] # invoice[j]
        <5>1. j.slot \in req[h].slots
          BY <2>4, <4>4, InsertMonthlyEffect
        <5>2. Monthly(i)
          BY <3>2, <4>4 DEF Monthly, Billed
        <5> QED
          BY <3>2, <4>1, <5>1, <5>2 DEF SnapshotHolds
      <4>5. CASE invoice'[i] # invoice[i] /\ invoice'[j] = invoice[j]
        <5>1. i.slot \in req[h].slots
          BY <2>4, <4>5, InsertMonthlyEffect
        <5>2. Monthly(j)
          BY <3>2, <4>5 DEF Monthly, Billed
        <5> QED
          BY <3>2, <4>1, <5>1, <5>2 DEF SnapshotHolds
      <4> QED
        BY <4>2, <4>3, <4>4, <4>5
    <3>3. OneMonthlyInvoice'
      BY <3>2 DEF OneMonthlyInvoice, Monthly
    <3> QED
      BY <2>1, <3>1, <3>3
  <2>5. CASE WorkerStep(h) /\ ~InsertMonthly(h)
    <3>1. \A i \in Invoices : Monthly(i)' => Monthly(i)
      BY <2>5, OtherStepsBillNobody
    <3>2. SnapshotHolds'
      <4>1. ASSUME NEW period \in Periods, GenerateMonthly(h, period)
            PROVE  SnapshotHolds'
        BY <3>1, <4>1 DEF GenerateMonthly, NotYetInvoiced, SnapshotHolds, Monthly, TypeOK
      <4>2. CASE \A period \in Periods : ~GenerateMonthly(h, period)
        <5>1. req'[h].pc # "generate"
          BY <2>5, <4>2 DEF WorkerStep, RecordPayment, RefundPayment, InsertPayment,
                            DeletePayment, ReversePayment, Fail, Idle, TypeOK
        <5> QED
          BY <5>1 DEF SnapshotHolds
      <4> QED
        BY <4>1, <4>2
    <3> QED
      BY <2>1, <2>2, <3>1, <3>2
  <2>6. CASE UNCHANGED vars
    BY <2>1, <2>6 DEF vars, SnapshotHolds, OneMonthlyInvoice, Monthly, Billed
  <2> QED
    BY <2>3, <2>4, <2>5, <2>6 DEF Next
<1>3. IInv => OneMonthlyInvoice
  OBVIOUS
<1> QED
  BY <1>1, <1>2, <1>3, PTL DEF Spec

(* One handler never records a payment over what is left to pay, whatever  *)
(* the staff does between its check and its insert.                       *)
THEOREM OneHandlerPaysWhatFits ==
  ASSUME NEW CONSTANT h, Workers = {h}
  PROVE  Spec => PaymentFits
<1> DEFINE IInv == TypeOK /\ ReadHolds
           Step == \A p \in Payments :
                     /\ payment[p] = Unborn /\ payment'[p] # Unborn
                     /\ payment'[p].amount > 0
                     => invoice'[payment'[p].invoice].paid <= invoice'[payment'[p].invoice].amount
<1>1. Init => IInv
  BY InitType DEF Init, ReadHolds, Idle
<1>2. IInv /\ [Next]_vars => IInv'
  <2> SUFFICES ASSUME IInv, [Next]_vars
               PROVE  ReadHolds'
    BY NextType
  <2>1. CASE StaffStep
    <3>1. \A w \in Workers : req[w].pc = "record" => req[w].invoice \in Invoices
      BY ReqType DEF RecordReq
    <3>2. \A w \in Workers : req[w].pc = "delete" => req[w].payment \in Payments
      BY ReqType DEF DeleteReq
    <3>3. \A i \in Invoices : invoice[i] # Unborn /\ Billed(i)' =>
            Billed(i) /\ invoice'[i] = invoice[i]
      BY <2>1, StaffKeepsRows DEF Billed
    <3> QED
      BY <2>1, <3>1, <3>2, <3>3, StaffKeepsRows DEF ReadHolds, Fits
  <2>2. ASSUME NEW i \in Invoices, NEW amount \in Int, RecordPayment(h, i, amount)
        PROVE  ReadHolds'
    <3>1. /\ req'[h] = [pc |-> "record", invoice |-> i, amount |-> amount, seen |-> invoice[i].paid]
          /\ invoice' = invoice
          /\ Billed(i) /\ Fits(i, amount)
      BY <2>2 DEF RecordPayment, TypeOK
    <3> QED
      BY <3>1, RowType DEF ReadHolds, Fits
  <2>3. ASSUME NEW p \in Payments, DeletePayment(h, p)
        PROVE  ReadHolds'
    <3>1. /\ req'[h] = [pc |-> "delete", payment |-> p, invoice |-> payment[p].invoice,
                        amount |-> payment[p].amount]
          /\ payment' = payment
          /\ Recorded(p)
      BY <2>3 DEF DeletePayment, TypeOK
    <3> QED
      BY <3>1, RowType DEF ReadHolds
  <2>4. CASE WorkerStep(h) /\ req'[h].pc \notin {"record", "delete"}
    BY <2>4 DEF ReadHolds
  <2>5. CASE UNCHANGED vars
    BY <2>5 DEF vars, ReadHolds, Fits, Billed
  <2>6. WorkerStep(h) => \/ \E i \in Invoices, amount \in Int : RecordPayment(h, i, amount)
                         \/ \E p \in Payments : DeletePayment(h, p)
                         \/ req'[h].pc \notin {"record", "delete"}
    <3>1. ASSUME NEW i \in Invoices, NEW amount \in Amounts,
                 RecordPayment(h, i, amount) \/ RefundPayment(h, i, amount)
          PROVE  \E signed \in Int : RecordPayment(h, i, signed)
      BY <3>1, BillingAssumption DEF RefundPayment
    <3> QED
      BY <3>1 DEF WorkerStep, GenerateMonthly, InsertMonthly, InsertPayment, ReversePayment,
                  Fail, Idle, TypeOK
  <2> QED
    BY <2>1, <2>2, <2>3, <2>4, <2>5, <2>6 DEF Next
<1>3. IInv /\ [Next]_vars => [Step]_vars
  <2> SUFFICES ASSUME IInv, [Next]_vars, NEW p \in Payments,
                      payment[p] = Unborn, payment'[p] # Unborn, payment'[p].amount > 0
               PROVE  invoice'[payment'[p].invoice].paid <= invoice'[payment'[p].invoice].amount
    OBVIOUS
  <2>1. ~StaffStep
    BY StaffKeepsRows
  <2>2. WorkerStep(h)
    BY <2>1 DEF Next, vars
  <2>3. ~ReversePayment(h)
    <3>1. SUFFICES ASSUME ReversePayment(h) PROVE FALSE
      OBVIOUS
    <3>2. req[h].payment # p
      BY <3>1 DEF ReadHolds, ReversePayment
    <3> QED
      BY <3>1, <3>2 DEF ReversePayment, TypeOK
  <2>4. InsertPayment(h) /\ Billed(req[h].invoice)
    BY <2>2, <2>3 DEF WorkerStep, GenerateMonthly, InsertMonthly, RecordPayment, RefundPayment,
                      InsertPayment, DeletePayment, Fail
  <2> DEFINE i == req[h].invoice
             event == IF req[h].amount < 0 THEN {"refunded"} ELSE {}
  <2>5. i \in Invoices /\ req[h].amount \in Int
    BY <2>4, ReqType DEF InsertPayment, RecordReq
  <2>6. event \in SUBSET Events
    BY DEF Events
  <2>7. AdjustInvoicePaid(i, req[h].amount, event)
    BY <2>4 DEF InsertPayment
  <2>8. payment'[p] = [status |-> "live", invoice |-> i, amount |-> req[h].amount]
    BY <2>4 DEF InsertPayment, TypeOK
  <2>9. Fits(i, req[h].amount)
    BY <2>4 DEF ReadHolds, InsertPayment
  <2> HIDE DEF i, event
  <2>10. /\ invoice'[i].amount = invoice[i].amount
         /\ invoice'[i].paid = Floor(invoice[i].paid + req[h].amount)
    BY <2>4, <2>5, <2>6, <2>7, AdjustEffect DEF i
  <2>11. invoice[i] \in InvoiceRow
    BY <2>4, <2>5, RowType DEF i
  <2>12. req[h].amount > 0
    BY <2>8
  <2> QED
    BY <2>5, <2>8, <2>9, <2>10, <2>11, <2>12 DEF Fits, Floor, InvoiceRow
<1> QED
  BY <1>1, <1>2, <1>3, PTL DEF Spec, PaymentFits

-----------------------------------------------------------------------------
(***************************************************************************)
(* Sums over finite sets of rows.  MapThenSumSet folds a set in the order   *)
(* CHOOSE takes its elements; the sum does not depend on it.               *)
(***************************************************************************)
SumOver(rows, S) == MapThenSumSet(LAMBDA p : rows[p].amount, S)

IsFold(f, rows, S) ==
  f = [s \in SUBSET S |-> IF s = {} THEN 0
                          ELSE rows[CHOOSE x \in s : TRUE].amount + f[s \ {CHOOSE x \in s : TRUE}]]

(* Induction over the subsets of a finite set.                             *)
LEMMA SubsetsUp ==
  ASSUME NEW S, IsFiniteSet(S), NEW K, {} \in K,
         \A T \in SUBSET S : T # {} /\ (\A x \in T : T \ {x} \in K) => T \in K
  PROVE  \A T \in SUBSET S : T \in K
<1> SUFFICES ASSUME NEW T \in SUBSET S, T \notin K PROVE FALSE
  OBVIOUS
<1> DEFINE Bad == {U \in SUBSET S : U \notin K}
           Sizes == {Cardinality(U) : U \in Bad}
<1>1. \A U \in SUBSET S : IsFiniteSet(U) /\ Cardinality(U) \in Nat
  BY FS_Subset, FS_CardinalityType
<1>2. Sizes \subseteq Nat /\ Sizes # {}
  BY <1>1
<1>3. PICK n \in Sizes : \A m \in Sizes : ~ (<<m, n>> \in OpToRel(<, Nat))
  BY <1>2, NatLessThanWellFounded, WFMin
<1>4. \A m \in Sizes : ~ (m < n)
  BY <1>2, <1>3 DEF OpToRel
<1>5. PICK U \in Bad : n = Cardinality(U)
  OBVIOUS
<1>6. PICK x \in U : U \ {x} \notin K
  BY <1>5
<1>7. Cardinality(U \ {x}) = n - 1 /\ U \ {x} \in Bad
  BY <1>1, <1>5, <1>6, FS_RemoveElement
<1>8. n - 1 \in Sizes /\ n \in Nat
  BY <1>2, <1>7
<1> QED  BY <1>4, <1>8

(* The recursion of the fold has a solution on every finite set.           *)
LEMMA FoldExists ==
  ASSUME NEW rows, NEW S, IsFiniteSet(S), \A p \in S : rows[p].amount \in Int
  PROVE  \E f \in [SUBSET S -> Int] : IsFold(f, rows, S)
<1> DEFINE First(U) == CHOOSE x \in U : TRUE
           Below(n) == {U \in SUBSET S : Cardinality(U) <= n}
           Sums(f, n) == \A U \in Below(n) :
                           f[U] = IF U = {} THEN 0 ELSE rows[First(U)].amount + f[U \ {First(U)}]
           K == {T \in SUBSET S : \E f \in [Below(Cardinality(T)) -> Int] : Sums(f, Cardinality(T))}
<1>1. \A U \in SUBSET S : IsFiniteSet(U) /\ Cardinality(U) \in Nat
  BY FS_Subset, FS_CardinalityType
<1>2. \A U \in SUBSET S : /\ Cardinality(U) = 0 <=> U = {}
                          /\ U # {} => /\ First(U) \in U
                                       /\ Cardinality(U \ {First(U)}) = Cardinality(U) - 1
  BY <1>1, FS_EmptySet, FS_RemoveElement
<1> HIDE DEF First
<1>3. {} \in K
  <2> DEFINE f == [U \in Below(0) |-> 0]
  <2>1. ASSUME NEW U \in Below(0) PROVE U = {}
    <3>1. U \in SUBSET S /\ Cardinality(U) <= 0
      OBVIOUS
    <3>2. Cardinality(U) \in Nat
      BY <1>1, <3>1
    <3>3. Cardinality(U) = 0
      BY <3>1, <3>2
    <3> QED  BY <1>2, <3>1, <3>3
  <2>2. f \in [Below(0) -> Int] /\ Sums(f, 0)
    BY <2>1
  <2> HIDE DEF f, Sums, Below
  <2>3. Cardinality({}) = 0
    BY <1>2
  <2> QED  BY <2>2, <2>3
<1>4. ASSUME NEW T \in SUBSET S, T # {}, \A x \in T : T \ {x} \in K
      PROVE  T \in K
  <2> DEFINE n == Cardinality(T)
  <2>1. n \in Nat /\ n # 0 /\ n - 1 \in Nat
    <3>1. n \in Nat
      BY <1>1
    <3>2. n # 0
      BY <1>2, <1>4
    <3> HIDE DEF n
    <3> QED  BY <3>1, <3>2
  <2>2. PICK g \in [Below(n - 1) -> Int] : Sums(g, n - 1)
    <3> HIDE DEF Below, Sums
    <3>1. T \ {First(T)} \in K /\ Cardinality(T \ {First(T)}) = n - 1
      BY <1>2, <1>4
    <3> QED  BY <3>1
  <2> HIDE DEF n
  <2> DEFINE f == [U \in Below(n) |->
                     IF Cardinality(U) <= n - 1 THEN g[U] ELSE rows[First(U)].amount + g[U \ {First(U)}]]
  <2>3. \A U \in Below(n) : U \in SUBSET S /\ (Cardinality(U) <= n - 1 => U \in Below(n - 1))
    OBVIOUS
  <2>4. \A U \in Below(n) : U # {} => /\ U \ {First(U)} \in Below(n - 1)
                                      /\ U \ {First(U)} \in Below(n)
                                      /\ Cardinality(U \ {First(U)}) <= n - 1
                                      /\ First(U) \in S
    BY <1>1, <1>2, <2>1
  <2>5. \A U \in Below(n) : ~ (Cardinality(U) <= n - 1) => U # {}
    <3>1. Cardinality({}) = 0
      BY FS_EmptySet
    <3>2. Cardinality({}) <= n - 1
      BY <2>1, <3>1
    <3> QED  BY <3>2
  <2> HIDE DEF Below
  <2>6. \A U \in Below(n) : U # {} => f[U \ {First(U)}] = g[U \ {First(U)}]
    BY <2>4
  <2>7. f \in [Below(n) -> Int]
    <3>1. ASSUME NEW U \in Below(n) PROVE f[U] \in Int
      <4>1. CASE Cardinality(U) <= n - 1
        BY <2>3, <4>1
      <4>2. CASE ~ (Cardinality(U) <= n - 1)
        <5>1. rows[First(U)].amount \in Int /\ g[U \ {First(U)}] \in Int
          BY <2>4, <2>5, <4>2
        <5> QED  BY <4>2, <5>1
      <4> QED  BY <4>1, <4>2
    <3> QED  BY <3>1
  <2>8. Sums(f, n)
    <3>1. ASSUME NEW U \in Below(n)
          PROVE  f[U] = IF U = {} THEN 0 ELSE rows[First(U)].amount + f[U \ {First(U)}]
      <4>1. CASE Cardinality(U) <= n - 1
        <5>1. f[U] = g[U] /\ U \in Below(n - 1)
          BY <2>3, <4>1
        <5>2. g[U] = IF U = {} THEN 0 ELSE rows[First(U)].amount + g[U \ {First(U)}]
          BY <2>2, <5>1
        <5> HIDE DEF f
        <5> QED  BY <2>6, <5>1, <5>2
      <4>2. CASE ~ (Cardinality(U) <= n - 1)
        <5>1. f[U] = rows[First(U)].amount + g[U \ {First(U)}]
          BY <4>2
        <5> HIDE DEF f
        <5> QED  BY <2>5, <2>6, <4>2, <5>1
      <4> QED  BY <4>1, <4>2
    <3> HIDE DEF f
    <3> QED  BY <3>1
  <2> HIDE DEF f, Sums
  <2> QED  BY <2>7, <2>8 DEF n
<1> HIDE DEF K, Below, Sums
<1>5. S \in K
  <2>1. \A T \in SUBSET S : T # {} /\ (\A x \in T : T \ {x} \in K) => T \in K
    BY <1>4
  <2>2. {} \in K
    BY <1>3
  <2>3. \A T \in SUBSET S : T \in K
    BY <2>1, <2>2, SubsetsUp
  <2> QED  BY <2>3
<1>6. Below(Cardinality(S)) = SUBSET S
  <2>1. \A U \in SUBSET S : Cardinality(U) <= Cardinality(S)
    BY FS_Subset
  <2> QED  BY <2>1 DEF Below
<1>7. PICK f \in [SUBSET S -> Int] : Sums(f, Cardinality(S))
  BY <1>5, <1>6 DEF K
<1>8. IsFold(f, rows, S)
  <2>1. \A U \in SUBSET S : f[U] = IF U = {} THEN 0 ELSE rows[First(U)].amount + f[U \ {First(U)}]
    BY <1>6, <1>7 DEF Sums
  <2>2. f = [U \in SUBSET S |-> f[U]]
    OBVIOUS
  <2> QED  BY <2>1, <2>2 DEF IsFold, First
<1> QED  BY <1>8

LEMMA FoldSame ==
  ASSUME NEW S, IsFiniteSet(S), NEW f, NEW rows, IsFold(f, rows, S),
         NEW g, NEW others, NEW T, IsFold(g, others, T), S \subseteq T,
         \A p \in S : rows[p].amount = others[p].amount
  PROVE  f[S] = g[S]
<1> DEFINE K == {U \in SUBSET S : f[U] = g[U]}
           First(U) == CHOOSE x \in U : TRUE
<1>1. \A U \in SUBSET S :
        /\ f[U] = IF U = {} THEN 0 ELSE rows[First(U)].amount + f[U \ {First(U)}]
        /\ g[U] = IF U = {} THEN 0 ELSE others[First(U)].amount + g[U \ {First(U)}]
        /\ U # {} => First(U) \in U
  BY DEF IsFold
<1> HIDE DEF First
<1>2. {} \in K
  BY <1>1
<1>3. \A U \in SUBSET S : U # {} /\ (\A x \in U : U \ {x} \in K) => U \in K
  <2> SUFFICES ASSUME NEW U \in SUBSET S, U # {}, \A x \in U : U \ {x} \in K PROVE U \in K
    OBVIOUS
  <2>1. First(U) \in U /\ f[U \ {First(U)}] = g[U \ {First(U)}]
    BY <1>1
  <2>2. rows[First(U)].amount = others[First(U)].amount
    BY <2>1
  <2>3. f[U] = g[U]
    BY <1>1, <2>1, <2>2
  <2> QED  BY <2>3
<1> HIDE DEF K
<1>4. \A U \in SUBSET S : U \in K
  BY <1>2, <1>3, SubsetsUp
<1>5. S \in K
  BY <1>4
<1> QED  BY <1>5 DEF K

(* Whichever element goes first.                                           *)
LEMMA FoldAdds ==
  ASSUME NEW S, IsFiniteSet(S), NEW rows, \A p \in S : rows[p].amount \in Int,
         NEW f, \A U \in SUBSET S : f[U] \in Int, IsFold(f, rows, S), NEW x \in S
  PROVE  f[S] = rows[x].amount + f[S \ {x}]
<1> DEFINE K == {U \in SUBSET S : \A y \in U : f[U] = rows[y].amount + f[U \ {y}]}
           First(U) == CHOOSE y \in U : TRUE
<1>1. \A U \in SUBSET S : U # {} => /\ First(U) \in U
                                    /\ f[U] = rows[First(U)].amount + f[U \ {First(U)}]
  BY DEF IsFold
<1> HIDE DEF First
<1>2. {} \in K
  OBVIOUS
<1>3. \A U \in SUBSET S : U # {} /\ (\A y \in U : U \ {y} \in K) => U \in K
  <2> SUFFICES ASSUME NEW U \in SUBSET S, U # {}, \A y \in U : U \ {y} \in K, NEW y \in U
               PROVE  f[U] = rows[y].amount + f[U \ {y}]
    OBVIOUS
  <2> DEFINE z == First(U)
  <2>1. z \in U /\ f[U] = rows[z].amount + f[U \ {z}]
    BY <1>1
  <2> HIDE DEF z
  <2>2. CASE y = z
    BY <2>1, <2>2
  <2>3. CASE y # z
    <3>1. f[U \ {z}] = rows[y].amount + f[(U \ {z}) \ {y}]
      BY <2>1, <2>3
    <3>2. f[U \ {y}] = rows[z].amount + f[(U \ {y}) \ {z}]
      BY <2>1, <2>3
    <3>3. (U \ {y}) \ {z} = (U \ {z}) \ {y}
      OBVIOUS
    <3>4. /\ rows[y].amount \in Int /\ rows[z].amount \in Int
          /\ f[(U \ {z}) \ {y}] \in Int
      BY <2>1
    <3>5. rows[z].amount + (rows[y].amount + f[(U \ {z}) \ {y}])
            = rows[y].amount + (rows[z].amount + f[(U \ {z}) \ {y}])
      BY <3>4
    <3> QED  BY <2>1, <3>1, <3>2, <3>3, <3>5, Zenon
  <2> QED  BY <2>2, <2>3
<1> HIDE DEF K
<1>4. \A U \in SUBSET S : U \in K
  BY <1>2, <1>3, SubsetsUp
<1>5. S \in K
  BY <1>4
<1> QED  BY <1>5 DEF K

LEMMA SumIsFold ==
  ASSUME NEW rows, NEW S, IsFiniteSet(S), \A p \in S : rows[p].amount \in Int
  PROVE  \E f \in [SUBSET S -> Int] : IsFold(f, rows, S) /\ SumOver(rows, S) = f[S]
<1> DEFINE h == CHOOSE f : IsFold(f, rows, S)
<1>1. PICK f \in [SUBSET S -> Int] : IsFold(f, rows, S)
  BY FoldExists
<1>2. IsFold(h, rows, S)
  BY <1>1
<1>3. SumOver(rows, S) = h[S]
  BY DEF SumOver, MapThenSumSet, MapThenFoldSet, IsFold
<1> HIDE DEF h
<1>4. h[S] = f[S]
  BY <1>1, <1>2, FoldSame
<1> QED  BY <1>1, <1>3, <1>4

LEMMA SumSame ==
  ASSUME NEW rows, NEW others, NEW S, IsFiniteSet(S),
         \A p \in S : rows[p].amount \in Int /\ rows[p].amount = others[p].amount
  PROVE  SumOver(rows, S) = SumOver(others, S)
<1>1. PICK f \in [SUBSET S -> Int] : IsFold(f, rows, S) /\ SumOver(rows, S) = f[S]
  BY SumIsFold
<1>2. PICK g \in [SUBSET S -> Int] : IsFold(g, others, S) /\ SumOver(others, S) = g[S]
  <2>1. \A p \in S : others[p].amount \in Int
    OBVIOUS
  <2> QED  BY <2>1, SumIsFold
<1>3. f[S] = g[S]
  BY <1>1, <1>2, FoldSame
<1> QED  BY <1>1, <1>2, <1>3

LEMMA SumAdds ==
  ASSUME NEW rows, NEW S, IsFiniteSet(S), \A p \in S : rows[p].amount \in Int, NEW x \in S
  PROVE  /\ SumOver(rows, S) \in Int /\ SumOver(rows, S \ {x}) \in Int
         /\ SumOver(rows, S) = rows[x].amount + SumOver(rows, S \ {x})
<1>1. PICK f \in [SUBSET S -> Int] : IsFold(f, rows, S) /\ SumOver(rows, S) = f[S]
  BY SumIsFold
<1> DEFINE rest == S \ {x}
<1>2. IsFiniteSet(rest) /\ rest \subseteq S /\ \A p \in rest : rows[p].amount \in Int
  BY FS_RemoveElement
<1>3. PICK g \in [SUBSET rest -> Int] : IsFold(g, rows, rest) /\ SumOver(rows, rest) = g[rest]
  BY <1>2, SumIsFold
<1>4. g[rest] = f[rest]
  BY <1>1, <1>2, <1>3, FoldSame
<1>5. f[S] = rows[x].amount + f[rest]
  <2>1. (\A U \in SUBSET S : f[U] \in Int) /\ IsFold(f, rows, S)
    BY <1>1
  <2>2. f[S] = rows[x].amount + f[S \ {x}]
    BY <2>1, FoldAdds
  <2> QED  BY <2>2
<1> QED  BY <1>1, <1>3, <1>4, <1>5

LEMMA SumEmpty == \A rows : SumOver(rows, {}) = 0
<1> SUFFICES ASSUME NEW rows PROVE SumOver(rows, {}) = 0
  OBVIOUS
<1>1. PICK f \in [SUBSET {} -> Int] : IsFold(f, rows, {}) /\ SumOver(rows, {}) = f[{}]
  BY SumIsFold, FS_EmptySet
<1>2. f[{}] = 0
  BY <1>1 DEF IsFold
<1> QED  BY <1>1, <1>2
-----------------------------------------------------------------------------
(* What every step leaves of the rows: an id once used stays used, and the  *)
(* invoice and amount of a payment never change.                          *)
RowsLast ==
  /\ \A i \in Invoices : invoice[i] # Unborn => invoice'[i] # Unborn
  /\ \A p \in Payments : payment[p] # Unborn => payment'[p] # Unborn
  /\ \A p \in Payments : payment[p] # Unborn /\ Recorded(p)' =>
       Recorded(p) /\ payment'[p] = payment[p]

(* The staff never touches a total, except by deleting its invoice.        *)
LEMMA StaffLeavesTotals ==
  ASSUME TypeOK, StaffStep
  PROVE  /\ RowsLast
         /\ \A i \in Invoices : Billed(i)' => \/ Billed(i) /\ invoice'[i] = invoice[i]
                                              \/ invoice[i] = Unborn /\ invoice'[i].paid = 0
         /\ \A p \in Payments : Recorded(p)' => Recorded(p) /\ payment'[p] = payment[p]
         /\ \A p \in Payments, i \in Invoices :
              Recorded(p) /\ payment[p].invoice = i /\ Billed(i)' => payment'[p] = payment[p]
         /\ past' = past /\ req' = req
<1>1. ASSUME NEW taken \in SUBSET Invoices, Drop(taken)
      PROVE  /\ \A i \in Invoices : Billed(i)' => Billed(i) /\ invoice'[i] = invoice[i]
             /\ \A i \in Invoices : i \in taken => ~Billed(i)'
             /\ \A p \in Payments : Recorded(p)' => Recorded(p) /\ payment'[p] = payment[p]
             /\ \A p \in Payments : Recorded(p) => \/ payment'[p] = payment[p]
                                                   \/ payment[p].invoice \in taken
  BY <1>1 DEF Drop, Billed, Recorded, Deleted, TypeOK
<1>2. ASSUME NEW s \in Students, NEW g \in Groups, Join(s, g) \/ Leave(s, g)
      PROVE  UNCHANGED <<invoice, payment, past>>
  BY <1>2 DEF Join, Leave
<1>3. ASSUME NEW slot \in Slots, NEW amount \in Amounts, CreateInvoice(slot, amount)
      PROVE  /\ \A i \in Invoices : Billed(i)' => \/ Billed(i) /\ invoice'[i] = invoice[i]
                                                  \/ invoice[i] = Unborn /\ invoice'[i].paid = 0
             /\ UNCHANGED <<payment, past>>
  BY <1>3 DEF CreateInvoice, Fresh, Billed, TypeOK
<1>4. ASSUME NEW s \in Students, DeleteStudent(s)
      PROVE  (\E taken \in SUBSET Invoices : Drop(taken)) /\ past' = past
  <2>1. {i \in Invoices : i.slot.student = s} \in SUBSET Invoices
    OBVIOUS
  <2> QED  BY <1>4, <2>1 DEF DeleteStudent
<1>5. ASSUME NEW i \in Invoices, DeleteInvoice(i)
      PROVE  (\E taken \in SUBSET Invoices : Drop(taken)) /\ past' = past
  <2>1. {i} \in SUBSET Invoices
    OBVIOUS
  <2> QED  BY <1>5, <2>1 DEF DeleteInvoice
<1>6. \/ (\E taken \in SUBSET Invoices : Drop(taken)) /\ past' = past
      \/ UNCHANGED <<invoice, payment, past>>
      \/ \E slot \in Slots, amount \in Amounts : CreateInvoice(slot, amount)
  BY <1>2, <1>4, <1>5 DEF StaffStep
<1>7. /\ \A i \in Invoices : Billed(i)' => \/ Billed(i) /\ invoice'[i] = invoice[i]
                                           \/ invoice[i] = Unborn /\ invoice'[i].paid = 0
      /\ \A p \in Payments : Recorded(p)' => Recorded(p) /\ payment'[p] = payment[p]
      /\ past' = past
  <2>1. CASE (\E taken \in SUBSET Invoices : Drop(taken)) /\ past' = past
    BY <1>1, <2>1
  <2>2. CASE UNCHANGED <<invoice, payment, past>>
    BY <2>2 DEF Billed, Recorded
  <2>3. CASE \E slot \in Slots, amount \in Amounts : CreateInvoice(slot, amount)
    BY <1>3, <2>3 DEF Recorded
  <2> QED  BY <1>6, <2>1, <2>2, <2>3
<1>8. ASSUME NEW p \in Payments, NEW i \in Invoices,
             Recorded(p), payment[p].invoice = i, Billed(i)'
      PROVE  payment'[p] = payment[p]
  <2>1. ASSUME NEW taken \in SUBSET Invoices, Drop(taken)
        PROVE  payment'[p] = payment[p]
    BY <1>1, <1>8, <2>1
  <2> QED  BY <1>3, <1>6, <2>1
<1> QED  BY <1>7, <1>8, StaffKeepsRows DEF RowsLast

(* What the adjustment leaves in past.                                    *)
LEMMA AdjustPast ==
  ASSUME TypeOK, NEW i \in Invoices, NEW amount \in Int, NEW event \in SUBSET Events,
         AdjustInvoicePaid(i, amount, event)
  PROVE  /\ \A j \in Invoices : past[j] \subseteq past'[j]
         /\ Billed(i) => /\ event \subseteq past'[i]
                         /\ invoice[i].paid + amount < 0 => "floored" \in past'[i]
BY DEF AdjustInvoicePaid, TypeOK

(* A payment is recorded: one new row and its invoice adjusted.           *)
LEMMA PaymentEffect ==
  ASSUME TypeOK, NEW w \in Workers, InsertPayment(w), NEW i \in Invoices,
         i = req[w].invoice, Billed(i)
  PROVE  /\ req[w] \in RecordReq
         /\ \E p \in Payments :
              /\ payment[p] = Unborn
              /\ payment' = [payment EXCEPT ![p] = [status |-> "live", invoice |-> i,
                                                    amount |-> req[w].amount]]
         /\ \A j \in Invoices :
              /\ invoice'[j].status = invoice[j].status
              /\ j # i => invoice'[j] = invoice[j]
              /\ past[j] \subseteq past'[j]
         /\ invoice'[i].origin = invoice[i].origin
         /\ invoice'[i].amount = invoice[i].amount
         /\ invoice'[i].paid = Floor(invoice[i].paid + req[w].amount)
         /\ invoice[i].paid + req[w].amount < 0 => "floored" \in past'[i]
         /\ req[w].amount < 0 => "refunded" \in past'[i]
<1>1. req[w] \in RecordReq
  BY ReqType DEF InsertPayment
<1> DEFINE event == IF req[w].amount < 0 THEN {"refunded"} ELSE {}
<1>2. event \in SUBSET Events /\ req[w].amount \in Int
  BY <1>1 DEF Events, RecordReq
<1>3. AdjustInvoicePaid(i, req[w].amount, event)
  BY DEF InsertPayment
<1>4. req[w].amount < 0 => event = {"refunded"}
  OBVIOUS
<1> HIDE DEF event
<1>5. \E p \in Payments :
        /\ payment[p] = Unborn
        /\ payment' = [payment EXCEPT ![p] = [status |-> "live", invoice |-> i,
                                              amount |-> req[w].amount]]
  BY DEF InsertPayment
<1> QED  BY <1>1, <1>2, <1>3, <1>4, <1>5, AdjustEffect, AdjustPast

(* A payment is reversed, whether its row was still there or not.          *)
LEMMA ReversalEffect ==
  ASSUME TypeOK, NEW w \in Workers, ReversePayment(w), NEW i \in Invoices, i = req[w].invoice
  PROVE  /\ req[w] \in DeleteReq
         /\ payment' = [payment EXCEPT ![req[w].payment] = Deleted]
         /\ \A j \in Invoices :
              /\ invoice'[j].status = invoice[j].status
              /\ j # i => invoice'[j] = invoice[j]
              /\ past[j] \subseteq past'[j]
         /\ Billed(i) =>
              /\ invoice'[i].origin = invoice[i].origin
              /\ invoice'[i].amount = invoice[i].amount
              /\ invoice'[i].paid = Floor(invoice[i].paid - req[w].amount)
              /\ invoice[i].paid - req[w].amount < 0 => "floored" \in past'[i]
              /\ ~Recorded(req[w].payment) => "reversed_twice" \in past'[i]
<1>1. req[w] \in DeleteReq
  BY ReqType DEF ReversePayment
<1> DEFINE event == IF Recorded(req[w].payment) THEN {} ELSE {"reversed_twice"}
           signed == -req[w].amount
<1>2. event \in SUBSET Events /\ signed \in Int
  BY <1>1 DEF Events, DeleteReq
<1>3. AdjustInvoicePaid(i, signed, event)
  BY DEF ReversePayment
<1>4. ~Recorded(req[w].payment) => event = {"reversed_twice"}
  OBVIOUS
<1>5. Billed(i) => invoice[i].paid + signed = invoice[i].paid - req[w].amount
  BY <1>1, RowType DEF DeleteReq, InvoiceRow
<1> HIDE DEF event, signed
<1>6. payment' = [payment EXCEPT ![req[w].payment] = Deleted]
  BY DEF ReversePayment
<1> QED  BY <1>1, <1>2, <1>3, <1>4, <1>5, <1>6, AdjustEffect, AdjustPast

(* The steps of a handler, by what they write.                            *)
LEMMA WorkerWrites ==
  ASSUME NEW w \in Workers, WorkerStep(w), TypeOK
  PROVE  \/ UNCHANGED <<invoice, payment, past>>
         \/ InsertMonthly(w) /\ payment' = payment /\ past' = past
         \/ \E i \in Invoices : i = req[w].invoice /\ Billed(i) /\ InsertPayment(w)
         \/ \E i \in Invoices : i = req[w].invoice /\ ReversePayment(w)
<1>1. CASE InsertPayment(w)
  <2>1. req[w].invoice \in Invoices
    BY <1>1, ReqType DEF InsertPayment, RecordReq
  <2> QED  BY <1>1, <2>1 DEF InsertPayment
<1>2. CASE ReversePayment(w)
  <2>1. req[w].invoice \in Invoices
    BY <1>2, ReqType DEF ReversePayment, DeleteReq
  <2> QED  BY <1>2, <2>1
<1>3. CASE InsertMonthly(w)
  BY <1>3 DEF InsertMonthly
<1>4. CASE ~InsertPayment(w) /\ ~ReversePayment(w) /\ ~InsertMonthly(w)
  BY <1>4 DEF WorkerStep, GenerateMonthly, RecordPayment, RefundPayment, DeletePayment, Fail
<1> QED  BY <1>1, <1>2, <1>3, <1>4

(* And by what they leave in the requests.                                *)
LEMMA RequestSteps ==
  ASSUME TypeOK, NEW w \in Workers, WorkerStep(w)
  PROVE  /\ \A v \in Workers : v # w => req'[v] = req[v]
         /\ \/ req'[w] = Idle
            \/ \E period \in Periods : GenerateMonthly(w, period)
            \/ \E i \in Invoices, signed \in Int : RecordPayment(w, i, signed)
            \/ \E p \in Payments : DeletePayment(w, p)
<1>1. ASSUME NEW i \in Invoices, NEW amount \in Amounts,
             RecordPayment(w, i, amount) \/ RefundPayment(w, i, amount)
      PROVE  \E signed \in Int : RecordPayment(w, i, signed)
  BY <1>1, BillingAssumption DEF RefundPayment
<1>2. \/ req' = [req EXCEPT ![w] = Idle]
      \/ \E period \in Periods : GenerateMonthly(w, period)
      \/ \E i \in Invoices, signed \in Int : RecordPayment(w, i, signed)
      \/ \E p \in Payments : DeletePayment(w, p)
  BY <1>1 DEF WorkerStep, InsertMonthly, InsertPayment, ReversePayment, Fail
<1>3. \E next : req' = [req EXCEPT ![w] = next]
  BY <1>2 DEF GenerateMonthly, RecordPayment, DeletePayment
<1> QED  BY <1>2, <1>3 DEF TypeOK

LEMMA WorkerRowsLast ==
  ASSUME TypeOK, NEW w \in Workers, WorkerStep(w)
  PROVE  RowsLast
<1>1. CASE UNCHANGED <<invoice, payment, past>>
  BY <1>1, RowType DEF RowsLast, Recorded, Unborn
<1>2. CASE InsertMonthly(w)
  BY <1>2, InsertMonthlyEffect, RowType DEF RowsLast, Fresh, Recorded, Unborn, TypeOK
<1>3. ASSUME NEW i \in Invoices, i = req[w].invoice, Billed(i), InsertPayment(w)
      PROVE  RowsLast
  <2>1. \A j \in Invoices : invoice'[j].status = invoice[j].status
    BY <1>3, PaymentEffect
  <2>2. \A j \in Invoices : invoice[j] # Unborn => invoice'[j] # Unborn
    BY <2>1 DEF TypeOK, InvoiceRow, Unborn, Deleted
  <2>3. PICK p \in Payments :
          /\ payment[p] = Unborn
          /\ payment' = [payment EXCEPT ![p] = [status |-> "live", invoice |-> i,
                                                amount |-> req[w].amount]]
    BY <1>3, PaymentEffect
  <2>4. \A q \in Payments : q # p => payment'[q] = payment[q]
    BY <2>3 DEF TypeOK
  <2> QED  BY <2>2, <2>3, <2>4 DEF RowsLast, Recorded
<1>4. ASSUME NEW i \in Invoices, i = req[w].invoice, ReversePayment(w)
      PROVE  RowsLast
  <2>1. \A j \in Invoices : invoice'[j].status = invoice[j].status
    BY <1>4, ReversalEffect
  <2>2. \A j \in Invoices : invoice[j] # Unborn => invoice'[j] # Unborn
    BY <2>1 DEF TypeOK, InvoiceRow, Unborn, Deleted
  <2>3. payment' = [payment EXCEPT ![req[w].payment] = Deleted]
    BY <1>4, ReversalEffect
  <2>4. \A q \in Payments : payment'[q] = payment[q] \/ payment'[q] = Deleted
    BY <2>3 DEF TypeOK
  <2> QED  BY <2>2, <2>4 DEF RowsLast, Recorded, Deleted, Unborn
<1> QED  BY <1>1, <1>2, <1>3, <1>4, WorkerWrites
-----------------------------------------------------------------------------
(* What a request has read was there; a payment it is about to delete      *)
(* either is taken or is still the payment it has read.                    *)
RequestsHold ==
  \A w \in Workers :
    /\ req[w].pc = "record" => invoice[req[w].invoice] # Unborn
    /\ req[w].pc = "delete" =>
         /\ payment[req[w].payment] # Unborn
         /\ invoice[req[w].invoice] # Unborn
         /\ Recorded(req[w].payment) => /\ payment[req[w].payment].invoice = req[w].invoice
                                        /\ payment[req[w].payment].amount = req[w].amount

LEMMA RequestsInit == Init => RequestsHold
BY DEF Init, RequestsHold, Idle

LEMMA RequestsKept ==
  ASSUME TypeOK, PaymentsHaveInvoice, RequestsHold, [Next]_vars
  PROVE  RequestsHold'
<1>1. ASSUME NEW v \in Workers, req'[v] = req[v], RowsLast
      PROVE  /\ req'[v].pc = "record" => invoice'[req'[v].invoice] # Unborn
             /\ req'[v].pc = "delete" =>
                  /\ payment'[req'[v].payment] # Unborn
                  /\ invoice'[req'[v].invoice] # Unborn
                  /\ payment'[req'[v].payment].status = "live" =>
                       /\ payment'[req'[v].payment].invoice = req'[v].invoice
                       /\ payment'[req'[v].payment].amount = req'[v].amount
  <2>1. req[v].pc = "record" => req[v].invoice \in Invoices
    BY ReqType DEF RecordReq
  <2>2. req[v].pc = "delete" => req[v].invoice \in Invoices /\ req[v].payment \in Payments
    BY ReqType DEF DeleteReq
  <2> QED  BY <1>1, <2>1, <2>2 DEF RequestsHold, RowsLast, Recorded
<1>2. CASE StaffStep
  <2>1. RowsLast /\ req' = req
    BY <1>2, StaffLeavesTotals
  <2> QED  BY <1>1, <2>1 DEF RequestsHold, Recorded
<1>3. ASSUME NEW w \in Workers, WorkerStep(w)
      PROVE  RequestsHold'
  <2>1. RowsLast
    BY <1>3, WorkerRowsLast
  <2>2. \A v \in Workers : v # w => req'[v] = req[v]
    BY <1>3, RequestSteps
  <2>3. ASSUME NEW i \in Invoices, NEW signed \in Int, RecordPayment(w, i, signed)
        PROVE  req'[w].pc = "record" /\ req'[w].invoice = i /\ invoice'[i] # Unborn
    BY <2>3, RowType DEF RecordPayment, TypeOK
  <2>4. ASSUME NEW p \in Payments, DeletePayment(w, p)
        PROVE  /\ req'[w].pc = "delete" /\ req'[w].payment = p
               /\ payment'[p] # Unborn /\ invoice'[req'[w].invoice] # Unborn
               /\ payment'[p].invoice = req'[w].invoice /\ payment'[p].amount = req'[w].amount
    <3>1. /\ req'[w] = [pc |-> "delete", payment |-> p,
                        invoice |-> payment[p].invoice, amount |-> payment[p].amount]
          /\ payment' = payment /\ invoice' = invoice /\ Recorded(p)
      BY <2>4 DEF DeletePayment, TypeOK
    <3>2. payment[p].invoice \in Invoices /\ Billed(payment[p].invoice)
      BY <3>1, RowType DEF PaymentsHaveInvoice, PaymentRow
    <3> QED  BY <3>1, <3>2, RowType
  <2>5. /\ req'[w].pc = "record" => invoice'[req'[w].invoice] # Unborn
        /\ req'[w].pc = "delete" =>
             /\ payment'[req'[w].payment] # Unborn
             /\ invoice'[req'[w].invoice] # Unborn
             /\ payment'[req'[w].payment].status = "live" =>
                  /\ payment'[req'[w].payment].invoice = req'[w].invoice
                  /\ payment'[req'[w].payment].amount = req'[w].amount
    <3>1. ASSUME NEW period \in Periods, GenerateMonthly(w, period)
          PROVE  req'[w].pc = "generate"
      BY <3>1 DEF GenerateMonthly, TypeOK
    <3>2. req'[w] = Idle => req'[w].pc = "idle"
      BY DEF Idle
    <3> QED  BY <1>3, <2>3, <2>4, <3>1, <3>2, RequestSteps
  <2> QED  BY <1>1, <2>1, <2>2, <2>5 DEF RequestsHold, Recorded
<1>4. CASE UNCHANGED vars
  BY <1>4 DEF vars, RequestsHold, Recorded
<1> QED  BY <1>2, <1>3, <1>4 DEF Next

-----------------------------------------------------------------------------
(* The sum of an invoice's payments, step by step.                        *)
LEMMA SumType ==
  ASSUME TypeOK, NEW i \in Invoices
  PROVE  /\ IsFiniteSet(PaymentsOf(i))
         /\ \A p \in PaymentsOf(i) : payment[p].amount \in Int
         /\ SumOf(i) = SumOver(payment, PaymentsOf(i))
         /\ SumOf(i)' = SumOver(payment', PaymentsOf(i)')
<1>1. IsFiniteSet(PaymentsOf(i))
  BY BillingAssumption, FS_Subset DEF PaymentsOf
<1>2. \A p \in PaymentsOf(i) : payment[p].amount \in Int
  BY RowType DEF PaymentsOf, PaymentRow
<1>3. SumOf(i) = SumOver(payment, PaymentsOf(i))
  BY DEF SumOf, SumOver
<1>4. SumOf(i)' = SumOver(payment', PaymentsOf(i)')
  BY DEF SumOf, SumOver, MapThenSumSet, MapThenFoldSet
<1> QED  BY <1>1, <1>2, <1>3, <1>4

LEMMA SumKept ==
  ASSUME TypeOK, NEW i \in Invoices, PaymentsOf(i)' = PaymentsOf(i),
         \A p \in PaymentsOf(i) : payment'[p] = payment[p]
  PROVE  SumOf(i)' = SumOf(i)
<1> DEFINE S == PaymentsOf(i)
<1>1. IsFiniteSet(S) /\ \A p \in S : payment[p].amount \in Int /\ payment[p].amount = payment'[p].amount
  BY SumType
<1>2. SumOf(i) = SumOver(payment, S) /\ SumOf(i)' = SumOver(payment', S)
  BY SumType
<1> HIDE DEF S
<1>3. SumOver(payment, S) = SumOver(payment', S)
  BY <1>1, SumSame
<1> QED  BY <1>2, <1>3

LEMMA SumGrows ==
  ASSUME TypeOK, TypeOK', NEW i \in Invoices, NEW p \in PaymentsOf(i)',
         PaymentsOf(i)' \ {p} = PaymentsOf(i),
         \A q \in PaymentsOf(i) : payment'[q] = payment[q]
  PROVE  SumOf(i)' = SumOf(i) + payment'[p].amount
<1> DEFINE S == PaymentsOf(i)'
           R == PaymentsOf(i)
           now == payment'
           was == payment
<1>1. SumOf(i) = SumOver(was, R) /\ SumOf(i)' = SumOver(now, S)
  BY SumType
<1>2. IsFiniteSet(R) /\ \A q \in R : was[q].amount \in Int /\ was[q].amount = now[q].amount
  BY SumType
<1>3. p \in S /\ S \ {p} = R
  OBVIOUS
<1>4. IsFiniteSet(S)
  <2>1. S \subseteq Payments
    BY DEF PaymentsOf
  <2> QED  BY <2>1, BillingAssumption, FS_Subset
<1>5. \A q \in S : now[q].amount \in Int
  <2>1. payment' \in [Payments -> PaymentRow \cup {Unborn, Deleted}]
    BY DEF TypeOK
  <2>2. \A q \in PaymentsOf(i)' : q \in Payments /\ payment'[q].status = "live"
    BY DEF PaymentsOf, Recorded
  <2> QED  BY <2>1, <2>2 DEF PaymentRow, Unborn, Deleted
<1> HIDE DEF S, R, now, was
<1>6. SumOver(was, R) = SumOver(now, R)
  BY <1>2, SumSame
<1>7. /\ SumOver(now, S) = now[p].amount + SumOver(now, S \ {p})
      /\ SumOver(now, S \ {p}) \in Int
  BY <1>3, <1>4, <1>5, SumAdds
<1>8. now[p].amount \in Int
  BY <1>3, <1>5
<1>9. SumOver(now, S) = SumOver(now, R) + now[p].amount
  <2>1. SumOver(now, S \ {p}) = SumOver(now, R)
    BY <1>3
  <2>2. \A total, amount, rest : amount \in Int /\ rest \in Int /\ total = amount + rest
          => total = rest + amount
    OBVIOUS
  <2> QED  BY <1>7, <1>8, <2>1, <2>2
<1> QED  BY <1>1, <1>6, <1>9 DEF now

LEMMA SumShrinks ==
  ASSUME TypeOK, NEW i \in Invoices, NEW p \in PaymentsOf(i),
         PaymentsOf(i)' = PaymentsOf(i) \ {p},
         \A q \in PaymentsOf(i)' : payment'[q] = payment[q]
  PROVE  SumOf(i)' = SumOf(i) - payment[p].amount
<1> DEFINE S == PaymentsOf(i)
           R == PaymentsOf(i)'
           now == payment'
           was == payment
<1>1. SumOf(i) = SumOver(was, S) /\ SumOf(i)' = SumOver(now, R)
  BY SumType
<1>2. IsFiniteSet(S) /\ \A q \in S : was[q].amount \in Int
  BY SumType
<1>3. p \in S /\ R = S \ {p} /\ \A q \in R : was[q].amount = now[q].amount
  OBVIOUS
<1>4. IsFiniteSet(R)
  BY <1>2, <1>3, FS_Subset
<1> HIDE DEF S, R, now, was
<1>5. \A q \in R : was[q].amount \in Int /\ was[q].amount = now[q].amount
  BY <1>2, <1>3
<1>6. SumOver(was, R) = SumOver(now, R)
  BY <1>4, <1>5, SumSame
<1>7. /\ SumOver(was, S) = was[p].amount + SumOver(was, S \ {p})
      /\ SumOver(was, S \ {p}) \in Int
  BY <1>2, <1>3, SumAdds
<1>8. was[p].amount \in Int
  BY <1>2, <1>3
<1>9. SumOver(was, R) = SumOver(was, S) - was[p].amount
  BY <1>3, <1>7, <1>8
<1> QED  BY <1>1, <1>6, <1>9 DEF was
-----------------------------------------------------------------------------
LEMMA DriftStaff ==
  ASSUME TypeOK, PaymentsHaveInvoice, DriftExplained, StaffStep
  PROVE  DriftExplained'
<1> SUFFICES ASSUME NEW i \in Invoices, Billed(i)',
                    past'[i] \cap {"floored", "reversed_twice"} = {}
             PROVE  invoice'[i].paid = SumOf(i)'
  BY DEF DriftExplained
<1>1. past'[i] = past[i]
  BY StaffLeavesTotals
<1>2. CASE Billed(i) /\ invoice'[i] = invoice[i]
  <2>1. \A p \in Payments : /\ Recorded(p)' => Recorded(p) /\ payment'[p] = payment[p]
                            /\ Recorded(p) /\ payment[p].invoice = i => payment'[p] = payment[p]
    BY StaffLeavesTotals
  <2>2. PaymentsOf(i)' = PaymentsOf(i)
    BY <2>1 DEF PaymentsOf, Recorded
  <2>3. SumOf(i)' = SumOf(i)
    BY <2>1, <2>2, SumKept DEF PaymentsOf
  <2>4. invoice[i].paid = SumOf(i)
    BY <1>1, <1>2 DEF DriftExplained
  <2> QED  BY <1>2, <2>3, <2>4
<1>3. CASE invoice[i] = Unborn /\ invoice'[i].paid = 0
  <2>1. ~Billed(i)
    BY <1>3, RowType
  <2>2. PaymentsOf(i)' = {}
    <3>1. \A p \in Payments : Recorded(p)' => Recorded(p) /\ payment'[p] = payment[p]
      BY StaffLeavesTotals
    <3>2. \A p \in Payments : Recorded(p) => payment[p].invoice # i
      BY <2>1 DEF PaymentsHaveInvoice
    <3> QED  BY <3>1, <3>2 DEF PaymentsOf
  <2>3. SumOf(i)' = 0
    <3>1. SumOf(i)' = SumOver(payment', PaymentsOf(i)')
      BY SumType
    <3> QED  BY <2>2, <3>1, SumEmpty
  <2> QED  BY <1>3, <2>3
<1> QED  BY <1>2, <1>3, StaffLeavesTotals

LEMMA DriftWorker ==
  ASSUME TypeOK, TypeOK', PaymentsHaveInvoice, RequestsHold, DriftExplained,
         NEW w \in Workers, WorkerStep(w)
  PROVE  DriftExplained'
<1> SUFFICES ASSUME NEW i \in Invoices, Billed(i)',
                    past'[i] \cap {"floored", "reversed_twice"} = {}
             PROVE  invoice'[i].paid = SumOf(i)'
  BY DEF DriftExplained
<1>1. ASSUME Billed(i), invoice'[i].paid = invoice[i].paid, past[i] \subseteq past'[i],
             PaymentsOf(i)' = PaymentsOf(i), \A p \in PaymentsOf(i) : payment'[p] = payment[p]
      PROVE  invoice'[i].paid = SumOf(i)'
  <2>1. SumOf(i)' = SumOf(i)
    BY <1>1, SumKept
  <2>2. invoice[i].paid = SumOf(i)
    BY <1>1 DEF DriftExplained
  <2> QED  BY <1>1, <2>1, <2>2
<1>2. CASE UNCHANGED <<invoice, payment, past>>
  BY <1>1, <1>2 DEF Billed, PaymentsOf, Recorded
<1>3. CASE InsertMonthly(w) /\ payment' = payment /\ past' = past
  <2>1. PaymentsOf(i)' = PaymentsOf(i)
    BY <1>3 DEF PaymentsOf, Recorded
  <2>2. CASE invoice'[i] = invoice[i]
    BY <1>1, <1>3, <2>1, <2>2 DEF Billed
  <2>3. CASE invoice'[i] # invoice[i]
    <3>1. invoice[i] = Unborn
      BY <1>3, <2>3, InsertMonthlyEffect DEF Fresh
    <3>2. invoice'[i].paid = 0
      BY <1>3, <2>3 DEF InsertMonthly, TypeOK
    <3>3. PaymentsOf(i) = {}
      BY <3>1, RowType DEF PaymentsHaveInvoice, PaymentsOf
    <3>4. SumOf(i)' = SumOver(payment', {})
      BY <2>1, <3>3, SumType
    <3> QED  BY <3>2, <3>4, SumEmpty
  <2> QED  BY <2>2, <2>3
<1>4. ASSUME NEW j \in Invoices, j = req[w].invoice, Billed(j), InsertPayment(w)
      PROVE  invoice'[i].paid = SumOf(i)'
  <2>1. PICK p \in Payments :
          /\ payment[p] = Unborn
          /\ payment' = [payment EXCEPT ![p] = [status |-> "live", invoice |-> j,
                                                amount |-> req[w].amount]]
    BY <1>4, PaymentEffect
  <2>2. /\ \A q \in Payments : q # p => payment'[q] = payment[q]
        /\ payment'[p] = [status |-> "live", invoice |-> j, amount |-> req[w].amount]
    BY <2>1 DEF TypeOK
  <2>3. p \notin PaymentsOf(i)
    BY <2>1, RowType DEF PaymentsOf
  <2>4. past[i] \subseteq past'[i] /\ invoice'[i].status = invoice[i].status
    BY <1>4, PaymentEffect
  <2>5. Billed(i)
    BY <2>4 DEF Billed
  <2>6. CASE i # j
    <3>1. PaymentsOf(i)' = PaymentsOf(i) /\ \A q \in PaymentsOf(i) : payment'[q] = payment[q]
      BY <2>2, <2>3, <2>6 DEF PaymentsOf, Recorded
    <3>2. invoice'[i] = invoice[i]
      BY <1>4, <2>6, PaymentEffect
    <3> QED  BY <1>1, <2>4, <2>5, <3>1, <3>2
  <2>7. CASE i = j
    <3>1. /\ p \in PaymentsOf(i)' /\ PaymentsOf(i)' \ {p} = PaymentsOf(i)
          /\ \A q \in PaymentsOf(i) : payment'[q] = payment[q]
      BY <2>2, <2>3, <2>7 DEF PaymentsOf, Recorded
    <3>2. SumOf(i)' = SumOf(i) + payment'[p].amount
      BY <3>1, SumGrows
    <3>3. invoice[i].paid = SumOf(i)
      BY <2>4, <2>5 DEF DriftExplained
    <3>4. /\ invoice'[i].paid = Floor(invoice[i].paid + req[w].amount)
          /\ invoice[i].paid + req[w].amount < 0 => "floored" \in past'[i]
          /\ req[w].amount \in Int /\ invoice[i].paid \in Int
      BY <1>4, <2>5, <2>7, PaymentEffect, RowType DEF RecordReq, InvoiceRow
    <3>5. ~(invoice[i].paid + req[w].amount < 0)
      BY <3>4
    <3>6. invoice'[i].paid = invoice[i].paid + req[w].amount
      BY <3>4, <3>5 DEF Floor
    <3> QED  BY <2>2, <3>2, <3>3, <3>6
  <2> QED  BY <2>6, <2>7
<1>5. ASSUME NEW j \in Invoices, j = req[w].invoice, ReversePayment(w)
      PROVE  invoice'[i].paid = SumOf(i)'
  <2> DEFINE p == req[w].payment
  <2>1. /\ p \in Payments /\ req[w].amount \in Int
        /\ Recorded(p) => payment[p].invoice = j /\ payment[p].amount = req[w].amount
    BY <1>5, ReqType DEF ReversePayment, DeleteReq, RequestsHold
  <2>2. payment' = [payment EXCEPT ![p] = Deleted]
    BY <1>5, ReversalEffect
  <2>3. past[i] \subseteq past'[i] /\ invoice'[i].status = invoice[i].status
    BY <1>5, ReversalEffect
  <2>4. Billed(i)
    BY <2>3 DEF Billed
  <2>5. i = j =>
          /\ invoice'[i].paid = Floor(invoice[i].paid - req[w].amount)
          /\ invoice[i].paid - req[w].amount < 0 => "floored" \in past'[i]
          /\ ~Recorded(p) => "reversed_twice" \in past'[i]
    BY <1>5, <2>4, ReversalEffect
  <2> HIDE DEF p
  <2>6. /\ \A q \in Payments : q # p => payment'[q] = payment[q]
        /\ payment'[p] = Deleted
    BY <2>1, <2>2 DEF TypeOK
  <2>7. PaymentsOf(i)' = PaymentsOf(i) \ {p}
    BY <2>6 DEF PaymentsOf, Recorded, Deleted
  <2>8. CASE i # j
    <3>1. p \notin PaymentsOf(i)
      BY <2>1, <2>8 DEF PaymentsOf
    <3>2. PaymentsOf(i)' = PaymentsOf(i) /\ \A q \in PaymentsOf(i) : payment'[q] = payment[q]
      BY <2>6, <2>7, <3>1 DEF PaymentsOf
    <3>3. invoice'[i] = invoice[i]
      BY <1>5, <2>8, ReversalEffect
    <3> QED  BY <1>1, <2>3, <2>4, <3>2, <3>3
  <2>9. CASE i = j
    <3>1. Recorded(p)
      BY <2>5, <2>9
    <3>2. p \in PaymentsOf(i) /\ \A q \in PaymentsOf(i)' : payment'[q] = payment[q]
      BY <2>1, <2>6, <2>7, <2>9, <3>1 DEF PaymentsOf
    <3>3. SumOf(i)' = SumOf(i) - payment[p].amount
      BY <2>7, <3>2, SumShrinks
    <3>4. invoice[i].paid = SumOf(i)
      BY <2>3, <2>4 DEF DriftExplained
    <3>5. invoice[i].paid \in Int
      BY <2>4, RowType DEF InvoiceRow
    <3>6. ~(invoice[i].paid - req[w].amount < 0)
      BY <2>5, <2>9
    <3>7. invoice'[i].paid = invoice[i].paid - req[w].amount
      BY <2>1, <2>5, <2>9, <3>5, <3>6 DEF Floor
    <3> QED  BY <2>1, <3>1, <3>3, <3>4, <3>7
  <2> QED  BY <2>8, <2>9
<1> QED  BY <1>2, <1>3, <1>4, <1>5, WorkerWrites

(* However payments, refunds and reversals interleave, the total of an     *)
(* invoice is the sum of its payments until one of the two known causes of *)
(* drift has struck it: AdjustInvoicePaid adds where the row is, and what  *)
(* a reversal subtracts is the amount of the row it deletes.              *)
THEOREM DriftExplainedHolds == Spec => []DriftExplained
<1> DEFINE IInv == TypeOK /\ PaymentsHaveInvoice /\ RequestsHold /\ DriftExplained
<1>1. Init => IInv
  BY InitType, RequestsInit
     DEF Init, PaymentsHaveInvoice, DriftExplained, Recorded, Billed, Unborn
<1>2. IInv /\ [Next]_vars => IInv'
  <2> SUFFICES ASSUME IInv, [Next]_vars
               PROVE  IInv'
    OBVIOUS
  <2>1. TypeOK' /\ RequestsHold'
    BY NextType, RequestsKept
  <2>2. CASE StaffStep
    BY <2>1, <2>2, PaymentsStaff, DriftStaff
  <2>3. ASSUME NEW w \in Workers, WorkerStep(w)
        PROVE  IInv'
    BY <2>1, <2>3, PaymentsWorker, DriftWorker
  <2>4. CASE UNCHANGED vars
    <3>1. PaymentsHaveInvoice'
      BY <2>4 DEF vars, PaymentsHaveInvoice, Recorded, Billed
    <3>2. DriftExplained'
      <4> SUFFICES ASSUME NEW i \in Invoices, Billed(i)',
                          past'[i] \cap {"floored", "reversed_twice"} = {}
                   PROVE  invoice'[i].paid = SumOf(i)'
        BY DEF DriftExplained
      <4>1. PaymentsOf(i)' = PaymentsOf(i) /\ payment' = payment
        BY <2>4 DEF vars, PaymentsOf, Recorded
      <4>2. SumOf(i)' = SumOf(i)
        BY <4>1, SumKept
      <4>3. Billed(i) /\ past'[i] = past[i] /\ invoice'[i] = invoice[i]
        BY <2>4 DEF vars, Billed
      <4> QED  BY <4>2, <4>3 DEF DriftExplained
    <3> QED  BY <2>1, <3>1, <3>2
  <2> QED  BY <2>2, <2>3, <2>4 DEF Next
<1>3. IInv => DriftExplained
  OBVIOUS
<1> QED  BY <1>1, <1>2, <1>3, PTL DEF Spec
-----------------------------------------------------------------------------
(* A refund shows in past, also to the request that reverses it.           *)
RefundsShow ==
  /\ \A p \in Payments :
       Recorded(p) /\ payment[p].amount < 0 => "refunded" \in past[payment[p].invoice]
  /\ \A w \in Workers :
       req[w].pc = "delete" /\ req[w].amount < 0 => "refunded" \in past[req[w].invoice]

LEMMA PastGrows ==
  ASSUME TypeOK, [Next]_vars
  PROVE  \A i \in Invoices : past[i] \subseteq past'[i]
<1>1. CASE StaffStep
  BY <1>1, StaffLeavesTotals
<1>2. ASSUME NEW w \in Workers, WorkerStep(w)
      PROVE  \A i \in Invoices : past[i] \subseteq past'[i]
  <2>1. CASE UNCHANGED past
    BY <2>1
  <2>2. ASSUME NEW i \in Invoices, i = req[w].invoice, Billed(i), InsertPayment(w)
        PROVE  \A j \in Invoices : past[j] \subseteq past'[j]
    BY <2>2, PaymentEffect
  <2>3. ASSUME NEW i \in Invoices, i = req[w].invoice, ReversePayment(w)
        PROVE  \A j \in Invoices : past[j] \subseteq past'[j]
    BY <2>3, ReversalEffect
  <2> QED  BY <1>2, <2>1, <2>2, <2>3, WorkerWrites
<1>3. CASE UNCHANGED vars
  BY <1>3 DEF vars
<1> QED  BY <1>1, <1>2, <1>3 DEF Next

LEMMA RefundsKept ==
  ASSUME TypeOK, RefundsShow, [Next]_vars
  PROVE  RefundsShow'
<1>1. \A i \in Invoices : past[i] \subseteq past'[i]
  BY PastGrows
<1>2. ASSUME NEW p \in Payments, Recorded(p)', payment'[p].amount < 0,
             Recorded(p) /\ payment'[p] = payment[p]
      PROVE  "refunded" \in past'[payment'[p].invoice]
  <2>1. payment[p].invoice \in Invoices
    BY <1>2, RowType DEF PaymentRow
  <2> QED  BY <1>1, <1>2, <2>1 DEF RefundsShow
<1>3. ASSUME NEW v \in Workers, req'[v] = req[v], req'[v].pc = "delete", req'[v].amount < 0
      PROVE  "refunded" \in past'[req'[v].invoice]
  <2>1. req[v].invoice \in Invoices
    BY <1>3, ReqType DEF DeleteReq
  <2> QED  BY <1>1, <1>3, <2>1 DEF RefundsShow
<1>4. CASE StaffStep
  BY <1>2, <1>3, <1>4, StaffLeavesTotals DEF RefundsShow
<1>5. ASSUME NEW w \in Workers, WorkerStep(w)
      PROVE  RefundsShow'
  <2>1. \A v \in Workers : v # w => req'[v] = req[v]
    BY <1>5, RequestSteps
  <2>2. ASSUME req'[w].pc = "delete", req'[w].amount < 0
        PROVE  "refunded" \in past'[req'[w].invoice]
    <3>1. PICK p \in Payments : DeletePayment(w, p)
      <4>1. ASSUME NEW i \in Invoices, NEW signed \in Int, RecordPayment(w, i, signed)
            PROVE  FALSE
        BY <2>2, <4>1 DEF RecordPayment, TypeOK
      <4>2. ASSUME NEW period \in Periods, GenerateMonthly(w, period)
            PROVE  FALSE
        BY <2>2, <4>2 DEF GenerateMonthly, TypeOK
      <4>3. req'[w] # Idle
        BY <2>2 DEF Idle
      <4> QED  BY <1>5, <4>1, <4>2, <4>3, RequestSteps
    <3>2. /\ req'[w] = [pc |-> "delete", payment |-> p,
                        invoice |-> payment[p].invoice, amount |-> payment[p].amount]
          /\ past' = past /\ Recorded(p)
      BY <3>1 DEF DeletePayment, TypeOK
    <3> QED  BY <2>2, <3>2 DEF RefundsShow
  <2>3. ASSUME NEW p \in Payments, Recorded(p)', payment'[p].amount < 0
        PROVE  "refunded" \in past'[payment'[p].invoice]
    <3>1. CASE payment' = payment
      BY <1>2, <2>3, <3>1 DEF Recorded
    <3>2. ASSUME NEW i \in Invoices, i = req[w].invoice, Billed(i), InsertPayment(w)
          PROVE  "refunded" \in past'[payment'[p].invoice]
      <4>1. PICK q \in Payments :
              /\ payment[q] = Unborn
              /\ payment' = [payment EXCEPT ![q] = [status |-> "live", invoice |-> i,
                                                    amount |-> req[w].amount]]
        BY <3>2, PaymentEffect
      <4>2. CASE p = q
        <5>1. payment'[p] = [status |-> "live", invoice |-> i, amount |-> req[w].amount]
          BY <4>1, <4>2 DEF TypeOK
        <5> QED  BY <2>3, <3>2, <5>1, PaymentEffect
      <4>3. CASE p # q
        <5>1. payment'[p] = payment[p]
          BY <4>1, <4>3 DEF TypeOK
        <5> QED  BY <1>2, <2>3, <5>1 DEF Recorded
      <4> QED  BY <4>2, <4>3
    <3>3. ASSUME NEW i \in Invoices, i = req[w].invoice, ReversePayment(w)
          PROVE  "refunded" \in past'[payment'[p].invoice]
      <4>1. payment' = [payment EXCEPT ![req[w].payment] = Deleted]
        BY <3>3, ReversalEffect
      <4>2. payment'[p] = payment[p]
        BY <2>3, <4>1 DEF TypeOK, Recorded, Deleted
      <4> QED  BY <1>2, <2>3, <4>2 DEF Recorded
    <3> QED  BY <1>5, <3>1, <3>2, <3>3, WorkerWrites
  <2> QED  BY <1>3, <2>1, <2>2, <2>3 DEF RefundsShow, Recorded
<1>6. CASE UNCHANGED vars
  BY <1>6 DEF vars, RefundsShow, Recorded
<1> QED  BY <1>4, <1>5, <1>6 DEF Next

-----------------------------------------------------------------------------
(* The requests about to pay an invoice, and the room the total still has: *)
(* one amount of the invoice for each handler that is not about to pay it. *)
Paying(i) == {w \in Workers : req[w].pc = "record" /\ req[w].invoice = i /\ req[w].amount > 0}

RoomLeft(i) ==
  LET A == invoice[i].amount
      n == Cardinality(Workers) - Cardinality(Paying(i))
  IN  /\ \A w \in Paying(i) : req[w].amount <= A
      /\ Paying(i) = {} => invoice[i].paid <= Cardinality(Workers) * A
      /\ Paying(i) # {} => \E w \in Paying(i) : invoice[i].paid + req[w].amount <= (n + 1) * A

TotalsBounded ==
  \A i \in Invoices : Billed(i) /\ "refunded" \notin past[i] => RoomLeft(i)

LEMMA Times ==
  ASSUME NEW A \in Nat, NEW m \in Nat, NEW n \in Nat, m <= n
  PROVE  m * A \in Nat /\ m * A <= n * A /\ (m + 1) * A = m * A + A
OBVIOUS

LEMMA PayingSize ==
  ASSUME NEW Q \in SUBSET Workers
  PROVE  /\ IsFiniteSet(Q) /\ Cardinality(Workers) \in Nat /\ Cardinality(Q) \in Nat
         /\ Cardinality(Q) <= Cardinality(Workers)
         /\ Cardinality(Q) = 0 <=> Q = {}
         /\ \A w \in Q : Cardinality(Q \ {w}) = Cardinality(Q) - 1
         /\ \A w \in Workers \ Q : Cardinality(Q \cup {w}) = Cardinality(Q) + 1
<1>1. IsFiniteSet(Workers) /\ IsFiniteSet(Q) /\ Cardinality(Q) <= Cardinality(Workers)
  BY BillingAssumption, FS_Subset
<1>2. /\ \A w \in Q : Cardinality(Q \ {w}) = Cardinality(Q) - 1
      /\ \A w \in Workers \ Q : Cardinality(Q \cup {w}) = Cardinality(Q) + 1
  BY <1>1, FS_RemoveElement, FS_AddElement
<1> QED  BY <1>1, <1>2, FS_CardinalityType, FS_EmptySet

(* What room is there bounds the total.                                   *)
LEMMA RoomBounds ==
  ASSUME TypeOK, NEW i \in Invoices, Billed(i), RoomLeft(i)
  PROVE  invoice[i].paid <= Cardinality(Workers) * invoice[i].amount
<1> DEFINE W == Cardinality(Workers)
           A == invoice[i].amount
           q == Cardinality(Paying(i))
<1>1. Paying(i) \in SUBSET Workers
  BY DEF Paying
<1>2. W \in Nat /\ q \in Nat /\ q <= W /\ (q = 0 <=> Paying(i) = {})
  BY <1>1, PayingSize
<1>3. A \in Nat /\ invoice[i].paid \in Nat
  BY RowType DEF InvoiceRow
<1>4. CASE Paying(i) = {}
  BY <1>4 DEF RoomLeft
<1>5. CASE Paying(i) # {}
  <2>1. PICK w \in Paying(i) : invoice[i].paid + req[w].amount <= ((W - q) + 1) * A
    BY <1>5 DEF RoomLeft
  <2>2. req[w].amount \in Int /\ req[w].amount > 0
    BY <2>1, ReqType DEF Paying, RecordReq
  <2>3. (W - q) + 1 \in Nat /\ (W - q) + 1 <= W
    <3> HIDE DEF W, q
    <3> QED  BY <1>2, <1>5
  <2>4. ((W - q) + 1) * A <= W * A /\ ((W - q) + 1) * A \in Nat /\ W * A \in Nat
    <3> HIDE DEF W, q, A
    <3> QED  BY <1>2, <1>3, <2>3, Times
  <2> HIDE DEF W, q, A
  <2> QED  BY <1>3, <2>1, <2>2, <2>4 DEF W, q, A
<1> QED  BY <1>4, <1>5
(* A handler that pays uses up the room that it left when it read.         *)
LEMMA RoomShifts ==
  ASSUME TypeOK, TypeOK', NEW i \in Invoices, NEW w \in Workers,
         Billed(i), Billed(i)', RoomLeft(i), invoice'[i].amount = invoice[i].amount,
         \A v \in Workers : v # w => req'[v] = req[v],
         \/ /\ w \notin Paying(i) /\ w \notin Paying(i)'
            /\ invoice'[i].paid <= invoice[i].paid
         \/ /\ w \notin Paying(i) /\ w \in Paying(i)'
            /\ invoice'[i].paid + req'[w].amount <= invoice[i].amount
         \/ /\ w \in Paying(i) /\ w \notin Paying(i)'
            /\ invoice'[i].paid <= invoice[i].paid + req[w].amount
  PROVE  RoomLeft(i)'
<1> DEFINE W == Cardinality(Workers)
           A == invoice[i].amount
           P == Paying(i)
           R == Paying(i)'
           p == Cardinality(P)
           r == Cardinality(R)
           paid == invoice[i].paid
           now == invoice'[i].paid
           amt(v) == req[v].amount
           ask(v) == req'[v].amount
<1>1. A \in Nat \ {0} /\ paid \in Nat /\ now \in Nat
  <2>1. invoice[i] \in InvoiceRow
    BY RowType
  <2>2. invoice'[i] \in InvoiceRow
    BY DEF TypeOK, Billed, Unborn, Deleted
  <2> QED  BY <2>1, <2>2 DEF InvoiceRow
<1>2. P \in SUBSET Workers /\ R \in SUBSET Workers
  BY DEF Paying
<1>3. /\ \A v \in P : amt(v) \in Nat \ {0}
      /\ \A v \in R : ask(v) \in Nat \ {0}
  <2>1. \A v \in P : req[v] \in RecordReq /\ req[v].amount > 0
    BY ReqType DEF Paying
  <2>2. \A v \in R : req'[v] \in RecordReq /\ req'[v].amount > 0
    BY DEF Paying, TypeOK, RecordReq, DeleteReq, GenerateReq, Idle
  <2> QED  BY <2>1, <2>2 DEF RecordReq
<1>4. \A v \in Workers : v # w => (v \in R <=> v \in P) /\ ask(v) = amt(v)
  BY DEF Paying
<1>5. /\ \A v \in P : amt(v) <= A
      /\ P = {} => paid <= W * A
      /\ P # {} => \E v \in P : paid + amt(v) <= ((W - p) + 1) * A
  BY DEF RoomLeft
<1>6. SUFFICES /\ \A v \in R : ask(v) <= A
               /\ R = {} => now <= W * A
               /\ R # {} => \E v \in R : now + ask(v) <= ((W - r) + 1) * A
  BY DEF RoomLeft
<1>7. /\ W \in Nat /\ p \in Nat /\ r \in Nat /\ p <= W /\ r <= W
      /\ (p = 0 <=> P = {}) /\ (r = 0 <=> R = {})
      /\ \A v \in P : Cardinality(P \ {v}) = p - 1
      /\ \A v \in Workers \ P : Cardinality(P \cup {v}) = p + 1
  BY <1>2, PayingSize
<1>8. CASE /\ w \notin P /\ w \notin R
           /\ now <= paid
  <2>1. R = P
    BY <1>2, <1>4, <1>8
  <2>2. \A v \in P : ask(v) = amt(v)
    BY <1>2, <1>4, <1>8
  <2>3. r = p
    BY <2>1
  <2> HIDE DEF W, A, P, R, p, r, paid, now, amt, ask
  <2>4. W * A \in Nat /\ ((W - p) + 1) * A \in Nat
    <3>1. (W - p) + 1 \in Nat
      BY <1>7
    <3> QED  BY <1>1, <1>7, <3>1, Times
  <2>5. CASE P = {}
    BY <1>1, <1>5, <1>8, <2>1, <2>4, <2>5
  <2>6. CASE P # {}
    <3>1. PICK v \in P : paid + amt(v) <= ((W - p) + 1) * A
      BY <1>5, <2>6
    <3>2. now + ask(v) <= ((W - r) + 1) * A
      BY <1>1, <1>3, <1>8, <2>2, <2>3, <2>4, <3>1
    <3> QED  BY <1>5, <2>1, <2>2, <2>6, <3>1, <3>2
  <2> QED  BY <2>5, <2>6
<1>9. CASE /\ w \notin P /\ w \in R
           /\ now + ask(w) <= A
  <2>1. R = P \cup {w} /\ \A v \in P : ask(v) = amt(v)
    BY <1>2, <1>4, <1>9
  <2>2. r = p + 1
    BY <1>7, <1>9, <2>1
  <2> HIDE DEF W, A, P, R, p, r, paid, now, amt, ask
  <2>3. 1 * A <= ((W - r) + 1) * A /\ ((W - r) + 1) * A \in Nat
    <3>1. (W - r) + 1 \in Nat /\ 1 <= (W - r) + 1
      BY <1>7
    <3> QED  BY <1>1, <3>1, Times
  <2>4. 1 * A = A
    BY <1>1
  <2>5. ask(w) <= A /\ now + ask(w) <= ((W - r) + 1) * A
    BY <1>1, <1>3, <1>9, <2>3, <2>4
  <2> QED  BY <1>5, <1>9, <2>1, <2>5
<1>10. CASE /\ w \in P /\ w \notin R
            /\ now <= paid + amt(w)
  <2>1. R = P \ {w} /\ \A v \in R : ask(v) = amt(v)
    BY <1>2, <1>4, <1>10
  <2>2. r = p - 1
    BY <1>7, <1>10, <2>1
  <2> HIDE DEF W, A, P, R, p, r, paid, now, amt, ask
  <2>3. PICK v \in P : paid + amt(v) <= ((W - p) + 1) * A
    BY <1>5, <1>10
  <2>4. (W - p) + 1 \in Nat /\ (W - r) + 1 = ((W - p) + 1) + 1
    BY <1>7, <2>2
  <2>5. /\ ((W - p) + 1) * A \in Nat
        /\ ((W - r) + 1) * A = ((W - p) + 1) * A + A
    BY <1>1, <2>4, Times
  <2>6. amt(w) \in Nat /\ amt(v) \in Nat /\ amt(w) <= A /\ amt(v) <= A
    BY <1>3, <1>5, <1>10
  <2>7. \A u \in R : ask(u) <= A
    BY <1>5, <2>1
  <2>8. CASE v = w
    <3>1. now <= ((W - p) + 1) * A
      BY <1>1, <1>10, <2>3, <2>5, <2>6, <2>8
    <3>2. R = {} => now <= W * A
      <4>1. ASSUME R = {} PROVE (W - p) + 1 = W
        BY <1>7, <2>2, <4>1
      <4> QED  BY <3>1, <4>1
    <3>3. \A u \in R : now + ask(u) <= ((W - r) + 1) * A
      BY <1>1, <1>3, <2>5, <2>7, <3>1
    <3> QED  BY <2>7, <3>2, <3>3
  <2>9. CASE v # w
    <3>1. v \in R /\ ask(v) = amt(v)
      BY <2>1, <2>9
    <3>2. now + ask(v) <= ((W - r) + 1) * A
      BY <1>1, <1>10, <2>3, <2>5, <2>6, <3>1
    <3> QED  BY <2>7, <3>1, <3>2
  <2> QED  BY <2>8, <2>9
<1> QED  BY <1>8, <1>9, <1>10
(* What one step of a handler does to an invoice nothing was refunded of.  *)
LEMMA WorkerTotals ==
  ASSUME TypeOK, TypeOK', RequestsHold, RefundsShow, NEW w \in Workers, WorkerStep(w),
         NEW i \in Invoices, Billed(i), Billed(i)', "refunded" \notin past'[i]
  PROVE  /\ invoice'[i].amount = invoice[i].amount
         /\ w \in Paying(i) => /\ w \notin Paying(i)'
                               /\ invoice'[i].paid <= invoice[i].paid + req[w].amount
         /\ w \notin Paying(i) => invoice'[i].paid <= invoice[i].paid
         /\ w \in Paying(i)' => /\ invoice'[i].paid + req'[w].amount <= invoice[i].amount
<1>1. invoice[i] \in InvoiceRow /\ invoice[i].paid \in Nat
  BY RowType DEF InvoiceRow
<1>2. w \in Paying(i) => req[w].amount \in Int /\ req[w].amount > 0
  BY ReqType DEF Paying, RecordReq
<1>3. "refunded" \notin past[i]
  <2>1. past[i] \subseteq past'[i]
    BY PastGrows DEF Next
  <2> QED  BY <2>1
<1>4. /\ invoice'[i].amount = invoice[i].amount
      /\ \/ invoice'[i].paid = invoice[i].paid
         \/ /\ InsertPayment(w) /\ req[w].invoice = i /\ req[w] \in RecordReq
            /\ invoice'[i].paid = Floor(invoice[i].paid + req[w].amount)
            /\ ~ (req[w].amount < 0)
         \/ /\ ReversePayment(w) /\ req[w].invoice = i /\ req[w] \in DeleteReq
            /\ invoice'[i].paid = Floor(invoice[i].paid - req[w].amount)
            /\ ~ (req[w].amount < 0)
  <2>1. CASE UNCHANGED <<invoice, payment, past>>
    BY <2>1
  <2>2. CASE InsertMonthly(w)
    <3>1. invoice'[i] = invoice[i]
      BY <2>2, InsertMonthlyEffect, RowType DEF Fresh
    <3> QED  BY <3>1
  <2>3. ASSUME NEW j \in Invoices, j = req[w].invoice, Billed(j), InsertPayment(w)
        PROVE  \/ invoice'[i] = invoice[i]
               \/ /\ req[w].invoice = i /\ req[w] \in RecordReq
                  /\ invoice'[i].amount = invoice[i].amount
                  /\ invoice'[i].paid = Floor(invoice[i].paid + req[w].amount)
                  /\ ~ (req[w].amount < 0)
    BY <2>3, PaymentEffect
  <2>4. ASSUME NEW j \in Invoices, j = req[w].invoice, ReversePayment(w)
        PROVE  \/ invoice'[i] = invoice[i]
               \/ /\ req[w].invoice = i /\ req[w] \in DeleteReq
                  /\ invoice'[i].amount = invoice[i].amount
                  /\ invoice'[i].paid = Floor(invoice[i].paid - req[w].amount)
                  /\ ~ (req[w].amount < 0)
    BY <1>3, <2>4, ReversalEffect DEF RefundsShow, ReversePayment
  <2> QED  BY <2>1, <2>2, <2>3, <2>4, WorkerWrites
<1>5. /\ w \in Paying(i) => invoice'[i].paid <= invoice[i].paid + req[w].amount
      /\ w \notin Paying(i) => invoice'[i].paid <= invoice[i].paid
  <2>1. CASE invoice'[i].paid = invoice[i].paid
    BY <1>1, <1>2, <2>1
  <2>2. CASE /\ InsertPayment(w) /\ req[w].invoice = i /\ req[w] \in RecordReq
             /\ invoice'[i].paid = Floor(invoice[i].paid + req[w].amount)
             /\ ~ (req[w].amount < 0)
    <3>1. req[w].amount \in Int
      BY <2>2 DEF RecordReq
    <3>2. invoice'[i].paid = invoice[i].paid + req[w].amount
      BY <1>1, <2>2, <3>1 DEF Floor
    <3>3. req[w].amount > 0 => w \in Paying(i)
      BY <2>2 DEF Paying, RecordReq
    <3> QED  BY <1>1, <2>2, <3>1, <3>2, <3>3
  <2>3. CASE /\ ReversePayment(w) /\ req[w].invoice = i /\ req[w] \in DeleteReq
             /\ invoice'[i].paid = Floor(invoice[i].paid - req[w].amount)
             /\ ~ (req[w].amount < 0)
    <3>1. req[w].amount \in Int /\ w \notin Paying(i)
      BY <2>3 DEF DeleteReq, Paying
    <3> QED  BY <1>1, <2>3, <3>1 DEF Floor
  <2> QED  BY <1>4, <2>1, <2>2, <2>3
<1>6. w \in Paying(i)' => /\ w \notin Paying(i)
                          /\ invoice'[i].paid + req'[w].amount <= invoice[i].amount
  <2>1. ASSUME w \in Paying(i)'
        PROVE  /\ w \notin Paying(i)
               /\ invoice'[i].paid + req'[w].amount <= invoice[i].amount
    <3>1. req'[w].pc = "record" /\ req'[w].invoice = i /\ req'[w].amount > 0
      BY <2>1 DEF Paying
    <3>2. PICK j \in Invoices, signed \in Int : RecordPayment(w, j, signed)
      <4>1. ASSUME NEW p \in Payments, DeletePayment(w, p)
            PROVE  FALSE
        BY <3>1, <4>1 DEF DeletePayment, TypeOK
      <4>2. ASSUME NEW period \in Periods, GenerateMonthly(w, period)
            PROVE  FALSE
        BY <3>1, <4>2 DEF GenerateMonthly, TypeOK
      <4>3. req'[w] # Idle
        BY <3>1 DEF Idle
      <4> QED  BY <4>1, <4>2, <4>3, RequestSteps
    <3>3. /\ req'[w] = [pc |-> "record", invoice |-> j, amount |-> signed,
                        seen |-> invoice[j].paid]
          /\ req[w] = Idle /\ invoice' = invoice /\ Fits(j, signed)
      BY <3>2 DEF RecordPayment, Asks, TypeOK
    <3>4. j = i /\ signed > 0 /\ req'[w].amount = signed
      BY <3>1, <3>3
    <3>5. signed <= invoice[i].amount - invoice[i].paid
      BY <3>3, <3>4 DEF Fits
    <3>6. invoice[i].amount \in Int
      BY <1>1 DEF InvoiceRow
    <3>7. w \notin Paying(i)
      BY <3>3 DEF Paying, Idle
    <3> QED  BY <1>1, <3>3, <3>4, <3>5, <3>6, <3>7
  <2> QED  BY <2>1
<1> QED  BY <1>4, <1>5, <1>6

LEMMA NewInvoiceHasRoom ==
  ASSUME TypeOK, TypeOK', RequestsHold, NEW i \in Invoices, invoice[i] = Unborn, Billed(i)',
         invoice'[i].paid = 0, \A v \in Workers : req'[v] = req[v] \/ req'[v] = Idle
  PROVE  RoomLeft(i)'
<1>1. Paying(i)' = {}
  <2> SUFFICES ASSUME NEW v \in Paying(i)' PROVE FALSE
    OBVIOUS
  <2>1. v \in Workers /\ req'[v].pc = "record" /\ req'[v].invoice = i
    BY DEF Paying
  <2>2. req[v].pc = "record" /\ req[v].invoice = i
    BY <2>1 DEF Idle
  <2> QED  BY <2>1, <2>2 DEF RequestsHold
<1>2. invoice'[i].amount \in Nat
  BY DEF TypeOK, Billed, InvoiceRow, Unborn, Deleted
<1>3. Cardinality(Workers) * invoice'[i].amount \in Nat
  <2>1. Cardinality(Workers) \in Nat
    BY BillingAssumption, FS_CardinalityType
  <2> DEFINE W == Cardinality(Workers)
             A == invoice'[i].amount
  <2>2. W \in Nat /\ A \in Nat
    BY <1>2, <2>1
  <2> HIDE DEF W, A
  <2>3. W * A \in Nat
    BY <2>2, Times
  <2> QED  BY <2>3 DEF W, A
<1>4. invoice'[i].paid <= Cardinality(Workers) * invoice'[i].amount
  BY <1>3
<1> QED  BY <1>1, <1>4 DEF RoomLeft

LEMMA RoomKept ==
  ASSUME TypeOK, TypeOK', RequestsHold, RefundsShow, TotalsBounded, [Next]_vars
  PROVE  TotalsBounded'
<1> SUFFICES ASSUME NEW i \in Invoices, Billed(i)', "refunded" \notin past'[i]
             PROVE  RoomLeft(i)'
  BY DEF TotalsBounded
<1>1. "refunded" \notin past[i]
  BY PastGrows
<1>2. Billed(i) => RoomLeft(i)
  BY <1>1 DEF TotalsBounded
<1>3. CASE invoice'[i] = invoice[i] /\ req' = req
  <2>1. Billed(i)
    BY <1>3 DEF Billed
  <2> QED  BY <1>2, <1>3, <2>1 DEF RoomLeft, Paying
<1>4. CASE StaffStep
  <2>1. /\ req' = req
        /\ \/ Billed(i) /\ invoice'[i] = invoice[i]
           \/ invoice[i] = Unborn /\ invoice'[i].paid = 0
    BY <1>4, StaffLeavesTotals
  <2> QED  BY <1>3, <2>1, NewInvoiceHasRoom
<1>5. ASSUME NEW w \in Workers, WorkerStep(w)
      PROVE  RoomLeft(i)'
  <2>1. \A v \in Workers : v # w => req'[v] = req[v]
    BY <1>5, RequestSteps
  <2>2. CASE Billed(i)
    <3>1. RoomLeft(i)
      BY <1>2, <2>2
    <3>2. /\ invoice'[i].amount = invoice[i].amount
          /\ w \in Paying(i) => /\ w \notin Paying(i)'
                                /\ invoice'[i].paid <= invoice[i].paid + req[w].amount
          /\ w \notin Paying(i) => invoice'[i].paid <= invoice[i].paid
          /\ w \in Paying(i)' => invoice'[i].paid + req'[w].amount <= invoice[i].amount
      BY <1>5, <2>2, WorkerTotals
    <3> QED  BY <2>1, <2>2, <3>1, <3>2, RoomShifts
  <2>3. CASE ~Billed(i)
    <3>1. InsertMonthly(w)
      <4>1. ASSUME NEW j \in Invoices, j = req[w].invoice, Billed(j), InsertPayment(w)
            PROVE  FALSE
        BY <2>3, <4>1, PaymentEffect DEF Billed
      <4>2. ASSUME NEW j \in Invoices, j = req[w].invoice, ReversePayment(w)
            PROVE  FALSE
        BY <2>3, <4>2, ReversalEffect DEF Billed
      <4> QED  BY <1>5, <2>3, <4>1, <4>2, WorkerWrites DEF Billed
    <3>2. /\ invoice[i] = Unborn /\ req'[w] = Idle
          /\ i.slot \in req[w].slots
      BY <2>3, <3>1, InsertMonthlyEffect DEF Fresh, Billed, TypeOK
    <3>3. invoice'[i].paid = 0
      BY <2>3, <3>1, <3>2 DEF InsertMonthly, Billed, TypeOK
    <3> QED  BY <2>1, <3>2, <3>3, NewInvoiceHasRoom
  <2> QED  BY <2>2, <2>3
<1>6. CASE UNCHANGED vars
  BY <1>3, <1>6 DEF vars
<1> QED  BY <1>4, <1>5, <1>6 DEF Next

(* The unlocked check lets an invoice be overpaid, but each handler only   *)
(* once: an invoice nothing was refunded of is never paid more often than  *)
(* there are handlers.                                                    *)
THEOREM OverpayBoundedHolds == Spec => []OverpayBounded
<1> DEFINE IInv == TypeOK /\ PaymentsHaveInvoice /\ RequestsHold /\ RefundsShow /\ TotalsBounded
<1>1. Init => IInv
  BY InitType, RequestsInit
     DEF Init, PaymentsHaveInvoice, RefundsShow, TotalsBounded, Recorded, Billed, Unborn, Idle
<1>2. IInv /\ [Next]_vars => IInv'
  <2> SUFFICES ASSUME IInv, [Next]_vars
               PROVE  IInv'
    OBVIOUS
  <2>1. TypeOK' /\ RequestsHold' /\ RefundsShow'
    BY NextType, RequestsKept, RefundsKept
  <2>2. TotalsBounded'
    BY <2>1, RoomKept
  <2>3. PaymentsHaveInvoice'
    <3>1. CASE UNCHANGED vars
      BY <3>1 DEF vars, PaymentsHaveInvoice, Recorded, Billed
    <3> QED  BY <3>1, PaymentsStaff, PaymentsWorker DEF Next
  <2> QED  BY <2>1, <2>2, <2>3
<1>3. IInv => OverpayBounded
  <2> SUFFICES ASSUME IInv, NEW i \in Invoices, Billed(i), "refunded" \notin past[i]
               PROVE  invoice[i].paid <= Cardinality(Workers) * invoice[i].amount
    BY DEF OverpayBounded
  <2>1. RoomLeft(i)
    BY DEF TotalsBounded
  <2> QED  BY <2>1, RoomBounds
<1> QED  BY <1>1, <1>2, <1>3, PTL DEF Spec
-----------------------------------------------------------------------------
(* The monthly invoices of a member and month, the generations about to     *)
(* bill it, and what bounds both.                                         *)
MonthlyOf(slot)   == {i \in Invoices : i.slot = slot /\ Monthly(i)}
GeneratingFor(slot) == {w \in Workers : req[w].pc = "generate" /\ slot \in req[w].slots}

MonthliesBounded ==
  \A slot \in Slots :
    Cardinality(MonthlyOf(slot)) + Cardinality(GeneratingFor(slot)) <= Cardinality(Workers)

LEMMA CopiesFinite ==
  ASSUME NEW slot \in Slots, NEW M, M \subseteq {i \in Invoices : i.slot = slot}
  PROVE  IsFiniteSet(M) /\ Cardinality(M) \in Nat
<1> DEFINE All == {i \in Invoices : i.slot = slot}
           f == [i \in All |-> i.copy]
<1>1. IsFiniteSet(1..Copies)
  BY BillingAssumption, FS_Interval
<1>2. f \in Injection(All, 1..Copies)
  <2>1. f \in [All -> 1..Copies]
    BY DEF Invoices
  <2>2. \A i, j \in All : f[i] = f[j] => i = j
    BY DEF Invoices
  <2> QED  BY <2>1, <2>2 DEF Injection, IsInjective
<1>3. IsFiniteSet(All)
  BY <1>1, <1>2, FS_Injection DEF ExistsInjection
<1> QED  BY <1>3, FS_Subset, FS_CardinalityType

LEMMA Smaller ==
  ASSUME NEW M, NEW R, IsFiniteSet(M), R \subseteq M
  PROVE  /\ IsFiniteSet(R) /\ Cardinality(R) \in Nat /\ Cardinality(M) \in Nat
         /\ Cardinality(R) <= Cardinality(M)
BY FS_Subset, FS_CardinalityType

LEMMA OneMore ==
  ASSUME NEW M, IsFiniteSet(M), NEW x
  PROVE  /\ IsFiniteSet(M \cup {x}) /\ Cardinality(M) \in Nat
         /\ Cardinality(M \cup {x}) <= Cardinality(M) + 1
<1>1. Cardinality(M) \in Nat
  BY FS_CardinalityType
<1>2. CASE x \in M
  <2>1. M \cup {x} = M
    BY <1>2
  <2>2. IsFiniteSet(M \cup {x}) /\ Cardinality(M \cup {x}) = Cardinality(M)
    BY <2>1
  <2> QED  BY <1>1, <2>2
<1>3. CASE x \notin M
  <2>1. IsFiniteSet(M \cup {x}) /\ Cardinality(M \cup {x}) = Cardinality(M) + 1
    BY <1>3, FS_AddElement
  <2> QED  BY <1>1, <2>1
<1> QED  BY <1>2, <1>3

(* Fewer invoices and no new generation: the bound stays.                  *)
LEMMA FewerMonthlies ==
  ASSUME NEW slot \in Slots, TypeOK,
         Cardinality(MonthlyOf(slot)) + Cardinality(GeneratingFor(slot)) <= Cardinality(Workers),
         MonthlyOf(slot)' \subseteq MonthlyOf(slot),
         GeneratingFor(slot)' \subseteq GeneratingFor(slot)
  PROVE  Cardinality(MonthlyOf(slot)') + Cardinality(GeneratingFor(slot)') <= Cardinality(Workers)
<1> DEFINE M == MonthlyOf(slot)
           N == MonthlyOf(slot)'
           G == GeneratingFor(slot)
           H == GeneratingFor(slot)'
<1>1. IsFiniteSet(M) /\ N \subseteq M
  <2>1. M \subseteq {i \in Invoices : i.slot = slot}
    BY DEF MonthlyOf
  <2> QED  BY <2>1, CopiesFinite
<1>2. IsFiniteSet(G) /\ H \subseteq G
  BY BillingAssumption, FS_Subset DEF GeneratingFor
<1>3. Cardinality(M) + Cardinality(G) <= Cardinality(Workers)
  OBVIOUS
<1>4. Cardinality(Workers) \in Nat
  BY BillingAssumption, FS_CardinalityType
<1> HIDE DEF M, N, G, H
<1>5. Cardinality(N) + Cardinality(H) <= Cardinality(Workers)
  BY <1>1, <1>2, <1>3, <1>4, Smaller
<1> QED  BY <1>5 DEF N, H

LEMMA MonthliesKept ==
  ASSUME TypeOK, MonthliesBounded, [Next]_vars
  PROVE  MonthliesBounded'
<1> SUFFICES ASSUME NEW slot \in Slots
             PROVE  Cardinality(MonthlyOf(slot)') + Cardinality(GeneratingFor(slot)')
                      <= Cardinality(Workers)
  BY DEF MonthliesBounded
<1>1. Cardinality(MonthlyOf(slot)) + Cardinality(GeneratingFor(slot)) <= Cardinality(Workers)
  BY DEF MonthliesBounded
<1>2. ASSUME \A i \in Invoices : Monthly(i)' => Monthly(i)
      PROVE  MonthlyOf(slot)' \subseteq MonthlyOf(slot)
  BY <1>2 DEF MonthlyOf
<1>3. CASE StaffStep
  <2>1. MonthlyOf(slot)' \subseteq MonthlyOf(slot)
    BY <1>2, <1>3, StaffKeepsRows
  <2>2. GeneratingFor(slot)' \subseteq GeneratingFor(slot)
    BY <1>3, StaffKeepsRows DEF GeneratingFor
  <2> QED  BY <1>1, <2>1, <2>2, FewerMonthlies
<1>4. ASSUME NEW w \in Workers, InsertMonthly(w)
      PROVE  Cardinality(MonthlyOf(slot)') + Cardinality(GeneratingFor(slot)')
               <= Cardinality(Workers)
  <2> DEFINE M == MonthlyOf(slot)
             N == MonthlyOf(slot)'
             G == GeneratingFor(slot)
             H == GeneratingFor(slot)'
  <2>1. H = G \ {w}
    BY <1>4, InsertMonthlyEffect DEF GeneratingFor, Idle, TypeOK
  <2>2. CASE slot \notin req[w].slots
    <3>1. N \subseteq M
      BY <1>4, <2>2, InsertMonthlyEffect DEF MonthlyOf, Monthly, Billed
    <3> QED  BY <1>1, <2>1, <3>1, FewerMonthlies
  <2>3. CASE slot \in req[w].slots
    <3>1. w \in G
      BY <1>4, <2>3 DEF GeneratingFor, InsertMonthly
    <3>2. \A i \in N \ M : Fresh(slot, i) /\ i \in Invoices
      BY <1>4, InsertMonthlyEffect DEF MonthlyOf, Monthly, Billed
    <3>3. \A i, j \in N \ M : i = j
      <4>1. ASSUME NEW i \in N \ M, NEW j \in N \ M PROVE i = j
        <5>1. Fresh(slot, i) /\ Fresh(slot, j) /\ i \in Invoices /\ j \in Invoices
          BY <3>2
        <5>2. ~(i.copy < j.copy) /\ ~(j.copy < i.copy) /\ i.slot = slot /\ j.slot = slot
          BY <5>1 DEF Fresh
        <5>3. i.copy \in Int /\ j.copy \in Int
          BY <5>1, BillingAssumption DEF Invoices
        <5>4. i.copy = j.copy
          BY <5>2, <5>3
        <5> QED  BY <5>1, <5>2, <5>4 DEF Invoices
      <4> QED  BY <4>1
    <3>4. IsFiniteSet(M)
      <4>1. M \subseteq {i \in Invoices : i.slot = slot}
        BY DEF MonthlyOf
      <4> QED  BY <4>1, CopiesFinite
    <3>5. IsFiniteSet(G)
      BY BillingAssumption, FS_Subset DEF GeneratingFor
    <3>6. Cardinality(M) + Cardinality(G) <= Cardinality(Workers)
      BY <1>1
    <3>7. Cardinality(Workers) \in Nat
      BY BillingAssumption, FS_CardinalityType
    <3> HIDE DEF M, N, G, H
    <3>8. \E x : N \subseteq M \cup {x}
      BY <3>3
    <3>9. Cardinality(N) <= Cardinality(M) + 1 /\ Cardinality(N) \in Nat /\ Cardinality(M) \in Nat
      <4>1. PICK x : N \subseteq M \cup {x}
        BY <3>8
      <4>2. /\ IsFiniteSet(M \cup {x}) /\ Cardinality(M) \in Nat
            /\ Cardinality(M \cup {x}) <= Cardinality(M) + 1
        BY <3>4, OneMore
      <4>3. Cardinality(N) \in Nat /\ Cardinality(N) <= Cardinality(M \cup {x})
            /\ Cardinality(M \cup {x}) \in Nat
        BY <4>1, <4>2, Smaller
      <4> QED  BY <4>2, <4>3
    <3>10. Cardinality(H) = Cardinality(G) - 1 /\ Cardinality(G) \in Nat
      BY <2>1, <3>1, <3>5, FS_RemoveElement, FS_CardinalityType
    <3>11. Cardinality(N) + Cardinality(H) <= Cardinality(Workers)
      BY <3>6, <3>7, <3>9, <3>10
    <3> QED  BY <3>11 DEF N, H
  <2> QED  BY <2>2, <2>3
<1>5. ASSUME NEW w \in Workers, WorkerStep(w), ~InsertMonthly(w)
      PROVE  Cardinality(MonthlyOf(slot)') + Cardinality(GeneratingFor(slot)')
               <= Cardinality(Workers)
  <2>1. MonthlyOf(slot)' \subseteq MonthlyOf(slot)
    BY <1>2, <1>5, OtherStepsBillNobody
  <2>2. CASE GeneratingFor(slot)' \subseteq GeneratingFor(slot)
    BY <1>1, <2>1, <2>2, FewerMonthlies
  <2>3. CASE ~ (GeneratingFor(slot)' \subseteq GeneratingFor(slot))
    <3>1. PICK v \in Workers : req'[v].pc = "generate" /\ slot \in req'[v].slots
                               /\ ~ (req[v].pc = "generate" /\ slot \in req[v].slots)
      BY <2>3 DEF GeneratingFor
    <3>2. v = w
      BY <1>5, <3>1, RequestSteps
    <3>3. PICK period \in Periods : GenerateMonthly(w, period)
      <4>1. ASSUME NEW i \in Invoices, NEW signed \in Int, RecordPayment(w, i, signed)
            PROVE  FALSE
        BY <3>1, <3>2, <4>1 DEF RecordPayment, TypeOK
      <4>2. ASSUME NEW p \in Payments, DeletePayment(w, p)
            PROVE  FALSE
        BY <3>1, <3>2, <4>2 DEF DeletePayment, TypeOK
      <4>3. req'[w] # Idle
        BY <3>1, <3>2 DEF Idle
      <4> QED  BY <1>5, <4>1, <4>2, <4>3, RequestSteps
    <3>4. slot \in NotYetInvoiced(period)
      BY <3>1, <3>2, <3>3 DEF GenerateMonthly, TypeOK
    <3>5. MonthlyOf(slot)' = {}
      BY <2>1, <3>4 DEF MonthlyOf, Monthly, NotYetInvoiced
    <3>6. GeneratingFor(slot)' \subseteq Workers
      BY DEF GeneratingFor
    <3> DEFINE H == GeneratingFor(slot)'
    <3>7. Cardinality(H) \in Nat /\ Cardinality(H) <= Cardinality(Workers)
      BY <3>6, BillingAssumption, Smaller
    <3>8. Cardinality({}) = 0
      BY FS_EmptySet
    <3> HIDE DEF H
    <3>9. 0 + Cardinality(H) <= Cardinality(Workers)
      BY <3>7
    <3> QED  BY <3>5, <3>8, <3>9 DEF H
  <2> QED  BY <2>2, <2>3
<1>6. CASE UNCHANGED vars
  <2>1. MonthlyOf(slot)' = MonthlyOf(slot) /\ GeneratingFor(slot)' = GeneratingFor(slot)
    BY <1>6 DEF vars, MonthlyOf, Monthly, Billed, GeneratingFor
  <2> QED  BY <1>1, <2>1
<1> QED  BY <1>3, <1>4, <1>5, <1>6 DEF Next

(* Overlapping generations bill a member at most once per handler: a        *)
(* generation only starts to bill who has no invoice at all, and then       *)
(* bills once.                                                            *)
THEOREM DuplicatesBoundedHolds == Spec => []DuplicatesBounded
<1> DEFINE IInv == TypeOK /\ MonthliesBounded
<1>1. Init => IInv
  <2> SUFFICES ASSUME Init PROVE MonthliesBounded
    BY InitType
  <2> SUFFICES ASSUME NEW slot \in Slots
               PROVE  Cardinality(MonthlyOf(slot)) + Cardinality(GeneratingFor(slot))
                        <= Cardinality(Workers)
    BY DEF MonthliesBounded
  <2>1. MonthlyOf(slot) = {} /\ GeneratingFor(slot) = {}
    BY DEF Init, MonthlyOf, Monthly, Billed, GeneratingFor, Idle, Unborn
  <2>2. Cardinality({}) = 0 /\ Cardinality(Workers) \in Nat
    BY BillingAssumption, FS_EmptySet, FS_CardinalityType
  <2> QED  BY <2>1, <2>2
<1>2. IInv /\ [Next]_vars => IInv'
  BY NextType, MonthliesKept
<1>3. IInv => DuplicatesBounded
  <2> SUFFICES ASSUME IInv, NEW slot \in Slots
               PROVE  Cardinality(MonthlyOf(slot)) <= Cardinality(Workers)
    BY DEF DuplicatesBounded, MonthlyOf, Monthly
  <2>1. MonthlyOf(slot) \subseteq {i \in Invoices : i.slot = slot}
    BY DEF MonthlyOf
  <2>2. Cardinality(MonthlyOf(slot)) \in Nat
    BY <2>1, CopiesFinite
  <2>3. GeneratingFor(slot) \subseteq Workers
    BY DEF GeneratingFor
  <2>4. Cardinality(GeneratingFor(slot)) \in Nat /\ Cardinality(Workers) \in Nat
    BY <2>3, BillingAssumption, Smaller
  <2>5. Cardinality(MonthlyOf(slot)) + Cardinality(GeneratingFor(slot)) <= Cardinality(Workers)
    BY DEF MonthliesBounded
  <2> QED  BY <2>2, <2>4, <2>5
<1> QED  BY <1>1, <1>2, <1>3, PTL DEF Spec

-----------------------------------------------------------------------------
(***************************************************************************)
(* The pay of a teacher: its types, the two invariants of the run, and the *)
(* strengthenings they need.  Rules and slips share only the deletion of   *)
(* the teacher.                                                            *)
(***************************************************************************)
LEMMA NetIsNat ==
  ASSUME PayrollAssumption, NEW o \in Offers
  PROVE  Net(o) \in Nat
<1>1. o.gross \in Nat /\ o.bonus \in Int /\ o.deduction \in Int
  BY DEF PayrollAssumption
<1> QED  BY <1>1 DEF Net

(* The handler of a request that is under way.                            *)
LEMMA RequestType ==
  ASSUME PayrollTypeOK, NEW h \in Handlers, request[h] # NoRequest
  PROVE  /\ request[h].op \in {"replace", "insert"}
         /\ request[h].tag \in Tags
         /\ request[h].groups \in SUBSET CenterGroups
         /\ request[h].overtaken \in BOOLEAN
         /\ request[h].op = "insert" => request[h].seen \in [CenterGroups -> {None} \cup Tags]
<1>1. request[h] \in Requests
  BY DEF PayrollTypeOK
<1> QED  BY <1>1 DEF Requests

(* An overtaken request is the same request, marked.                      *)
LEMMA OvertakenType ==
  ASSUME PayrollTypeOK, NEW h \in Handlers
  PROVE  /\ Overtaken(h) \in Requests
         /\ (Overtaken(h) = NoRequest) <=> (request[h] = NoRequest)
         /\ request[h] # NoRequest => Overtaken(h).overtaken
<1>1. request[h] \in Requests
  BY DEF PayrollTypeOK
<1>2. CASE request[h] = NoRequest
  BY <1>2 DEF Overtaken, Requests
<1>3. CASE request[h] \in [op : {"replace"}, tag : Tags, groups : SUBSET CenterGroups,
                           overtaken : BOOLEAN]
  <2>1. request[h].op = "replace" /\ request[h] # NoRequest
    BY <1>3 DEF NoRequest
  <2>2. Overtaken(h) = [request[h] EXCEPT !.overtaken = TRUE]
    BY <2>1 DEF Overtaken
  <2>3. Overtaken(h) \in Requests /\ Overtaken(h).op = "replace" /\ Overtaken(h).overtaken
    BY <1>3, <2>1, <2>2 DEF Requests
  <2> QED  BY <2>1, <2>3 DEF NoRequest
<1>4. CASE request[h] \in [op : {"insert"}, tag : Tags, groups : SUBSET CenterGroups,
                           seen : [CenterGroups -> {None} \cup Tags], overtaken : BOOLEAN]
  <2>1. request[h].op = "insert" /\ request[h] # NoRequest
    BY <1>4 DEF NoRequest
  <2>2. Overtaken(h) = [request[h] EXCEPT !.overtaken = TRUE]
    BY <2>1 DEF Overtaken
  <2>3. Overtaken(h) \in Requests /\ Overtaken(h).op = "insert" /\ Overtaken(h).overtaken
    BY <1>4, <2>1, <2>2 DEF Requests
  <2> QED  BY <2>1, <2>3 DEF NoRequest
<1> QED  BY <1>1, <1>2, <1>3, <1>4 DEF Requests

LEMMA ContinueType ==
  ASSUME PayrollTypeOK, NEW h \in Handlers, NEW r \in Requests, Continue(h, r)
  PROVE  request' \in [Handlers -> Requests]
BY OvertakenType DEF Continue

LEMMA WrittenType ==
  ASSUME NEW gs, NEW tag \in {None} \cup Tags
  PROVE  Written(gs, tag) \in [CenterGroups -> {None} \cup Tags]
BY DEF Written

(* A request is numbered within the bound.                                *)
LEMMA NextTag ==
  ASSUME PayrollAssumption, PayrollTypeOK, requests < MaxRuleRequests
  PROVE  requests + 1 \in Tags /\ requests + 1 \in 0..MaxRuleRequests
BY DEF PayrollAssumption, PayrollTypeOK, Tags

-----------------------------------------------------------------------------
(* One type invariant for all the variables.                              *)
LEMMA TypeStep ==
  ASSUME PayrollAssumption, PayrollTypeOK, [PayrollNext]_payrollVars
  PROVE  PayrollTypeOK'
<1>0. MaxRuleRequests \in Nat /\ MaxFaults \in Nat
  BY DEF PayrollAssumption
<1>1. ASSUME NEW h \in Handlers, SetDefault(h)
      PROVE  PayrollTypeOK'
  BY <1>1, NextTag DEF SetDefault, UpsertSalaryRule, slipVars, PayrollTypeOK
<1>2. ASSUME NEW h \in Handlers, NEW gs \in SUBSET CenterGroups, SetRule(h, gs)
      PROVE  PayrollTypeOK'
  <2> DEFINE r == [op |-> "replace", tag |-> requests + 1, groups |-> gs, overtaken |-> Busy(h)]
  <2>1. requests + 1 \in Tags /\ requests' = requests + 1 /\ rule' = requests + 1
    BY <1>2, NextTag DEF SetRule, UpsertSalaryRule
  <2>2. Busy(h) \in BOOLEAN
    BY DEF Busy
  <2>3. r \in Requests
    BY <2>1, <2>2 DEF Requests
  <2>4. request' \in [Handlers -> Requests]
    BY <1>2, <2>3, ContinueType DEF SetRule
  <2>5. asked' \in [rule : {None} \cup Tags, override : [CenterGroups -> {None} \cup Tags]]
    BY <1>2, <2>1, WrittenType DEF SetRule
  <2> QED  BY <1>2, <2>1, <2>4, <2>5, NextTag DEF SetRule, slipVars, PayrollTypeOK
<1>3. ASSUME NEW h \in Handlers, ReplaceGroupRules(h)
      PROVE  PayrollTypeOK'
  <2>1. request[h] # NoRequest
    BY <1>3 DEF ReplaceGroupRules, NoRequest
  <2>2. [op |-> "insert", tag |-> request[h].tag, groups |-> request[h].groups,
         seen |-> DeleteTeacherGroupRules(h), overtaken |-> request[h].overtaken] \in Requests
    BY <2>1, RequestType DEF Requests, DeleteTeacherGroupRules, PayrollTypeOK
  <2>3. request' \in [Handlers -> Requests]
    BY <1>3, <2>2 DEF ReplaceGroupRules, PayrollTypeOK
  <2> QED  BY <1>3, <2>3 DEF ReplaceGroupRules, slipVars, PayrollTypeOK
<1>4. ASSUME NEW h \in Handlers, InsertSalaryGroupRules(h)
      PROVE  PayrollTypeOK'
  <2>1. request[h] # NoRequest
    BY <1>4 DEF InsertSalaryGroupRules, NoRequest
  <2>2. request' \in [Handlers -> Requests]
    BY <1>4, ContinueType DEF InsertSalaryGroupRules, Requests
  <2>3. override' \in [CenterGroups -> {None} \cup Tags]
    BY <1>4, <2>1, RequestType DEF InsertSalaryGroupRules, PayrollTypeOK
  <2>4. torn' \in BOOLEAN
    BY <1>4, <2>1, RequestType DEF InsertSalaryGroupRules
  <2> QED  BY <1>4, <2>2, <2>3, <2>4 DEF InsertSalaryGroupRules, slipVars, PayrollTypeOK
<1>5. ASSUME NEW h \in Handlers, ReplaceRefused(h) \/ ReplaceFails(h)
      PROVE  PayrollTypeOK'
  <2>1. request' = [request EXCEPT ![h] = NoRequest] /\ torn' = TRUE
    BY <1>5 DEF ReplaceRefused, ReplaceFails
  <2>2. request' \in [Handlers -> Requests]
    BY <2>1 DEF Requests, PayrollTypeOK
  <2>3. faults' \in 0..MaxFaults
    BY <1>0, <1>5 DEF ReplaceRefused, ReplaceFails, PayrollTypeOK
  <2> QED
    BY <1>5, <2>1, <2>2, <2>3 DEF ReplaceRefused, ReplaceFails, slipVars, PayrollTypeOK
<1>6. ASSUME NEW g \in CenterGroups, DeleteGroup(g)
      PROVE  PayrollTypeOK'
  <2>1. asked' \in [rule : {None} \cup Tags, override : [CenterGroups -> {None} \cup Tags]]
    BY <1>6 DEF DeleteGroup, PayrollTypeOK
  <2> QED  BY <1>6, <2>1 DEF DeleteGroup, slipVars, PayrollTypeOK
<1>7. ASSUME NEW s \in Slips, NEW o \in Offers, CreateSlip(s, o)
      PROVE  PayrollTypeOK'
  BY <1>7, NetIsNat DEF CreateSlip, ruleVars, PayrollTypeOK
<1>8. ASSUME NEW s \in Slips, MarkPaid(s)
      PROVE  PayrollTypeOK'
  BY <1>8 DEF MarkPaid, MarkSalarySlipPaid, CreateExpense, ruleVars, PayrollTypeOK
<1>9. ASSUME NEW s \in Slips, DeleteSlip(s)
      PROVE  PayrollTypeOK'
  BY <1>9 DEF DeleteSlip, DeleteSalarySlip, ruleVars, PayrollTypeOK
<1>10. ASSUME NEW s \in Slips, DeleteExpense(s)
       PROVE  PayrollTypeOK'
  BY <1>10 DEF DeleteExpense, ruleVars, PayrollTypeOK
<1>11. CASE DeleteTeacher
  <2>1. slip' \in [Slips -> [status : {"none", "draft", "paid", "deleted"}, net : Nat]]
    BY <1>11 DEF DeleteTeacher, PayrollTypeOK
  <2>2. asked' \in [rule : {None} \cup Tags, override : [CenterGroups -> {None} \cup Tags]]
    BY <1>11 DEF DeleteTeacher
  <2>3. gone' \subseteq [slip : Slips, why : {"expense", "teacher"}]
    BY <1>11 DEF DeleteTeacher, PayrollTypeOK
  <2> QED  BY <1>11, <2>1, <2>2, <2>3 DEF DeleteTeacher, PayrollTypeOK
<1>12. CASE UNCHANGED payrollVars
  BY <1>12 DEF payrollVars, PayrollTypeOK
<1> QED
  BY <1>1, <1>2, <1>3, <1>4, <1>5, <1>6, <1>7, <1>8, <1>9, <1>10, <1>11, <1>12
     DEF PayrollNext, RuleStep, SlipStep

(* The state of rules, requests, slips and expenses stays within its types *)
(* (salary_repo.go, finance_repo.go).                                      *)
THEOREM PayrollTypeCorrect ==
  ASSUME PayrollAssumption
  PROVE  PayrollSpec => []PayrollTypeOK
<1>1. PayrollInit => PayrollTypeOK
  <2> SUFFICES ASSUME PayrollInit PROVE PayrollTypeOK
    OBVIOUS
  <2>1. request \in [Handlers -> Requests]
    BY DEF PayrollInit, Requests
  <2>2. slip \in [Slips -> [status : {"none", "draft", "paid", "deleted"}, net : Nat]]
    BY DEF PayrollInit, NoSlip
  <2>3. requests \in 0..MaxRuleRequests /\ faults \in 0..MaxFaults
    BY DEF PayrollInit, PayrollAssumption
  <2> QED  BY <2>1, <2>2, <2>3 DEF PayrollInit, PayrollTypeOK
<1>2. PayrollTypeOK /\ [PayrollNext]_payrollVars => PayrollTypeOK'
  BY TypeStep
<1> QED  BY <1>1, <1>2, PTL DEF PayrollSpec

-----------------------------------------------------------------------------
(* Slips and their expenses.                                               *)

(* A slip nobody paid has no expense; a paid one has its own, or somebody  *)
(* deleted that; the expense of a slip that is gone went before it, or the *)
(* teacher took the slip along.                                            *)
Booked(s) ==
  /\ expense[s].rows + (IF Lost(s, "expense") THEN 1 ELSE 0) <= 1
  /\ slip[s].status \in {"none", "draft"} =>
       expense[s].rows = 0 /\ ~Lost(s, "expense")
  /\ slip[s].status = "paid" =>
       (expense[s].rows = 1 /\ expense[s].amount = slip[s].net) \/ Lost(s, "expense")
  /\ slip[s].status = "deleted" => expense[s].rows = 0 \/ Lost(s, "teacher")

(* A step that leaves the row, the expense and the history of a slip alone *)
(* leaves it booked.                                                       *)
LEMMA BookedFrame ==
  ASSUME NEW s \in Slips, Booked(s), slip'[s] = slip[s], expense'[s] = expense[s],
         \A why \in {"expense", "teacher"} :
            [slip |-> s, why |-> why] \in gone' <=> [slip |-> s, why |-> why] \in gone
  PROVE  Booked(s)'
BY DEF Booked, Lost

LEMMA BookedStep ==
  ASSUME PayrollAssumption, PayrollTypeOK, \A x \in Slips : Booked(x), [PayrollNext]_payrollVars,
         NEW s \in Slips
  PROVE  Booked(s)'
<1>0. /\ slip[s] \in [status : {"none", "draft", "paid", "deleted"}, net : Nat]
      /\ expense[s] \in [rows : Nat, amount : Nat]
      /\ slip \in [Slips -> [status : {"none", "draft", "paid", "deleted"}, net : Nat]]
      /\ expense \in [Slips -> [rows : Nat, amount : Nat]]
  BY DEF PayrollTypeOK
<1>1. CASE RuleStep \/ UNCHANGED payrollVars
  <2>1. UNCHANGED <<slip, expense, gone>>
    BY <1>1 DEF RuleStep, SetDefault, SetRule, ReplaceGroupRules, InsertSalaryGroupRules,
                ReplaceRefused, ReplaceFails, DeleteGroup, slipVars, payrollVars
  <2> QED  BY <2>1, BookedFrame
<1>2. ASSUME NEW x \in Slips, NEW o \in Offers, CreateSlip(x, o)
      PROVE  Booked(s)'
  <2>1. CASE x = s
    BY <1>0, <1>2, <2>1 DEF CreateSlip, Booked, Lost
  <2>2. CASE x # s
    BY <1>0, <1>2, <2>2, BookedFrame DEF CreateSlip
  <2> QED  BY <2>1, <2>2
<1>3. ASSUME NEW x \in Slips, MarkPaid(x)
      PROVE  Booked(s)'
  <2>1. CASE x = s
    <3>1. slip[s].status = "draft" /\ expense[s].rows = 0 /\ ~Lost(s, "expense") /\ gone' = gone
      BY <1>3, <2>1 DEF MarkPaid, MarkSalarySlipPaid, Booked
    <3>2. slip'[s].status = "paid" /\ slip'[s].net = slip[s].net
      BY <1>0, <1>3, <2>1 DEF MarkPaid
    <3>3. expense'[s].rows = 1 /\ expense'[s].amount = slip[s].net
      BY <1>0, <1>3, <2>1, <3>1 DEF MarkPaid, CreateExpense
    <3> QED  BY <3>1, <3>2, <3>3 DEF Booked, Lost
  <2>2. CASE x # s
    BY <1>0, <1>3, <2>2, BookedFrame DEF MarkPaid, CreateExpense
  <2> QED  BY <2>1, <2>2
<1>4. ASSUME NEW x \in Slips, DeleteSlip(x)
      PROVE  Booked(s)'
  <2>1. CASE x = s
    BY <1>0, <1>4, <2>1 DEF DeleteSlip, DeleteSalarySlip, Booked, Lost
  <2>2. CASE x # s
    BY <1>0, <1>4, <2>2, BookedFrame DEF DeleteSlip
  <2> QED  BY <2>1, <2>2
<1>5. ASSUME NEW x \in Slips, DeleteExpense(x)
      PROVE  Booked(s)'
  <2>1. CASE x = s
    <3>1. expense[s].rows > 0 /\ expense'[s].rows = expense[s].rows - 1 /\ slip' = slip
      BY <1>0, <1>5, <2>1 DEF DeleteExpense
    <3>2. /\ [slip |-> s, why |-> "expense"] \in gone'
          /\ [slip |-> s, why |-> "teacher"] \in gone' <=> [slip |-> s, why |-> "teacher"] \in gone
      BY <1>5, <2>1 DEF DeleteExpense
    <3> QED  BY <1>0, <3>1, <3>2 DEF Booked, Lost
  <2>2. CASE x # s
    BY <1>0, <1>5, <2>2, BookedFrame DEF DeleteExpense
  <2> QED  BY <2>1, <2>2
<1>6. CASE DeleteTeacher
  <2>1. expense' = expense
    BY <1>6 DEF DeleteTeacher
  <2>2. [slip |-> s, why |-> "expense"] \in gone' <=> [slip |-> s, why |-> "expense"] \in gone
    BY <1>6 DEF DeleteTeacher
  <2>3. [slip |-> s, why |-> "teacher"] \in gone' <=>
          [slip |-> s, why |-> "teacher"] \in gone \/ slip[s].status = "paid"
    BY <1>6 DEF DeleteTeacher
  <2>4. CASE slip[s].status \in {"draft", "paid"}
    <3>1. slip'[s].status = "deleted"
      BY <1>0, <1>6, <2>4 DEF DeleteTeacher
    <3> QED  BY <1>0, <2>1, <2>2, <2>3, <2>4, <3>1 DEF Booked, Lost
  <2>5. CASE slip[s].status \notin {"draft", "paid"}
    <3>1. slip'[s] = slip[s]
      BY <1>6, <2>5 DEF DeleteTeacher
    <3> QED  BY <2>1, <2>2, <2>3, <2>5, <3>1, BookedFrame
  <2> QED  BY <2>4, <2>5
<1> QED  BY <1>1, <1>2, <1>3, <1>4, <1>5, <1>6 DEF PayrollNext, SlipStep

(* A slip is paid out once, for its net, and its expense leaves the books  *)
(* with it: for any slips, offers and order of the requests (MarkPaid,     *)
(* DeleteSlip, DeleteExpense, the deletion of the teacher).                *)
THEOREM PaidOnceHolds ==
  ASSUME PayrollAssumption
  PROVE  PayrollSpec => []PaidOnce
<1> DEFINE IInv == PayrollTypeOK /\ \A s \in Slips : Booked(s)
<1>1. PayrollInit => \A s \in Slips : Booked(s)
  BY DEF PayrollInit, Booked, Lost, NoSlip
<1>2. IInv /\ [PayrollNext]_payrollVars => (\A s \in Slips : Booked(s))'
  BY BookedStep
<1>3. IInv => PaidOnce
  <2> SUFFICES ASSUME IInv, NEW s \in Slips
               PROVE  /\ expense[s].rows + (IF Lost(s, "expense") THEN 1 ELSE 0) <= 1
                      /\ slip[s].status = "paid" =>
                           (expense[s].rows = 1 /\ expense[s].amount = slip[s].net)
                             \/ Lost(s, "expense")
                      /\ expense[s].rows > 0 => slip[s].status = "paid" \/ Lost(s, "teacher")
    BY DEF PaidOnce
  <2>1. /\ slip[s].status \in {"none", "draft", "paid", "deleted"}
        /\ expense[s].rows \in Nat
    BY DEF PayrollTypeOK
  <2> QED  BY <2>1 DEF Booked
<1> QED  BY <1>1, <1>2, <1>3, PayrollTypeCorrect, PTL DEF PayrollSpec

-----------------------------------------------------------------------------
(* The rule and its overrides.                                             *)

(* What a request that nothing overtook has still to write is what was     *)
(* asked last, and it is alone; the rows its DELETE found are those there  *)
(* are, but for the ones that went with a group or the teacher.            *)
Alone(h) ==
  request[h] # NoRequest /\ ~request[h].overtaken =>
    /\ \A x \in Handlers : x # h => request[x] = NoRequest
    /\ teacher => asked.override = Written(request[h].groups \cap groups, request[h].tag)
    /\ request[h].op = "insert" =>
         \A g \in CenterGroups : override[g] = None \/ override[g] = request[h].seen[g]

Quiet == \A h \in Handlers : request[h] = NoRequest

Rules ==
  /\ rule = asked.rule
  /\ Quiet /\ ~torn => override = asked.override
  /\ \A h \in Handlers : Alone(h)

(* A step that touches neither rules nor requests.                        *)
LEMMA RulesFrame ==
  ASSUME Rules, UNCHANGED <<rule, override, request, asked, torn, teacher, groups>>
  PROVE  Rules'
BY DEF Rules, Quiet, Alone

(* A request that begins or ends overtakes those under way.                *)
LEMMA OvertakenMarked ==
  ASSUME PayrollTypeOK, NEW h \in Handlers, NEW r, Continue(h, r), NEW x \in Handlers, x # h,
         request'[x] # NoRequest
  PROVE  request'[x].overtaken
<1>1. request'[x] = Overtaken(x)
  BY DEF Continue
<1> QED  BY <1>1, OvertakenType

LEMMA RulesStep ==
  ASSUME PayrollAssumption, PayrollTypeOK, Rules, [PayrollNext]_payrollVars
  PROVE  Rules'
<1>0. /\ request \in [Handlers -> Requests]
      /\ override \in [CenterGroups -> {None} \cup Tags]
      /\ asked \in [rule : {None} \cup Tags, override : [CenterGroups -> {None} \cup Tags]]
  BY DEF PayrollTypeOK
<1>1. ASSUME NEW h \in Handlers, SetDefault(h)
      PROVE  Rules'
  <2>1. rule' = asked'.rule /\ asked'.override = asked.override
    BY <1>0, <1>1 DEF SetDefault, UpsertSalaryRule
  <2>2. UNCHANGED <<override, request, torn, teacher, groups>>
    BY <1>1 DEF SetDefault
  <2> QED  BY <2>1, <2>2 DEF Rules, Quiet, Alone
<1>2. ASSUME NEW h \in Handlers, NEW gs \in SUBSET CenterGroups, SetRule(h, gs)
      PROVE  Rules'
  <2> DEFINE r == [op |-> "replace", tag |-> requests + 1, groups |-> gs, overtaken |-> Busy(h)]
  <2>1. /\ Continue(h, r) /\ request[h] = NoRequest
        /\ rule' = requests + 1
        /\ asked' = [rule |-> requests + 1, override |-> Written(gs \cap groups, requests + 1)]
        /\ groups' = groups
    BY <1>2 DEF SetRule, UpsertSalaryRule
  <2>2. request'[h] = r
    BY <2>1 DEF Continue
  <2>3. r # NoRequest /\ r.op = "replace" /\ r.tag = requests + 1 /\ r.groups = gs /\ r.overtaken = Busy(h)
    BY DEF NoRequest
  <2>4. ~Quiet'
    BY <2>2, <2>3 DEF Quiet
  <2>5. ASSUME NEW x \in Handlers
        PROVE  Alone(x)'
    <3>1. CASE x = h
      <4>1. ASSUME ~Busy(h), NEW y \in Handlers, y # h
            PROVE  request'[y] = NoRequest
        BY <2>1, <4>1 DEF Busy, Continue, Overtaken
      <4>2. asked'.override = Written(gs \cap groups', requests + 1)
        BY <2>1
      <4> QED  BY <2>2, <2>3, <3>1, <4>1, <4>2 DEF Alone
    <3>2. CASE x # h
      BY <2>1, <3>2, OvertakenMarked DEF Alone
    <3> QED  BY <3>1, <3>2
  <2>6. rule' = asked'.rule
    BY <2>1
  <2> QED  BY <2>4, <2>5, <2>6 DEF Rules
<1>3. ASSUME NEW h \in Handlers, ReplaceGroupRules(h)
      PROVE  Rules'
  <2> DEFINE r == [op |-> "insert", tag |-> request[h].tag, groups |-> request[h].groups,
                   seen |-> override, overtaken |-> request[h].overtaken]
  <2>1. request[h].op = "replace" /\ request' = [request EXCEPT ![h] = r]
    BY <1>3 DEF ReplaceGroupRules, DeleteTeacherGroupRules
  <2>2. UNCHANGED <<rule, override, asked, torn, teacher, groups>>
    BY <1>3 DEF ReplaceGroupRules
  <2>3. /\ r # NoRequest /\ r.op = "insert" /\ r.tag = request[h].tag
        /\ r.groups = request[h].groups /\ r.overtaken = request[h].overtaken
        /\ r.seen = override
    BY DEF NoRequest
  <2>4. request[h] # NoRequest
    BY <2>1 DEF NoRequest
  <2>5. request'[h] = r /\ \A x \in Handlers : x # h => request'[x] = request[x]
    BY <1>0, <2>1
  <2>6. ASSUME NEW x \in Handlers
        PROVE  Alone(x)'
    <3>1. CASE x = h
      BY <2>2, <2>3, <2>4, <2>5, <3>1 DEF Alone, Rules
    <3>2. CASE x # h
      BY <2>2, <2>4, <2>5, <3>2 DEF Alone, Rules
    <3> QED  BY <3>1, <3>2
  <2>7. ~Quiet'
    BY <2>3, <2>5 DEF Quiet
  <2> QED  BY <2>2, <2>6, <2>7 DEF Rules
<1>4. ASSUME NEW h \in Handlers, InsertSalaryGroupRules(h)
      PROVE  Rules'
  <2>1. request[h].op = "insert" /\ request[h] # NoRequest /\ Continue(h, NoRequest)
    BY <1>4 DEF InsertSalaryGroupRules, NoRequest
  <2>2. UNCHANGED <<rule, asked, teacher, groups>> /\ torn' = request[h].overtaken
    BY <1>4 DEF InsertSalaryGroupRules
  <2>3. ASSUME NEW x \in Handlers
        PROVE  Alone(x)'
    <3>1. CASE x = h
      BY <2>1, <3>1 DEF Alone, Continue
    <3>2. CASE x # h
      BY <2>1, <3>2, OvertakenMarked DEF Alone
    <3> QED  BY <3>1, <3>2
  <2>4. ASSUME ~torn'
        PROVE  override' = asked'.override
    <3>1. /\ teacher => asked.override = Written(request[h].groups \cap groups, request[h].tag)
          /\ \A g \in CenterGroups : override[g] = None \/ override[g] = request[h].seen[g]
      BY <2>1, <2>2, <2>4 DEF Rules, Alone
    <3>2. teacher /\ request[h].groups \cap groups = request[h].groups
      BY <1>4 DEF InsertSalaryGroupRules, Refused
    <3>3. Remaining(h) = {}
      BY <3>1 DEF Remaining
    <3>4. override' = [g \in CenterGroups |-> IF g \in request[h].groups THEN request[h].tag ELSE None]
      BY <1>4, <3>3 DEF InsertSalaryGroupRules
    <3>5. override' = Written(request[h].groups, request[h].tag)
      BY <3>4 DEF Written
    <3> QED  BY <2>2, <3>1, <3>2, <3>5
  <2> QED  BY <2>2, <2>3, <2>4 DEF Rules
<1>5. ASSUME NEW h \in Handlers, ReplaceRefused(h) \/ ReplaceFails(h)
      PROVE  Rules'
  <2>1. request' = [request EXCEPT ![h] = NoRequest] /\ torn' = TRUE
    BY <1>5 DEF ReplaceRefused, ReplaceFails
  <2>2. UNCHANGED <<rule, override, asked, teacher, groups>>
    BY <1>5 DEF ReplaceRefused, ReplaceFails
  <2>3. \A x \in Handlers : request'[x] = IF x = h THEN NoRequest ELSE request[x]
    BY <1>0, <2>1
  <2>4. ASSUME NEW x \in Handlers
        PROVE  Alone(x)'
    BY <2>2, <2>3 DEF Alone, Rules
  <2> QED  BY <2>1, <2>2, <2>4 DEF Rules
<1>6. ASSUME NEW g \in CenterGroups, DeleteGroup(g)
      PROVE  Rules'
  <2>1. UNCHANGED <<teacher, rule, request, torn>> /\ groups' = groups \ {g}
    BY <1>6 DEF DeleteGroup
  <2>2. /\ override' = [override EXCEPT ![g] = None]
        /\ asked'.rule = asked.rule
        /\ asked'.override = [asked.override EXCEPT ![g] = None]
    BY <1>0, <1>6 DEF DeleteGroup
  <2>3. ASSUME NEW x \in Handlers
        PROVE  Alone(x)'
    <3>1. ASSUME asked.override = Written(request[x].groups \cap groups, request[x].tag)
          PROVE  asked'.override = Written(request[x].groups \cap groups', request[x].tag)
      BY <2>1, <2>2, <3>1 DEF Written
    <3>2. \A y \in CenterGroups : override'[y] = None \/ override'[y] = override[y]
      BY <1>0, <2>2
    <3> QED  BY <2>1, <3>1, <3>2 DEF Alone, Rules
  <2> QED  BY <2>1, <2>2, <2>3 DEF Rules, Quiet
<1>7. CASE SlipStep \/ UNCHANGED payrollVars
  BY <1>7, RulesFrame DEF SlipStep, CreateSlip, MarkPaid, DeleteSlip, DeleteExpense, ruleVars, payrollVars
<1>8. CASE DeleteTeacher
  <2>1. /\ ~teacher' /\ rule' = None /\ override' = [g \in CenterGroups |-> None]
        /\ asked' = [rule |-> None, override |-> [g \in CenterGroups |-> None]]
        /\ UNCHANGED <<groups, request, torn>>
    BY <1>8 DEF DeleteTeacher
  <2>2. ASSUME NEW x \in Handlers
        PROVE  Alone(x)'
    BY <2>1 DEF Alone, Rules
  <2> QED  BY <2>1, <2>2 DEF Rules, Quiet
<1> QED
  BY <1>1, <1>2, <1>3, <1>4, <1>5, <1>6, <1>7, <1>8 DEF PayrollNext, RuleStep

(* Between requests rule and overrides are what the last ones asked, unless *)
(* a replacement failed or was overtaken: for any groups and any number of  *)
(* requests at a time (SetRule, ReplaceGroupRules).                         *)
THEOREM RulesAsAskedHolds ==
  ASSUME PayrollAssumption
  PROVE  PayrollSpec => []RulesAsAsked
<1> DEFINE IInv == PayrollTypeOK /\ Rules
<1>1. PayrollInit => Rules
  BY DEF PayrollInit, Rules, Alone
<1>2. IInv /\ [PayrollNext]_payrollVars => Rules'
  BY RulesStep
<1>3. IInv => RulesAsAsked
  BY DEF Rules, Quiet, RulesAsAsked
<1> QED  BY <1>1, <1>2, <1>3, PayrollTypeCorrect, PTL DEF PayrollSpec
=============================================================================
