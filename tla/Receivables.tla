----------------------------- MODULE Receivables -----------------------------
(***************************************************************************)
(* Invoices and payments of one customer (modules/otc/invoices.go,         *)
(* payments.go, aging.go): a buyer pays an invoice or an order by card, an *)
(* admin issues invoices, records and refunds payments, and the overdue    *)
(* sweep runs.  Only the invoice and its items share a transaction: every  *)
(* other statement of these handlers commits on its own, so each is a step.*)
(*                                                                         *)
(* The card processor is external.  As migrations/0024 requires of it, it  *)
(* takes the invoice's public id as an idempotency key: it charges the     *)
(* card at most once per invoice and answers a repeat with the same charge.*)
(***************************************************************************)
EXTENDS Integers, Sequences, FiniteSetsExt, Sums

CONSTANTS
  Workers,
  Orders,
  Lines,        \* order -> its items: [row |-> row_total, tax |-> tax_amount]
  Terms,        \* customers.payment_terms_days
  CreditLimit,  \* customers.credit_limit
  Manual,       \* what an admin records: [method, status, amount]
  Kinds,        \* the requests that arrive
  MaxRequests   \* bound: requests and sweeps in a behaviour

Methods     == {"card", "ach", "invoice", "po", "mpesa"}
PayStates   == {"pending", "authorized", "captured", "failed", "refunded"}
OrderStates == {"pending", "on_hold", "cancelled"}
AllKinds    == {"payInvoice", "payOrder", "issue", "manual", "refund"}

ASSUME ReceivablesAssumption ==
  /\ Lines \in [Orders -> Seq([row : Nat, tax : Nat])]
  /\ Terms \in Nat /\ CreditLimit \in Nat
  /\ Manual \subseteq [method : Methods, status : PayStates, amount : Nat]
  /\ Kinds \subseteq AllKinds
  /\ MaxRequests \in Nat

VARIABLES
  orderStatus, \* orders.status, as far as these handlers tell it apart
  invoice,     \* the invoices rows; an invoice's id is its position
  payment,     \* the payments rows, likewise
  charged,     \* invoices the processor has charged a card for
  cut,         \* invoices whose charge or settlement was left unfinished
  pc, req, started

tables == <<orderStatus, invoice, payment, charged, cut>>
vars   == <<tables, pc, req, started>>

NoReq == [kind |-> "none"]

Init ==
  /\ orderStatus = [o \in Orders |-> "pending"]
  /\ invoice = <<>> /\ payment = <<>>
  /\ charged = {} /\ cut = {}
  /\ pc = [w \in Workers |-> "idle"]
  /\ req = [w \in Workers |-> NoReq]
  /\ started = 0

Ids(table) == 1..Len(table)

\* money.Sum over the order's items.
GrandTotal(o) == SumOf([i \in DOMAIN Lines[o] |-> Lines[o][i].row + Lines[o][i].tax])

\* SumCapturedForInvoice
CapturedFor(i, row) == row.invoice = i /\ row.status = "captured"
Captured(i) ==
  SumOf([p \in Ids(payment) |-> IF CapturedFor(i, payment[p]) THEN payment[p].amount ELSE 0])

\* SumOpenInvoices
OpenTotal ==
  SumOf([i \in Ids(invoice) |->
           IF invoice[i].status \in {"issued", "overdue"} THEN invoice[i].total ELSE 0])

Goto(w, label) == pc' = [pc EXCEPT ![w] = label]
Done(w) == Goto(w, "idle") /\ req' = [req EXCEPT ![w] = NoReq]

Arrive(w, label, r) ==
  /\ r.kind \in Kinds
  /\ pc[w] = "idle" /\ started < MaxRequests
  /\ started' = started + 1
  /\ req' = [req EXCEPT ![w] = r]
  /\ Goto(w, label)
  /\ UNCHANGED tables

-----------------------------------------------------------------------------
(* payInvoiceByCard and payMyOrder                                         *)

LoadInvoice(w) ==
  \E i \in Ids(invoice) :
    /\ invoice[i].status \notin {"paid", "void"}
    /\ Arrive(w, "charge", [kind |-> "payInvoice", order |-> invoice[i].order,
                            invoice |-> i, seen |-> 0])

LoadOrder(w) ==
  \E o \in Orders :
    /\ orderStatus[o] \notin {"cancelled", "on_hold"}
    /\ Arrive(w, "find", [kind |-> "payOrder", order |-> o, invoice |-> 0, seen |-> 0])

InvoicesOf(o) == {i \in Ids(invoice) : invoice[i].order = o}

\* (slip) an overdue invoice is not one to pay
PayableIssued(s) == s = "issued"

Payable(s) == s # "void"

\* invoiceForOrder: a paid invoice wins (409), then the oldest that is not
\* void; otherwise one is created.
FindInvoice(w) ==
  /\ pc[w] = "find"
  /\ LET mine == InvoicesOf(req[w].order)
         open == {i \in mine : Payable(invoice[i].status)}
     IN  \/ (\E i \in mine : invoice[i].status = "paid") /\ Done(w)
         \/ /\ \A i \in mine : invoice[i].status # "paid"
            /\ open # {}
            /\ req' = [req EXCEPT ![w].invoice = Min(open)]
            /\ Goto(w, "charge")
         \/ /\ open = {}
            /\ req' = [req EXCEPT ![w].seen = Len(invoice)]
            /\ Goto(w, "create")
  /\ UNCHANGED <<tables, started>>

\* seen is the model's: how many invoices there were when the buyer's payment
\* found none to pay; 0 for the admin's issueInvoice, which looks for none.
NewInvoice(o, seen) ==
  [order |-> o, total |-> GrandTotal(o), status |-> "issued", seen |-> seen]

\* createInvoiceForOrder, for the buyer's payment or the admin's issueInvoice.
CreateInvoice(w) ==
  /\ pc[w] = "create"
  /\ LET o == req[w].order IN
     \/ /\ Lines[o] # <<>>
        /\ invoice' = Append(invoice, NewInvoice(o, req[w].seen))
        /\ IF req[w].kind = "payOrder"
           THEN /\ req' = [req EXCEPT ![w].invoice = Len(invoice) + 1]
                /\ Goto(w, "charge")
           ELSE Done(w)
     \/ Lines[o] = <<>> /\ Done(w) /\ UNCHANGED invoice
  /\ UNCHANGED <<orderStatus, payment, charged, cut, started>>

\* CreateCharge: the card is charged; or it is declined or the processor
\* fails; or the card is charged and the answer is lost.
ChargeCard(w) ==
  /\ pc[w] = "charge"
  /\ LET i == req[w].invoice IN
     \/ charged' = charged \cup {i} /\ Goto(w, "record") /\ UNCHANGED <<cut, req>>
     \/ Done(w) /\ UNCHANGED <<charged, cut>>
     \/ charged' = charged \cup {i} /\ cut' = cut \cup {i} /\ Done(w)
  /\ UNCHANGED <<orderStatus, invoice, payment, started>>

\* (slip) without the unique index every retry records the charge again
RecordedNever(i) == FALSE

\* uq_payments_gateway_ref: the reference is derived from the invoice.
Recorded(i) == \E p \in Ids(payment) : payment[p].invoice = i /\ payment[p].byGateway

\* CreatePayment; error 23505 means this charge is recorded already.
RecordCharge(w) ==
  /\ pc[w] = "record"
  /\ LET i == req[w].invoice IN
     payment' = IF Recorded(i) THEN payment
                ELSE Append(payment, [invoice |-> i, method |-> "card", byGateway |-> TRUE,
                                      amount |-> invoice[i].total, status |-> "captured",
                                      wasCaptured |-> TRUE])
  /\ Goto(w, "settle")
  /\ UNCHANGED <<orderStatus, invoice, charged, cut, req, started>>

-----------------------------------------------------------------------------
(* settleInvoiceIfCovered                                                  *)

Settled(s) == s \in {"paid", "void"}

ReadInvoice(w) ==
  /\ pc[w] = "settle"
  /\ IF Settled(invoice[req[w].invoice].status) THEN Done(w)
     ELSE Goto(w, "sum") /\ UNCHANGED req
  /\ UNCHANGED <<tables, started>>

\* (slip) > instead of >=
CoversMore(captured, total) == captured > total
\* (slip) a partial payment settles
CoversPart(captured, total) == captured > 0
Covers(captured, total) == captured >= total

SumPayments(w) ==
  /\ pc[w] = "sum"
  /\ LET i == req[w].invoice IN
     IF Covers(Captured(i), invoice[i].total) THEN Goto(w, "mark") /\ UNCHANGED req
     ELSE Done(w)
  /\ UNCHANGED <<tables, started>>

\* SetInvoiceStatus names the row by id only.
MarkPaid(w) ==
  /\ pc[w] = "mark"
  /\ invoice' = [invoice EXCEPT ![req[w].invoice].status = "paid"]
  /\ Done(w)
  /\ UNCHANGED <<orderStatus, payment, charged, cut, started>>

-----------------------------------------------------------------------------
(* issueInvoice, recordPayment, refundPayment and the overdue sweep        *)

IssueInvoice(w) ==
  \E o \in Orders : Arrive(w, "create", [kind |-> "issue", order |-> o,
                                             invoice |-> 0, seen |-> 0])

\* Payment on terms needs terms and open invoices within the credit limit.
TermsAllow(method) == method = "invoice" => Terms > 0 /\ OpenTotal <= CreditLimit

RecordPayment(w) ==
  \E i \in Ids(invoice), m \in Manual :
    /\ TermsAllow(m.method)
    /\ Arrive(w, "insert", [kind |-> "manual", order |-> invoice[i].order,
                            invoice |-> i, pay |-> m])

\* (slip) the manual path leaves settling to the card path
AfterInsertNothing(status) == "idle"

AfterInsert(status) == IF status = "captured" THEN "settle" ELSE "idle"

InsertPayment(w) ==
  /\ pc[w] = "insert"
  /\ LET m == req[w].pay
         next == AfterInsert(m.status)
     IN  /\ payment' = Append(payment, [invoice |-> req[w].invoice, method |-> m.method,
                                        byGateway |-> FALSE, amount |-> m.amount,
                                        status |-> m.status,
                                        wasCaptured |-> m.status = "captured"])
         /\ IF next = "idle" THEN Done(w) ELSE Goto(w, next) /\ UNCHANGED req
  /\ UNCHANGED <<orderStatus, invoice, charged, cut, started>>

LoadPayment(w) ==
  \E p \in Ids(payment) :
    /\ payment[p].status \in {"captured", "authorized"}
    /\ Arrive(w, "refund", [kind |-> "refund", payment |-> p])

\* SetPaymentStatus names the row by id only; captured_at stays.
Refund(w) ==
  /\ pc[w] = "refund"
  /\ payment' = [payment EXCEPT ![req[w].payment].status = "refunded"]
  /\ Done(w)
  /\ UNCHANGED <<orderStatus, invoice, charged, cut, started>>

Sweepable(s) == s = "issued"

\* MarkOverdueInvoicesForOrg/Global, one UPDATE: due is what is past due.
Sweep ==
  /\ started < MaxRequests /\ started' = started + 1
  /\ \E due \in SUBSET Ids(invoice) :
       LET hit == {i \in due : Sweepable(invoice[i].status)} IN
       /\ hit # {}
       /\ invoice' = [i \in Ids(invoice) |->
            IF i \in hit THEN [invoice[i] EXCEPT !.status = "overdue"] ELSE invoice[i]]
  /\ UNCHANGED <<orderStatus, payment, charged, cut, pc, req>>

\* The order moves on meanwhile (OrderFulfilment has the whole life cycle).
OrderChanges ==
  /\ started < MaxRequests /\ started' = started + 1
  /\ \E o \in Orders, to \in OrderStates :
       /\ orderStatus[o] # to /\ orderStatus[o] # "cancelled"
       /\ orderStatus' = [orderStatus EXCEPT ![o] = to]
  /\ UNCHANGED <<invoice, payment, charged, cut, pc, req>>

\* The client leaves or a statement fails; what has committed stays.
Fail(w) ==
  /\ pc[w] # "idle"
  /\ cut' = IF pc[w] \in {"record", "settle", "sum", "mark"}
            THEN cut \cup {req[w].invoice} ELSE cut
  /\ Done(w)
  /\ UNCHANGED <<orderStatus, invoice, payment, charged, started>>

Serve(w) ==
  \/ FindInvoice(w) \/ CreateInvoice(w) \/ ChargeCard(w) \/ RecordCharge(w)
  \/ ReadInvoice(w) \/ SumPayments(w) \/ MarkPaid(w) \/ InsertPayment(w) \/ Refund(w)

Receive(w) ==
  \/ LoadInvoice(w) \/ LoadOrder(w) \/ IssueInvoice(w)
  \/ RecordPayment(w) \/ LoadPayment(w)

Rest == (\A w \in Workers : pc[w] = "idle") /\ UNCHANGED vars

Next ==
  \/ \E w \in Workers : Receive(w) \/ Serve(w) \/ Fail(w)
  \/ Sweep \/ OrderChanges \/ Rest

Spec == Init /\ [][Next]_vars

(* A request once started keeps executing; nothing makes requests arrive.  *)
FairSpec == Spec /\ \A w \in Workers : WF_vars(Serve(w))

-----------------------------------------------------------------------------
InvoiceRow == [order : Orders, total : Nat,
               status : {"draft", "issued", "paid", "overdue", "void"}, seen : Nat]
PaymentRow == [invoice : Nat \ {0}, method : Methods, byGateway : BOOLEAN,
               amount : Nat, status : PayStates, wasCaptured : BOOLEAN]
PayRequest == [kind : {"payInvoice", "payOrder", "issue"}, order : Orders, invoice : Nat,
               seen : Nat]
ManualRequest == [kind : {"manual"}, order : Orders, invoice : Nat, pay : Manual]
RefundRequest == [kind : {"refund"}, payment : Nat]

\* What a worker holds at each stage of its handler.
RequestFits(stage, r) ==
  /\ stage = "idle" => r = NoReq
  /\ stage \in {"find", "create"} => r \in PayRequest
  /\ stage \in {"charge", "record"} => r \in PayRequest /\ r.invoice \in Ids(invoice)
  /\ stage = "insert" => r \in ManualRequest /\ r.invoice \in Ids(invoice)
  /\ stage \in {"settle", "sum", "mark"} =>
       r \in PayRequest \cup ManualRequest /\ r.invoice \in Ids(invoice)
  /\ stage = "refund" => r \in RefundRequest /\ r.payment \in Ids(payment)

(* The shape of the tables and of every request in flight.                 *)
TypeOK ==
  /\ orderStatus \in [Orders -> OrderStates]
  /\ invoice \in Seq(InvoiceRow)
  /\ payment \in Seq(PaymentRow)
  /\ \A p \in Ids(payment) : payment[p].invoice \in Ids(invoice)
  /\ charged \subseteq Ids(invoice) /\ cut \subseteq Ids(invoice)
  /\ pc \in [Workers -> {"idle", "find", "create", "charge", "record", "settle",
                         "sum", "mark", "insert", "refund"}]
  /\ req \in [Workers -> {NoReq} \cup PayRequest \cup ManualRequest \cup RefundRequest]
  /\ \A w \in Workers : RequestFits(pc[w], req[w])
  /\ started \in Nat

OnceCapturedFor(i, row) == row.invoice = i /\ row.wasCaptured
EverCaptured(i) ==
  SumOf([p \in Ids(payment) |-> IF OnceCapturedFor(i, payment[p]) THEN payment[p].amount ELSE 0])

(* A paid invoice was covered by captured money at some time, although the *)
(* sum is read, then the status set, and refunds run in between            *)
(* (settleInvoiceIfCovered).                                               *)
PaidWasCovered ==
  \A i \in Ids(invoice) :
    invoice[i].status = "paid" => EverCaptured(i) >= invoice[i].total

Settling(w, i) == pc[w] \in {"settle", "sum", "mark"} /\ req[w].invoice = i

(* No settlement is lost: when captured payments cover an open invoice,    *)
(* some request is still on its way to mark it, or one was cut off.  Two   *)
(* partial payments recorded at the same time each insert before they sum. *)
(* (An invoice over nothing waits for a payment like any other.)           *)
CoveredIsBeingSettled ==
  \A i \in Ids(invoice) :
    Captured(i) >= invoice[i].total /\ ~Settled(invoice[i].status)
        /\ (\E p \in Ids(payment) : CapturedFor(i, payment[p]))
      => i \in cut \/ \E w \in Workers : Settling(w, i)

(* A charge is recorded at most once, for the amount of its invoice, and   *)
(* no card payment is recorded that the processor did not take, however    *)
(* the buyer retries and wherever the handler is cut off.                  *)
RecordedChargesAreReal ==
  \A p \in Ids(payment) : payment[p].byGateway =>
    /\ payment[p].invoice \in charged
    /\ payment[p].amount = invoice[payment[p].invoice].total
    /\ \A q \in Ids(payment) \ {p} :
         payment[q].byGateway => payment[q].invoice # payment[p].invoice

\* What the rows say of each invoice, as the ledger has it.
Billed   == [i \in Ids(invoice) |-> invoice[i].total]
Got      == [i \in Ids(invoice) |-> EverCaptured(i)]
OnRecord == {i \in Ids(invoice) : Recorded(i)}
PaidUp   == {i \in Ids(invoice) : invoice[i].status = "paid"}

Ledger == INSTANCE PaymentLedger WITH
  billed   <- Billed,
  got      <- Got,
  charged  <- charged,
  recorded <- OnRecord,
  paid     <- PaidUp,
  Totals   <- {GrandTotal(o) : o \in Orders},
  Receipts <- {m.amount : m \in {r \in Manual : r.status = "captured"}}

(* However payments, retries, refunds and sweeps overlap and wherever they *)
(* are cut off, each of their statements is a step of the ledger or none:  *)
(* a card pays once and in full, an invoice is settled only when covered   *)
(* and neither reopened nor billed anew (payInvoiceByCard,                 *)
(* settleInvoiceIfCovered, MarkOverdueInvoicesForOrg).                     *)
KeepsLedger == Ledger!Spec

Refunded(i) == \E p \in Ids(payment) : payment[p].invoice = i /\ payment[p].status = "refunded"

(* A charged card ends in a paid invoice, unless the request was cut off   *)
(* or an admin refunded the payment before it was settled.                 *)
ChargeReachesInvoice ==
  \A i \in 1..MaxRequests :
    i \in charged ~> i \in cut \/ (i \in Ids(invoice) /\ (Settled(invoice[i].status) \/ Refunded(i)))

(* The buyer's payment adds a further invoice to an order, on which the    *)
(* card is charged anew, only when the others came while it looked for one *)
(* (payMyOrder is "Idempotent: an already-paid order is a 409").           *)
SecondInvoiceOnlyByOverlap ==
  \A i, j \in Ids(invoice) :
    invoice[i].order = invoice[j].order /\ j < i => j > invoice[i].seen

(* Every table and request is well-formed, and what it says of a card was  *)
(* taken by the processor.                                                 *)
BooksAreReal == TypeOK /\ RecordedChargesAreReal

(* An invoice and its payments agree, in both directions: a paid one was   *)
(* covered, a covered one is on its way to be paid (settleInvoiceIfCovered *)
(* beside refunds, the sweep and other payments).                          *)
PaidMeansCovered == PaidWasCovered /\ CoveredIsBeingSettled

=============================================================================
