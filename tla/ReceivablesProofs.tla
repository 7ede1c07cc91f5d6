-------------------------- MODULE ReceivablesProofs --------------------------
(***************************************************************************)
(* Proofs about Receivables, for any orders, lines, payments and requests. *)
(* Only the insert of an invoice is a transaction of several statements;   *)
(* what the proofs show is therefore carried from statement to statement   *)
(* by what each request holds (RequestFits, Carried).                      *)
(***************************************************************************)
EXTENDS Receivables, SumTheorems, TLAPS

-----------------------------------------------------------------------------
(* Tables.                                                                 *)

LEMMA LongerTable ==
  ASSUME NEW R, NEW t \in Seq(R), NEW r \in R
  PROVE  /\ Append(t, r) \in Seq(R)
         /\ Ids(Append(t, r)) = Ids(t) \cup {Len(t) + 1}
         /\ Len(t) + 1 \notin Ids(t) /\ Len(t) + 1 \in Nat \ {0}
         /\ Append(t, r)[Len(t) + 1] = r
         /\ \A i \in Ids(t) : Append(t, r)[i] = t[i]
BY DEF Ids

LEMMA SameLength ==
  ASSUME NEW R, NEW t \in Seq(R), NEW u \in [Ids(t) -> R]
  PROVE  u \in Seq(R) /\ Ids(u) = Ids(t) /\ DOMAIN t = Ids(t)
<1>1. Len(t) \in Nat /\ Ids(t) = 1..Len(t) /\ DOMAIN t = Ids(t)
  BY DEF Ids
<1>2. u \in Seq(R) /\ Len(u) = Len(t)
  BY <1>1
<1> QED BY <1>1, <1>2 DEF Ids

LEMMA IdsOf ==
  ASSUME NEW R, NEW t \in Seq(R)
  PROVE  /\ Ids(t) = 1..Len(t) /\ Len(t) \in Nat /\ IsFiniteSet(Ids(t))
         /\ Ids(t) = DOMAIN t
         /\ \A i \in Ids(t) : t[i] \in R /\ i \in Nat \ {0} /\ i <= Len(t)
BY FS_Interval DEF Ids

LEMMA TotalNat == \A o \in Orders : GrandTotal(o) \in Nat
<1> SUFFICES ASSUME NEW o \in Orders PROVE GrandTotal(o) \in Nat
  OBVIOUS
<1> DEFINE L == Lines[o]
           f == [i \in DOMAIN L |-> L[i].row + L[i].tax]
<1>1. L \in Seq([row : Nat, tax : Nat])
  BY ReceivablesAssumption
<1>2. IsFiniteSet(DOMAIN L)
  <2>1. DOMAIN L = 1..Len(L) /\ Len(L) \in Nat
    BY <1>1
  <2> QED BY <2>1, FS_Interval
<1>3. f \in [DOMAIN L -> Nat]
  <2> DEFINE R == [row : Nat, tax : Nat]
  <2>0. L \in Seq(R)
    BY <1>1
  <2>1. \A i \in DOMAIN L : L[i] \in R
    <3> HIDE DEF L, R
    <3> QED BY <2>0, IdsOf
  <2> QED BY <2>1
<1>4. SumOf(f) \in Nat
  <2> HIDE DEF f, L
  <2> QED BY <1>2, <1>3, SumNat
<1> QED BY <1>4 DEF GrandTotal

\* The least of a set of ids is one of them.
LEMMA MinOf ==
  ASSUME NEW T, T \subseteq Nat, T # {}
  PROVE  Min(T) \in T
BY LeastOf DEF Min

-----------------------------------------------------------------------------
(* The shape of the state.                                                 *)

Stages == {"idle", "find", "create", "charge", "record", "settle", "sum", "mark",
           "insert", "refund"}
Requests == {NoReq} \cup PayRequest \cup ManualRequest \cup RefundRequest

\* What every worker holds fits its stage; the ids it holds stay ids.
LEMMA FitsOn ==
  ASSUME TypeOK, Ids(invoice) \subseteq Ids(invoice'), Ids(payment) \subseteq Ids(payment'),
         NEW w \in Workers, pc'[w] = pc[w], req'[w] = req[w]
  PROVE  RequestFits(pc[w], req[w])'
BY DEF TypeOK, RequestFits

\* One worker moves to another stage with another request.
LEMMA WorkerMoves ==
  ASSUME TypeOK, Ids(invoice) \subseteq Ids(invoice'), Ids(payment) \subseteq Ids(payment'),
         NEW w \in Workers, NEW stage \in Stages, NEW r \in Requests,
         pc' = [pc EXCEPT ![w] = stage], req' = [req EXCEPT ![w] = r],
         RequestFits(stage, r)'
  PROVE  /\ pc' \in [Workers -> Stages]
         /\ req' \in [Workers -> Requests]
         /\ \A v \in Workers : RequestFits(pc[v], req[v])'
<1>1. pc \in [Workers -> Stages] /\ req \in [Workers -> Requests]
  BY DEF TypeOK, Stages, Requests
<1>2. pc'[w] = stage /\ req'[w] = r
  BY <1>1
<1>3. ASSUME NEW v \in Workers PROVE RequestFits(pc[v], req[v])'
  <2>1. CASE v = w
    BY <1>2, <2>1
  <2>2. CASE v # w
    BY <1>1, <2>2, FitsOn
  <2> QED BY <2>1, <2>2
<1> QED BY <1>1, <1>3

LEMMA GoesIdle ==
  ASSUME TypeOK, Ids(invoice) \subseteq Ids(invoice'), Ids(payment) \subseteq Ids(payment'),
         NEW w \in Workers, Done(w)
  PROVE  /\ pc' \in [Workers -> Stages]
         /\ req' \in [Workers -> Requests]
         /\ \A v \in Workers : RequestFits(pc[v], req[v])'
<1>1. RequestFits("idle", NoReq)'
  BY DEF RequestFits
<1>2. pc' = [pc EXCEPT ![w] = "idle"] /\ req' = [req EXCEPT ![w] = NoReq]
  BY DEF Done, Goto
<1>3. "idle" \in Stages /\ NoReq \in Requests
  BY DEF Stages, Requests
<1> QED BY <1>1, <1>2, <1>3, WorkerMoves

\* A worker that keeps its request.
LEMMA StaysWith ==
  ASSUME TypeOK, NEW w \in Workers, UNCHANGED req
  PROVE  req' = [req EXCEPT ![w] = req[w]] /\ req[w] \in Requests /\ pc[w] \in Stages
BY DEF TypeOK, Requests, Stages

\* TypeOK apart from the workers.
Tables ==
  /\ orderStatus \in [Orders -> OrderStates]
  /\ invoice \in Seq(InvoiceRow)
  /\ payment \in Seq(PaymentRow)
  /\ \A p \in Ids(payment) : payment[p].invoice \in Ids(invoice)
  /\ charged \subseteq Ids(invoice) /\ cut \subseteq Ids(invoice)
  /\ started \in Nat

Handlers ==
  /\ pc \in [Workers -> Stages]
  /\ req \in [Workers -> Requests]
  /\ \A w \in Workers : RequestFits(pc[w], req[w])

LEMMA TypeParts == TypeOK <=> Tables /\ Handlers
BY DEF TypeOK, Tables, Handlers, Stages, Requests

LEMMA InitTypes == Init => TypeOK
<1> SUFFICES ASSUME Init PROVE TypeOK
  OBVIOUS
<1>1. Ids(<<>>) = {}
  BY DEF Ids
<1>2. <<>> \in Seq(InvoiceRow) /\ <<>> \in Seq(PaymentRow)
  OBVIOUS
<1>3. Tables
  BY <1>1, <1>2 DEF Init, Tables, OrderStates
<1>4. Handlers
  BY DEF Init, Handlers, Stages, Requests, RequestFits
<1> QED BY <1>3, <1>4, TypeParts

\* A request arrives: the tables stay as they are.
LEMMA ArriveTypes ==
  ASSUME TypeOK, NEW w \in Workers, NEW label \in Stages, NEW r, Arrive(w, label, r),
         r \in Requests, RequestFits(label, r)
  PROVE  TypeOK'
<1>1. /\ UNCHANGED <<orderStatus, invoice, payment, charged, cut>>
      /\ started' = started + 1
      /\ pc' = [pc EXCEPT ![w] = label] /\ req' = [req EXCEPT ![w] = r]
  BY DEF Arrive, Goto, tables
<1>2. Tables'
  BY <1>1 DEF TypeOK, Tables
<1>3. RequestFits(label, r)'
  BY <1>1 DEF RequestFits
<1>4. Handlers'
  BY <1>1, <1>3, WorkerMoves DEF Handlers
<1> QED BY <1>2, <1>4, TypeParts, PTL

LEMMA ReceiveTypes ==
  ASSUME TypeOK, NEW w \in Workers, Receive(w)
  PROVE  TypeOK'
<1>0. /\ \A i \in Ids(invoice) : invoice[i] \in InvoiceRow /\ i \in Nat
      /\ \A p \in Ids(payment) : p \in Nat
  BY IdsOf DEF TypeOK
<1>1. CASE LoadInvoice(w)
  <2>1. PICK i \in Ids(invoice) :
          Arrive(w, "charge", [kind |-> "payInvoice", order |-> invoice[i].order,
                               invoice |-> i, seen |-> 0])
    BY <1>1 DEF LoadInvoice
  <2> DEFINE r == [kind |-> "payInvoice", order |-> invoice[i].order, invoice |-> i, seen |-> 0]
  <2>2. r \in PayRequest /\ r.invoice = i
    BY <1>0 DEF PayRequest, InvoiceRow
  <2>3. r \in Requests /\ RequestFits("charge", r) /\ "charge" \in Stages
    BY <2>2 DEF Requests, RequestFits, Stages
  <2> QED BY <2>1, <2>3, ArriveTypes
<1>2. CASE LoadOrder(w)
  <2>1. PICK o \in Orders :
          Arrive(w, "find", [kind |-> "payOrder", order |-> o, invoice |-> 0, seen |-> 0])
    BY <1>2 DEF LoadOrder
  <2> DEFINE r == [kind |-> "payOrder", order |-> o, invoice |-> 0, seen |-> 0]
  <2>2. r \in PayRequest
    BY DEF PayRequest
  <2>3. r \in Requests /\ RequestFits("find", r) /\ "find" \in Stages
    BY <2>2 DEF Requests, RequestFits, Stages
  <2> QED BY <2>1, <2>3, ArriveTypes
<1>3. CASE IssueInvoice(w)
  <2>1. PICK o \in Orders :
          Arrive(w, "create", [kind |-> "issue", order |-> o, invoice |-> 0, seen |-> 0])
    BY <1>3 DEF IssueInvoice
  <2> DEFINE r == [kind |-> "issue", order |-> o, invoice |-> 0, seen |-> 0]
  <2>2. r \in PayRequest
    BY DEF PayRequest
  <2>3. r \in Requests /\ RequestFits("create", r) /\ "create" \in Stages
    BY <2>2 DEF Requests, RequestFits, Stages
  <2> QED BY <2>1, <2>3, ArriveTypes
<1>4. CASE RecordPayment(w)
  <2>1. PICK i \in Ids(invoice), m \in Manual :
          Arrive(w, "insert", [kind |-> "manual", order |-> invoice[i].order,
                               invoice |-> i, pay |-> m])
    BY <1>4 DEF RecordPayment
  <2> DEFINE r == [kind |-> "manual", order |-> invoice[i].order, invoice |-> i, pay |-> m]
  <2>2. r \in ManualRequest /\ r.invoice = i
    BY <1>0 DEF ManualRequest, InvoiceRow
  <2>3. r \in Requests /\ RequestFits("insert", r) /\ "insert" \in Stages
    BY <2>2 DEF Requests, RequestFits, Stages
  <2> QED BY <2>1, <2>3, ArriveTypes
<1>5. CASE LoadPayment(w)
  <2>1. PICK p \in Ids(payment) : Arrive(w, "refund", [kind |-> "refund", payment |-> p])
    BY <1>5 DEF LoadPayment
  <2> DEFINE r == [kind |-> "refund", payment |-> p]
  <2>2. r \in RefundRequest /\ r.payment = p
    BY <1>0 DEF RefundRequest
  <2>3. r \in Requests /\ RequestFits("refund", r) /\ "refund" \in Stages
    BY <2>2 DEF Requests, RequestFits, Stages
  <2> QED BY <2>1, <2>3, ArriveTypes
<1> QED BY <1>1, <1>2, <1>3, <1>4, <1>5 DEF Receive

\* A statement that reads only: the tables stay, one worker moves on.
LEMMA ReadTypes ==
  ASSUME TypeOK, NEW w \in Workers, NEW stage \in Stages, NEW r \in Requests,
         UNCHANGED <<tables, started>>,
         pc' = [pc EXCEPT ![w] = stage], req' = [req EXCEPT ![w] = r],
         RequestFits(stage, r)
  PROVE  TypeOK'
<1>1. UNCHANGED <<orderStatus, invoice, payment, charged, cut, started>>
  BY DEF tables
<1>2. Tables'
  BY <1>1 DEF TypeOK, Tables
<1>3. RequestFits(stage, r)'
  BY <1>1 DEF RequestFits
<1>4. Handlers'
  BY <1>1, <1>3, WorkerMoves DEF Handlers
<1> QED BY <1>2, <1>4, TypeParts, PTL

LEMMA DoneTypes ==
  ASSUME TypeOK, NEW w \in Workers, Done(w), UNCHANGED <<tables, started>>
  PROVE  TypeOK'
<1>1. /\ pc' = [pc EXCEPT ![w] = "idle"] /\ req' = [req EXCEPT ![w] = NoReq]
      /\ "idle" \in Stages /\ NoReq \in Requests
  BY DEF Done, Goto, Stages, Requests
<1>2. RequestFits("idle", NoReq)
  BY DEF RequestFits
<1> QED BY <1>1, <1>2, ReadTypes

LEMMA FindTypes ==
  ASSUME TypeOK, NEW w \in Workers, FindInvoice(w)
  PROVE  TypeOK'
<1> DEFINE mine == InvoicesOf(req[w].order)
           open == {i \in mine : Payable(invoice[i].status)}
<1>0. /\ req[w] \in PayRequest /\ DOMAIN req = Workers /\ UNCHANGED <<tables, started>>
      /\ open \subseteq Ids(invoice)
  BY DEF FindInvoice, TypeOK, RequestFits, InvoicesOf
<1>1. CASE Done(w)
  BY <1>0, <1>1, DoneTypes
<1>2. CASE open # {} /\ req' = [req EXCEPT ![w].invoice = Min(open)] /\ Goto(w, "charge")
  <2> DEFINE r == [req[w] EXCEPT !.invoice = Min(open)]
  <2>1. Ids(invoice) \subseteq Nat
    BY DEF Ids
  <2>2. Min(open) \in open
    <3>1. open \subseteq Nat /\ open # {}
      BY <1>0, <1>2, <2>1
    <3> HIDE DEF open
    <3> QED BY <3>1, MinOf
  <2>3. r \in PayRequest /\ r.invoice = Min(open)
    BY <1>0, <2>1, <2>2 DEF PayRequest
  <2>4. r \in Requests /\ RequestFits("charge", r) /\ "charge" \in Stages
    BY <1>0, <2>2, <2>3 DEF Requests, RequestFits, Stages
  <2>5. req' = [req EXCEPT ![w] = r] /\ pc' = [pc EXCEPT ![w] = "charge"]
    BY <1>2 DEF Goto
  <2> HIDE DEF r
  <2> QED BY <1>0, <2>4, <2>5, ReadTypes
<1>3. CASE req' = [req EXCEPT ![w].seen = Len(invoice)] /\ Goto(w, "create")
  <2> DEFINE r == [req[w] EXCEPT !.seen = Len(invoice)]
  <2>1. r \in PayRequest
    <3>1. Len(invoice) \in Nat
      BY DEF TypeOK
    <3> QED BY <1>0, <3>1 DEF PayRequest
  <2>2. r \in Requests /\ RequestFits("create", r) /\ "create" \in Stages
    BY <2>1 DEF Requests, RequestFits, Stages
  <2>3. req' = [req EXCEPT ![w] = r] /\ pc' = [pc EXCEPT ![w] = "create"]
    BY <1>3 DEF Goto
  <2> HIDE DEF r
  <2> QED BY <1>0, <2>2, <2>3, ReadTypes
<1> QED BY <1>1, <1>2, <1>3 DEF FindInvoice

LEMMA NewInvoiceRow ==
  ASSUME TypeOK, NEW w \in Workers, req[w] \in PayRequest
  PROVE  NewInvoice(req[w].order, req[w].seen) \in InvoiceRow
BY TotalNat DEF PayRequest, NewInvoice, InvoiceRow

LEMMA CreateTypes ==
  ASSUME TypeOK, NEW w \in Workers, CreateInvoice(w)
  PROVE  TypeOK'
<1> DEFINE row == NewInvoice(req[w].order, req[w].seen)
<1>0. /\ req[w] \in PayRequest /\ DOMAIN req = Workers
      /\ UNCHANGED <<orderStatus, payment, charged, cut, started>>
  BY DEF CreateInvoice, TypeOK, RequestFits
<1>1. CASE Done(w) /\ UNCHANGED invoice
  BY <1>0, <1>1, DoneTypes DEF tables
<1>2. CASE invoice' = Append(invoice, row)
  <2>1. row \in InvoiceRow
    BY <1>0, NewInvoiceRow
  <2>2. /\ invoice' \in Seq(InvoiceRow) /\ Len(invoice) + 1 \in Nat
        /\ Ids(invoice)' = Ids(invoice) \cup {Len(invoice) + 1}
    <3> HIDE DEF row
    <3>1. invoice \in Seq(InvoiceRow)
      BY DEF TypeOK
    <3> QED BY <1>2, <2>1, <3>1, LongerTable
  <2>3. Ids(invoice) \subseteq Ids(invoice') /\ Ids(payment) \subseteq Ids(payment')
    BY <1>0, <2>2
  <2>4. Tables'
    BY <1>0, <2>2, <2>3 DEF TypeOK, Tables
  <2>5. CASE Done(w)
    <3>1. Handlers'
      BY <2>3, <2>5, GoesIdle DEF Handlers
    <3> QED BY <2>4, <3>1, TypeParts, PTL
  <2>6. CASE req' = [req EXCEPT ![w].invoice = Len(invoice) + 1] /\ Goto(w, "charge")
    <3>0. /\ [req[w] EXCEPT !.invoice = Len(invoice) + 1] \in PayRequest
          /\ [req[w] EXCEPT !.invoice = Len(invoice) + 1].invoice = Len(invoice) + 1
      BY <1>0, <2>2 DEF PayRequest
    <3>1. PICK r \in PayRequest : /\ r = [req[w] EXCEPT !.invoice = Len(invoice) + 1]
                                  /\ r.invoice = Len(invoice) + 1
      BY <3>0
    <3>2. r \in Requests /\ RequestFits("charge", r)' /\ "charge" \in Stages
      BY <2>2, <3>1 DEF Requests, RequestFits, Stages
    <3>3. req' = [req EXCEPT ![w] = r] /\ pc' = [pc EXCEPT ![w] = "charge"]
      BY <2>6, <3>1 DEF Goto
    <3>4. Handlers'
      BY <2>3, <3>2, <3>3, WorkerMoves DEF Handlers
    <3> QED BY <2>4, <3>4, TypeParts, PTL
  <2> QED BY <1>2, <2>5, <2>6 DEF CreateInvoice
<1> QED BY <1>1, <1>2 DEF CreateInvoice

LEMMA ChargeTypes ==
  ASSUME TypeOK, NEW w \in Workers, ChargeCard(w)
  PROVE  TypeOK'
<1>0. /\ req[w] \in PayRequest /\ req[w].invoice \in Ids(invoice) /\ pc[w] = "charge"
      /\ UNCHANGED <<orderStatus, invoice, payment, started>>
  BY DEF ChargeCard, TypeOK, RequestFits
<1>1. Tables'
  <2>1. charged' \subseteq charged \cup {req[w].invoice} /\ cut' \subseteq cut \cup {req[w].invoice}
    BY DEF ChargeCard
  <2> QED BY <1>0, <2>1 DEF TypeOK, Tables
<1>2. CASE Done(w)
  <2>1. Handlers'
    BY <1>0, <1>2, GoesIdle DEF Handlers
  <2> QED BY <1>1, <2>1, TypeParts, PTL
<1>3. CASE Goto(w, "record") /\ UNCHANGED req
  <2>1. RequestFits("record", req[w])' /\ "record" \in Stages
    BY <1>0, <1>3 DEF RequestFits, Stages
  <2>2. PICK r \in Requests : r = req[w]
    BY DEF TypeOK, Requests
  <2>3. RequestFits("record", r)' /\ req' = [req EXCEPT ![w] = r]
    BY <1>3, <2>1, <2>2, StaysWith
  <2>4. pc' = [pc EXCEPT ![w] = "record"]
    BY <1>3 DEF Goto
  <2>5. Handlers'
    BY <1>0, <2>1, <2>3, <2>4, WorkerMoves DEF Handlers
  <2> QED BY <1>1, <2>5, TypeParts, PTL
<1> QED BY <1>2, <1>3 DEF ChargeCard

\* A worker that moves on with the request it has.
LEMMA KeepsRequest ==
  ASSUME TypeOK, Ids(invoice) \subseteq Ids(invoice'), Ids(payment) \subseteq Ids(payment'),
         NEW w \in Workers, NEW stage \in Stages, Goto(w, stage), UNCHANGED req,
         RequestFits(stage, req[w])
  PROVE  Handlers'
<1>1. PICK r \in Requests : r = req[w]
  BY DEF TypeOK, Requests
<1>2. RequestFits(stage, r)'
  BY <1>1 DEF RequestFits
<1>3. req' = [req EXCEPT ![w] = r]
  BY <1>1, StaysWith
<1>4. pc' = [pc EXCEPT ![w] = stage]
  BY DEF Goto
<1> QED BY <1>2, <1>3, <1>4, WorkerMoves DEF Handlers

\* One more payment of an invoice there is.
LEMMA PaymentAdded ==
  ASSUME TypeOK, NEW row \in PaymentRow, row.invoice \in Ids(invoice),
         payment' = Append(payment, row),
         UNCHANGED <<orderStatus, invoice, charged, cut, started>>
  PROVE  Tables' /\ Ids(payment) \subseteq Ids(payment')
<1>0. payment \in Seq(PaymentRow)
  BY DEF TypeOK
<1>1. /\ payment' \in Seq(PaymentRow)
      /\ Ids(payment') = Ids(payment) \cup {Len(payment) + 1}
      /\ payment'[Len(payment) + 1] = row
      /\ \A i \in Ids(payment) : payment'[i] = payment[i]
  <2>1. payment' \in Seq(PaymentRow)
    BY <1>0, LongerTable
  <2>2. Ids(payment') = Ids(payment) \cup {Len(payment) + 1}
    BY <1>0, LongerTable
  <2>3. payment'[Len(payment) + 1] = row
    BY <1>0, LongerTable
  <2>4. \A i \in Ids(payment) : payment'[i] = payment[i]
    BY <1>0 DEF Ids
  <2> QED BY <2>1, <2>2, <2>3, <2>4
<1>2. \A p \in Ids(payment') : payment'[p].invoice \in Ids(invoice)
  BY <1>1 DEF TypeOK
<1> QED BY <1>1, <1>2 DEF TypeOK, Tables

\* What RecordCharge inserts.
ChargeRow(i) ==
  [invoice |-> i, method |-> "card", byGateway |-> TRUE, amount |-> invoice[i].total,
   status |-> "captured", wasCaptured |-> TRUE]

\* What InsertPayment inserts.
ManualRow(i, m) ==
  [invoice |-> i, method |-> m.method, byGateway |-> FALSE, amount |-> m.amount,
   status |-> m.status, wasCaptured |-> m.status = "captured"]

LEMMA RowTypes ==
  ASSUME TypeOK
  PROVE  /\ \A i \in Ids(invoice) : ChargeRow(i) \in PaymentRow
         /\ \A i \in Ids(invoice) : \A m \in Manual : ManualRow(i, m) \in PaymentRow
<1>1. \A i \in Ids(invoice) : invoice[i] \in InvoiceRow /\ i \in Nat \ {0}
  BY IdsOf DEF TypeOK
<1>2. \A i \in Ids(invoice) : invoice[i].total \in Nat
  BY <1>1 DEF InvoiceRow
<1>3. ASSUME NEW i \in Ids(invoice) PROVE ChargeRow(i) \in PaymentRow
  BY <1>1, <1>2 DEF ChargeRow, PaymentRow, Methods, PayStates
<1>4. ASSUME NEW i \in Ids(invoice), NEW m \in Manual PROVE ManualRow(i, m) \in PaymentRow
  <2>1. m \in [method : Methods, status : PayStates, amount : Nat]
    BY ReceivablesAssumption
  <2>2. (m.status = "captured") \in BOOLEAN
    OBVIOUS
  <2> QED BY <1>1, <2>1, <2>2 DEF ManualRow, PaymentRow
<1> QED BY <1>3, <1>4

LEMMA RecordTypes ==
  ASSUME TypeOK, NEW w \in Workers, RecordCharge(w)
  PROVE  TypeOK'
<1>0. /\ req[w] \in PayRequest /\ req[w].invoice \in Ids(invoice) /\ pc[w] = "record"
      /\ UNCHANGED <<orderStatus, invoice, charged, cut, started, req>>
      /\ Goto(w, "settle")
  BY DEF RecordCharge, TypeOK, RequestFits
<1>1. Tables' /\ Ids(payment) \subseteq Ids(payment')
  <2>1. CASE UNCHANGED payment
    BY <1>0, <2>1 DEF TypeOK, Tables
  <2>2. CASE payment' = Append(payment, ChargeRow(req[w].invoice))
    <3>1. ChargeRow(req[w].invoice) \in PaymentRow /\ ChargeRow(req[w].invoice).invoice \in Ids(invoice)
      BY <1>0, RowTypes DEF ChargeRow
    <3> QED BY <1>0, <2>2, <3>1, PaymentAdded
  <2> QED BY <2>1, <2>2 DEF RecordCharge, ChargeRow
<1>2. RequestFits("settle", req[w]) /\ "settle" \in Stages
  BY <1>0 DEF RequestFits, Stages
<1>3. Handlers'
  BY <1>0, <1>1, <1>2, KeepsRequest
<1> QED BY <1>1, <1>3, TypeParts, PTL

LEMMA InsertTypes ==
  ASSUME TypeOK, NEW w \in Workers, InsertPayment(w)
  PROVE  TypeOK'
<1>0. /\ req[w] \in ManualRequest /\ req[w].invoice \in Ids(invoice) /\ pc[w] = "insert"
      /\ UNCHANGED <<orderStatus, invoice, charged, cut, started>>
      /\ payment' = Append(payment, ManualRow(req[w].invoice, req[w].pay))
  BY DEF InsertPayment, TypeOK, RequestFits, ManualRow
<1>1. Tables' /\ Ids(payment) \subseteq Ids(payment')
  <2>1. /\ ManualRow(req[w].invoice, req[w].pay) \in PaymentRow
        /\ ManualRow(req[w].invoice, req[w].pay).invoice \in Ids(invoice)
    <3>1. req[w].pay \in Manual
      BY <1>0 DEF ManualRequest
    <3> QED BY <1>0, <3>1, RowTypes DEF ManualRow
  <2> QED BY <1>0, <2>1, PaymentAdded
<1>2. CASE Done(w)
  <2>1. Handlers'
    BY <1>0, <1>1, <1>2, GoesIdle DEF Handlers
  <2> QED BY <1>1, <2>1, TypeParts, PTL
<1>3. CASE Goto(w, "settle") /\ UNCHANGED req
  <2>1. RequestFits("settle", req[w]) /\ "settle" \in Stages
    BY <1>0 DEF RequestFits, Stages
  <2>2. Handlers'
    BY <1>0, <1>1, <1>3, <2>1, KeepsRequest
  <2> QED BY <1>1, <2>2, TypeParts, PTL
<1> QED BY <1>2, <1>3 DEF InsertPayment, AfterInsert

\* The three steps of settleInvoiceIfCovered.
LEMMA SettleTypes ==
  ASSUME TypeOK, NEW w \in Workers, ReadInvoice(w) \/ SumPayments(w) \/ MarkPaid(w)
  PROVE  TypeOK'
<1>0. /\ req[w] \in PayRequest \cup ManualRequest /\ req[w].invoice \in Ids(invoice)
      /\ UNCHANGED <<orderStatus, payment, charged, cut, started>>
  BY DEF ReadInvoice, SumPayments, MarkPaid, TypeOK, RequestFits, tables
<1>1. CASE Done(w) /\ UNCHANGED invoice
  BY <1>0, <1>1, DoneTypes DEF tables
<1>2. CASE UNCHANGED <<invoice, req>> /\ \E stage \in {"sum", "mark"} : Goto(w, stage)
  <2>1. Tables'
    BY <1>0, <1>2 DEF TypeOK, Tables
  <2>2. PICK stage \in {"sum", "mark"} : Goto(w, stage)
    BY <1>2
  <2>3. stage \in Stages /\ RequestFits(stage, req[w])
    BY <1>0 DEF Stages, RequestFits
  <2>4. Handlers'
    BY <1>0, <1>2, <2>2, <2>3, KeepsRequest
  <2> QED BY <2>1, <2>4, TypeParts, PTL
<1>3. CASE MarkPaid(w)
  <2>1. invoice' \in [Ids(invoice) -> InvoiceRow]
    <3>1. invoice \in [Ids(invoice) -> InvoiceRow]
      BY IdsOf DEF TypeOK
    <3> QED BY <1>0, <1>3, <3>1 DEF MarkPaid, InvoiceRow
  <2>2. invoice' \in Seq(InvoiceRow) /\ Ids(invoice') = Ids(invoice)
    BY <2>1, SameLength DEF TypeOK
  <2>3. Tables'
    BY <1>0, <2>2 DEF TypeOK, Tables
  <2>4. Handlers'
    BY <1>0, <1>3, <2>2, GoesIdle DEF Handlers, MarkPaid
  <2> QED BY <2>3, <2>4, TypeParts, PTL
<1> QED BY <1>1, <1>2, <1>3 DEF ReadInvoice, SumPayments, tables

LEMMA RefundTypes ==
  ASSUME TypeOK, NEW w \in Workers, Refund(w)
  PROVE  TypeOK'
<1>0. req[w].payment \in Ids(payment) /\ UNCHANGED <<orderStatus, invoice, charged, cut, started>>
  BY DEF Refund, TypeOK, RequestFits
<1>1. payment \in [Ids(payment) -> PaymentRow]
  BY IdsOf DEF TypeOK
<1>2. payment' \in [Ids(payment) -> PaymentRow]
  BY <1>0, <1>1 DEF Refund, PaymentRow, PayStates
<1>3. payment' \in Seq(PaymentRow) /\ Ids(payment') = Ids(payment)
  BY <1>2, SameLength DEF TypeOK
<1>4. \A p \in Ids(payment) : payment'[p].invoice = payment[p].invoice
  BY <1>0, <1>1 DEF Refund, PaymentRow
<1>5. Tables'
  BY <1>0, <1>3, <1>4 DEF TypeOK, Tables
<1>6. Handlers'
  BY <1>0, <1>3, GoesIdle DEF Handlers, Refund
<1> QED BY <1>5, <1>6, TypeParts, PTL

LEMMA FailTypes ==
  ASSUME TypeOK, NEW w \in Workers, Fail(w)
  PROVE  TypeOK'
<1>1. UNCHANGED <<orderStatus, invoice, payment, charged, started>> /\ Done(w)
  BY DEF Fail
<1>2. cut' \subseteq Ids(invoice)
  BY DEF Fail, TypeOK, RequestFits
<1>3. Tables'
  BY <1>1, <1>2 DEF TypeOK, Tables
<1>4. Handlers'
  BY <1>1, GoesIdle DEF Handlers
<1> QED BY <1>3, <1>4, TypeParts, PTL

LEMMA SweepRows ==
  ASSUME TypeOK, Sweep
  PROVE  invoice' \in [Ids(invoice) -> InvoiceRow]
<1>1. invoice \in [Ids(invoice) -> InvoiceRow]
  BY IdsOf DEF TypeOK
<1> QED BY <1>1 DEF Sweep, InvoiceRow

LEMMA SweepTypes ==
  ASSUME TypeOK, Sweep
  PROVE  TypeOK'
<1>0. UNCHANGED <<orderStatus, payment, charged, cut, pc, req>> /\ started' = started + 1
  BY DEF Sweep
<1>1. invoice' \in [Ids(invoice) -> InvoiceRow]
  BY SweepRows
<1>2. invoice' \in Seq(InvoiceRow) /\ Ids(invoice') = Ids(invoice)
  BY <1>1, SameLength DEF TypeOK
<1>3. Tables'
  BY <1>0, <1>2 DEF TypeOK, Tables
<1>4. Handlers'
  BY <1>0, <1>2, FitsOn DEF TypeOK, Handlers, Stages, Requests
<1> QED BY <1>3, <1>4, TypeParts, PTL

LEMMA NextTypes == TypeOK /\ [Next]_vars => TypeOK'
<1> SUFFICES ASSUME TypeOK, [Next]_vars PROVE TypeOK'
  OBVIOUS
<1>1. ASSUME NEW w \in Workers, Serve(w) PROVE TypeOK'
  BY <1>1, FindTypes, CreateTypes, ChargeTypes, RecordTypes, SettleTypes, InsertTypes,
     RefundTypes DEF Serve
<1>2. ASSUME NEW w \in Workers, Receive(w) \/ Fail(w) PROVE TypeOK'
  BY <1>2, ReceiveTypes, FailTypes
<1>3. CASE Sweep
  BY <1>3, SweepTypes
<1>4. CASE OrderChanges
  <2>1. /\ orderStatus' \in [Orders -> OrderStates] /\ started' = started + 1
        /\ UNCHANGED <<invoice, payment, charged, cut, pc, req>>
    BY <1>4 DEF OrderChanges, TypeOK
  <2>2. Tables'
    BY <2>1 DEF TypeOK, Tables
  <2>3. Handlers'
    BY <2>1, FitsOn DEF TypeOK, Handlers, Stages, Requests
  <2> QED BY <2>2, <2>3, TypeParts, PTL
<1>5. CASE Rest \/ UNCHANGED vars
  <2>1. UNCHANGED <<orderStatus, invoice, payment, charged, cut, pc, req, started>>
    BY <1>5 DEF Rest, vars, tables
  <2>2. Tables'
    BY <2>1 DEF TypeOK, Tables
  <2>3. Handlers'
    BY <2>1, FitsOn DEF TypeOK, Handlers, Stages, Requests
  <2> QED BY <2>2, <2>3, TypeParts, PTL
<1> QED BY <1>1, <1>2, <1>3, <1>4, <1>5 DEF Next

LEMMA SpecTypes == Spec => []TypeOK
BY InitTypes, NextTypes, PTL DEF Spec

-----------------------------------------------------------------------------
(* What a step may do to the rows that are there and to the workers.       *)

\* A handler's step touches its own worker only.
LEMMA OthersStay ==
  ASSUME TypeOK, [Next]_vars, NEW w \in Workers
  PROVE  \/ pc'[w] = pc[w] /\ req'[w] = req[w]
         \/ Receive(w) \/ Serve(w) \/ Fail(w)
<1>0. pc \in [Workers -> Stages] /\ req \in [Workers -> Requests]
  BY DEF TypeOK, Stages, Requests
<1>1. ASSUME NEW v \in Workers, v # w, Receive(v)
      PROVE  pc'[w] = pc[w] /\ req'[w] = req[w]
  BY <1>0, <1>1 DEF Receive, LoadInvoice, LoadOrder, IssueInvoice, RecordPayment, LoadPayment,
     Arrive, Goto
<1>2. ASSUME NEW v \in Workers, v # w, Serve(v) \/ Fail(v)
      PROVE  pc'[w] = pc[w] /\ req'[w] = req[w]
  BY <1>0, <1>2 DEF Serve, Fail, FindInvoice, CreateInvoice, ChargeCard, RecordCharge,
     ReadInvoice, SumPayments, MarkPaid, InsertPayment, Refund, Done, Goto
<1>3. CASE Sweep \/ OrderChanges \/ Rest \/ UNCHANGED vars
  BY <1>3 DEF Sweep, OrderChanges, Rest, vars
<1> QED BY <1>1, <1>2, <1>3 DEF Next

\* A card charged and a request cut off stay on record.
LEMMA NothingForgotten ==
  ASSUME TypeOK, [Next]_vars
  PROVE  charged \subseteq charged' /\ cut \subseteq cut'
<1>1. ASSUME NEW v \in Workers, Receive(v)
      PROVE  charged \subseteq charged' /\ cut \subseteq cut'
  BY <1>1 DEF Receive, LoadInvoice, LoadOrder, IssueInvoice, RecordPayment, LoadPayment,
     Arrive, tables
<1>2. ASSUME NEW v \in Workers, Serve(v) \/ Fail(v)
      PROVE  charged \subseteq charged' /\ cut \subseteq cut'
  BY <1>2 DEF Serve, Fail, FindInvoice, CreateInvoice, ChargeCard, RecordCharge,
     ReadInvoice, SumPayments, MarkPaid, InsertPayment, Refund, tables
<1>3. CASE Sweep \/ OrderChanges \/ Rest \/ UNCHANGED vars
  BY <1>3 DEF Sweep, OrderChanges, Rest, vars, tables
<1> QED BY <1>1, <1>2, <1>3 DEF Next

\* An invoice changes its status only: a sweep takes an issued one to overdue,
\* a settlement any to paid.
InvoiceKept(i) ==
  /\ i \in Ids(invoice')
  /\ invoice'[i].order = invoice[i].order /\ invoice'[i].total = invoice[i].total
  /\ invoice'[i].seen = invoice[i].seen
  /\ \/ invoice'[i].status = invoice[i].status
     \/ invoice[i].status = "issued" /\ invoice'[i].status = "overdue"
     \/ /\ invoice'[i].status = "paid"
        /\ \E w \in Workers : pc[w] = "mark" /\ req[w].invoice = i

\* A new one is what a request in CreateInvoice was to insert.
InvoiceNew(i) ==
  /\ i = Len(invoice) + 1
  /\ \E w \in Workers : /\ pc[w] = "create"
                        /\ invoice'[i] = NewInvoice(req[w].order, req[w].seen)

LEMMA InvoicesStep ==
  ASSUME TypeOK, [Next]_vars
  PROVE  /\ \A i \in Ids(invoice) : InvoiceKept(i)
         /\ \A i \in Ids(invoice') \ Ids(invoice) : InvoiceNew(i)
<1> DEFINE G == /\ \A i \in Ids(invoice) : InvoiceKept(i)
                /\ \A i \in Ids(invoice') \ Ids(invoice) : InvoiceNew(i)
<1>0. invoice \in Seq(InvoiceRow) /\ invoice \in [Ids(invoice) -> InvoiceRow]
  BY IdsOf DEF TypeOK
<1>1. CASE UNCHANGED invoice
  BY <1>1 DEF InvoiceKept
<1>2. ASSUME NEW w \in Workers, CreateInvoice(w), ~ UNCHANGED invoice PROVE G
  <2> DEFINE row == NewInvoice(req[w].order, req[w].seen)
  <2>1. pc[w] = "create" /\ invoice' = Append(invoice, row)
    BY <1>2 DEF CreateInvoice
  <2>2. row \in InvoiceRow
    <3>1. req[w] \in PayRequest
      BY <2>1 DEF TypeOK, RequestFits
    <3> QED BY <3>1, NewInvoiceRow
  <2> HIDE DEF row
  <2>3. /\ Ids(invoice') = Ids(invoice) \cup {Len(invoice) + 1}
        /\ invoice'[Len(invoice) + 1] = row
    BY <1>0, <2>1, <2>2, LongerTable
  <2>4. \A i \in Ids(invoice) : invoice'[i] = invoice[i]
    BY <1>0, <2>1, <2>2 DEF Ids
  <2>5. \A i \in Ids(invoice) : InvoiceKept(i)
    BY <2>3, <2>4 DEF InvoiceKept
  <2> QED BY <2>1, <2>3, <2>5 DEF InvoiceNew, row
<1>3. ASSUME NEW w \in Workers, MarkPaid(w) PROVE G
  <2>1. pc[w] = "mark" /\ invoice' = [invoice EXCEPT ![req[w].invoice].status = "paid"]
    BY <1>3 DEF MarkPaid
  <2>2. invoice' \in [Ids(invoice) -> InvoiceRow]
    BY <1>0, <2>1 DEF InvoiceRow
  <2>3. Ids(invoice') = Ids(invoice)
    BY <1>0, <2>2, SameLength
  <2>4. \A i \in Ids(invoice) : InvoiceKept(i)
    BY <1>0, <2>1, <2>3 DEF InvoiceKept, InvoiceRow
  <2> QED BY <2>3, <2>4
<1>4. CASE Sweep
  <2>1. invoice' \in [Ids(invoice) -> InvoiceRow]
    BY <1>4, SweepRows
  <2>2. Ids(invoice') = Ids(invoice)
    BY <1>0, <2>1, SameLength
  <2>3. \A i \in Ids(invoice) : InvoiceKept(i)
    BY <1>0, <1>4, <2>2 DEF Sweep, Sweepable, InvoiceKept, InvoiceRow
  <2> QED BY <2>2, <2>3
<1>5. ASSUME NEW w \in Workers, Receive(w) \/ Fail(w) PROVE UNCHANGED invoice
  BY <1>5 DEF Receive, Fail, LoadInvoice, LoadOrder, IssueInvoice, RecordPayment, LoadPayment,
     Arrive, tables
<1>6. ASSUME NEW w \in Workers, Serve(w), ~ CreateInvoice(w), ~ MarkPaid(w)
      PROVE UNCHANGED invoice
  BY <1>6 DEF Serve, FindInvoice, ChargeCard, RecordCharge, ReadInvoice, SumPayments,
     InsertPayment, Refund, tables
<1>7. CASE OrderChanges \/ Rest \/ UNCHANGED vars
  BY <1>7, <1>1 DEF OrderChanges, Rest, vars, tables
<1> HIDE DEF G
<1>8. G
  BY <1>1, <1>2, <1>3, <1>4, <1>5, <1>6, <1>7 DEF Next, G
<1> QED BY <1>8 DEF G

\* A payment changes its status only, and only to refunded.
PaymentKept(p) ==
  /\ p \in Ids(payment')
  /\ payment'[p].invoice = payment[p].invoice /\ payment'[p].amount = payment[p].amount
  /\ payment'[p].byGateway = payment[p].byGateway
  /\ payment'[p].wasCaptured = payment[p].wasCaptured
  /\ payment'[p].status = payment[p].status \/ payment'[p].status = "refunded"

\* A new one was inserted for a request that goes on to settle its invoice,
\* if it was captured.
PaymentNew(p) ==
  /\ p = Len(payment) + 1
  /\ \E w \in Workers :
       /\ \/ /\ pc[w] = "record" /\ ~ Recorded(req[w].invoice)
             /\ payment'[p] = ChargeRow(req[w].invoice)
          \/ pc[w] = "insert" /\ payment'[p] = ManualRow(req[w].invoice, req[w].pay)
       /\ payment'[p].status = "captured" => pc'[w] = "settle" /\ req'[w] = req[w]

LEMMA PaymentsStep ==
  ASSUME TypeOK, [Next]_vars
  PROVE  /\ \A p \in Ids(payment) : PaymentKept(p)
         /\ \A p \in Ids(payment') \ Ids(payment) : PaymentNew(p)
<1> DEFINE G == /\ \A p \in Ids(payment) : PaymentKept(p)
                /\ \A p \in Ids(payment') \ Ids(payment) : PaymentNew(p)
<1>0. /\ payment \in Seq(PaymentRow) /\ payment \in [Ids(payment) -> PaymentRow]
      /\ DOMAIN pc = Workers
  BY IdsOf DEF TypeOK
<1>1. CASE UNCHANGED payment
  BY <1>1 DEF PaymentKept
<1>2. ASSUME NEW row \in PaymentRow, payment' = Append(payment, row)
      PROVE  /\ \A p \in Ids(payment) : PaymentKept(p)
             /\ \A p \in Ids(payment') \ Ids(payment) : p = Len(payment) + 1 /\ payment'[p] = row
  <2>3. /\ Ids(payment') = Ids(payment) \cup {Len(payment) + 1}
        /\ payment'[Len(payment) + 1] = row
    BY <1>0, <1>2, LongerTable
  <2>4. \A p \in Ids(payment) : payment'[p] = payment[p]
    BY <1>0, <1>2 DEF Ids
  <2>5. \A p \in Ids(payment) : PaymentKept(p)
    BY <2>3, <2>4 DEF PaymentKept
  <2> QED BY <2>3, <2>5
<1>3. ASSUME NEW w \in Workers, RecordCharge(w), ~ UNCHANGED payment PROVE G
  <2> DEFINE row == ChargeRow(req[w].invoice)
  <2>1. /\ pc[w] = "record" /\ ~ Recorded(req[w].invoice)
        /\ payment' = Append(payment, row)
        /\ pc'[w] = "settle" /\ req'[w] = req[w]
    BY <1>0, <1>3 DEF RecordCharge, ChargeRow, Goto
  <2>2. row \in PaymentRow
    <3>1. req[w].invoice \in Ids(invoice)
      BY <2>1 DEF TypeOK, RequestFits
    <3> QED BY <3>1, RowTypes
  <2> HIDE DEF row
  <2>3. /\ \A p \in Ids(payment) : PaymentKept(p)
        /\ \A p \in Ids(payment') \ Ids(payment) : p = Len(payment) + 1 /\ payment'[p] = row
    BY <1>2, <2>1, <2>2
  <2> QED BY <2>1, <2>3 DEF PaymentNew, row
<1>4. ASSUME NEW w \in Workers, InsertPayment(w) PROVE G
  <2> DEFINE row == ManualRow(req[w].invoice, req[w].pay)
  <2>1. /\ pc[w] = "insert" /\ payment' = Append(payment, row)
        /\ row.status = "captured" => pc'[w] = "settle" /\ req'[w] = req[w]
    BY <1>0, <1>4 DEF InsertPayment, ManualRow, Goto, AfterInsert
  <2>2. row \in PaymentRow
    <3>1. req[w].invoice \in Ids(invoice) /\ req[w].pay \in Manual
      BY <2>1 DEF TypeOK, RequestFits, ManualRequest
    <3> QED BY <3>1, RowTypes
  <2> HIDE DEF row
  <2>3. /\ \A p \in Ids(payment) : PaymentKept(p)
        /\ \A p \in Ids(payment') \ Ids(payment) : p = Len(payment) + 1 /\ payment'[p] = row
    BY <1>2, <2>1, <2>2
  <2> QED BY <2>1, <2>3 DEF PaymentNew, row
<1>5. ASSUME NEW w \in Workers, Refund(w) PROVE G
  <2>1. payment' = [payment EXCEPT ![req[w].payment].status = "refunded"]
    BY <1>5 DEF Refund
  <2>2. payment' \in [Ids(payment) -> PaymentRow]
    BY <1>0, <2>1 DEF PaymentRow, PayStates
  <2>3. Ids(payment') = Ids(payment)
    BY <1>0, <2>2, SameLength
  <2>4. \A p \in Ids(payment) : PaymentKept(p)
    BY <1>0, <2>1, <2>3 DEF PaymentKept, PaymentRow
  <2> QED BY <2>3, <2>4
<1>6. ASSUME NEW w \in Workers, Receive(w) \/ Fail(w) PROVE UNCHANGED payment
  BY <1>6 DEF Receive, Fail, LoadInvoice, LoadOrder, IssueInvoice, RecordPayment, LoadPayment,
     Arrive, tables
<1>7. ASSUME NEW w \in Workers, Serve(w), ~ RecordCharge(w), ~ InsertPayment(w), ~ Refund(w)
      PROVE UNCHANGED payment
  BY <1>7 DEF Serve, FindInvoice, CreateInvoice, ChargeCard, ReadInvoice, SumPayments,
     MarkPaid, tables
<1>8. CASE Sweep \/ OrderChanges \/ Rest \/ UNCHANGED vars
  BY <1>8, <1>1 DEF Sweep, OrderChanges, Rest, vars, tables
<1> HIDE DEF G
<1>9. G
  BY <1>1, <1>3, <1>4, <1>5, <1>6, <1>7, <1>8 DEF Next, G
<1> QED BY <1>9 DEF G

-----------------------------------------------------------------------------
(* Charges.                                                                *)

\* Every recorded charge is one the processor took: the request that is about
\* to record it has charged the card.
ChargeInv ==
  /\ RecordedChargesAreReal
  /\ \A w \in Workers : pc[w] = "record" => req[w].invoice \in charged

LEMMA ChargeStep == TypeOK /\ ChargeInv /\ [Next]_vars => ChargeInv'
<1> SUFFICES ASSUME TypeOK, ChargeInv, [Next]_vars PROVE ChargeInv'
  OBVIOUS
<1>0. \A p \in Ids(payment) : payment[p].invoice \in Ids(invoice)
  BY DEF TypeOK
<1>1. charged \subseteq charged'
  BY NothingForgotten
<1>2. ASSUME NEW w \in Workers, pc'[w] = "record" PROVE req'[w].invoice \in charged'
  <2>0. pc \in [Workers -> Stages] /\ req \in [Workers -> Requests]
    BY DEF TypeOK, Stages, Requests
  <2>1. CASE pc'[w] = pc[w] /\ req'[w] = req[w]
    BY <1>1, <1>2, <2>1 DEF ChargeInv
  <2>2. CASE Receive(w) \/ Fail(w)
    BY <1>2, <2>0, <2>2 DEF Receive, Fail, LoadInvoice, LoadOrder, IssueInvoice, RecordPayment,
       LoadPayment, Arrive, Goto, Done
  <2>3. CASE ChargeCard(w)
    BY <1>2, <2>0, <2>3 DEF ChargeCard, Goto, Done
  <2>4. CASE Serve(w) /\ ~ ChargeCard(w)
    BY <1>2, <2>0, <2>4 DEF Serve, FindInvoice, CreateInvoice, RecordCharge,
       ReadInvoice, SumPayments, MarkPaid, InsertPayment, AfterInsert, Refund, Done, Goto
  <2> QED BY <2>1, <2>2, <2>3, <2>4, OthersStay
<1>3. \A p \in Ids(payment) : PaymentKept(p)
  BY PaymentsStep
<1>4. \A p \in Ids(payment') \ Ids(payment) : PaymentNew(p)
  BY PaymentsStep
<1>5. \A i \in Ids(invoice) : InvoiceKept(i)
  BY InvoicesStep
\* A new charge is the only one of its invoice and over its amount.
<1>6. ASSUME NEW p \in Ids(payment') \ Ids(payment), payment'[p].byGateway
      PROVE  /\ payment'[p].invoice \in charged
             /\ payment'[p].invoice \in Ids(invoice)
             /\ payment'[p].amount = invoice[payment'[p].invoice].total
             /\ \A q \in Ids(payment) : payment[q].byGateway =>
                  payment[q].invoice # payment'[p].invoice
  <2>1. PICK w \in Workers : /\ pc[w] = "record" /\ ~ Recorded(req[w].invoice)
                             /\ payment'[p] = ChargeRow(req[w].invoice)
    <3>1. \A i, m : ManualRow(i, m).byGateway = FALSE
      BY DEF ManualRow
    <3>2. \A i, m : payment'[p] # ManualRow(i, m)
      BY <1>6, <3>1
    <3> QED BY <1>4, <3>2 DEF PaymentNew
  <2>2. req[w].invoice \in charged /\ req[w].invoice \in Ids(invoice)
    BY <2>1 DEF ChargeInv, TypeOK, RequestFits
  <2> QED BY <2>1, <2>2 DEF ChargeRow, Recorded
<1>7. \A p, q \in Ids(payment') \ Ids(payment) : p = q
  BY <1>4 DEF PaymentNew
<1>8. ASSUME NEW p \in Ids(payment'), payment'[p].byGateway
      PROVE  /\ payment'[p].invoice \in charged'
             /\ payment'[p].amount = invoice'[payment'[p].invoice].total
             /\ \A q \in Ids(payment') \ {p} :
                  payment'[q].byGateway => payment'[q].invoice # payment'[p].invoice
  <2>1. CASE p \in Ids(payment)
    <3>1. /\ payment'[p].invoice = payment[p].invoice /\ payment'[p].amount = payment[p].amount
          /\ payment[p].byGateway
      BY <1>3, <1>8, <2>1 DEF PaymentKept
    <3>2. /\ payment[p].invoice \in charged
          /\ payment[p].amount = invoice[payment[p].invoice].total
          /\ \A q \in Ids(payment) \ {p} :
               payment[q].byGateway => payment[q].invoice # payment[p].invoice
      BY <2>1, <3>1 DEF ChargeInv, RecordedChargesAreReal
    <3>3. invoice'[payment[p].invoice].total = invoice[payment[p].invoice].total
      BY <1>0, <1>5, <2>1 DEF InvoiceKept
    <3>4. ASSUME NEW q \in Ids(payment') \ {p}, payment'[q].byGateway
          PROVE  payment'[q].invoice # payment'[p].invoice
      <4>1. CASE q \in Ids(payment)
        BY <1>3, <3>1, <3>2, <3>4, <4>1 DEF PaymentKept
      <4>2. CASE q \notin Ids(payment)
        BY <1>6, <2>1, <3>1, <3>4, <4>2
      <4> QED BY <4>1, <4>2
    <3> QED BY <1>1, <3>1, <3>2, <3>3, <3>4
  <2>2. CASE p \notin Ids(payment)
    <3>1. /\ payment'[p].invoice \in charged
          /\ payment'[p].invoice \in Ids(invoice)
          /\ payment'[p].amount = invoice[payment'[p].invoice].total
          /\ \A q \in Ids(payment) : payment[q].byGateway =>
               payment[q].invoice # payment'[p].invoice
      BY <1>6, <1>8, <2>2
    <3>2. invoice'[payment'[p].invoice].total = invoice[payment'[p].invoice].total
      BY <1>5, <3>1 DEF InvoiceKept
    <3>3. ASSUME NEW q \in Ids(payment') \ {p}, payment'[q].byGateway
          PROVE  payment'[q].invoice # payment'[p].invoice
      <4>1. q \in Ids(payment)
        BY <1>7, <2>2, <3>3
      <4> QED BY <1>3, <3>1, <3>3, <4>1 DEF PaymentKept
    <3> QED BY <1>1, <3>1, <3>2, <3>3
  <2> QED BY <2>1, <2>2
<1> QED BY <1>2, <1>8 DEF ChargeInv, RecordedChargesAreReal

(* The shape of the tables, and that a charge is on the books at most      *)
(* once, for its invoice's amount, and only when the processor took it     *)
(* (payInvoiceByCard, payMyOrder with their retries).                      *)
THEOREM BooksAlwaysReal == Spec => []BooksAreReal
<1>1. Init => ChargeInv
  <2>1. Ids(<<>>) = {}
    BY DEF Ids
  <2> QED BY <2>1 DEF Init, ChargeInv, RecordedChargesAreReal
<1>2. TypeOK /\ ChargeInv => BooksAreReal
  BY DEF BooksAreReal, ChargeInv
<1> QED BY <1>1, <1>2, SpecTypes, ChargeStep, PTL DEF Spec

-----------------------------------------------------------------------------
(* Second invoices.                                                        *)

\* No handler voids an invoice, so a payment that found none to pay found
\* none at all: what its order has now came since.
SeenInv ==
  /\ \A i \in Ids(invoice) : invoice[i].status # "void"
  /\ \A w \in Workers : pc[w] = "create" =>
       /\ req[w].seen <= Len(invoice)
       /\ \A j \in InvoicesOf(req[w].order) : j > req[w].seen
  /\ SecondInvoiceOnlyByOverlap

LEMMA SeenStep == TypeOK /\ SeenInv /\ [Next]_vars => SeenInv'
<1> SUFFICES ASSUME TypeOK, SeenInv, [Next]_vars PROVE SeenInv'
  OBVIOUS
<1>0. /\ pc \in [Workers -> Stages] /\ req \in [Workers -> Requests]
      /\ Len(invoice) \in Nat /\ Ids(invoice) = 1..Len(invoice)
      /\ \A w \in Workers : pc[w] = "create" => req[w].seen \in Nat
  BY DEF TypeOK, Stages, Requests, Ids, RequestFits, PayRequest
<1>1. \A i \in Ids(invoice) : InvoiceKept(i)
  BY InvoicesStep
<1>2. \A i \in Ids(invoice') \ Ids(invoice) : InvoiceNew(i)
  BY InvoicesStep
<1>3. ASSUME NEW i \in Ids(invoice') PROVE invoice'[i].status # "void"
  <2>1. CASE i \in Ids(invoice)
    BY <1>1, <2>1 DEF InvoiceKept, SeenInv
  <2>2. CASE i \notin Ids(invoice)
    <3>1. \E o, n : invoice'[i] = NewInvoice(o, n)
      BY <1>2, <2>2 DEF InvoiceNew
    <3> QED BY <3>1 DEF NewInvoice
  <2> QED BY <2>1, <2>2
<1>4. ASSUME NEW w \in Workers, pc'[w] = "create", NEW j \in Ids(invoice'),
             invoice'[j].order = req'[w].order
      PROVE  j > req'[w].seen
  \* Its own handler came here with the tables as they are ...
  <2>1. CASE Receive(w)
    <3>1. req'[w].seen = 0
      BY <1>0, <1>4, <2>1 DEF Receive, LoadInvoice, LoadOrder, IssueInvoice, RecordPayment,
         LoadPayment, Arrive, Goto
    <3>2. j \in Nat \ {0}
      BY DEF Ids
    <3> QED BY <3>1, <3>2
  <2>2. CASE FindInvoice(w)
    <3>1. /\ {i \in InvoicesOf(req[w].order) : Payable(invoice[i].status)} = {}
          /\ req' = [req EXCEPT ![w].seen = Len(invoice)] /\ invoice' = invoice
      BY <1>0, <1>4, <2>2 DEF FindInvoice, Goto, Done, tables
    <3>2. req[w] \in PayRequest
      BY <2>2 DEF FindInvoice, TypeOK, RequestFits
    <3>3. req'[w].order = req[w].order
      BY <1>0, <3>1, <3>2 DEF PayRequest
    <3>4. InvoicesOf(req[w].order) = {}
      BY <3>1 DEF InvoicesOf, Payable, SeenInv
    <3> QED BY <1>4, <3>1, <3>3, <3>4 DEF InvoicesOf
  \* ... or it is still here, and what has come since is newer.
  <2>3. CASE pc'[w] = pc[w] /\ req'[w] = req[w]
    <3>1. CASE j \in Ids(invoice)
      <4>1. invoice[j].order = req[w].order
        BY <1>1, <1>4, <2>3, <3>1 DEF InvoiceKept
      <4> QED BY <1>4, <2>3, <3>1, <4>1 DEF SeenInv, InvoicesOf
    <3>2. CASE j \notin Ids(invoice)
      <4>1. j = Len(invoice) + 1
        BY <1>2, <3>2 DEF InvoiceNew
      <4>2. req[w].seen <= Len(invoice)
        BY <1>4, <2>3 DEF SeenInv
      <4> QED BY <1>0, <1>4, <2>3, <4>1, <4>2
    <3> QED BY <3>1, <3>2
  <2>4. CASE (Serve(w) /\ ~ FindInvoice(w)) \/ Fail(w)
    BY <1>0, <1>4, <2>4 DEF Serve, Fail, CreateInvoice, ChargeCard, RecordCharge,
       ReadInvoice, SumPayments, MarkPaid, InsertPayment, AfterInsert, Refund, Done, Goto
  <2> QED BY <2>1, <2>2, <2>3, <2>4, OthersStay
<1>5. ASSUME NEW w \in Workers, pc'[w] = "create" PROVE req'[w].seen <= Len(invoice')
  <2>0. Len(invoice) <= Len(invoice') /\ Len(invoice') \in Nat
    <3>1. Len(invoice') \in Nat
      BY NextTypes DEF TypeOK
    <3>2. CASE Len(invoice) > 0
      <4>1. Len(invoice) \in Ids(invoice)
        BY <1>0, <3>2
      <4>2. Len(invoice) \in Ids(invoice')
        BY <1>1, <4>1 DEF InvoiceKept
      <4> QED BY <1>0, <3>1, <4>2 DEF Ids
    <3> QED BY <1>0, <3>1, <3>2
  <2>1. CASE Receive(w)
    <3>1. req'[w].seen = 0
      BY <1>0, <1>5, <2>1 DEF Receive, LoadInvoice, LoadOrder, IssueInvoice, RecordPayment,
         LoadPayment, Arrive, Goto
    <3> QED BY <2>0, <3>1
  <2>2. CASE FindInvoice(w)
    <3>1. req' = [req EXCEPT ![w].seen = Len(invoice)] /\ req[w] \in PayRequest
      BY <1>0, <1>5, <2>2 DEF FindInvoice, Goto, Done, TypeOK, RequestFits
    <3>2. req'[w].seen = Len(invoice)
      BY <1>0, <3>1 DEF PayRequest
    <3> QED BY <2>0, <3>2
  <2>3. CASE pc'[w] = pc[w] /\ req'[w] = req[w]
    BY <1>0, <1>5, <2>0, <2>3 DEF SeenInv
  <2>4. CASE (Serve(w) /\ ~ FindInvoice(w)) \/ Fail(w)
    BY <1>0, <1>5, <2>4 DEF Serve, Fail, CreateInvoice, ChargeCard, RecordCharge,
       ReadInvoice, SumPayments, MarkPaid, InsertPayment, AfterInsert, Refund, Done, Goto
  <2> QED BY <2>1, <2>2, <2>3, <2>4, OthersStay
<1>6. ASSUME NEW i \in Ids(invoice'), NEW j \in Ids(invoice'),
             invoice'[i].order = invoice'[j].order, j < i
      PROVE  j > invoice'[i].seen
  <2>1. CASE i \in Ids(invoice)
    <3>1. j \in Ids(invoice)
      BY <1>0, <1>6, <2>1 DEF Ids
    <3> QED BY <1>1, <1>6, <2>1, <3>1 DEF InvoiceKept, SeenInv, SecondInvoiceOnlyByOverlap
  <2>2. CASE i \notin Ids(invoice)
    <3>1. PICK w \in Workers : /\ i = Len(invoice) + 1 /\ pc[w] = "create"
                               /\ invoice'[i] = NewInvoice(req[w].order, req[w].seen)
      BY <1>2, <2>2 DEF InvoiceNew
    <3>2. j \in Ids(invoice)
      BY <1>0, <1>6, <3>1 DEF Ids
    <3>3. invoice[j].order = req[w].order /\ invoice'[i].seen = req[w].seen
      BY <1>1, <1>6, <3>1, <3>2 DEF InvoiceKept, NewInvoice
    <3> QED BY <3>1, <3>2, <3>3 DEF SeenInv, InvoicesOf
  <2> QED BY <2>1, <2>2
<1> QED BY <1>3, <1>4, <1>5, <1>6 DEF SeenInv, InvoicesOf, SecondInvoiceOnlyByOverlap

(* A further invoice of an order, on which a card could be charged anew,   *)
(* came while the buyer's payment looked for one (payMyOrder,              *)
(* createInvoiceForOrder).                                                 *)
THEOREM SecondInvoiceAlwaysByOverlap == Spec => []SecondInvoiceOnlyByOverlap
<1>1. Init => SeenInv
  <2>1. Ids(<<>>) = {}
    BY DEF Ids
  <2> QED BY <2>1 DEF Init, SeenInv, SecondInvoiceOnlyByOverlap
<1>2. SeenInv => SecondInvoiceOnlyByOverlap
  BY DEF SeenInv
<1> QED BY <1>1, <1>2, SpecTypes, SeenStep, PTL DEF Spec

-----------------------------------------------------------------------------
(* Sums of payments.                                                       *)

\* A column of the payments table that grows or gets a row.
LEMMA ColumnGrows ==
  ASSUME NEW n \in Nat, NEW m \in Nat, m \in {n, n + 1},
         NEW f \in [1..n -> Nat], NEW g \in [1..m -> Nat], \A k \in 1..n : f[k] <= g[k]
  PROVE  SumOf(f) <= SumOf(g)
<1>0. IsFiniteSet(1..n) /\ IsFiniteSet(1..m)
  BY FS_Interval
<1> DEFINE h == [k \in 1..n |-> g[k]]
<1>1. h \in [1..n -> Nat] /\ \A k \in 1..n : f[k] <= h[k]
  OBVIOUS
<1>2. SumOf(f) <= SumOf(h)
  <2>1. f \in [1..n -> Int] /\ h \in [1..n -> Int]
    BY <1>1
  <2> HIDE DEF h
  <2> QED BY <1>0, <1>1, <2>1, SumMonotone
<1>3. CASE m = n
  <2>1. h = g
    BY <1>3
  <2> QED BY <1>2, <2>1
<1>4. CASE m = n + 1
  <2>1. h \in [1..n -> Int] /\ g \in [1..(n + 1) -> Int] /\ \A k \in 1..n : g[k] = h[k]
    BY <1>1, <1>4
  <2>2. SumOf(g) = SumOf(h) + g[n + 1]
    <3> HIDE DEF h
    <3> QED BY <2>1, SumLonger
  <2>3. SumOf(h) \in Nat /\ SumOf(f) \in Nat /\ g[n + 1] \in Nat
    <3> HIDE DEF h
    <3> QED BY <1>0, <1>1, <1>4, SumNat
  <2> QED BY <1>2, <2>2, <2>3
<1> QED BY <1>3, <1>4

\* A column that shrinks; a row it gets is empty.
LEMMA ColumnShrinks ==
  ASSUME NEW n \in Nat, NEW m \in Nat, m \in {n, n + 1},
         NEW f \in [1..n -> Nat], NEW g \in [1..m -> Nat], \A k \in 1..n : g[k] <= f[k],
         \A k \in 1..m : k \notin 1..n => g[k] = 0
  PROVE  SumOf(g) <= SumOf(f)
<1>0. IsFiniteSet(1..n) /\ IsFiniteSet(1..m)
  BY FS_Interval
<1> DEFINE h == [k \in 1..n |-> g[k]]
<1>1. h \in [1..n -> Nat] /\ \A k \in 1..n : h[k] <= f[k]
  OBVIOUS
<1>2. SumOf(h) <= SumOf(f)
  <2>1. f \in [1..n -> Int] /\ h \in [1..n -> Int]
    BY <1>1
  <2> HIDE DEF h
  <2> QED BY <1>0, <1>1, <2>1, SumMonotone
<1>3. CASE m = n
  <2>1. h = g
    BY <1>3
  <2> QED BY <1>2, <2>1
<1>4. CASE m = n + 1
  <2>1. h \in [1..n -> Int] /\ g \in [1..(n + 1) -> Int] /\ \A k \in 1..n : g[k] = h[k]
    BY <1>1, <1>4
  <2>2. SumOf(g) = SumOf(h) + g[n + 1]
    <3> HIDE DEF h
    <3> QED BY <2>1, SumLonger
  <2>3. SumOf(h) \in Nat /\ g[n + 1] = 0
    <3> HIDE DEF h
    <3> QED BY <1>0, <1>1, <1>4, SumNat
  <2> QED BY <1>2, <2>2, <2>3
<1> QED BY <1>3, <1>4

CapturedRow(i) == [p \in Ids(payment) |-> IF CapturedFor(i, payment[p]) THEN payment[p].amount ELSE 0]
EverRow(i) == [p \in Ids(payment) |-> IF OnceCapturedFor(i, payment[p]) THEN payment[p].amount ELSE 0]

RowsFit ==
  /\ Len(payment) \in Nat /\ Ids(payment) = 1..Len(payment)
  /\ \A i : /\ CapturedRow(i) \in [1..Len(payment) -> Nat]
            /\ EverRow(i) \in [1..Len(payment) -> Nat]
            /\ Captured(i) = SumOf(CapturedRow(i))
            /\ EverCaptured(i) = SumOf(EverRow(i))
            /\ Captured(i) \in Nat /\ EverCaptured(i) \in Nat

LEMMA RowsNow == TypeOK => RowsFit
<1> SUFFICES ASSUME TypeOK PROVE RowsFit
  OBVIOUS
<1>1. /\ Len(payment) \in Nat /\ Ids(payment) = 1..Len(payment)
      /\ \A p \in Ids(payment) : payment[p] \in PaymentRow
  BY IdsOf DEF TypeOK
<1>2. \A p \in Ids(payment) : payment[p].amount \in Nat
  BY <1>1 DEF PaymentRow
<1>3. ASSUME NEW i
      PROVE  CapturedRow(i) \in [1..Len(payment) -> Nat] /\ EverRow(i) \in [1..Len(payment) -> Nat]
  BY <1>1, <1>2 DEF CapturedRow, EverRow
<1>4. ASSUME NEW i
      PROVE  Captured(i) = SumOf(CapturedRow(i)) /\ EverCaptured(i) = SumOf(EverRow(i))
  BY DEF Captured, EverCaptured, CapturedRow, EverRow
<1>5. ASSUME NEW i PROVE SumOf(CapturedRow(i)) \in Nat /\ SumOf(EverRow(i)) \in Nat
  <2>1. IsFiniteSet(1..Len(payment))
    BY <1>1, FS_Interval
  <2> QED BY <1>3, <2>1, SumNat
<1> QED BY <1>1, <1>3, <1>4, <1>5 DEF RowsFit

LEMMA RowsNext == TypeOK' => RowsFit'
BY RowsNow, PTL

\* The columns before and after a step, the same way for both sums.
LEMMA PaymentIds ==
  ASSUME TypeOK, [Next]_vars
  PROVE  /\ Len(payment') \in {Len(payment), Len(payment) + 1}
         /\ Len(payment') \in Nat /\ Len(payment) \in Nat
<1>1. Len(payment) \in Nat /\ Len(payment') \in Nat
  BY NextTypes DEF TypeOK
<1>2. Ids(payment) = 1..Len(payment) /\ Ids(payment') = 1..Len(payment')
  BY DEF Ids
<1>3. Len(payment) <= Len(payment')
  <2>1. CASE Len(payment) > 0
    <3>1. Len(payment) \in Ids(payment')
      BY <1>1, <1>2, <2>1, PaymentsStep DEF PaymentKept
    <3> QED BY <1>1, <1>2, <3>1
  <2> QED BY <1>1, <2>1
<1>4. Len(payment') <= Len(payment) + 1
  <2>1. CASE Len(payment') > Len(payment)
    <3>1. Len(payment') \in Ids(payment') \ Ids(payment)
      BY <1>1, <1>2, <2>1
    <3> QED BY <1>1, <3>1, PaymentsStep DEF PaymentNew
  <2> QED BY <1>1, <2>1
<1> QED BY <1>1, <1>3, <1>4

\* Money that was once captured stays so on the books.
LEMMA EverGrows ==
  ASSUME TypeOK, [Next]_vars, NEW i
  PROVE  EverCaptured(i) <= EverCaptured(i)'
<1>1. RowsFit /\ RowsFit'
  BY RowsNow, RowsNext, NextTypes
<1>2. /\ EverRow(i) \in [1..Len(payment) -> Nat]
      /\ EverRow(i)' \in [1..Len(payment') -> Nat]
  BY <1>1 DEF RowsFit
<1>3. Ids(payment) = 1..Len(payment) /\ Ids(payment') = 1..Len(payment')
  BY <1>1 DEF RowsFit
<1>4. ASSUME NEW p \in 1..Len(payment) PROVE EverRow(i)[p] <= EverRow(i)'[p]
  <2>1. PaymentKept(p)
    BY <1>3, PaymentsStep
  <2>2. EverRow(i)[p] = EverRow(i)'[p]
    BY <1>3, <2>1 DEF PaymentKept, EverRow, OnceCapturedFor
  <2>3. EverRow(i)[p] \in Nat
    BY <1>2
  <2> QED BY <2>2, <2>3
<1>5. SumOf(EverRow(i)) <= SumOf(EverRow(i)')
  BY <1>2, <1>4, PaymentIds, ColumnGrows
<1> QED BY <1>1, <1>5 DEF RowsFit

\* What is captured of an invoice grows by a new captured payment only.
LEMMA CapturedShrinks ==
  ASSUME TypeOK, [Next]_vars, NEW i,
         \A p \in Ids(payment') \ Ids(payment) : ~ CapturedFor(i, payment'[p])
  PROVE  Captured(i)' <= Captured(i)
<1>1. RowsFit /\ RowsFit'
  BY RowsNow, RowsNext, NextTypes
<1>2. /\ CapturedRow(i) \in [1..Len(payment) -> Nat]
      /\ CapturedRow(i)' \in [1..Len(payment') -> Nat]
  BY <1>1 DEF RowsFit
<1>3. Ids(payment) = 1..Len(payment) /\ Ids(payment') = 1..Len(payment')
  BY <1>1 DEF RowsFit
<1>4. ASSUME NEW p \in 1..Len(payment) PROVE CapturedRow(i)'[p] <= CapturedRow(i)[p]
  <2>1. PaymentKept(p)
    BY <1>3, PaymentsStep
  <2>2. CapturedRow(i)[p] \in Nat
    BY <1>2
  <2>3. CapturedRow(i)'[p] \in {CapturedRow(i)[p], 0}
    BY <1>3, <2>1 DEF PaymentKept, CapturedRow, CapturedFor
  <2> QED BY <2>2, <2>3
<1>5. \A p \in 1..Len(payment') : p \notin 1..Len(payment) => CapturedRow(i)'[p] = 0
  BY <1>3 DEF CapturedRow
<1>6. SumOf(CapturedRow(i)') <= SumOf(CapturedRow(i))
  BY <1>2, <1>4, <1>5, PaymentIds, ColumnShrinks
<1> QED BY <1>1, <1>6 DEF RowsFit

-----------------------------------------------------------------------------
(* Settlement.                                                             *)

\* A request at MarkPaid has seen its invoice covered; a refund in between
\* takes nothing from what was once captured.
CoverInv ==
  /\ \A p \in Ids(payment) : payment[p].status = "captured" => payment[p].wasCaptured
  /\ \A w \in Workers : pc[w] = "mark" =>
       EverCaptured(req[w].invoice) >= invoice[req[w].invoice].total
  /\ PaidMeansCovered

LEMMA CapturedOnce ==
  ASSUME TypeOK, CoverInv, NEW i
  PROVE  Captured(i) <= EverCaptured(i)
<1>1. RowsFit
  BY RowsNow
<1>2. \A p \in 1..Len(payment) : CapturedRow(i)[p] <= EverRow(i)[p]
  <2>1. ASSUME NEW p \in Ids(payment) PROVE CapturedRow(i)[p] <= EverRow(i)[p]
    <3>1. CapturedRow(i)[p] \in Nat /\ EverRow(i)[p] \in Nat
      BY <1>1 DEF RowsFit
    <3>2. CapturedFor(i, payment[p]) => OnceCapturedFor(i, payment[p])
      BY DEF CoverInv, CapturedFor, OnceCapturedFor
    <3>3. CapturedRow(i)[p] \in {EverRow(i)[p], 0}
      BY <3>2 DEF CapturedRow, EverRow
    <3> QED BY <3>1, <3>3
  <2> QED BY <1>1, <2>1 DEF RowsFit
<1>3. /\ CapturedRow(i) \in [1..Len(payment) -> Nat] /\ EverRow(i) \in [1..Len(payment) -> Nat]
      /\ Len(payment) \in Nat
  BY <1>1 DEF RowsFit
<1>4. SumOf(CapturedRow(i)) <= SumOf(EverRow(i))
  BY <1>2, <1>3, ColumnGrows
<1> QED BY <1>1, <1>4 DEF RowsFit

\* Its first part, that what is captured was captured.
LEMMA StillCaptured ==
  ASSUME TypeOK, CoverInv, [Next]_vars, NEW p \in Ids(payment'), payment'[p].status = "captured"
  PROVE  payment'[p].wasCaptured
<1>1. CASE p \in Ids(payment)
  <2>1. PaymentKept(p)
    BY <1>1, PaymentsStep
  <2> QED BY <1>1, <2>1 DEF PaymentKept, CoverInv
<1>2. CASE p \notin Ids(payment)
  <2>1. PaymentNew(p)
    BY <1>2, PaymentsStep
  <2>2. \E i, m : payment'[p] = ChargeRow(i) \/ payment'[p] = ManualRow(i, m)
    BY <2>1 DEF PaymentNew
  <2>3. \A i : ChargeRow(i).wasCaptured
    BY DEF ChargeRow
  <2>4. \A i, m : ManualRow(i, m).status = "captured" => ManualRow(i, m).wasCaptured
    BY DEF ManualRow
  <2> QED BY <2>2, <2>3, <2>4
<1> QED BY <1>1, <1>2

\* Its second, what a request at MarkPaid has seen.
LEMMA StillSeenCovered ==
  ASSUME TypeOK, CoverInv, [Next]_vars, NEW w \in Workers, pc'[w] = "mark"
  PROVE  EverCaptured(req[w].invoice)' >= invoice'[req'[w].invoice].total
<1>0. /\ pc \in [Workers -> Stages] /\ req \in [Workers -> Requests]
      /\ \A i \in Ids(invoice) : invoice[i].total \in Nat
  <2>1. \A i \in Ids(invoice) : invoice[i] \in InvoiceRow
    BY IdsOf DEF TypeOK
  <2> QED BY <2>1 DEF TypeOK, Stages, Requests, InvoiceRow
<1>1. req'[w] = req[w] /\ req[w].invoice \in Ids(invoice)
        /\ EverCaptured(req[w].invoice) >= invoice[req[w].invoice].total
  <2>1. CASE pc'[w] = pc[w] /\ req'[w] = req[w]
    <3>1. req[w].invoice \in Ids(invoice)
      BY <2>1 DEF TypeOK, RequestFits
    <3> QED BY <2>1, <3>1 DEF CoverInv
  <2>2. CASE SumPayments(w)
    <3>1. /\ req'[w] = req[w] /\ req[w].invoice \in Ids(invoice)
          /\ Captured(req[w].invoice) >= invoice[req[w].invoice].total
      BY <1>0, <2>2 DEF SumPayments, Covers, Done, Goto, TypeOK, RequestFits
    <3>2. PICK i \in Ids(invoice) : i = req[w].invoice
      BY <3>1
    <3>3. Captured(i) <= EverCaptured(i) /\ Captured(i) \in Nat /\ EverCaptured(i) \in Nat
      BY CapturedOnce, RowsNow DEF RowsFit
    <3> QED BY <1>0, <3>1, <3>2, <3>3
  <2>3. CASE Receive(w) \/ Fail(w) \/ (Serve(w) /\ ~ SumPayments(w))
    BY <1>0, <2>3 DEF Receive, Fail, Serve, LoadInvoice, LoadOrder, IssueInvoice, RecordPayment,
       LoadPayment, Arrive, FindInvoice, CreateInvoice, ChargeCard, RecordCharge, ReadInvoice,
       MarkPaid, InsertPayment, AfterInsert, Refund, Done, Goto
  <2> QED BY <2>1, <2>2, <2>3, OthersStay
<1>2. PICK i \in Ids(invoice) : i = req[w].invoice
  BY <1>1
<1>3. invoice'[i].total = invoice[i].total
  BY InvoicesStep DEF InvoiceKept
<1>4. EverCaptured(i) <= EverCaptured(i)' /\ EverCaptured(i) \in Nat /\ EverCaptured(i)' \in Nat
  <2>1. RowsFit /\ RowsFit'
    BY RowsNow, RowsNext, NextTypes
  <2>2. EverCaptured(i) \in Nat /\ EverCaptured(i)' \in Nat
    BY <2>1 DEF RowsFit
  <2> QED BY <2>2, EverGrows
<1>5. EverCaptured(i)' >= invoice'[i].total
  BY <1>0, <1>1, <1>2, <1>3, <1>4
<1>6. i = req'[w].invoice
  BY <1>1, <1>2
<1> QED BY <1>5, <1>6

\* Its third, that a paid invoice was covered.
LEMMA StillPaidCovered ==
  ASSUME TypeOK, CoverInv, [Next]_vars, NEW i \in Ids(invoice'), invoice'[i].status = "paid"
  PROVE  EverCaptured(i)' >= invoice'[i].total
<1>0. RowsFit /\ RowsFit'
  BY RowsNow, RowsNext, NextTypes
<1>1. i \in Ids(invoice) /\ InvoiceKept(i)
  <2>1. ASSUME i \notin Ids(invoice) PROVE FALSE
    <3>1. InvoiceNew(i)
      BY <2>1, InvoicesStep
    <3>2. \E o, n : invoice'[i] = NewInvoice(o, n)
      BY <3>1 DEF InvoiceNew
    <3> QED BY <3>2 DEF NewInvoice
  <2> QED BY <2>1, InvoicesStep
<1>2. EverCaptured(i) >= invoice[i].total
  <2>1. CASE invoice[i].status = "paid"
    BY <1>1, <2>1 DEF CoverInv, PaidMeansCovered, PaidWasCovered
  <2>2. CASE \E w \in Workers : pc[w] = "mark" /\ req[w].invoice = i
    BY <2>2 DEF CoverInv
  <2> QED BY <1>1, <2>1, <2>2 DEF InvoiceKept
<1>3. EverCaptured(i) <= EverCaptured(i)' /\ EverCaptured(i) \in Nat /\ EverCaptured(i)' \in Nat
  <2>1. EverCaptured(i) \in Nat /\ EverCaptured(i)' \in Nat
    BY <1>0 DEF RowsFit
  <2> QED BY <2>1, EverGrows
<1>4. invoice[i].total \in Nat
  <2>1. invoice[i] \in InvoiceRow
    BY <1>1, IdsOf DEF TypeOK
  <2> QED BY <2>1 DEF InvoiceRow
<1> QED BY <1>1, <1>2, <1>3, <1>4 DEF InvoiceKept

\* A settlement under way goes on, or is cut off, or has nothing to settle.
LEMMA SettlingGoesOn ==
  ASSUME TypeOK, [Next]_vars, NEW w \in Workers, NEW i \in Ids(invoice), Settling(w, i)
  PROVE  \/ Settling(w, i)' \/ i \in cut'
         \/ Settled(invoice[i].status) \/ Settled(invoice'[i].status)
         \/ Captured(i) < invoice[i].total
<1>0. /\ pc \in [Workers -> Stages] /\ req \in [Workers -> Requests]
      /\ pc[w] \in {"settle", "sum", "mark"} /\ req[w].invoice = i
      /\ Captured(i) \in Nat /\ invoice[i].total \in Nat
      /\ invoice \in [Ids(invoice) -> InvoiceRow]
  <2>1. invoice[i] \in InvoiceRow /\ invoice \in [Ids(invoice) -> InvoiceRow]
    BY IdsOf DEF TypeOK
  <2>2. Captured(i) \in Nat
    BY RowsNow DEF RowsFit
  <2>3. pc \in [Workers -> Stages] /\ req \in [Workers -> Requests]
    BY DEF TypeOK, Stages, Requests
  <2>4. pc[w] \in {"settle", "sum", "mark"} /\ req[w].invoice = i
    BY DEF Settling
  <2>5. invoice[i].total \in Nat
    BY <2>1 DEF InvoiceRow
  <2> QED BY <2>1, <2>2, <2>3, <2>4, <2>5
<1>1. CASE pc'[w] = pc[w] /\ req'[w] = req[w]
  BY <1>0, <1>1 DEF Settling
<1>2. CASE ReadInvoice(w)
  BY <1>0, <1>2 DEF ReadInvoice, Goto, Settling
<1>3. CASE SumPayments(w)
  BY <1>0, <1>3 DEF SumPayments, Covers, Goto, Settling
<1>4. CASE MarkPaid(w)
  <2>1. invoice'[i].status = "paid"
    BY <1>0, <1>4 DEF MarkPaid, InvoiceRow
  <2> QED BY <2>1 DEF Settled
<1>5. CASE Fail(w)
  BY <1>0, <1>5 DEF Fail
<1>6. CASE Receive(w) \/ (Serve(w) /\ ~ ReadInvoice(w) /\ ~ SumPayments(w) /\ ~ MarkPaid(w))
  BY <1>0, <1>6 DEF Receive, Serve, LoadInvoice, LoadOrder, IssueInvoice, RecordPayment,
     LoadPayment, Arrive, FindInvoice, CreateInvoice, ChargeCard, RecordCharge,
     InsertPayment, Refund
<1> QED BY <1>1, <1>2, <1>3, <1>4, <1>5, <1>6, OthersStay

\* Its fourth, that a covered invoice is being settled.
LEMMA StillBeingSettled ==
  ASSUME TypeOK, CoverInv, [Next]_vars, NEW i \in Ids(invoice'),
         \E p \in Ids(payment') : CapturedFor(i, payment'[p]),
         Captured(i)' >= invoice'[i].total, ~ Settled(invoice'[i].status)
  PROVE  i \in cut' \/ \E w \in Workers : Settling(w, i)'
<1>0. /\ \A p \in Ids(payment) : PaymentKept(p)
      /\ \A p \in Ids(payment') \ Ids(payment) : PaymentNew(p)
  BY PaymentsStep
<1>1. \A p \in Ids(payment) : payment[p].invoice \in Ids(invoice)
  BY DEF TypeOK
\* A captured payment just inserted leaves its request on its way to settle.
<1>2. ASSUME NEW p \in Ids(payment') \ Ids(payment), CapturedFor(i, payment'[p])
      PROVE  \E w \in Workers : Settling(w, i)'
  <2>1. PICK w \in Workers :
          /\ pc'[w] = "settle" /\ req'[w] = req[w]
          /\ \E m : payment'[p] = ChargeRow(req[w].invoice) \/ payment'[p] = ManualRow(req[w].invoice, m)
    BY <1>0, <1>2 DEF PaymentNew, CapturedFor
  <2>2. req[w].invoice = i
    <3>1. \A j, m : ChargeRow(j).invoice = j /\ ManualRow(j, m).invoice = j
      BY DEF ChargeRow, ManualRow
    <3> QED BY <1>2, <2>1, <3>1 DEF CapturedFor
  <2> QED BY <2>1, <2>2 DEF Settling
\* Otherwise the invoice was covered and open before the step.
<1>3. CASE \A p \in Ids(payment') \ Ids(payment) : ~ CapturedFor(i, payment'[p])
  <2>1. PICK p \in Ids(payment) : CapturedFor(i, payment[p])
    <3>1. PICK p \in Ids(payment') : CapturedFor(i, payment'[p])
      OBVIOUS
    <3>2. p \in Ids(payment) /\ PaymentKept(p)
      BY <1>0, <1>3, <3>1
    <3> QED BY <3>1, <3>2 DEF PaymentKept, CapturedFor
  <2>2. i \in Ids(invoice) /\ InvoiceKept(i)
    BY <1>1, <2>1, InvoicesStep DEF CapturedFor
  <2>3. Captured(i) >= invoice[i].total
    <3>1. RowsFit /\ RowsFit'
      BY RowsNow, RowsNext, NextTypes
    <3>2. Captured(i) \in Nat /\ Captured(i)' \in Nat
      BY <3>1 DEF RowsFit
    <3>3. Captured(i)' <= Captured(i)
      BY <1>3, CapturedShrinks
    <3>4. invoice'[i].total = invoice[i].total
      BY <2>2 DEF InvoiceKept
    <3>5. invoice[i] \in InvoiceRow
      BY <2>2, IdsOf DEF TypeOK
    <3>6. invoice[i].total \in Nat
      BY <3>5 DEF InvoiceRow
    <3> QED BY <3>2, <3>3, <3>4, <3>6
  <2>4. ~ Settled(invoice[i].status)
    BY <2>2 DEF InvoiceKept, Settled
  <2>5. i \in cut \/ \E w \in Workers : Settling(w, i)
    BY <2>1, <2>2, <2>3, <2>4 DEF CoverInv, PaidMeansCovered, CoveredIsBeingSettled
  <2>6. CASE i \in cut
    BY <2>6, NothingForgotten
  <2>7. ASSUME NEW w \in Workers, Settling(w, i) PROVE Settling(w, i)' \/ i \in cut'
    <3>1. ~ (Captured(i) < invoice[i].total)
      <4>1. Captured(i) \in Nat
        BY RowsNow DEF RowsFit
      <4>2. invoice[i] \in InvoiceRow
        BY <2>2, IdsOf DEF TypeOK
      <4>3. invoice[i].total \in Nat
        BY <4>2 DEF InvoiceRow
      <4> QED BY <2>3, <4>1, <4>3
    <3> QED BY <2>2, <2>4, <2>7, <3>1, SettlingGoesOn
  <2> QED BY <2>5, <2>6, <2>7
<1> QED BY <1>2, <1>3

LEMMA CoverStep == TypeOK /\ CoverInv /\ [Next]_vars => CoverInv'
<1> SUFFICES ASSUME TypeOK, CoverInv, [Next]_vars PROVE CoverInv'
  OBVIOUS
<1>1. PaidWasCovered'
  BY StillPaidCovered DEF PaidWasCovered
<1>2. CoveredIsBeingSettled'
  BY StillBeingSettled DEF CoveredIsBeingSettled
<1>3. \A p \in Ids(payment') : payment'[p].status = "captured" => payment'[p].wasCaptured
  BY StillCaptured
<1>4. \A w \in Workers : pc'[w] = "mark" =>
        EverCaptured(req[w].invoice)' >= invoice'[req'[w].invoice].total
  BY StillSeenCovered
<1> QED BY <1>1, <1>2, <1>3, <1>4 DEF CoverInv, PaidMeansCovered

(* An invoice and its payments agree both ways: one that is paid was       *)
(* covered when its payments were added up, one that is covered is on its  *)
(* way to be paid or its request was cut off (settleInvoiceIfCovered).     *)
THEOREM PaidAlwaysCovered == Spec => []PaidMeansCovered
<1>1. Init => CoverInv
  <2>1. Ids(<<>>) = {}
    BY DEF Ids
  <2> QED BY <2>1 DEF Init, CoverInv, PaidMeansCovered, PaidWasCovered, CoveredIsBeingSettled
<1>2. CoverInv => PaidMeansCovered
  BY DEF CoverInv
<1> QED BY <1>1, <1>2, SpecTypes, CoverStep, PTL DEF Spec

-----------------------------------------------------------------------------
(* The ledger.                                                             *)

\* What one more payment adds.
LEMMA Received ==
  ASSUME TypeOK, NEW row \in PaymentRow, payment' = Append(payment, row), TypeOK'
  PROVE  /\ \A i : EverCaptured(i)' =
              EverCaptured(i) + (IF OnceCapturedFor(i, row) THEN row.amount ELSE 0)
         /\ \A i : Recorded(i)' <=> Recorded(i) \/ (row.invoice = i /\ row.byGateway)
<1>1. RowsFit /\ RowsFit'
  BY RowsNow, RowsNext
<1>2. /\ payment \in Seq(PaymentRow) /\ Len(payment') = Len(payment) + 1
      /\ Ids(payment') = Ids(payment) \cup {Len(payment) + 1}
      /\ payment'[Len(payment) + 1] = row
      /\ \A p \in Ids(payment) : payment'[p] = payment[p]
  <2>1. payment \in Seq(PaymentRow)
    BY DEF TypeOK
  <2>2. Len(payment') = Len(payment) + 1
    BY <2>1
  <2>3. Ids(payment') = Ids(payment) \cup {Len(payment) + 1} /\ payment'[Len(payment) + 1] = row
    BY <2>1, LongerTable
  <2>4. \A p \in Ids(payment) : payment'[p] = payment[p]
    BY <2>1 DEF Ids
  <2> QED BY <2>1, <2>2, <2>3, <2>4
<1>3. ASSUME NEW i
      PROVE  EverCaptured(i)' = EverCaptured(i) + (IF OnceCapturedFor(i, row) THEN row.amount ELSE 0)
  <2> DEFINE n == Len(payment)
             f == EverRow(i)
             g == EverRow(i)'
  <2>1. /\ n \in Nat /\ f \in [1..n -> Nat] /\ g \in [1..(n + 1) -> Nat]
        /\ EverCaptured(i) = SumOf(f) /\ EverCaptured(i)' = SumOf(g)
    BY <1>1, <1>2 DEF RowsFit
  <2>2. \A k \in 1..n : g[k] = f[k]
    BY <1>1, <1>2 DEF EverRow, OnceCapturedFor, RowsFit
  <2>3. g[n + 1] = IF OnceCapturedFor(i, row) THEN row.amount ELSE 0
    BY <1>1, <1>2 DEF EverRow, OnceCapturedFor, RowsFit
  <2>4. f \in [1..n -> Int] /\ g \in [1..(n + 1) -> Int]
    <3> HIDE DEF f, g, n
    <3> QED BY <2>1
  <2>5. SumOf(g) = SumOf(f) + g[n + 1]
    <3> HIDE DEF f, g, n
    <3> QED BY <2>1, <2>2, <2>4, SumLonger
  <2> HIDE DEF f, g, n
  <2> QED BY <2>1, <2>3, <2>5
<1>4. ASSUME NEW i PROVE Recorded(i)' <=> Recorded(i) \/ (row.invoice = i /\ row.byGateway)
  BY <1>2 DEF Recorded
<1> QED BY <1>3, <1>4

\* A step of the ledger, or none.
Booked == Ledger!Next \/ UNCHANGED Ledger!vars

LEMMA BilledIds ==
  ASSUME TypeOK
  PROVE  /\ DOMAIN Billed = Ids(invoice) /\ DOMAIN Got = Ids(invoice)
         /\ \A i \in Ids(invoice) : Billed[i] = invoice[i].total /\ Got[i] = EverCaptured(i)
BY DEF Billed, Got

\* Which columns of the ledger hang on which table.
LEMMA InvoicesOnly ==
  ASSUME Ids(invoice') = Ids(invoice),
         \A i \in Ids(invoice) : invoice'[i].total = invoice[i].total
  PROVE  UNCHANGED Billed
BY DEF Billed

LEMMA PaymentsOnly ==
  ASSUME Ids(invoice') = Ids(invoice), UNCHANGED payment
  PROVE  UNCHANGED <<Got, OnRecord>>
<1>1. \A i : EverCaptured(i)' = EverCaptured(i) /\ (Recorded(i)' <=> Recorded(i))
  BY DEF EverCaptured, OnceCapturedFor, Recorded, Ids
<1> QED BY <1>1 DEF Got, OnRecord

LEMMA StatusOnly ==
  ASSUME UNCHANGED invoice
  PROVE  Ids(invoice') = Ids(invoice) /\ UNCHANGED <<Billed, PaidUp>>
BY DEF Billed, PaidUp, Ids

LEMMA NothingBooked ==
  ASSUME UNCHANGED <<invoice, payment, charged>>
  PROVE  Booked
BY PaymentsOnly, StatusOnly DEF Booked, Ledger!vars

\* An invoice is issued over what its order comes to.
LEMMA CreateBooked ==
  ASSUME TypeOK, NEW w \in Workers, CreateInvoice(w)
  PROVE  Booked
<1>1. CASE UNCHANGED invoice
  BY <1>1, NothingBooked DEF CreateInvoice
<1>2. CASE ~ UNCHANGED invoice
  <2>1. pc[w] = "create" /\ req[w] \in PayRequest /\ UNCHANGED <<payment, charged>>
    BY <1>2 DEF CreateInvoice, TypeOK, RequestFits
  <2>2. PICK o \in Orders : o = req[w].order
    BY <2>1 DEF PayRequest
  <2>3. PICK row \in InvoiceRow : row = NewInvoice(o, req[w].seen)
    BY <2>1, <2>2, NewInvoiceRow
  <2>4. PICK n \in Nat : n = Len(invoice)
    BY DEF TypeOK
  <2>5. invoice' = Append(invoice, row) /\ invoice \in Seq(InvoiceRow)
    BY <1>2, <2>2, <2>3 DEF CreateInvoice, TypeOK
  <2>6. row.total = GrandTotal(o) /\ row.status = "issued"
    BY <2>3 DEF NewInvoice
  <2>7. /\ Ids(invoice) = 1..n /\ Ids(invoice') = 1..(n + 1)
        /\ invoice'[n + 1] = row
        /\ \A i \in Ids(invoice) : invoice'[i] = invoice[i]
    BY <2>4, <2>5 DEF Ids
  <2>8. \A i : EverCaptured(i)' = EverCaptured(i) /\ (Recorded(i)' <=> Recorded(i))
    BY <2>1 DEF EverCaptured, OnceCapturedFor, Recorded, Ids
  <2>9. \A p \in Ids(payment) : payment[p].invoice # n + 1
    BY <2>7 DEF TypeOK
  <2>10. EverCaptured(n + 1) = 0
    <3>1. RowsFit
      BY RowsNow
    <3>2. /\ EverRow(n + 1) \in [1..Len(payment) -> Int] /\ IsFiniteSet(1..Len(payment))
          /\ EverCaptured(n + 1) = SumOf(EverRow(n + 1))
      BY <3>1, FS_Interval DEF RowsFit
    <3>3. \A p \in 1..Len(payment) : EverRow(n + 1)[p] = 0
      BY <2>9, <3>1 DEF EverRow, OnceCapturedFor, RowsFit
    <3> QED BY <3>2, <3>3, SumZero
  <2>11. Billed' = Append(Billed, GrandTotal(o))
    BY <2>6, <2>7 DEF Billed
  <2>12. Got' = Append(Got, 0)
    <3>1. Got = [i \in 1..n |-> EverCaptured(i)] /\ Got' = [i \in 1..(n + 1) |-> EverCaptured(i)]
      BY <2>7, <2>8 DEF Got
    <3> QED BY <2>10, <3>1
  <2>13. UNCHANGED OnRecord
    <3>1. ~ Recorded(n + 1)
      BY <2>9 DEF Recorded
    <3> QED BY <2>7, <2>8, <3>1 DEF OnRecord
  <2>14. UNCHANGED PaidUp
    BY <2>6, <2>7 DEF PaidUp
  <2> QED BY <2>1, <2>11, <2>12, <2>13, <2>14 DEF Booked, Ledger!Next, Ledger!Bill
<1> QED BY <1>1, <1>2

\* The card is charged, or the answer is that it was.
LEMMA ChargeBooked ==
  ASSUME TypeOK, NEW w \in Workers, ChargeCard(w)
  PROVE  Booked
<1>0. pc[w] = "charge" /\ req[w].invoice \in Ids(invoice)
  BY DEF ChargeCard, TypeOK, RequestFits
<1>1. PICK i \in Ids(invoice) : i = req[w].invoice
  BY <1>0
<1>2. UNCHANGED <<invoice, payment>> /\ charged' \in {charged, charged \cup {i}}
  BY <1>1 DEF ChargeCard
<1>3. CASE charged' = charged
  BY <1>2, <1>3, NothingBooked
<1>4. CASE charged' = charged \cup {i}
  <2>1. UNCHANGED <<Billed, Got, OnRecord, PaidUp>>
    BY <1>2, StatusOnly, PaymentsOnly
  <2>2. Ledger!Charge(i)
    BY <1>4, <2>1 DEF Ledger!Charge
  <2> QED BY <2>2, BilledIds DEF Booked, Ledger!Next
<1> QED BY <1>2, <1>3, <1>4

\* The charge is recorded in full, unless it was before (23505).
LEMMA RecordBooked ==
  ASSUME TypeOK, TypeOK', ChargeInv, NEW w \in Workers, RecordCharge(w)
  PROVE  Booked
<1>0. pc[w] = "record" /\ req[w].invoice \in Ids(invoice) /\ req[w].invoice \in charged
  BY DEF RecordCharge, TypeOK, RequestFits, ChargeInv
<1>1. PICK i \in Ids(invoice) : i = req[w].invoice
  BY <1>0
<1>2. i \in charged /\ UNCHANGED <<invoice, charged>>
  BY <1>0, <1>1 DEF RecordCharge
<1>3. CASE Recorded(i)
  BY <1>1, <1>2, <1>3, NothingBooked DEF RecordCharge
<1>4. CASE ~ Recorded(i)
  <2>1. PICK row \in PaymentRow : row = ChargeRow(i)
    BY RowTypes
  <2>2. payment' = Append(payment, row)
    BY <1>1, <1>4, <2>1 DEF RecordCharge, ChargeRow
  <2>3. row.invoice = i /\ row.byGateway /\ row.wasCaptured /\ row.amount = invoice[i].total
    BY <2>1 DEF ChargeRow
  <2>4. /\ \A j : EverCaptured(j)' =
             EverCaptured(j) + (IF OnceCapturedFor(j, row) THEN row.amount ELSE 0)
        /\ \A j : Recorded(j)' <=> Recorded(j) \/ (row.invoice = j /\ row.byGateway)
    BY <2>2, Received
  <2>5. \A j : EverCaptured(j) \in Nat
    BY RowsNow DEF RowsFit
  <2>6. Ids(invoice') = Ids(invoice) /\ UNCHANGED <<Billed, PaidUp>>
    BY <1>2, StatusOnly
  <2>7. /\ \A j \in Ids(invoice) \ {i} : EverCaptured(j)' = EverCaptured(j)
        /\ EverCaptured(i)' = EverCaptured(i) + invoice[i].total
    BY <2>3, <2>4, <2>5 DEF OnceCapturedFor
  <2>8. Got' = [Got EXCEPT ![i] = @ + Billed[i]]
    BY <2>6, <2>7 DEF Got, Billed
  <2>9. OnRecord' = OnRecord \cup {i} /\ i \notin OnRecord
    BY <1>4, <2>3, <2>4, <2>6 DEF OnRecord
  <2>10. Ledger!Record(i)
    BY <1>2, <2>6, <2>8, <2>9 DEF Ledger!Record
  <2> QED BY <2>10, BilledIds DEF Booked, Ledger!Next
<1> QED BY <1>3, <1>4

\* What an admin records comes in, if it was captured.
LEMMA InsertBooked ==
  ASSUME TypeOK, TypeOK', NEW w \in Workers, InsertPayment(w)
  PROVE  Booked
<1>0. pc[w] = "insert" /\ req[w].invoice \in Ids(invoice) /\ req[w].pay \in Manual
  BY DEF InsertPayment, TypeOK, RequestFits, ManualRequest
<1>1. PICK i \in Ids(invoice) : i = req[w].invoice
  BY <1>0
<1>2. PICK m \in Manual : m = req[w].pay
  BY <1>0
<1>3. PICK row \in PaymentRow : row = ManualRow(i, m)
  BY RowTypes
<1>4. UNCHANGED <<invoice, charged>> /\ payment' = Append(payment, row)
  BY <1>1, <1>2, <1>3 DEF InsertPayment, ManualRow
<1>5. /\ row.invoice = i /\ row.byGateway = FALSE /\ row.amount = m.amount
      /\ row.wasCaptured <=> m.status = "captured"
  BY <1>3 DEF ManualRow
<1>6. /\ \A j : EverCaptured(j)' =
           EverCaptured(j) + (IF OnceCapturedFor(j, row) THEN row.amount ELSE 0)
      /\ \A j : Recorded(j)' <=> Recorded(j) \/ (row.invoice = j /\ row.byGateway)
  BY <1>4, Received
<1>7. \A j : EverCaptured(j) \in Nat
  BY RowsNow DEF RowsFit
<1>8. Ids(invoice') = Ids(invoice) /\ UNCHANGED <<Billed, PaidUp>>
  BY <1>4, StatusOnly
<1>9. UNCHANGED OnRecord
  BY <1>5, <1>6, <1>8 DEF OnRecord
<1>10. ASSUME NEW j \in Ids(invoice), j # i \/ m.status # "captured"
       PROVE  EverCaptured(j)' = EverCaptured(j)
  <2>1. ~ OnceCapturedFor(j, row)
    BY <1>5, <1>10 DEF OnceCapturedFor
  <2> QED BY <1>6, <1>7, <2>1
<1>11. CASE m.status # "captured"
  <2>1. UNCHANGED Got
    BY <1>8, <1>10, <1>11 DEF Got
  <2> QED BY <1>4, <1>8, <1>9, <2>1 DEF Booked, Ledger!vars
<1>12. CASE m.status = "captured"
  <2>1. EverCaptured(i)' = EverCaptured(i) + m.amount
    BY <1>5, <1>6, <1>12 DEF OnceCapturedFor
  <2>2. Got' = [Got EXCEPT ![i] = @ + m.amount]
    BY <1>8, <1>10, <2>1 DEF Got
  <2>3. m.amount \in {x.amount : x \in {r \in Manual : r.status = "captured"}}
    BY <1>12
  <2>4. Ledger!Collect(i)
    BY <1>4, <1>8, <1>9, <2>2, <2>3 DEF Ledger!Collect
  <2> QED BY <2>4, BilledIds DEF Booked, Ledger!Next
<1> QED BY <1>11, <1>12

\* An invoice is marked paid that was covered when its request summed up.
LEMMA MarkBooked ==
  ASSUME TypeOK, CoverInv, NEW w \in Workers, MarkPaid(w)
  PROVE  Booked
<1>0. pc[w] = "mark" /\ req[w].invoice \in Ids(invoice)
  BY DEF MarkPaid, TypeOK, RequestFits
<1>1. PICK i \in Ids(invoice) : i = req[w].invoice
  BY <1>0
<1>2. /\ UNCHANGED <<payment, charged>>
      /\ invoice' = [invoice EXCEPT ![i].status = "paid"]
      /\ EverCaptured(i) >= invoice[i].total
  BY <1>0, <1>1 DEF MarkPaid, CoverInv
<1>3. invoice \in [Ids(invoice) -> InvoiceRow] /\ invoice \in Seq(InvoiceRow)
  BY IdsOf DEF TypeOK
<1>4. Ids(invoice') = Ids(invoice)
  <2>1. invoice' \in [Ids(invoice) -> InvoiceRow]
    BY <1>2, <1>3 DEF InvoiceRow
  <2> QED BY <1>3, <2>1, SameLength
<1>5. /\ \A j \in Ids(invoice) : invoice'[j].total = invoice[j].total
      /\ \A j \in Ids(invoice) \ {i} : invoice'[j] = invoice[j]
      /\ invoice'[i].status = "paid"
  BY <1>2, <1>3 DEF InvoiceRow
<1>6. UNCHANGED <<Billed, Got, OnRecord>>
  BY <1>2, <1>4, <1>5, InvoicesOnly, PaymentsOnly
<1>7. PaidUp' = PaidUp \cup {i}
  BY <1>4, <1>5 DEF PaidUp
<1>8. Ledger!Settle(i)
  BY <1>2, <1>6, <1>7, BilledIds DEF Ledger!Settle
<1> QED BY <1>8, BilledIds DEF Booked, Ledger!Next

\* A refund and the sweep leave every account as it is.
LEMMA RefundBooked ==
  ASSUME TypeOK, NEW w \in Workers, Refund(w)
  PROVE  Booked
<1>1. /\ payment' = [payment EXCEPT ![req[w].payment].status = "refunded"]
      /\ UNCHANGED <<invoice, charged>>
  BY DEF Refund
<1>2. payment \in [Ids(payment) -> PaymentRow] /\ payment \in Seq(PaymentRow)
  BY IdsOf DEF TypeOK
<1>3. Ids(payment') = Ids(payment)
  <2>1. payment' \in [Ids(payment) -> PaymentRow]
    BY <1>1, <1>2 DEF PaymentRow, PayStates
  <2> QED BY <1>2, <2>1, SameLength
<1>4. ASSUME NEW p \in Ids(payment)
      PROVE  /\ payment'[p].invoice = payment[p].invoice /\ payment'[p].amount = payment[p].amount
             /\ payment'[p].byGateway = payment[p].byGateway
             /\ payment'[p].wasCaptured = payment[p].wasCaptured
  BY <1>1, <1>2 DEF PaymentRow
<1>5. ASSUME NEW i PROVE EverCaptured(i)' = EverCaptured(i)
  <2>1. EverRow(i)' = EverRow(i)
    BY <1>3, <1>4 DEF EverRow, OnceCapturedFor
  <2>2. EverCaptured(i) = SumOf(EverRow(i)) /\ EverCaptured(i)' = SumOf(EverRow(i)')
    BY DEF EverCaptured, EverRow
  <2> QED BY <2>1, <2>2
<1>6. ASSUME NEW i PROVE Recorded(i)' <=> Recorded(i)
  BY <1>3, <1>4 DEF Recorded
<1>7. Ids(invoice') = Ids(invoice) /\ UNCHANGED <<Billed, PaidUp>>
  BY <1>1, StatusOnly
<1>8. UNCHANGED <<Got, OnRecord>>
  BY <1>5, <1>6, <1>7 DEF Got, OnRecord
<1> QED BY <1>1, <1>7, <1>8 DEF Booked, Ledger!vars

LEMMA SweepBooked ==
  ASSUME TypeOK, Sweep
  PROVE  Booked
<1>1. UNCHANGED <<payment, charged>>
  BY DEF Sweep
<1>2. invoice \in [Ids(invoice) -> InvoiceRow] /\ invoice \in Seq(InvoiceRow)
  BY IdsOf DEF TypeOK
<1>3. Ids(invoice') = Ids(invoice)
  BY <1>2, SweepRows, SameLength
<1>4. ASSUME NEW i \in Ids(invoice)
      PROVE  /\ invoice'[i].total = invoice[i].total
             /\ invoice'[i].status = "paid" <=> invoice[i].status = "paid"
  BY <1>2 DEF Sweep, Sweepable, InvoiceRow
<1>5. UNCHANGED PaidUp
  BY <1>3, <1>4 DEF PaidUp
<1> QED BY <1>1, <1>3, <1>4, <1>5, InvoicesOnly, PaymentsOnly DEF Booked, Ledger!vars

LEMMA StepBooked ==
  ASSUME TypeOK, TypeOK', ChargeInv, CoverInv, [Next]_vars
  PROVE  Booked
<1>1. ASSUME NEW w \in Workers,
             Receive(w) \/ Fail(w) \/ FindInvoice(w) \/ ReadInvoice(w) \/ SumPayments(w)
      PROVE  UNCHANGED <<invoice, payment, charged>>
  BY <1>1 DEF Receive, LoadInvoice, LoadOrder, IssueInvoice, RecordPayment, LoadPayment,
     Arrive, Fail, FindInvoice, ReadInvoice, SumPayments, tables
<1>2. CASE OrderChanges \/ Rest \/ UNCHANGED vars
  BY <1>2, NothingBooked DEF OrderChanges, Rest, vars, tables
<1>3. ASSUME NEW w \in Workers, Serve(w) PROVE Booked
  BY <1>1, <1>3, NothingBooked, CreateBooked, ChargeBooked, RecordBooked, MarkBooked,
     InsertBooked, RefundBooked DEF Serve
<1>4. ASSUME NEW w \in Workers, Receive(w) \/ Fail(w) PROVE Booked
  BY <1>1, <1>4, NothingBooked
<1> QED BY <1>2, <1>3, <1>4, SweepBooked DEF Next

(* KeepsLedger: every step of the handlers is a step of PaymentLedger, or  *)
(* leaves its accounts alone.                                              *)
THEOREM LedgerAlwaysKept == Spec => KeepsLedger
<1>1. Init => Ledger!Init
  <2> SUFFICES ASSUME Init PROVE Ledger!Init
    OBVIOUS
  <2>1. Ids(invoice) = {} /\ charged = {}
    BY DEF Init, Ids
  <2>2. Billed = <<>> /\ Got = <<>>
    BY <2>1 DEF Billed, Got
  <2>3. OnRecord = {} /\ PaidUp = {}
    BY <2>1 DEF OnRecord, PaidUp
  <2> QED BY <2>1, <2>2, <2>3 DEF Ledger!Init
<1>2. Init => ChargeInv /\ CoverInv
  <2>1. Ids(<<>>) = {}
    BY DEF Ids
  <2> QED BY <2>1 DEF Init, ChargeInv, RecordedChargesAreReal, CoverInv, PaidMeansCovered,
             PaidWasCovered, CoveredIsBeingSettled
<1>3. TypeOK /\ TypeOK' /\ ChargeInv /\ CoverInv /\ [Next]_vars => [Ledger!Next]_(Ledger!vars)
  BY StepBooked DEF Booked
<1> QED BY <1>1, <1>2, <1>3, SpecTypes, ChargeStep, CoverStep, PTL
        DEF Spec, KeepsLedger, Ledger!Spec

=============================================================================
