------------------------ MODULE QuoteLifecycleProofs ------------------------
(***************************************************************************)
(* For every set of workers, RFQs, quotes and line lists: subtotals and    *)
(* snapshots are those of the lines, decisions stand, RFQs follow their    *)
(* quotes, and no requests wait for each other in a circle.                *)
(*                                                                         *)
(* That lines add up needs only that the same rows are summed, so the sum  *)
(* stays opaque there: Amounts names the values it may take.               *)
(***************************************************************************)
EXTENDS QuoteLifecycle, SequenceTheorems, SumTheorems, TLAPS

StageNames == {"idle", "submit", "delete", "insert", "subtotal", "quote", "list", "rfq",
               "commit", "decline", "expire", "addLine", "sumLines", "setSum"}

Amounts  == {0} \cup {Sum(rows) : rows \in SUBSET Row}
Revision == [version : Nat, sub : Amounts, rows : SUBSET Row]

TablesType ==
  /\ rfq \in [Rfqs -> RfqStates \cup {"none"}]
  /\ status \in [Quotes -> QuoteStates \cup {"none"}]
  /\ rfqOf \in [Quotes -> Rfqs \cup {NoRfq}]
  /\ validity \in [Quotes -> Validities]
  /\ version \in [Quotes -> Nat]
  /\ subtotal \in [Quotes -> Amounts]
  /\ items \in [Quotes -> SUBSET Row]
  /\ revisions \in [Quotes -> Seq(Revision)]
  /\ orders \in [Quotes -> Seq(SUBSET Row)]
  /\ quoteLock \in [Quotes -> Workers \cup {NoWorker}]
  /\ rfqLock \in [Rfqs -> Workers \cup {NoWorker}]
  /\ mixed \subseteq Quotes /\ overtaken \subseteq Quotes

SubmitReq  == [kind : {"submit"}, r : Rfqs]
EditReq    == [kind : {"edit"}, q : Quotes, gone : SUBSET Row, rows : SUBSET Row]
LineReq    == [kind : {"line"}, q : Quotes, sub : Amounts, row : Row]
SendReq    == [kind : {"send"}, q : Quotes, seen : Open \cup {"draft"}, renew : BOOLEAN,
               sub : Amounts, rows : SUBSET Row]
AcceptReq  == [kind : {"accept"}, q : Quotes, seen : Open, rows : SUBSET Row]
DeclineReq == [kind : {"decline"}, q : Quotes, seen : Open]
ExpireReq  == [kind : {"expire"}, todo : SUBSET Quotes,
               seen : [Quotes -> QuoteStates \cup {"none"}]]

AnyReq == {NoReq} \cup SubmitReq \cup EditReq \cup LineReq \cup SendReq \cup AcceptReq
            \cup DeclineReq \cup ExpireReq

\* What a request holds at each stage.
Fits(label, r) ==
  \/ label = "idle" /\ r = NoReq
  \/ label = "submit" /\ r \in SubmitReq
  \/ label \in {"delete", "insert", "subtotal", "commit"} /\ r \in EditReq
  \/ label \in {"addLine", "sumLines", "setSum"} /\ r \in LineReq
  \/ label \in {"quote", "list", "rfq", "commit"} /\ r \in SendReq
  \/ label \in {"list", "quote", "rfq", "commit"} /\ r \in AcceptReq
  \/ label = "decline" /\ r \in DeclineReq
  \/ label = "expire" /\ r \in ExpireReq /\ \A q \in r.todo : r.seen[q] \in Open

WorkersType ==
  /\ pc \in [Workers -> StageNames] /\ req \in [Workers -> AnyReq]
  /\ started \in Nat
  /\ \A w \in Workers : Fits(pc[w], req[w])

TypeInv == TablesType /\ WorkersType

(* The rows of a line list are rows.                                       *)
LEMMA RowsType ==
  ASSUME NEW by \in Nat, NEW c \in Drafts \cup Contents
  PROVE  Rows(by, c) \subseteq Row
<1>1. c \in Seq(Nat)
  BY QuoteAssumption
<1>2. \A i \in DOMAIN c : i \in Nat /\ c[i] \in Nat
  BY <1>1, LenProperties, ElementOfSeq
<1> QED
  BY <1>2 DEF Rows, Row

(* A set of rows sums to an amount.                                        *)
LEMMA SumType ==
  ASSUME NEW rows \in SUBSET Row
  PROVE  Sum(rows) \in Amounts
BY DEF Amounts

(* What is appended to is not empty.                                       *)
LEMMA AppendNonempty ==
  ASSUME NEW S, NEW s \in Seq(S), NEW e \in S
  PROVE  Append(s, e) # <<>>
<1>1. Len(Append(s, e)) = Len(s) + 1 /\ Len(s) \in Nat
  BY AppendProperties, LenProperties
<1>2. Len(<<>>) = 0
  BY EmptySeq
<1> QED
  BY <1>1, <1>2

(* Moving one worker to a stage with a request that fits it.               *)
LEMMA MoveWorker ==
  ASSUME WorkersType, NEW w \in Workers, NEW label \in StageNames, NEW r \in AnyReq,
         Fits(label, r),
         pc' = [pc EXCEPT ![w] = label], req' = [req EXCEPT ![w] = r],
         started' \in Nat
  PROVE  WorkersType'
<1>1. pc' \in [Workers -> StageNames] /\ req' \in [Workers -> AnyReq]
  BY DEF WorkersType
<1>2. \A v \in Workers : Fits(pc'[v], req'[v])
  BY DEF WorkersType
<1> QED
  BY <1>1, <1>2 DEF WorkersType

LEMMA DoneWorker ==
  ASSUME WorkersType, NEW w \in Workers, Done(w), started' \in Nat
  PROVE  WorkersType'
<1>1. NoReq \in AnyReq /\ Fits("idle", NoReq) /\ "idle" \in StageNames
  BY DEF AnyReq, Fits, StageNames
<1> QED
  BY <1>1, MoveWorker DEF Done, Goto

LEMMA ArriveWorker ==
  ASSUME TypeInv, NEW w \in Workers, NEW label \in StageNames, NEW r \in AnyReq,
         Fits(label, r), Arrive(w, label, r)
  PROVE  TypeInv'
<1>1. started' \in Nat
  BY DEF TypeInv, WorkersType, Arrive
<1>2. WorkersType'
  BY <1>1, MoveWorker DEF TypeInv, Arrive, Goto
<1>3. TablesType'
  BY DEF TypeInv, TablesType, Arrive, tables, locks, history
<1> QED
  BY <1>2, <1>3 DEF TypeInv

(* A request that goes on to another stage as it is, or rewritten.         *)
LEMMA GotoWorker ==
  ASSUME TypeInv, NEW w \in Workers, NEW label \in StageNames, NEW r \in AnyReq,
         Fits(label, r), Goto(w, label), req' = [req EXCEPT ![w] = r],
         UNCHANGED started
  PROVE  WorkersType'
BY MoveWorker DEF TypeInv, WorkersType, Goto

(* The statement that follows each statement of a transaction.             *)
LEMMA Following ==
  /\ Stages["edit"]["delete"] = "insert"
  /\ Stages["edit"]["insert"] = "subtotal"
  /\ Stages["edit"]["subtotal"] = "commit"
  /\ Stages["send"]["quote"] = "list"
  /\ Stages["send"]["list"] = "rfq"
  /\ Stages["send"]["rfq"] = "commit"
  /\ Stages["accept"]["list"] = "quote"
  /\ Stages["accept"]["quote"] = "rfq"
  /\ Stages["accept"]["rfq"] = "commit"
BY DEF Stages

(* A request that advances takes the stage that follows.                   *)
LEMMA AdvanceEdit ==
  ASSUME NEW w \in Workers, req[w] \in EditReq, Advance(w)
  PROVE  /\ pc[w] = "delete" => Goto(w, "insert")
         /\ pc[w] = "insert" => Goto(w, "subtotal")
         /\ pc[w] = "subtotal" => Goto(w, "commit")
BY Following DEF Advance, EditReq

LEMMA AdvanceSend ==
  ASSUME NEW w \in Workers, req[w] \in SendReq, Advance(w)
  PROVE  /\ pc[w] = "quote" => Goto(w, "list")
         /\ pc[w] = "list" => Goto(w, "rfq")
         /\ pc[w] = "rfq" => Goto(w, "commit")
BY Following DEF Advance, SendReq

LEMMA AdvanceAccept ==
  ASSUME NEW w \in Workers, req[w] \in AcceptReq, Advance(w)
  PROVE  /\ pc[w] = "list" => Goto(w, "quote")
         /\ pc[w] = "quote" => Goto(w, "rfq")
         /\ pc[w] = "rfq" => Goto(w, "commit")
BY Following DEF Advance, AcceptReq

(* What a request is, told from its stage.                                 *)
LEMMA RequestAt ==
  ASSUME TypeInv, NEW w \in Workers
  PROVE  /\ pc[w] \in {"delete", "insert", "subtotal"} => req[w] \in EditReq
         /\ pc[w] \in {"addLine", "sumLines", "setSum"} => req[w] \in LineReq
         /\ pc[w] \in {"quote", "list", "rfq"} => req[w] \in SendReq \cup AcceptReq
         /\ pc[w] = "commit" => req[w] \in EditReq \cup SendReq \cup AcceptReq
         /\ pc[w] = "decline" => req[w] \in DeclineReq
         /\ pc[w] = "submit" => req[w] \in SubmitReq
         /\ pc[w] = "expire" =>
              req[w] \in ExpireReq /\ \A q \in req[w].todo : req[w].seen[q] \in Open
BY DEF TypeInv, WorkersType, Fits

(* A request's kind is its shape.                                          *)
LEMMA KindOf ==
  ASSUME NEW r \in EditReq \cup SendReq \cup AcceptReq
  PROVE  /\ r.kind = "edit" <=> r \in EditReq
         /\ r.kind = "send" <=> r \in SendReq
         /\ r.kind = "accept" <=> r \in AcceptReq
         /\ r.q \in Quotes
BY DEF EditReq, SendReq, AcceptReq

LEMMA ReleaseType ==
  ASSUME TypeInv, NEW w \in Workers, Release(w)
  PROVE  /\ quoteLock' \in [Quotes -> Workers \cup {NoWorker}]
         /\ rfqLock' \in [Rfqs -> Workers \cup {NoWorker}]
BY DEF TypeInv, TablesType, Release

-----------------------------------------------------------------------------
(* Types.                                                                  *)

LEMMA TypeInit == Init => TypeInv
<1> SUFFICES ASSUME Init PROVE TypeInv
  OBVIOUS
<1>1. TablesType
  BY EmptySeq DEF Init, TablesType, RfqStates, QuoteStates, Validities, Amounts, Row
<1>2. WorkersType
  BY DEF Init, WorkersType, StageNames, AnyReq, Fits
<1> QED
  BY <1>1, <1>2 DEF TypeInv

LEMMA ReceiveType ==
  ASSUME TypeInv, NEW w \in Workers, Receive(w)
  PROVE  TypeInv'
<1> USE DEF TypeInv
<1>1. CASE LoadRFQ(w)
  <2>1. PICK r \in Rfqs : Arrive(w, "submit", [kind |-> "submit", r |-> r])
    BY <1>1 DEF LoadRFQ
  <2>2. [kind |-> "submit", r |-> r] \in SubmitReq
    BY DEF SubmitReq
  <2> QED
    BY <2>1, <2>2, ArriveWorker DEF StageNames, AnyReq, Fits
<1>2. CASE LoadForEdit(w)
  <2>1. PICK q \in Quotes, c \in Contents :
          Arrive(w, "delete", [kind |-> "edit", q |-> q, gone |-> {}, rows |-> Rows(started + 1, c)])
    BY <1>2 DEF LoadForEdit
  <2>2. Rows(started + 1, c) \subseteq Row
    BY RowsType DEF WorkersType
  <2>3. [kind |-> "edit", q |-> q, gone |-> {}, rows |-> Rows(started + 1, c)] \in EditReq
    BY <2>2 DEF EditReq
  <2> QED
    BY <2>1, <2>3, ArriveWorker DEF StageNames, AnyReq, Fits
<1>3. CASE LoadForLine(w)
  <2> DEFINE row == [by |-> started + 1, at |-> 1, total |-> 1]
  <2>1. PICK q \in Quotes :
          Arrive(w, "addLine", [kind |-> "line", q |-> q, sub |-> 0, row |-> row])
    BY <1>3 DEF LoadForLine
  <2>2. row \in Row
    BY DEF WorkersType, Row
  <2>3. [kind |-> "line", q |-> q, sub |-> 0, row |-> row] \in LineReq
    BY <2>2 DEF LineReq, Amounts
  <2> QED
    BY <2>1, <2>3, ArriveWorker DEF StageNames, AnyReq, Fits
<1>4. CASE LoadForSend(w)
  <2>1. PICK q \in Quotes, renew \in BOOLEAN :
          /\ status[q] \in Open \cup {"draft"}
          /\ Arrive(w, "quote", [kind |-> "send", q |-> q, seen |-> status[q],
                                renew |-> renew, sub |-> subtotal[q], rows |-> {}])
    BY <1>4 DEF LoadForSend
  <2>2. [kind |-> "send", q |-> q, seen |-> status[q], renew |-> renew,
         sub |-> subtotal[q], rows |-> {}] \in SendReq
    BY <2>1 DEF SendReq, TablesType
  <2> QED
    BY <2>1, <2>2, ArriveWorker DEF StageNames, AnyReq, Fits
<1>5. CASE LoadForAccept(w)
  <2>1. PICK q \in Quotes :
          /\ status[q] \in Open
          /\ Arrive(w, "list", [kind |-> "accept", q |-> q, seen |-> status[q], rows |-> {}])
    BY <1>5 DEF LoadForAccept
  <2>2. [kind |-> "accept", q |-> q, seen |-> status[q], rows |-> {}] \in AcceptReq
    BY <2>1 DEF AcceptReq
  <2> QED
    BY <2>1, <2>2, ArriveWorker DEF StageNames, AnyReq, Fits
<1>6. CASE LoadForDecline(w)
  <2>1. PICK q \in Quotes :
          /\ status[q] \in Open
          /\ Arrive(w, "decline", [kind |-> "decline", q |-> q, seen |-> status[q]])
    BY <1>6 DEF LoadForDecline
  <2>2. [kind |-> "decline", q |-> q, seen |-> status[q]] \in DeclineReq
    BY <2>1 DEF DeclineReq
  <2> QED
    BY <2>1, <2>2, ArriveWorker DEF StageNames, AnyReq, Fits
<1>7. CASE ListExpirable(w)
  <2> DEFINE r == [kind |-> "expire", todo |-> Expirable, seen |-> status]
  <2>1. Arrive(w, "expire", r)
    BY <1>7 DEF ListExpirable
  <2>2. r \in ExpireReq /\ \A q \in r.todo : r.seen[q] \in Open
    BY DEF ExpireReq, Expirable, TablesType
  <2> HIDE DEF r
  <2> QED
    BY <2>1, <2>2, ArriveWorker DEF StageNames, AnyReq, Fits
<1> QED
  BY <1>1, <1>2, <1>3, <1>4, <1>5, <1>6, <1>7 DEF Receive

(* The statements that write no table.                                     *)
LEMMA StatementType ==
  ASSUME TypeInv, NEW w \in Workers,
         DeleteItems(w) \/ InsertItems(w) \/ SetSubtotal(w) \/ UpdateQuote(w)
         \/ ListItems(w) \/ UpdateRFQ(w) \/ SumLines(w)
  PROVE  TypeInv'
<1> USE DEF TypeInv
<1>1. CASE DeleteItems(w)
  <2>1. req[w] \in EditReq
    BY <1>1, RequestAt DEF DeleteItems
  <2>2. [req[w] EXCEPT !.gone = items[req[w].q]] \in EditReq
    BY <2>1 DEF EditReq, TablesType
  <2>3. WorkersType'
    BY <1>1, <2>1, <2>2, AdvanceEdit, GotoWorker
       DEF DeleteItems, StageNames, AnyReq, Fits
  <2> QED
    BY <1>1, <2>3 DEF DeleteItems, TablesType, tables, locks, history
<1>2. CASE InsertItems(w)
  <2>1. req[w] \in EditReq
    BY <1>2, RequestAt DEF InsertItems
  <2>2. [req[w] EXCEPT !.gone = @ \cap items[req[w].q]] \in EditReq
    BY <2>1 DEF EditReq, TablesType
  <2>3. WorkersType'
    BY <1>2, <2>1, <2>2, AdvanceEdit, GotoWorker
       DEF InsertItems, StageNames, AnyReq, Fits
  <2> QED
    BY <1>2, <2>3 DEF InsertItems, TablesType, tables, locks, history
<1>3. CASE SetSubtotal(w)
  <2>1. req[w] \in EditReq
    BY <1>3, RequestAt DEF SetSubtotal
  <2>2. req' = [req EXCEPT ![w] = req[w]]
    BY <1>3 DEF SetSubtotal, WorkersType
  <2>3. WorkersType'
    BY <1>3, <2>1, <2>2, AdvanceEdit, GotoWorker
       DEF SetSubtotal, StageNames, AnyReq, Fits
  <2>4. quoteLock' \in [Quotes -> Workers \cup {NoWorker}]
    BY <1>3 DEF SetSubtotal, TablesType
  <2> QED
    BY <1>3, <2>3, <2>4 DEF SetSubtotal, TablesType, tables, history
<1>4. CASE UpdateQuote(w)
  <2>1. req[w] \in SendReq \cup AcceptReq
    BY <1>4, RequestAt DEF UpdateQuote
  <2>2. WorkersType'
    <3>1. CASE req[w] \in SendReq
      <4>1. [req[w] EXCEPT !.sub = subtotal[req[w].q]] \in SendReq
        BY <3>1 DEF SendReq, TablesType
      <4> QED
        BY <1>4, <3>1, <4>1, KindOf, AdvanceSend, GotoWorker
           DEF UpdateQuote, StageNames, AnyReq, Fits
    <3>2. CASE req[w] \in AcceptReq
      <4>1. req' = [req EXCEPT ![w] = req[w]]
        BY <1>4, <3>2, KindOf DEF UpdateQuote, WorkersType, AcceptReq
      <4> QED
        BY <1>4, <3>2, <4>1, AdvanceAccept, GotoWorker
           DEF UpdateQuote, StageNames, AnyReq, Fits
    <3> QED
      BY <2>1, <3>1, <3>2
  <2>3. quoteLock' \in [Quotes -> Workers \cup {NoWorker}]
    BY <1>4 DEF UpdateQuote, TablesType
  <2> QED
    BY <1>4, <2>2, <2>3 DEF UpdateQuote, TablesType, tables, history
<1>5. CASE ListItems(w)
  <2>1. req[w] \in SendReq \cup AcceptReq
    BY <1>5, RequestAt DEF ListItems
  <2>2. WorkersType'
    <3>1. CASE req[w] \in SendReq
      <4>1. [req[w] EXCEPT !.rows = items[req[w].q]] \in SendReq
        BY <3>1 DEF SendReq, TablesType
      <4> QED
        BY <1>5, <3>1, <4>1, AdvanceSend, GotoWorker
           DEF ListItems, StageNames, AnyReq, Fits
    <3>2. CASE req[w] \in AcceptReq
      <4>1. [req[w] EXCEPT !.rows = items[req[w].q]] \in AcceptReq
        BY <3>2 DEF AcceptReq, TablesType
      <4> QED
        BY <1>5, <3>2, <4>1, AdvanceAccept, GotoWorker
           DEF ListItems, StageNames, AnyReq, Fits
    <3> QED
      BY <2>1, <3>1, <3>2
  <2> QED
    BY <1>5, <2>2 DEF ListItems, TablesType, tables, locks, history
<1>6. CASE UpdateRFQ(w)
  <2>1. req[w] \in SendReq \cup AcceptReq
    BY <1>6, RequestAt DEF UpdateRFQ
  <2>2. req' = [req EXCEPT ![w] = req[w]]
    BY <1>6 DEF UpdateRFQ, WorkersType
  <2>3. WorkersType'
    <3>1. CASE req[w] \in SendReq
      BY <1>6, <2>2, <3>1, AdvanceSend, GotoWorker DEF UpdateRFQ, StageNames, AnyReq, Fits
    <3>2. CASE req[w] \in AcceptReq
      BY <1>6, <2>2, <3>2, AdvanceAccept, GotoWorker DEF UpdateRFQ, StageNames, AnyReq, Fits
    <3> QED
      BY <2>1, <3>1, <3>2
  <2>4. rfqLock' \in [Rfqs -> Workers \cup {NoWorker}]
    BY <1>6 DEF UpdateRFQ, TablesType
  <2> QED
    BY <1>6, <2>3, <2>4 DEF UpdateRFQ, TablesType, tables, history
<1>7. CASE SumLines(w)
  <2>1. req[w] \in LineReq
    BY <1>7, RequestAt DEF SumLines
  <2>2. Sum(items[req[w].q]) \in Amounts
    BY <2>1, SumType DEF LineReq, TablesType
  <2>3. [req[w] EXCEPT !.sub = Sum(items[req[w].q])] \in LineReq
    BY <2>1, <2>2 DEF LineReq
  <2>4. WorkersType'
    BY <1>7, <2>3, GotoWorker DEF SumLines, StageNames, AnyReq, Fits
  <2> QED
    BY <1>7, <2>4 DEF SumLines, TablesType, tables, locks, history
<1> QED
  BY <1>1, <1>2, <1>3, <1>4, <1>5, <1>6, <1>7

(* The commits.                                                            *)
LEMMA CommitType ==
  ASSUME TypeInv, NEW w \in Workers, CommitEdit(w) \/ CommitSend(w) \/ CommitAccept(w)
  PROVE  TypeInv'
<1> USE DEF TypeInv
<1> DEFINE q == req[w].q
<1>1. WorkersType'
  BY DoneWorker DEF WorkersType, CommitEdit, CommitSend, CommitAccept
<1>2. /\ quoteLock' \in [Quotes -> Workers \cup {NoWorker}]
      /\ rfqLock' \in [Rfqs -> Workers \cup {NoWorker}]
  BY ReleaseType DEF CommitEdit, CommitSend, CommitAccept
<1>3. req[w] \in EditReq \cup SendReq \cup AcceptReq
  BY RequestAt DEF CommitEdit, CommitSend, CommitAccept
<1>4. CASE CommitEdit(w)
  <2>1. req[w] \in EditReq
    BY <1>3, <1>4, KindOf DEF CommitEdit
  <2>2. q \in Quotes /\ req[w].rows \in SUBSET Row
    BY <2>1 DEF EditReq
  <2>3. items' \in [Quotes -> SUBSET Row]
    BY <1>4, <2>2 DEF CommitEdit, TablesType
  <2>4. Sum(req[w].rows) \in Amounts
    BY <2>2, SumType
  <2>5. subtotal' \in [Quotes -> Amounts]
    BY <1>4, <2>4 DEF CommitEdit, NewSubtotal, TablesType
  <2>6. mixed' \subseteq Quotes
    BY <1>4, <2>2 DEF CommitEdit, Mix, TablesType
  <2> QED
    BY <1>1, <1>2, <1>4, <2>3, <2>5, <2>6 DEF CommitEdit, TablesType
<1>5. CASE CommitSend(w)
  <2>1. req[w] \in SendReq
    BY <1>3, <1>5, KindOf DEF CommitSend
  <2>2. q \in Quotes /\ req[w].sub \in Amounts /\ req[w].rows \in SUBSET Row
    BY <2>1 DEF SendReq
  <2>3. status' \in [Quotes -> QuoteStates \cup {"none"}]
    BY <1>5 DEF CommitSend, TablesType, QuoteStates
  <2>4. version' \in [Quotes -> Nat] /\ validity' \in [Quotes -> Validities]
    BY <1>5, <2>2 DEF CommitSend, TablesType, Validities
  <2>5. revisions' \in [Quotes -> Seq(Revision)]
    <3> DEFINE rev == [version |-> version[q] + 1, sub |-> req[w].sub, rows |-> req[w].rows]
    <3>1. rev \in Revision
      BY <2>2 DEF Revision, TablesType
    <3>2. revisions[q] \in Seq(Revision)
      BY <2>2 DEF TablesType
    <3>3. Append(revisions[q], rev) \in Seq(Revision)
      BY <3>1, <3>2, AppendProperties
    <3>4. revisions' = [revisions EXCEPT ![q] = Append(revisions[q], rev)]
      BY <1>5 DEF CommitSend
    <3> HIDE DEF rev
    <3> QED
      BY <3>3, <3>4 DEF TablesType
  <2>6. rfq' \in [Rfqs -> RfqStates \cup {"none"}]
    BY <1>5 DEF CommitSend, SetRFQ, TablesType, RfqStates
  <2>7. mixed' \subseteq Quotes /\ overtaken' \subseteq Quotes
    BY <1>5, <2>2 DEF CommitSend, Overtake, TablesType
  <2> QED
    BY <1>1, <1>2, <1>5, <2>3, <2>4, <2>5, <2>6, <2>7 DEF CommitSend, TablesType
<1>6. CASE CommitAccept(w)
  <2>1. req[w] \in AcceptReq
    BY <1>3, <1>6, KindOf DEF CommitAccept
  <2>2. q \in Quotes /\ req[w].rows \in SUBSET Row
    BY <2>1 DEF AcceptReq
  <2>3. status' \in [Quotes -> QuoteStates \cup {"none"}]
    BY <1>6 DEF CommitAccept, TablesType, QuoteStates
  <2>4. orders' \in [Quotes -> Seq(SUBSET Row)]
    <3>1. orders[q] \in Seq(SUBSET Row)
      BY <2>2 DEF TablesType
    <3>2. Append(orders[q], req[w].rows) \in Seq(SUBSET Row)
      BY <2>2, <3>1, AppendProperties
    <3> QED
      BY <1>6, <3>2 DEF CommitAccept, TablesType
  <2>5. rfq' \in [Rfqs -> RfqStates \cup {"none"}]
    BY <1>6 DEF CommitAccept, SetRFQ, TablesType, RfqStates
  <2>6. overtaken' \subseteq Quotes
    BY <1>6, <2>2 DEF CommitAccept, Overtake, TablesType
  <2> QED
    BY <1>1, <1>2, <1>6, <2>3, <2>4, <2>5, <2>6 DEF CommitAccept, TablesType
<1> QED
  BY <1>4, <1>5, <1>6

(* The statements that commit by themselves, failures and creations.       *)
LEMMA AutocommitType ==
  ASSUME TypeInv, NEW w \in Workers,
         DeclineQuote(w) \/ ExpireQuote(w) \/ SubmitRFQ(w) \/ AddLine(w) \/ SetSum(w)
         \/ Fail(w)
  PROVE  TypeInv'
<1> USE DEF TypeInv
<1>1. CASE DeclineQuote(w)
  <2>1. req[w].q \in Quotes
    BY <1>1, RequestAt DEF DeclineQuote, DeclineReq
  <2>2. WorkersType'
    BY <1>1, DoneWorker DEF DeclineQuote, WorkersType
  <2>3. status' \in [Quotes -> QuoteStates \cup {"none"}] /\ overtaken' \subseteq Quotes
    BY <1>1, <2>1 DEF DeclineQuote, Overtake, TablesType, QuoteStates
  <2> QED
    BY <1>1, <2>2, <2>3 DEF DeclineQuote, TablesType, locks
<1>2. CASE ExpireQuote(w)
  <2>1. req[w] \in ExpireReq /\ \A q \in req[w].todo : req[w].seen[q] \in Open
    BY <1>2, RequestAt DEF ExpireQuote
  <2>2. PICK q \in req[w].todo :
          /\ status' = [status EXCEPT ![q] = "expired"]
          /\ overtaken' = IF status[q] = req[w].seen[q] /\ validity[q] = "past"
                          THEN overtaken ELSE overtaken \cup {q}
          /\ IF req[w].todo = {q} THEN Done(w)
             ELSE req' = [req EXCEPT ![w].todo = @ \ {q}] /\ UNCHANGED pc
    BY <1>2 DEF ExpireQuote
  <2>3. WorkersType'
    <3>1. CASE req[w].todo = {q}
      BY <1>2, <2>2, <3>1, DoneWorker DEF ExpireQuote, WorkersType
    <3>2. CASE req[w].todo # {q}
      <4> DEFINE r == [req[w] EXCEPT !.todo = @ \ {q}]
      <4>1. r \in ExpireReq /\ r.seen = req[w].seen /\ r.todo = req[w].todo \ {q}
        BY <2>1 DEF ExpireReq
      <4>2. req' = [req EXCEPT ![w] = r] /\ UNCHANGED pc
        BY <2>2, <3>2
      <4>3. pc' = [pc EXCEPT ![w] = "expire"]
        BY <1>2, <4>2 DEF ExpireQuote, WorkersType
      <4> HIDE DEF r
      <4>4. Fits("expire", r) /\ r \in AnyReq /\ "expire" \in StageNames
        BY <2>1, <4>1 DEF Fits, AnyReq, StageNames
      <4>5. started' \in Nat
        BY <1>2 DEF ExpireQuote, WorkersType
      <4> QED
        BY <4>2, <4>3, <4>4, <4>5, MoveWorker
    <3> QED
      BY <3>1, <3>2
  <2>4. q \in Quotes
    BY <2>1 DEF ExpireReq
  <2>5. status' \in [Quotes -> QuoteStates \cup {"none"}] /\ overtaken' \subseteq Quotes
    BY <2>2, <2>4 DEF TablesType, QuoteStates
  <2> QED
    BY <1>2, <2>3, <2>5 DEF ExpireQuote, TablesType, locks
<1>3. CASE SubmitRFQ(w)
  <2>1. WorkersType'
    BY <1>3, DoneWorker DEF SubmitRFQ, WorkersType
  <2>2. rfq' \in [Rfqs -> RfqStates \cup {"none"}]
    BY <1>3 DEF SubmitRFQ, TablesType, RfqStates
  <2> QED
    BY <1>3, <2>1, <2>2 DEF SubmitRFQ, TablesType, locks, history
<1>4. CASE AddLine(w)
  <2>1. req[w] \in LineReq
    BY <1>4, RequestAt DEF AddLine
  <2>2. req' = [req EXCEPT ![w] = req[w]]
    BY <1>4 DEF AddLine, WorkersType
  <2>3. WorkersType'
    BY <1>4, <2>1, <2>2, GotoWorker DEF AddLine, StageNames, AnyReq, Fits
  <2>4. items' \in [Quotes -> SUBSET Row] /\ mixed' \subseteq Quotes
    BY <1>4, <2>1 DEF AddLine, Mix, LineReq, TablesType
  <2> QED
    BY <1>4, <2>3, <2>4 DEF AddLine, TablesType, locks
<1>5. CASE SetSum(w)
  <2>1. req[w] \in LineReq
    BY <1>5, RequestAt DEF SetSum
  <2>2. WorkersType'
    BY <1>5, DoneWorker DEF SetSum, WorkersType
  <2>3. subtotal' \in [Quotes -> Amounts] /\ mixed' \subseteq Quotes
    BY <1>5, <2>1 DEF SetSum, Mix, LineReq, TablesType
  <2> QED
    BY <1>5, <2>2, <2>3 DEF SetSum, TablesType, locks
<1>6. CASE Fail(w)
  <2>1. WorkersType'
    BY <1>6, DoneWorker DEF Fail, WorkersType
  <2>2. mixed' \subseteq Quotes
    BY <1>6, RequestAt DEF Fail, LineReq, TablesType
  <2> QED
    BY <1>6, <2>1, <2>2, ReleaseType DEF Fail, TablesType, tables
<1> QED
  BY <1>1, <1>2, <1>3, <1>4, <1>5, <1>6

LEMMA CreateType ==
  ASSUME TypeInv, Create \/ Lapse
  PROVE  TypeInv'
<1> USE DEF TypeInv
<1>1. WorkersType'
  BY DEF Create, Lapse, WorkersType
<1>2. CASE CreateRFQ /\ UNCHANGED <<locks, history>>
  BY <1>1, <1>2 DEF CreateRFQ, TablesType, RfqStates, locks, history
<1>3. CASE CreateQuote /\ UNCHANGED <<locks, history>>
  <2>1. PICK q \in Quotes, r \in Rfqs \cup {NoRfq}, c \in Drafts, v \in {"none", "open"} :
          /\ status[q] = "none"
          /\ r # NoRfq => rfq[r] # "none" /\ v = "none"
          /\ status' = [status EXCEPT ![q] = "draft"]
          /\ rfqOf' = [rfqOf EXCEPT ![q] = r]
          /\ validity' = [validity EXCEPT ![q] = v]
          /\ items' = [items EXCEPT ![q] = Rows(0, c)]
          /\ subtotal' = [subtotal EXCEPT ![q] = Sum(Rows(0, c))]
          /\ UNCHANGED <<rfq, version, revisions, orders>>
    BY <1>3 DEF CreateQuote
  <2>2. Rows(0, c) \in SUBSET Row /\ Sum(Rows(0, c)) \in Amounts
    BY RowsType, SumType
  <2>3. items' \in [Quotes -> SUBSET Row] /\ subtotal' \in [Quotes -> Amounts]
    BY <2>1, <2>2 DEF TablesType
  <2>4. status' \in [Quotes -> QuoteStates \cup {"none"}] /\ validity' \in [Quotes -> Validities]
    BY <2>1 DEF TablesType, QuoteStates, Validities
  <2>5. rfqOf' \in [Quotes -> Rfqs \cup {NoRfq}]
    BY <2>1 DEF TablesType
  <2> QED
    BY <1>1, <1>3, <2>1, <2>3, <2>4, <2>5 DEF TablesType, locks, history
<1>4. CASE Lapse
  BY <1>1, <1>4 DEF Lapse, TablesType, Validities, locks, history
<1> QED
  BY <1>2, <1>3, <1>4 DEF Create

LEMMA TypeStep == TypeInv /\ [Next]_vars => TypeInv'
<1> SUFFICES ASSUME TypeInv, [Next]_vars PROVE TypeInv'
  OBVIOUS
<1>1. ASSUME NEW w \in Workers, Receive(w) \/ Serve(w) \/ Fail(w) PROVE TypeInv'
  BY <1>1, ReceiveType, StatementType, CommitType, AutocommitType DEF Serve
<1>2. CASE Create \/ Lapse
  BY <1>2, CreateType
<1>3. CASE UNCHANGED vars
  BY <1>3 DEF TypeInv, TablesType, WorkersType, vars, tables, locks, history
<1> QED
  BY <1>1, <1>2, <1>3 DEF Next, Rest

-----------------------------------------------------------------------------
(* What every step does to the workers.                                    *)

LEMMA Others ==
  ASSUME TypeInv, NEW w \in Workers, Receive(w) \/ Serve(w) \/ Fail(w)
  PROVE  \A v \in Workers \ {w} : pc'[v] = pc[v] /\ req'[v] = req[v]
<1> USE DEF TypeInv, WorkersType, Goto
<1>1. CASE Receive(w)
  BY <1>1 DEF Receive, LoadRFQ, LoadForEdit, LoadForLine, LoadForSend, LoadForAccept,
              LoadForDecline, ListExpirable, Arrive
<1>2. CASE Serve(w)
  <2>1. CASE DeleteItems(w) \/ InsertItems(w) \/ SetSubtotal(w) \/ UpdateQuote(w)
             \/ ListItems(w) \/ UpdateRFQ(w)
    BY <2>1 DEF DeleteItems, InsertItems, SetSubtotal, UpdateQuote, ListItems, UpdateRFQ, Advance
  <2>2. CASE CommitEdit(w) \/ CommitSend(w) \/ CommitAccept(w) \/ DeclineQuote(w)
             \/ SubmitRFQ(w) \/ SetSum(w)
    BY <2>2 DEF CommitEdit, CommitSend, CommitAccept, DeclineQuote, SubmitRFQ, SetSum, Done
  <2>3. CASE ExpireQuote(w)
    BY <2>3 DEF ExpireQuote, Done
  <2>4. CASE AddLine(w) \/ SumLines(w)
    BY <2>4 DEF AddLine, SumLines
  <2> QED
    BY <1>2, <2>1, <2>2, <2>3, <2>4 DEF Serve
<1>3. CASE Fail(w)
  BY <1>3 DEF Fail, Done
<1> QED
  BY <1>1, <1>2, <1>3

(* What a request has read when it starts.                                 *)
LEMMA Arrives ==
  ASSUME TypeInv, NEW w \in Workers, Receive(w)
  PROVE  /\ UNCHANGED <<tables, locks, history>>
         /\ pc[w] = "idle"
         /\ pc'[w] \in {"submit", "delete", "addLine", "quote", "list", "decline", "expire"}
         /\ pc'[w] = "list" => req'[w].kind = "accept"
         /\ pc'[w] = "expire" => \A q \in req'[w].todo : status[q] # "none"
         /\ pc'[w] \notin {"submit", "expire"} => status[req'[w].q] # "none"
<1> USE DEF TypeInv, WorkersType, Arrive, Goto, Open
<1>1. CASE LoadRFQ(w)
  BY <1>1 DEF LoadRFQ
<1>2. CASE LoadForEdit(w)
  BY <1>2 DEF LoadForEdit
<1>3. CASE LoadForLine(w)
  BY <1>3 DEF LoadForLine
<1>4. CASE LoadForSend(w)
  BY <1>4 DEF LoadForSend
<1>5. CASE LoadForAccept(w)
  BY <1>5 DEF LoadForAccept
<1>6. CASE LoadForDecline(w)
  BY <1>6 DEF LoadForDecline
<1>7. CASE ListExpirable(w)
  BY <1>7 DEF ListExpirable, Expirable
<1> QED
  BY <1>1, <1>2, <1>3, <1>4, <1>5, <1>6, <1>7 DEF Receive

-----------------------------------------------------------------------------
(* Locks: who is past the statement that takes a row's lock holds it.      *)

Holding(w) ==
  \/ pc[w] \in {"rfq", "commit"}
  \/ pc[w] = "list" /\ req[w].kind = "send"

LockInv ==
  /\ \A w \in Workers, q \in Quotes : quoteLock[q] = w <=> Holding(w) /\ req[w].q = q
  /\ \A w \in Workers, r \in Rfqs : rfqLock[r] = w => pc[w] = "commit"

(* A step of one request that takes and gives up no lock.                  *)
LEMMA LockKeep ==
  ASSUME LockInv, NEW w \in Workers, UNCHANGED locks,
         \A v \in Workers \ {w} : pc'[v] = pc[v] /\ req'[v] = req[v],
         Holding(w) <=> Holding(w)',
         Holding(w) => req'[w].q = req[w].q,
         pc[w] = "commit" => pc'[w] = "commit"
  PROVE  LockInv'
<1>1. \A v \in Workers, q \in Quotes :
        quoteLock'[q] = v <=> Holding(v)' /\ req'[v].q = q
  BY DEF LockInv, locks, Holding
<1>2. \A v \in Workers, r \in Rfqs : rfqLock'[r] = v => pc'[v] = "commit"
  BY DEF LockInv, locks
<1> QED
  BY <1>1, <1>2 DEF LockInv

(* The statement that takes the quote's lock.                              *)
LEMMA LockTake ==
  ASSUME TypeInv, LockInv, NEW w \in Workers, NEW q \in Quotes,
         quoteLock[q] = NoWorker, quoteLock' = [quoteLock EXCEPT ![q] = w],
         UNCHANGED rfqLock,
         \A v \in Workers \ {w} : pc'[v] = pc[v] /\ req'[v] = req[v],
         Holding(w)', req'[w].q = q, ~Holding(w), pc[w] # "commit"
  PROVE  LockInv'
<1>1. \A v \in Workers, p \in Quotes :
        quoteLock'[p] = v <=> Holding(v)' /\ req'[v].q = p
  <2> SUFFICES ASSUME NEW v \in Workers, NEW p \in Quotes
               PROVE  quoteLock'[p] = v <=> Holding(v)' /\ req'[v].q = p
    OBVIOUS
  <2>1. quoteLock'[p] = IF p = q THEN w ELSE quoteLock[p]
    BY DEF TypeInv, TablesType
  <2>2. CASE v = w
    BY <2>1, <2>2 DEF LockInv
  <2>3. CASE v # w
    BY <2>1, <2>3, QuoteAssumption DEF LockInv, Holding
  <2> QED
    BY <2>2, <2>3
<1>2. \A v \in Workers, r \in Rfqs : rfqLock'[r] = v => pc'[v] = "commit"
  BY DEF LockInv
<1> QED
  BY <1>1, <1>2 DEF LockInv

(* The end of a transaction.                                               *)
LEMMA LockDrop ==
  ASSUME TypeInv, LockInv, NEW w \in Workers, Release(w), Done(w)
  PROVE  LockInv'
<1>1. /\ pc' = [pc EXCEPT ![w] = "idle"]
      /\ req' = [req EXCEPT ![w] = NoReq]
      /\ pc \in [Workers -> StageNames] /\ req \in [Workers -> AnyReq]
  BY DEF TypeInv, WorkersType, Done, Goto
<1>2. \A v \in Workers, q \in Quotes :
        quoteLock'[q] = v <=> Holding(v)' /\ req'[v].q = q
  <2> SUFFICES ASSUME NEW v \in Workers, NEW q \in Quotes
               PROVE  quoteLock'[q] = v <=> Holding(v)' /\ req'[v].q = q
    OBVIOUS
  <2>1. quoteLock'[q] = IF quoteLock[q] = w THEN NoWorker ELSE quoteLock[q]
    BY DEF Release
  <2>2. CASE v = w
    BY <1>1, <2>1, <2>2, QuoteAssumption DEF Holding
  <2>3. CASE v # w
    BY <1>1, <2>1, <2>3, QuoteAssumption DEF Holding, LockInv
  <2> QED
    BY <2>2, <2>3
<1>3. \A v \in Workers, r \in Rfqs : rfqLock'[r] = v => pc'[v] = "commit"
  <2> SUFFICES ASSUME NEW v \in Workers, NEW r \in Rfqs, rfqLock'[r] = v
               PROVE  pc'[v] = "commit"
    OBVIOUS
  <2>1. rfqLock'[r] = IF rfqLock[r] = w THEN NoWorker ELSE rfqLock[r]
    BY DEF Release
  <2>2. v # w /\ rfqLock[r] = v
    BY <2>1, QuoteAssumption
  <2> QED
    BY <1>1, <2>2 DEF LockInv
<1> QED
  BY <1>2, <1>3 DEF LockInv

LEMMA LockInit == Init => LockInv
BY QuoteAssumption DEF Init, LockInv, Holding

LEMMA LockStep == TypeInv /\ LockInv /\ [Next]_vars => LockInv'
<1> SUFFICES ASSUME TypeInv, LockInv, [Next]_vars PROVE LockInv'
  OBVIOUS
<1> USE DEF TypeInv
<1>1. ASSUME NEW w \in Workers, Receive(w) PROVE LockInv'
  <2>1. ~Holding(w) /\ ~Holding(w)' /\ UNCHANGED locks /\ pc[w] # "commit"
    BY <1>1, Arrives DEF Holding
  <2> QED
    BY <1>1, <2>1, Others, LockKeep
<1>2. ASSUME NEW w \in Workers, Serve(w) PROVE LockInv'
  <2> DEFINE q == req[w].q
  <2>1. CASE DeleteItems(w) \/ InsertItems(w)
    <3>1. req[w] \in EditReq
      BY <2>1, RequestAt DEF DeleteItems, InsertItems
    <3>2. ~Holding(w) /\ ~Holding(w)' /\ UNCHANGED locks /\ pc[w] # "commit"
      BY <2>1, <3>1, AdvanceEdit DEF DeleteItems, InsertItems, Goto, Holding, WorkersType
    <3> QED
      BY <1>2, <3>2, Others, LockKeep
  <2>2. CASE SetSubtotal(w)
    <3>1. req[w] \in EditReq
      BY <2>2, RequestAt DEF SetSubtotal
    <3>2. quoteLock[q] = NoWorker /\ quoteLock' = [quoteLock EXCEPT ![q] = w]
          /\ pc[w] = "subtotal" /\ pc'[w] = "commit" /\ UNCHANGED <<rfqLock, req>>
      BY <2>2, <3>1, AdvanceEdit DEF SetSubtotal, Goto, WorkersType
    <3>3. q \in Quotes
      BY <3>1 DEF EditReq
    <3>4. ~Holding(w) /\ Holding(w)' /\ req'[w].q = q
      BY <3>2 DEF Holding
    <3> QED
      BY <1>2, <3>2, <3>3, <3>4, Others, LockTake
  <2>3. CASE UpdateQuote(w)
    <3>1. req[w] \in SendReq \cup AcceptReq
      BY <2>3, RequestAt DEF UpdateQuote
    <3>2. q \in Quotes /\ req[w].kind \in {"send", "accept"}
      BY <3>1 DEF SendReq, AcceptReq
    <3>3. quoteLock[q] = NoWorker /\ quoteLock' = [quoteLock EXCEPT ![q] = w]
          /\ pc[w] = "quote" /\ UNCHANGED rfqLock
      BY <2>3 DEF UpdateQuote
    <3>4. req'[w].q = q /\ req'[w].kind = req[w].kind
      BY <2>3, <3>1 DEF UpdateQuote, WorkersType, SendReq, AcceptReq
    <3>5. pc'[w] = IF req[w].kind = "send" THEN "list" ELSE "rfq"
      BY <2>3, <3>1, KindOf, AdvanceSend, AdvanceAccept DEF UpdateQuote, Goto, WorkersType
    <3>6. ~Holding(w) /\ Holding(w)'
      BY <3>2, <3>3, <3>4, <3>5 DEF Holding
    <3> QED
      BY <1>2, <3>2, <3>3, <3>4, <3>6, Others, LockTake
  <2>4. CASE ListItems(w)
    <3>1. req[w] \in SendReq \cup AcceptReq
      BY <2>4, RequestAt DEF ListItems
    <3>2. req'[w].q = q /\ req'[w].kind = req[w].kind
      BY <2>4, <3>1 DEF ListItems, WorkersType, SendReq, AcceptReq
    <3>3. pc[w] = "list" /\ pc'[w] = IF req[w].kind = "send" THEN "rfq" ELSE "quote"
      BY <2>4, <3>1, KindOf, AdvanceSend, AdvanceAccept DEF ListItems, Goto, WorkersType
    <3> QED
      BY <1>2, <2>4, <3>2, <3>3, Others, LockKeep DEF ListItems, Holding
  <2>5. CASE UpdateRFQ(w)
    <3>1. req[w] \in SendReq \cup AcceptReq
      BY <2>5, RequestAt DEF UpdateRFQ
    <3>2. pc[w] = "rfq" /\ pc'[w] = "commit" /\ UNCHANGED <<quoteLock, req>>
      BY <2>5, <3>1, AdvanceSend, AdvanceAccept DEF UpdateRFQ, Goto, WorkersType
    <3>3. \A v \in Workers, p \in Quotes :
            quoteLock'[p] = v <=> Holding(v)' /\ req'[v].q = p
      BY <1>2, <3>2, Others DEF LockInv, Holding
    <3>4. \A v \in Workers, r \in Rfqs : rfqLock'[r] = v => pc'[v] = "commit"
      BY <1>2, <2>5, <3>2, Others DEF LockInv, UpdateRFQ
    <3> QED
      BY <3>3, <3>4 DEF LockInv
  <2>6. CASE CommitEdit(w) \/ CommitSend(w) \/ CommitAccept(w)
    BY <2>6, LockDrop DEF CommitEdit, CommitSend, CommitAccept
  <2>7. CASE DeclineQuote(w) \/ ExpireQuote(w) \/ SubmitRFQ(w) \/ AddLine(w) \/ SumLines(w)
             \/ SetSum(w)
    <3>1. /\ pc[w] \in {"decline", "expire", "submit", "addLine", "sumLines", "setSum"}
          /\ pc'[w] \in {"idle", "expire", "sumLines", "setSum"} /\ UNCHANGED locks
      BY <2>7 DEF DeclineQuote, ExpireQuote, SubmitRFQ, AddLine, SumLines, SetSum, Done, Goto,
                  WorkersType
    <3> QED
      BY <1>2, <3>1, Others, LockKeep DEF Holding
  <2> QED
    BY <1>2, <2>1, <2>2, <2>3, <2>4, <2>5, <2>6, <2>7 DEF Serve
<1>3. ASSUME NEW w \in Workers, Fail(w) PROVE LockInv'
  BY <1>3, LockDrop DEF Fail
<1>4. CASE Create \/ Lapse
  BY <1>4 DEF Create, Lapse, LockInv, Holding, locks
<1>5. CASE UNCHANGED vars
  BY <1>5 DEF LockInv, Holding, vars, locks
<1> QED
  BY <1>1, <1>2, <1>3, <1>4, <1>5 DEF Next, Rest

-----------------------------------------------------------------------------
(* Waiting: whoever a request waits for stands at a later stage.           *)

AtQuote == {"subtotal", "quote", "decline", "setSum", "expire"}
AtRfq   == {"rfq", "submit"}

LEMMA NeedsLater ==
  ASSUME TypeInv, LockInv, NEW w \in Workers, NEW v \in Needs(w)
  PROVE  /\ v \in Workers
         /\ pc[w] = "insert" => pc[v] \in {"subtotal", "commit"}
         /\ pc[w] \in AtQuote => pc[v] \in {"list", "rfq", "commit"}
         /\ pc[w] \in AtRfq => pc[v] = "commit"
         /\ pc[w] \in {"insert"} \cup AtQuote \cup AtRfq
<1> USE DEF TypeInv, AtQuote, AtRfq
<1>1. CASE pc[w] = "insert"
  <2>1. Needs(w) = {u \in Workers \ {w} : Deleting(u) \cap req[w].gone # {}}
    BY <1>1 DEF Needs
  <2>2. v \in Workers /\ Deleting(v) # {}
    BY <2>1
  <2> QED
    BY <1>1, <2>2 DEF Deleting
<1>2. CASE pc[w] \in AtQuote
  <2>1. PICK q \in Quotes : v = quoteLock[q] /\ v # NoWorker
    <3>1. CASE pc[w] = "expire"
      <4>1. Needs(w) = {quoteLock[q] : q \in req[w].todo} \ {NoWorker}
        BY <3>1 DEF Needs
      <4>2. req[w].todo \subseteq Quotes
        BY <3>1, RequestAt DEF ExpireReq
      <4> QED
        BY <4>1, <4>2
    <3>2. CASE pc[w] # "expire"
      <4>1. Needs(w) = {quoteLock[req[w].q]} \ {NoWorker}
        BY <1>2, <3>2 DEF Needs
      <4>2. req[w].q \in Quotes
        BY <1>2, <3>2, RequestAt DEF EditReq, SendReq, AcceptReq, DeclineReq, LineReq
      <4> QED
        BY <4>1, <4>2
    <3> QED
      BY <3>1, <3>2
  <2>2. v \in Workers
    BY <2>1 DEF TablesType
  <2> QED
    BY <1>2, <2>1, <2>2 DEF LockInv, Holding
<1>3. CASE pc[w] \in AtRfq
  <2>1. PICK r \in Rfqs : v = rfqLock[r] /\ v # NoWorker
    <3>1. CASE pc[w] = "rfq"
      <4>1. Needs(w) = IF rfqOf[req[w].q] = NoRfq THEN {}
                       ELSE {rfqLock[rfqOf[req[w].q]]} \ {NoWorker}
        BY <3>1 DEF Needs
      <4>2. req[w].q \in Quotes
        BY <3>1, RequestAt DEF SendReq, AcceptReq
      <4> QED
        BY <4>1, <4>2 DEF TablesType
    <3>2. CASE pc[w] = "submit"
      <4>1. Needs(w) = {rfqLock[req[w].r]} \ {NoWorker}
        BY <3>2 DEF Needs
      <4>2. req[w].r \in Rfqs
        BY <3>2, RequestAt DEF SubmitReq
      <4> QED
        BY <4>1, <4>2
    <3> QED
      BY <1>3, <3>1, <3>2
  <2>2. v \in Workers
    BY <2>1 DEF TablesType
  <2> QED
    BY <1>3, <2>1, <2>2 DEF LockInv
<1>4. CASE pc[w] \notin {"insert"} \cup AtQuote \cup AtRfq
  <2>1. Needs(w) = {}
    BY <1>4 DEF Needs
  <2> QED
    BY <2>1
<1> QED
  BY <1>1, <1>2, <1>3, <1>4

LEMMA NoCircle == TypeInv /\ LockInv => NoWaitCycle
<1> SUFFICES ASSUME TypeInv, LockInv, NEW C \in (SUBSET Workers) \ {{}}
             PROVE  \E c \in C : Needs(c) \cap C = {}
  BY DEF NoWaitCycle
<1>1. CASE \E c \in C : pc[c] \notin {"insert"} \cup AtQuote \cup AtRfq
  BY <1>1, NeedsLater
<1>2. CASE /\ \A c \in C : pc[c] \in {"insert"} \cup AtQuote \cup AtRfq
           /\ \E c \in C : pc[c] \in AtRfq
  BY <1>2, NeedsLater DEF AtQuote, AtRfq
<1>3. CASE /\ \A c \in C : pc[c] \in {"insert"} \cup AtQuote
           /\ \E c \in C : pc[c] \in AtQuote
  BY <1>3, NeedsLater DEF AtQuote
<1>4. CASE \A c \in C : pc[c] = "insert"
  <2>1. PICK c \in C : TRUE
    OBVIOUS
  <2> QED
    BY <1>4, <2>1, NeedsLater
<1> QED
  BY <1>1, <1>2, <1>3, <1>4

-----------------------------------------------------------------------------
(* Quotes: a request's quote exists, and one that does not has no history. *)

BornInv ==
  /\ \A w \in Workers : pc[w] \notin {"idle", "submit", "expire"} => status[req[w].q] # "none"
  /\ \A w \in Workers : pc[w] = "expire" => \A q \in req[w].todo : status[q] # "none"
  /\ \A q \in Quotes : status[q] = "none" => orders[q] = <<>> /\ revisions[q] = <<>>

(* A request goes on with its quote.                                       *)
LEMMA SameQuote ==
  ASSUME TypeInv, NEW w \in Workers, Serve(w), pc'[w] \notin {"idle", "expire"}
  PROVE  req'[w].q = req[w].q /\ pc[w] \notin {"idle", "submit", "expire"}
<1> USE DEF TypeInv, WorkersType
<1>1. CASE DeleteItems(w) \/ InsertItems(w) \/ SetSubtotal(w)
  BY <1>1, RequestAt DEF DeleteItems, InsertItems, SetSubtotal, EditReq
<1>2. CASE UpdateQuote(w) \/ ListItems(w) \/ UpdateRFQ(w)
  BY <1>2, RequestAt DEF UpdateQuote, ListItems, UpdateRFQ, SendReq, AcceptReq
<1>3. CASE AddLine(w) \/ SumLines(w)
  BY <1>3, RequestAt DEF AddLine, SumLines, LineReq
<1>4. CASE CommitEdit(w) \/ CommitSend(w) \/ CommitAccept(w) \/ DeclineQuote(w)
           \/ SubmitRFQ(w) \/ SetSum(w)
  BY <1>4 DEF CommitEdit, CommitSend, CommitAccept, DeclineQuote, SubmitRFQ, SetSum, Done, Goto
<1>5. CASE ExpireQuote(w)
  BY <1>5 DEF ExpireQuote, Done, Goto
<1> QED
  BY <1>1, <1>2, <1>3, <1>4, <1>5 DEF Serve

(* A sweep goes on with quotes it had listed.                              *)
LEMMA SameSweep ==
  ASSUME TypeInv, NEW w \in Workers, Serve(w), pc'[w] = "expire"
  PROVE  pc[w] = "expire" /\ req'[w].todo \subseteq req[w].todo
<1> USE DEF TypeInv, WorkersType
<1>1. CASE ExpireQuote(w)
  <2>1. req[w] \in ExpireReq
    BY <1>1, RequestAt DEF ExpireQuote
  <2> QED
    BY <1>1, <2>1 DEF ExpireQuote, Done, Goto, ExpireReq
<1>2. CASE DeleteItems(w) \/ InsertItems(w) \/ SetSubtotal(w)
  BY <1>2, RequestAt, AdvanceEdit DEF DeleteItems, InsertItems, SetSubtotal, Goto
<1>3. CASE UpdateQuote(w) \/ ListItems(w) \/ UpdateRFQ(w)
  BY <1>3, RequestAt, AdvanceSend, AdvanceAccept DEF UpdateQuote, ListItems, UpdateRFQ, Goto
<1>4. CASE AddLine(w) \/ SumLines(w)
  BY <1>4 DEF AddLine, SumLines, Goto
<1>5. CASE CommitEdit(w) \/ CommitSend(w) \/ CommitAccept(w) \/ DeclineQuote(w)
           \/ SubmitRFQ(w) \/ SetSum(w)
  BY <1>5 DEF CommitEdit, CommitSend, CommitAccept, DeclineQuote, SubmitRFQ, SetSum, Done, Goto
<1> QED
  BY <1>1, <1>2, <1>3, <1>4, <1>5 DEF Serve

(* No step removes a quote, and an absent one gets no order or snapshot.   *)
LEMMA StaysBorn ==
  ASSUME TypeInv, BornInv, [Next]_vars, NEW q \in Quotes, status'[q] = "none"
  PROVE  status[q] = "none" /\ orders'[q] = <<>> /\ revisions'[q] = <<>>
<1> USE DEF TypeInv, TablesType
<1>1. ASSUME NEW w \in Workers, CommitSend(w) PROVE status[q] = "none" /\ q # req[w].q
  BY <1>1 DEF CommitSend
<1>2. ASSUME NEW w \in Workers, CommitAccept(w) PROVE status[q] = "none" /\ q # req[w].q
  BY <1>2 DEF CommitAccept
<1>3. ASSUME NEW w \in Workers, Serve(w)
      PROVE  status[q] = "none" /\ orders'[q] = orders[q] /\ revisions'[q] = revisions[q]
  <2>1. CASE CommitSend(w)
    BY <2>1, <1>1 DEF CommitSend
  <2>2. CASE CommitAccept(w)
    BY <2>2, <1>2 DEF CommitAccept
  <2>3. CASE CommitEdit(w) \/ DeclineQuote(w) \/ ExpireQuote(w) \/ SubmitRFQ(w)
             \/ AddLine(w) \/ SetSum(w)
    BY <2>3 DEF CommitEdit, DeclineQuote, ExpireQuote, SubmitRFQ, AddLine, SetSum
  <2>4. CASE DeleteItems(w) \/ InsertItems(w) \/ SetSubtotal(w) \/ UpdateQuote(w)
             \/ ListItems(w) \/ UpdateRFQ(w) \/ SumLines(w)
    BY <2>4 DEF DeleteItems, InsertItems, SetSubtotal, UpdateQuote, ListItems, UpdateRFQ,
                SumLines, tables
  <2> QED
    BY <1>3, <2>1, <2>2, <2>3, <2>4 DEF Serve
<1>4. ASSUME NEW w \in Workers, Receive(w) \/ Fail(w)
      PROVE  status[q] = "none" /\ orders'[q] = orders[q] /\ revisions'[q] = revisions[q]
  BY <1>4, Arrives DEF Fail, tables
<1>5. CASE Create \/ Lapse
  BY <1>5 DEF BornInv, Create, CreateRFQ, CreateQuote, Lapse
<1>6. CASE UNCHANGED vars
  BY <1>6 DEF BornInv, vars, tables
<1> QED
  BY <1>3, <1>4, <1>5, <1>6 DEF Next, Rest, BornInv

LEMMA BornInit == Init => BornInv
BY DEF Init, BornInv

LEMMA BornStep == TypeInv /\ BornInv /\ [Next]_vars => BornInv'
<1> SUFFICES ASSUME TypeInv, BornInv, [Next]_vars PROVE BornInv'
  OBVIOUS
<1>1. \A q \in Quotes : status'[q] = "none" => orders'[q] = <<>> /\ revisions'[q] = <<>>
  BY StaysBorn
<1>2. ASSUME NEW v \in Workers, pc'[v] \notin {"idle", "submit", "expire"}
      PROVE  status'[req'[v].q] # "none"
  <2>1. TypeInv' /\ req'[v].q \in Quotes
    <3>1. TypeInv'
      BY TypeStep
    <3>2. Fits(pc'[v], req'[v])
      BY <3>1 DEF TypeInv, WorkersType
    <3> QED
      BY <1>2, <3>1, <3>2 DEF Fits, EditReq, LineReq, SendReq, AcceptReq, DeclineReq
  <2>2. status[req'[v].q] # "none"
    <3>1. ASSUME NEW w \in Workers, Receive(w) \/ Serve(w) \/ Fail(w)
          PROVE  status[req'[v].q] # "none"
      <4>1. CASE v # w
        BY <1>2, <3>1, <4>1, Others DEF BornInv
      <4>2. CASE v = w /\ Receive(w)
        BY <1>2, <4>2, Arrives
      <4>3. CASE v = w /\ Serve(w)
        BY <1>2, <4>3, SameQuote DEF BornInv
      <4>4. CASE v = w /\ Fail(w)
        BY <1>2, <4>4 DEF Fail, Done, Goto, TypeInv, WorkersType
      <4> QED
        BY <3>1, <4>1, <4>2, <4>3, <4>4
    <3>2. CASE UNCHANGED <<pc, req>>
      BY <1>2, <3>2 DEF BornInv
    <3> QED
      BY <3>1, <3>2 DEF Next, Rest, Create, Lapse, vars
  <2> QED
    BY <2>1, <2>2, StaysBorn
<1>3. ASSUME NEW v \in Workers, pc'[v] = "expire", NEW q \in req'[v].todo
      PROVE  status'[q] # "none"
  <2>1. q \in Quotes
    <3>1. req'[v] \in ExpireReq
      BY <1>3, TypeStep DEF TypeInv, WorkersType, Fits
    <3> QED
      BY <1>3, <3>1 DEF ExpireReq
  <2>2. status[q] # "none"
    <3>1. ASSUME NEW w \in Workers, Receive(w) \/ Serve(w) \/ Fail(w)
          PROVE  status[q] # "none"
      <4>1. CASE v # w
        BY <1>3, <3>1, <4>1, Others DEF BornInv
      <4>2. CASE v = w /\ Receive(w)
        BY <1>3, <4>2, Arrives
      <4>3. CASE v = w /\ Serve(w)
        BY <1>3, <4>3, SameSweep DEF BornInv
      <4>4. CASE v = w /\ Fail(w)
        BY <1>3, <4>4 DEF Fail, Done, Goto, TypeInv, WorkersType
      <4> QED
        BY <3>1, <4>1, <4>2, <4>3, <4>4
    <3>2. CASE UNCHANGED <<pc, req>>
      BY <1>3, <3>2 DEF BornInv
    <3> QED
      BY <3>1, <3>2 DEF Next, Rest, Create, Lapse, vars
  <2> QED
    BY <2>1, <2>2, StaysBorn
<1> QED
  BY <1>1, <1>2, <1>3 DEF BornInv

-----------------------------------------------------------------------------
(* Decisions.                                                              *)

LEMMA DecisionInit == Init => DecisionStands
BY EmptySeq DEF Init, DecisionStands

LEMMA DecisionStep == TypeInv /\ BornInv /\ DecisionStands /\ [Next]_vars => DecisionStands'
<1> SUFFICES ASSUME TypeInv, BornInv, DecisionStands, [Next]_vars PROVE DecisionStands'
  OBVIOUS
<1> USE DEF TypeInv, DecisionStands
<1>1. CASE UNCHANGED <<status, orders, validity, overtaken>>
  BY <1>1
<1>2. ASSUME NEW w \in Workers, CommitSend(w) PROVE DecisionStands'
  <2> DEFINE p == req[w].q
  <2>1. req[w] \in SendReq
    BY <1>2, RequestAt, KindOf DEF CommitSend
  <2>2. p \in Quotes /\ req[w].seen \notin {"accepted", "expired"}
    BY <2>1 DEF SendReq, Open
  <2>3. /\ status' = [status EXCEPT ![p] = "sent"]
        /\ validity' = [validity EXCEPT ![p] = IF req[w].renew THEN "open" ELSE @]
        /\ overtaken' = IF status[p] = req[w].seen THEN overtaken ELSE overtaken \cup {p}
        /\ UNCHANGED orders
    BY <1>2 DEF CommitSend, Overtake
  <2> QED
    BY <2>2, <2>3 DEF TablesType
<1>3. ASSUME NEW w \in Workers, CommitAccept(w) PROVE DecisionStands'
  <2> DEFINE p == req[w].q
  <2>1. req[w] \in AcceptReq
    BY <1>3, RequestAt, KindOf DEF CommitAccept
  <2>2. p \in Quotes /\ req[w].seen # "accepted" /\ req[w].rows \in SUBSET Row
    BY <2>1 DEF AcceptReq, Open
  <2>3. /\ status' = [status EXCEPT ![p] = "accepted"]
        /\ orders' = [orders EXCEPT ![p] = Append(orders[p], req[w].rows)]
        /\ overtaken' = IF status[p] = req[w].seen THEN overtaken ELSE overtaken \cup {p}
        /\ UNCHANGED validity
    BY <1>3 DEF CommitAccept, Overtake
  <2>4. ASSUME p \notin overtaken' PROVE Len(orders'[p]) = 1 /\ orders'[p] # <<>>
    <3>1. orders[p] = <<>>
      BY <2>2, <2>3, <2>4 DEF TablesType
    <3>2. orders'[p] = Append(<<>>, req[w].rows)
      BY <2>2, <2>3, <3>1 DEF TablesType
    <3>3. <<>> \in Seq(SUBSET Row)
      BY EmptySeq
    <3> QED
      BY <2>2, <3>2, <3>3, AppendProperties, EmptySeq
  <2>5. status'[p] = "accepted"
    BY <2>2, <2>3 DEF TablesType
  <2>6. ASSUME NEW q \in Quotes \ overtaken', q # p
        PROVE  status'[q] = status[q] /\ orders'[q] = orders[q] /\ q \notin overtaken
    BY <2>3, <2>6 DEF TablesType
  <2> QED
    BY <2>3, <2>4, <2>5, <2>6
<1>4. ASSUME NEW w \in Workers, DeclineQuote(w) PROVE DecisionStands'
  <2>1. req[w].q \in Quotes /\ req[w].seen # "accepted"
    BY <1>4, RequestAt DEF DeclineQuote, DeclineReq, Open
  <2> QED
    BY <1>4, <2>1 DEF DeclineQuote, Overtake, TablesType
<1>5. ASSUME NEW w \in Workers, ExpireQuote(w) PROVE DecisionStands'
  <2>1. req[w] \in ExpireReq /\ \A q \in req[w].todo : req[w].seen[q] \in Open
    BY <1>5, RequestAt DEF ExpireQuote
  <2>2. PICK p \in req[w].todo :
          /\ status' = [status EXCEPT ![p] = "expired"]
          /\ overtaken' = IF status[p] = req[w].seen[p] /\ validity[p] = "past"
                          THEN overtaken ELSE overtaken \cup {p}
    BY <1>5 DEF ExpireQuote
  <2>3. p \in Quotes /\ req[w].seen[p] # "accepted"
    BY <2>1 DEF ExpireReq, Open
  <2>4. UNCHANGED <<orders, validity>>
    BY <1>5 DEF ExpireQuote
  <2> QED
    BY <2>2, <2>3, <2>4 DEF TablesType
<1>6. CASE Create
  <2>1. CASE CreateQuote
    <3>1. PICK p \in Quotes, v \in {"none", "open"} :
            /\ status[p] = "none"
            /\ status' = [status EXCEPT ![p] = "draft"]
            /\ validity' = [validity EXCEPT ![p] = v]
            /\ UNCHANGED orders
      BY <2>1 DEF CreateQuote
    <3>2. UNCHANGED overtaken
      BY <1>6 DEF Create, history
    <3> QED
      BY <3>1, <3>2 DEF BornInv, TablesType
  <2>2. CASE CreateRFQ
    BY <1>6, <2>2, <1>1 DEF Create, CreateRFQ, history
  <2> QED
    BY <1>6, <2>1, <2>2 DEF Create
<1>7. CASE Lapse
  BY <1>7 DEF Lapse, TablesType, history
<1>8. ASSUME NEW w \in Workers, Serve(w) PROVE DecisionStands'
  <2>1. CASE CommitEdit(w) \/ SubmitRFQ(w) \/ AddLine(w) \/ SetSum(w)
    BY <2>1, <1>1 DEF CommitEdit, SubmitRFQ, AddLine, SetSum, history
  <2>2. CASE DeleteItems(w) \/ InsertItems(w) \/ SetSubtotal(w) \/ UpdateQuote(w)
             \/ ListItems(w) \/ UpdateRFQ(w) \/ SumLines(w)
    BY <2>2, <1>1 DEF DeleteItems, InsertItems, SetSubtotal, UpdateQuote, ListItems, UpdateRFQ,
                      SumLines, tables, history
  <2> QED
    BY <1>2, <1>3, <1>4, <1>5, <1>8, <2>1, <2>2 DEF Serve
<1>9. ASSUME NEW w \in Workers, Receive(w) \/ Fail(w) PROVE DecisionStands'
  BY <1>9, <1>1, Arrives DEF Fail, tables, history
<1> QED
  BY <1>1, <1>6, <1>7, <1>8, <1>9 DEF Next, Rest, vars, tables, history

-----------------------------------------------------------------------------
(* RFQs.                                                                   *)

LEMMA RfqInit == Init => RfqFollowsQuotes
BY DEF Init, RfqFollowsQuotes

LEMMA RfqStep == TypeInv /\ BornInv /\ RfqFollowsQuotes /\ [Next]_vars => RfqFollowsQuotes'
<1> SUFFICES ASSUME TypeInv, BornInv, RfqFollowsQuotes, [Next]_vars,
                    NEW r \in Rfqs
             PROVE  /\ rfq'[r] = "accepted" =>
                         \E q \in Quotes : rfqOf'[q] = r /\ orders'[q] # <<>>
                    /\ rfq'[r] = "quoted" =>
                         \E q \in Quotes : rfqOf'[q] = r /\ revisions'[q] # <<>>
  BY DEF RfqFollowsQuotes
<1> DEFINE P == /\ rfq'[r] = "accepted" =>
                     \E q \in Quotes : rfqOf'[q] = r /\ orders'[q] # <<>>
                /\ rfq'[r] = "quoted" =>
                     \E q \in Quotes : rfqOf'[q] = r /\ revisions'[q] # <<>>
<1> USE DEF TypeInv
<1>1. /\ rfq[r] = "accepted" => \E q \in Quotes : rfqOf[q] = r /\ orders[q] # <<>>
      /\ rfq[r] = "quoted" => \E q \in Quotes : rfqOf[q] = r /\ revisions[q] # <<>>
  BY DEF RfqFollowsQuotes
<1>2. CASE UNCHANGED <<rfq, rfqOf, orders, revisions>>
  BY <1>1, <1>2
<1>3. ASSUME NEW w \in Workers, CommitSend(w) PROVE P
  <2> DEFINE p == req[w].q
             rev == [version |-> version[p] + 1, sub |-> req[w].sub, rows |-> req[w].rows]
  <2>1. p \in Quotes /\ rev \in Revision
    <3>1. req[w] \in SendReq
      BY <1>3, RequestAt, KindOf DEF CommitSend
    <3>2. p \in Quotes /\ req[w].sub \in Amounts /\ req[w].rows \in SUBSET Row
      BY <3>1 DEF SendReq
    <3>3. version[p] + 1 \in Nat
      BY <3>2 DEF TablesType
    <3> QED
      BY <3>2, <3>3 DEF Revision
  <2>2. revisions' = [revisions EXCEPT ![p] = Append(revisions[p], rev)]
        /\ rfq' = [s \in Rfqs |-> IF s = rfqOf[p] THEN "quoted" ELSE rfq[s]]
        /\ UNCHANGED <<rfqOf, orders>>
    BY <1>3 DEF CommitSend, SetRFQ
  <2>3. Append(revisions[p], rev) # <<>>
    BY <2>1, AppendNonempty DEF TablesType
  <2>4. \A q \in Quotes : revisions[q] # <<>> => revisions'[q] # <<>>
    BY <2>1, <2>2, <2>3 DEF TablesType
  <2>5. revisions'[p] # <<>>
    BY <2>1, <2>2, <2>3 DEF TablesType
  <2> HIDE DEF rev, p
  <2> QED
    BY <1>1, <2>1, <2>2, <2>4, <2>5
<1>4. ASSUME NEW w \in Workers, CommitAccept(w) PROVE P
  <2> DEFINE p == req[w].q
  <2>1. p \in Quotes /\ req[w].rows \in SUBSET Row
    BY <1>4, RequestAt, KindOf DEF CommitAccept, AcceptReq
  <2>2. orders' = [orders EXCEPT ![p] = Append(orders[p], req[w].rows)]
        /\ rfq' = [s \in Rfqs |-> IF s = rfqOf[p] THEN "accepted" ELSE rfq[s]]
        /\ UNCHANGED <<rfqOf, revisions>>
    BY <1>4 DEF CommitAccept, SetRFQ
  <2>3. Append(orders[p], req[w].rows) # <<>>
    BY <2>1, AppendNonempty DEF TablesType
  <2>4. \A q \in Quotes : orders[q] # <<>> => orders'[q] # <<>>
    BY <2>1, <2>2, <2>3 DEF TablesType
  <2>5. orders'[p] # <<>>
    BY <2>1, <2>2, <2>3 DEF TablesType
  <2> HIDE DEF p
  <2> QED
    BY <1>1, <2>1, <2>2, <2>4, <2>5
<1>5. ASSUME NEW w \in Workers, SubmitRFQ(w) PROVE P
  BY <1>1, <1>5 DEF SubmitRFQ, TablesType
<1>6. CASE Create
  <2>1. CASE CreateRFQ
    BY <1>1, <2>1 DEF CreateRFQ, TablesType
  <2>2. CASE CreateQuote
    <3>1. PICK p \in Quotes, s \in Rfqs \cup {NoRfq} :
            /\ status[p] = "none"
            /\ rfqOf' = [rfqOf EXCEPT ![p] = s]
            /\ UNCHANGED <<rfq, revisions, orders>>
      BY <2>2 DEF CreateQuote
    <3>2. orders[p] = <<>> /\ revisions[p] = <<>>
      BY <3>1 DEF BornInv
    <3> QED
      BY <1>1, <3>1, <3>2 DEF TablesType
  <2> QED
    BY <1>6, <2>1, <2>2 DEF Create
<1>7. ASSUME NEW w \in Workers, Serve(w) PROVE P
  <2>1. CASE CommitEdit(w) \/ DeclineQuote(w) \/ ExpireQuote(w) \/ AddLine(w) \/ SetSum(w)
    BY <2>1, <1>2 DEF CommitEdit, DeclineQuote, ExpireQuote, AddLine, SetSum
  <2>2. CASE DeleteItems(w) \/ InsertItems(w) \/ SetSubtotal(w) \/ UpdateQuote(w)
             \/ ListItems(w) \/ UpdateRFQ(w) \/ SumLines(w)
    BY <2>2, <1>2 DEF DeleteItems, InsertItems, SetSubtotal, UpdateQuote, ListItems, UpdateRFQ,
                      SumLines, tables
  <2> QED
    BY <1>3, <1>4, <1>5, <1>7, <2>1, <2>2 DEF Serve
<1>8. ASSUME NEW w \in Workers, Receive(w) \/ Fail(w) PROVE P
  BY <1>8, <1>2, Arrives DEF Fail, tables
<1>9. CASE Lapse \/ UNCHANGED vars
  BY <1>9, <1>2 DEF Lapse, vars, tables
<1> QED
  BY <1>6, <1>7, <1>8, <1>9 DEF Next, Rest

-----------------------------------------------------------------------------
(* Lines.  What a request knows of its quote's lines stays true for as     *)
(* long as it uses it, unless the quote's lines are written at once.       *)

Idle(q) == \A v \in Workers : ~HalfLine(v, q)

Knows(v, q) ==
  req[v].q = q =>
    /\ pc[v] \in {"insert", "subtotal", "commit"} /\ req[v].kind = "edit" => req[v].gone = items[q]
    /\ pc[v] = "setSum" => req[v].sub = Sum(items[q])
    /\ Holding(v) /\ req[v].kind = "send" => req[v].sub = subtotal[q]
    /\ pc[v] \in {"rfq", "commit"} /\ req[v].kind = "send" => req[v].rows = items[q] \/ ~Idle(q)

Clear(q) ==
  /\ status[q] # "none" /\ Idle(q) => subtotal[q] = Sum(items[q])
  /\ \A i \in DOMAIN revisions[q] : revisions[q][i].sub = Sum(revisions[q][i].rows)
  /\ \A v \in Workers : Knows(v, q)

LinesInv == \A q \in Quotes \ mixed : Clear(q)

(* A step of one request that leaves a quote's lines as they are.          *)
LEMMA ClearKeep ==
  ASSUME NEW w \in Workers, NEW q \in Quotes, Clear(q),
         \A v \in Workers \ {w} : pc'[v] = pc[v] /\ req'[v] = req[v],
         items'[q] = items[q], subtotal'[q] = subtotal[q], revisions'[q] = revisions[q],
         status'[q] # "none" => status[q] # "none",
         HalfLine(w, q)' <=> HalfLine(w, q),
         Knows(w, q)'
  PROVE  Clear(q)'
<1>1. \A v \in Workers : HalfLine(v, q)' <=> HalfLine(v, q)
  BY DEF HalfLine
<1>2. Idle(q)' <=> Idle(q)
  BY <1>1 DEF Idle
<1>3. \A v \in Workers \ {w} : Knows(v, q) => Knows(v, q)'
  BY <1>2 DEF Knows, Holding
<1> QED
  BY <1>2, <1>3 DEF Clear

(* A request that works on another quote, or on none, knows nothing of     *)
(* this one.                                                               *)
LEMMA ClearElsewhere ==
  ASSUME TypeInv, NEW w \in Workers, NEW q \in Quotes, Clear(q),
         Receive(w) \/ Serve(w) \/ Fail(w),
         items'[q] = items[q], subtotal'[q] = subtotal[q], revisions'[q] = revisions[q],
         status'[q] # "none" => status[q] # "none",
         ~HalfLine(w, q),
         pc'[w] \in {"idle", "submit", "expire", "delete", "addLine", "decline"}
           \/ req'[w].q # q
  PROVE  Clear(q)'
<1>1. Knows(w, q)'
  BY DEF Knows, Holding
<1>2. ~HalfLine(w, q)'
  BY DEF HalfLine
<1> QED
  BY <1>1, <1>2, Others, ClearKeep

LEMMA IdleKeep ==
  ASSUME TypeInv, NEW w \in Workers, NEW q \in Quotes, Receive(w) \/ Serve(w) \/ Fail(w),
         HalfLine(w, q)' <=> HalfLine(w, q)
  PROVE  Idle(q)' <=> Idle(q)
<1>1. \A v \in Workers : HalfLine(v, q)' <=> HalfLine(v, q)
  BY Others DEF HalfLine
<1> QED
  BY <1>1 DEF Idle

(* A quote that a request writes exists already.                           *)
LEMMA NoBirth ==
  ASSUME TypeInv, BornInv, NEW w \in Workers, NEW q \in Quotes,
         Receive(w) \/ Serve(w) \/ Fail(w), status'[q] # "none"
  PROVE  status[q] # "none"
<1> USE DEF TypeInv, TablesType
<1>1. CASE CommitSend(w) \/ CommitAccept(w)
  BY <1>1 DEF CommitSend, CommitAccept, BornInv
<1>2. CASE DeclineQuote(w)
  BY <1>2 DEF DeclineQuote, BornInv
<1>3. CASE ExpireQuote(w)
  BY <1>3 DEF ExpireQuote, BornInv
<1>4. CASE CommitEdit(w) \/ SubmitRFQ(w) \/ AddLine(w) \/ SetSum(w)
  BY <1>4 DEF CommitEdit, SubmitRFQ, AddLine, SetSum
<1>5. CASE DeleteItems(w) \/ InsertItems(w) \/ SetSubtotal(w) \/ UpdateQuote(w)
           \/ ListItems(w) \/ UpdateRFQ(w) \/ SumLines(w)
  BY <1>5 DEF DeleteItems, InsertItems, SetSubtotal, UpdateQuote, ListItems, UpdateRFQ,
              SumLines, tables
<1>6. CASE Receive(w) \/ Fail(w)
  BY <1>6, Arrives DEF Fail, tables
<1> QED
  BY <1>1, <1>2, <1>3, <1>4, <1>5, <1>6 DEF Serve

(* Readings, and statements that write nothing a quote's lines depend on.  *)
LEMMA ClearRead ==
  ASSUME TypeInv, BornInv, NEW w \in Workers, NEW q \in Quotes, Clear(q),
         \/ Receive(w)
         \/ DeleteItems(w) \/ InsertItems(w) \/ SetSubtotal(w)
         \/ UpdateQuote(w) \/ ListItems(w) \/ UpdateRFQ(w) \/ SumLines(w)
  PROVE  Clear(q)'
<1> USE DEF TypeInv, WorkersType
<1>1. Receive(w) \/ Serve(w)
  BY DEF Serve
<1>2. /\ items' = items /\ subtotal' = subtotal /\ revisions' = revisions /\ status' = status
  BY Arrives DEF DeleteItems, InsertItems, SetSubtotal, UpdateQuote, ListItems, UpdateRFQ,
                 SumLines, tables
<1>3. ASSUME HalfLine(w, q)' <=> HalfLine(w, q), Knows(w, q)' PROVE Clear(q)'
  BY <1>1, <1>2, <1>3, Others, ClearKeep
<1>4. CASE Receive(w)
  BY <1>3, <1>4, Arrives DEF HalfLine, Knows, Holding
<1>5. CASE DeleteItems(w)
  <2>1. req[w] \in EditReq /\ pc[w] = "delete" /\ pc'[w] = "insert"
    BY <1>5, RequestAt, AdvanceEdit DEF DeleteItems, Goto
  <2>2. req'[w] = [req[w] EXCEPT !.gone = items[req[w].q]]
    BY <1>5 DEF DeleteItems
  <2>3. req'[w].q = req[w].q /\ req'[w].kind = "edit" /\ req'[w].gone = items[req[w].q]
    BY <2>1, <2>2 DEF EditReq
  <2> QED
    BY <1>2, <1>3, <2>1, <2>3 DEF HalfLine, Knows, Holding
<1>6. CASE InsertItems(w)
  <2>1. req[w] \in EditReq /\ pc[w] = "insert" /\ pc'[w] = "subtotal"
    BY <1>6, RequestAt, AdvanceEdit DEF InsertItems, Goto
  <2>2. req'[w] = [req[w] EXCEPT !.gone = req[w].gone \cap items[req[w].q]]
    BY <1>6 DEF InsertItems
  <2>3. /\ req'[w].q = req[w].q /\ req'[w].kind = "edit" /\ req[w].kind = "edit"
        /\ req'[w].gone = req[w].gone \cap items[req[w].q]
    BY <2>1, <2>2 DEF EditReq
  <2>4. req[w].q = q => req[w].gone = items[q]
    BY <2>1, <2>3 DEF Clear, Knows
  <2> QED
    BY <1>2, <1>3, <2>1, <2>3, <2>4 DEF HalfLine, Knows, Holding
<1>7. CASE SetSubtotal(w)
  <2>1. req[w] \in EditReq /\ pc[w] = "subtotal" /\ pc'[w] = "commit" /\ req' = req
    BY <1>7, RequestAt, AdvanceEdit DEF SetSubtotal, Goto
  <2>2. req[w].kind = "edit"
    BY <2>1 DEF EditReq
  <2> QED
    BY <1>2, <1>3, <2>1, <2>2 DEF HalfLine, Knows, Holding, Clear
<1>8. CASE UpdateQuote(w)
  <2>1. req[w] \in SendReq \cup AcceptReq /\ pc[w] = "quote"
    BY <1>8, RequestAt DEF UpdateQuote
  <2>2. CASE req[w] \in SendReq
    <3>1. req'[w] = [req[w] EXCEPT !.sub = subtotal[req[w].q]] /\ pc'[w] = "list"
      BY <1>8, <2>1, <2>2, KindOf, AdvanceSend DEF UpdateQuote, Goto
    <3>2. req'[w].q = req[w].q /\ req'[w].sub = subtotal[req[w].q]
      BY <2>2, <3>1 DEF SendReq
    <3> QED
      BY <1>2, <1>3, <2>1, <3>1, <3>2 DEF HalfLine, Knows, Holding
  <2>3. CASE req[w] \in AcceptReq
    <3>1. req' = req /\ pc'[w] = "rfq" /\ req[w].kind = "accept"
      BY <1>8, <2>1, <2>3, KindOf, AdvanceAccept DEF UpdateQuote, Goto, AcceptReq
    <3> QED
      BY <1>3, <2>1, <3>1 DEF HalfLine, Knows, Holding
  <2> QED
    BY <2>1, <2>2, <2>3
<1>9. CASE ListItems(w)
  <2>1. req[w] \in SendReq \cup AcceptReq /\ pc[w] = "list"
    BY <1>9, RequestAt DEF ListItems
  <2>2. CASE req[w] \in SendReq
    <3>1. req'[w] = [req[w] EXCEPT !.rows = items[req[w].q]] /\ pc'[w] = "rfq"
      BY <1>9, <2>1, <2>2, AdvanceSend DEF ListItems, Goto
    <3>2. /\ req'[w].q = req[w].q /\ req'[w].rows = items[req[w].q]
          /\ req'[w].sub = req[w].sub /\ req[w].kind = "send"
      BY <2>2, <3>1 DEF SendReq
    <3> QED
      BY <1>2, <1>3, <2>1, <3>1, <3>2 DEF HalfLine, Knows, Holding, Clear
  <2>3. CASE req[w] \in AcceptReq
    <3>1. req'[w].kind = "accept" /\ pc'[w] = "quote"
      BY <1>9, <2>1, <2>3, AdvanceAccept DEF ListItems, Goto, AcceptReq
    <3> QED
      BY <1>3, <2>1, <3>1 DEF HalfLine, Knows, Holding
  <2> QED
    BY <2>1, <2>2, <2>3
<1>10. CASE UpdateRFQ(w)
  <2>1. req[w] \in SendReq \cup AcceptReq /\ pc[w] = "rfq" /\ pc'[w] = "commit" /\ req' = req
    BY <1>10, RequestAt, AdvanceSend, AdvanceAccept DEF UpdateRFQ, Goto
  <2>2. req[w].kind # "edit"
    BY <2>1 DEF SendReq, AcceptReq
  <2>3. HalfLine(w, q)' <=> HalfLine(w, q)
    BY <2>1 DEF HalfLine
  <2>4. Idle(q)' <=> Idle(q)
    BY <1>1, <2>3, IdleKeep
  <2> QED
    BY <1>2, <1>3, <2>1, <2>2, <2>3, <2>4 DEF Knows, Holding, Clear
<1>11. CASE SumLines(w)
  <2>1. req[w] \in LineReq /\ pc[w] = "sumLines" /\ pc'[w] = "setSum"
    BY <1>11, RequestAt DEF SumLines, Goto
  <2>2. req'[w] = [req[w] EXCEPT !.sub = Sum(items[req[w].q])]
    BY <1>11 DEF SumLines
  <2>3. req'[w].q = req[w].q /\ req'[w].sub = Sum(items[req[w].q])
    BY <2>1, <2>2 DEF LineReq
  <2> QED
    BY <1>2, <1>3, <2>1, <2>3 DEF HalfLine, Knows, Holding
<1> QED
  BY <1>4, <1>5, <1>6, <1>7, <1>8, <1>9, <1>10, <1>11

(* One transaction at a time holds a quote.                                *)
LEMMA OneHolder ==
  ASSUME LockInv, NEW v \in Workers, NEW w \in Workers, NEW q \in Quotes,
         Holding(v), req[v].q = q
  PROVE  quoteLock[q] = v /\ (Holding(w) /\ req[w].q = q => v = w)
BY DEF LockInv

(* Writes to a quote by a request that is not about its lines.             *)
LEMMA ClearDecide ==
  ASSUME TypeInv, BornInv, NEW w \in Workers, NEW q \in Quotes, Clear(q),
         \/ CommitAccept(w) \/ DeclineQuote(w) \/ ExpireQuote(w) \/ SubmitRFQ(w)
         \/ Fail(w) /\ ~HalfLine(w, q)
  PROVE  Clear(q)'
<1> USE DEF TypeInv, WorkersType
<1>1. Serve(w) \/ Fail(w)
  BY DEF Serve
<1>2. /\ items' = items /\ subtotal' = subtotal /\ revisions' = revisions
  BY DEF CommitAccept, DeclineQuote, ExpireQuote, SubmitRFQ, Fail, tables
<1>3. ~HalfLine(w, q)
  BY DEF CommitAccept, DeclineQuote, ExpireQuote, SubmitRFQ, HalfLine
<1>4. pc'[w] \in {"idle", "expire"}
  BY DEF CommitAccept, DeclineQuote, ExpireQuote, SubmitRFQ, Fail, Done, Goto
<1> QED
  BY <1>1, <1>2, <1>3, <1>4, NoBirth, ClearElsewhere

LEMMA ClearEdit ==
  ASSUME TypeInv, LockInv, BornInv, LinesInv, NEW w \in Workers, CommitEdit(w),
         NEW q \in Quotes \ mixed'
  PROVE  Clear(q)'
<1> USE DEF TypeInv, WorkersType
<1> DEFINE p == req[w].q
<1>1. req[w] \in EditReq /\ p \in Quotes /\ pc[w] = "commit" /\ req[w].kind = "edit"
  BY RequestAt, KindOf DEF CommitEdit
<1>2. /\ items' = [items EXCEPT ![p] = (items[p] \ req[w].gone) \cup req[w].rows]
      /\ subtotal' = [subtotal EXCEPT ![p] = Sum(req[w].rows)]
      /\ UNCHANGED <<status, revisions>>
      /\ pc'[w] = "idle"
  BY DEF CommitEdit, NewSubtotal, Done, Goto
<1>3. mixed' = IF \E v \in Workers \ {w} : WritingLines(v, p) THEN mixed \cup {p} ELSE mixed
  BY DEF CommitEdit, Mix
<1>4. Clear(q) /\ Serve(w)
  BY <1>3 DEF LinesInv, Serve
<1>5. CASE q # p
  <2>1. items'[q] = items[q] /\ subtotal'[q] = subtotal[q]
    BY <1>1, <1>2, <1>5 DEF TablesType
  <2> QED
    BY <1>1, <1>2, <1>4, <2>1, ClearElsewhere DEF HalfLine
<1>6. CASE q = p
  <2>1. \A v \in Workers \ {w} : ~WritingLines(v, q)
    BY <1>3, <1>6
  <2>2. req[w].gone = items[q]
    BY <1>1, <1>4, <1>6 DEF Clear, Knows
  <2>3. items'[q] = req[w].rows /\ subtotal'[q] = Sum(req[w].rows)
    BY <1>1, <1>2, <1>6, <2>2 DEF TablesType
  <2>4. \A v \in Workers \ {w} : ~(Holding(v) /\ req[v].q = q)
    BY <1>1, <1>6, OneHolder DEF Holding
  <2>5. \A v \in Workers : Knows(v, q)'
    <3>1. ASSUME NEW v \in Workers \ {w} PROVE Knows(v, q)'
      BY <2>1, <2>4, <1>4, Others DEF Knows, Holding, WritingLines, HalfLine
    <3>2. Knows(w, q)'
      BY <1>2 DEF Knows, Holding
    <3> QED
      BY <3>1, <3>2
  <2> QED
    BY <1>2, <1>4, <2>3, <2>5 DEF Clear
<1> QED
  BY <1>5, <1>6

LEMMA ClearSend ==
  ASSUME TypeInv, LockInv, BornInv, LinesInv, NEW w \in Workers, CommitSend(w),
         NEW q \in Quotes \ mixed'
  PROVE  Clear(q)'
<1> USE DEF TypeInv, WorkersType
<1> DEFINE p == req[w].q
           rev == [version |-> version[p] + 1, sub |-> req[w].sub, rows |-> req[w].rows]
<1>1. req[w] \in SendReq /\ p \in Quotes /\ pc[w] = "commit" /\ req[w].kind = "send"
  BY RequestAt, KindOf DEF CommitSend
<1>2. /\ revisions' = [revisions EXCEPT ![p] = Append(revisions[p], rev)]
      /\ UNCHANGED <<items, subtotal>>
      /\ pc'[w] = "idle"
  BY DEF CommitSend, Done, Goto
<1>3. mixed' = IF \E v \in Workers : HalfLine(v, p) THEN mixed \cup {p} ELSE mixed
  BY DEF CommitSend
<1>4. Clear(q) /\ Serve(w) /\ ~HalfLine(w, q) /\ ~HalfLine(w, q)'
  BY <1>1, <1>2, <1>3 DEF LinesInv, Serve, HalfLine
<1>5. status'[q] # "none" => status[q] # "none"
  BY <1>4, NoBirth
<1>6. CASE q # p
  <2>1. revisions'[q] = revisions[q]
    BY <1>1, <1>2, <1>6 DEF TablesType
  <2> QED
    BY <1>2, <1>4, <1>5, <2>1, ClearElsewhere
<1>7. CASE q = p
  <2>1. Idle(q)
    BY <1>3, <1>7 DEF Idle
  <2>2. status[q] # "none"
    BY <1>1, <1>7 DEF BornInv
  <2>3. req[w].sub = Sum(req[w].rows)
    BY <1>1, <1>4, <1>7, <2>1, <2>2 DEF Clear, Knows, Holding
  <2>4. revisions'[q] = Append(revisions[q], rev) /\ revisions[q] \in Seq(Revision)
    BY <1>1, <1>2, <1>7 DEF TablesType
  <2>5. rev \in Revision
    <3>1. version[p] + 1 \in Nat /\ req[w].sub \in Amounts /\ req[w].rows \in SUBSET Row
      BY <1>1 DEF TablesType, SendReq
    <3> QED
      BY <3>1 DEF Revision
  <2>6. rev.sub = Sum(rev.rows)
    BY <2>3
  <2>7. \A i \in DOMAIN revisions'[q] : revisions'[q][i].sub = Sum(revisions'[q][i].rows)
    <3> HIDE DEF rev
    <3>1. \A i \in 1..Len(revisions[q]) : revisions[q][i].sub = Sum(revisions[q][i].rows)
      BY <1>4, <2>4, LenProperties DEF Clear
    <3>2. /\ DOMAIN revisions'[q] = 1..(Len(revisions[q]) + 1)
          /\ \A i \in 1..Len(revisions[q]) : revisions'[q][i] = revisions[q][i]
          /\ revisions'[q][Len(revisions[q]) + 1] = rev
      BY <2>4, <2>5, AppendProperties, LenProperties
    <3>3. Len(revisions[q]) \in Nat
      BY <2>4, LenProperties
    <3> QED
      BY <2>6, <3>1, <3>2, <3>3
  <2>8. Idle(q)'
    BY <1>4, <2>1, IdleKeep
  <2>9. \A v \in Workers : Knows(v, q)'
    <3>1. ASSUME NEW v \in Workers \ {w} PROVE Knows(v, q)'
      BY <1>2, <1>4, <2>1, Others DEF Clear, Knows, Holding
    <3>2. Knows(w, q)'
      BY <1>2 DEF Knows, Holding
    <3> QED
      BY <3>1, <3>2
  <2> HIDE DEF rev, p
  <2> QED
    BY <1>2, <1>4, <1>5, <2>1, <2>7, <2>9 DEF Clear
<1> QED
  BY <1>6, <1>7

LEMMA ClearAdd ==
  ASSUME TypeInv, BornInv, LinesInv, NEW w \in Workers, AddLine(w), NEW q \in Quotes \ mixed'
  PROVE  Clear(q)'
<1> USE DEF TypeInv, WorkersType
<1> DEFINE p == req[w].q
<1>1. p \in Quotes /\ pc[w] = "addLine" /\ pc'[w] = "sumLines" /\ req' = req
  BY RequestAt DEF AddLine, LineReq, Goto
<1>2. /\ items' = [items EXCEPT ![p] = items[p] \cup {req[w].row}]
      /\ UNCHANGED <<status, subtotal, revisions>>
  BY DEF AddLine
<1>3. mixed' = IF \E v \in Workers \ {w} : WritingLines(v, p) THEN mixed \cup {p} ELSE mixed
  BY DEF AddLine, Mix
<1>4. Clear(q) /\ Serve(w)
  BY <1>3 DEF LinesInv, Serve
<1>5. CASE q # p
  <2>1. items'[q] = items[q]
    BY <1>1, <1>2, <1>5 DEF TablesType
  <2> QED
    BY <1>1, <1>2, <1>4, <1>5, <2>1, ClearElsewhere DEF HalfLine
<1>6. CASE q = p
  <2>1. \A v \in Workers \ {w} : ~WritingLines(v, q)
    BY <1>3, <1>6
  <2>2. ~Idle(q)'
    BY <1>1, <1>6 DEF Idle, HalfLine
  <2>3. \A v \in Workers : Knows(v, q)'
    <3>1. ASSUME NEW v \in Workers \ {w} PROVE Knows(v, q)'
      BY <1>2, <1>4, <2>1, <2>2, Others DEF Clear, Knows, Holding, WritingLines, HalfLine
    <3>2. Knows(w, q)'
      BY <1>1 DEF Knows, Holding
    <3> QED
      BY <3>1, <3>2
  <2> QED
    BY <1>2, <1>4, <2>2, <2>3 DEF Clear
<1> QED
  BY <1>5, <1>6

LEMMA ClearSum ==
  ASSUME TypeInv, LockInv, BornInv, LinesInv, NEW w \in Workers, SetSum(w),
         NEW q \in Quotes \ mixed'
  PROVE  Clear(q)'
<1> USE DEF TypeInv, WorkersType
<1> DEFINE p == req[w].q
<1>1. p \in Quotes /\ pc[w] = "setSum" /\ pc'[w] = "idle" /\ quoteLock[p] = NoWorker
  BY RequestAt DEF SetSum, LineReq, Done, Goto
<1>2. /\ subtotal' = [subtotal EXCEPT ![p] = req[w].sub]
      /\ UNCHANGED <<status, items, revisions>>
  BY DEF SetSum
<1>3. mixed' = IF \E v \in Workers \ {w} : WritingLines(v, p) THEN mixed \cup {p} ELSE mixed
  BY DEF SetSum, Mix
<1>4. Clear(q) /\ Serve(w)
  BY <1>3 DEF LinesInv, Serve
<1>5. CASE q # p
  <2>1. subtotal'[q] = subtotal[q]
    BY <1>1, <1>2, <1>5 DEF TablesType
  <2> QED
    BY <1>1, <1>2, <1>4, <1>5, <2>1, ClearElsewhere DEF HalfLine
<1>6. CASE q = p
  <2>1. \A v \in Workers \ {w} : ~WritingLines(v, q)
    BY <1>3, <1>6
  <2>2. subtotal'[q] = Sum(items[q])
    BY <1>1, <1>2, <1>4, <1>6 DEF TablesType, Clear, Knows
  <2>3. \A v \in Workers : ~(Holding(v) /\ req[v].q = q)
    BY <1>1, <1>6, QuoteAssumption, OneHolder
  <2>4. \A v \in Workers : Knows(v, q)'
    <3>1. ASSUME NEW v \in Workers \ {w} PROVE Knows(v, q)'
      BY <1>4, <2>1, <2>3, Others DEF Knows, Holding, WritingLines, HalfLine
    <3>2. Knows(w, q)'
      BY <1>1 DEF Knows, Holding
    <3> QED
      BY <3>1, <3>2
  <2> QED
    BY <1>2, <1>4, <2>2, <2>4 DEF Clear
<1> QED
  BY <1>5, <1>6

LEMMA ClearCreate ==
  ASSUME TypeInv, BornInv, NEW q \in Quotes, Clear(q),
         Create \/ Lapse \/ UNCHANGED vars
  PROVE  Clear(q)'
<1>1. UNCHANGED <<pc, req>>
  BY DEF Create, Lapse, vars
<1>2. Idle(q)' <=> Idle(q)
  BY <1>1 DEF Idle, HalfLine
<1>3. CASE UNCHANGED <<status, items, subtotal, revisions>>
  BY <1>1, <1>2, <1>3 DEF Clear, Knows, Holding
<1>4. CASE CreateQuote
  <2>1. PICK p \in Quotes, c \in Drafts :
          /\ status[p] = "none"
          /\ status' = [status EXCEPT ![p] = "draft"]
          /\ items' = [items EXCEPT ![p] = Rows(0, c)]
          /\ subtotal' = [subtotal EXCEPT ![p] = Sum(Rows(0, c))]
          /\ UNCHANGED revisions
    BY <1>4 DEF CreateQuote
  <2>2. CASE q # p
    <3>1. status'[q] = status[q] /\ items'[q] = items[q] /\ subtotal'[q] = subtotal[q]
      BY <2>1, <2>2 DEF TypeInv, TablesType
    <3> QED
      BY <1>1, <1>2, <2>1, <3>1 DEF Clear, Knows, Holding
  <2>3. CASE q = p
    <3>1. subtotal'[q] = Sum(items'[q])
      BY <2>1, <2>3 DEF TypeInv, TablesType
    <3>2. \A v \in Workers : pc[v] \notin {"idle", "submit", "expire"} => req[v].q # q
      BY <2>1, <2>3 DEF BornInv
    <3>3. \A v \in Workers : Knows(v, q)'
      BY <1>1, <3>2 DEF Knows, Holding
    <3> QED
      BY <2>1, <3>1, <3>3 DEF Clear
  <2> QED
    BY <2>2, <2>3
<1> QED
  BY <1>3, <1>4 DEF Create, CreateRFQ, Lapse, vars, tables

LEMMA LinesInit == Init => LinesInv
BY DEF Init, LinesInv, Clear, Knows, Holding

(* No step of anybody disturbs what is known of a quote's lines.           *)
LEMMA LinesStep ==
  TypeInv /\ LockInv /\ BornInv /\ LinesInv /\ [Next]_vars => LinesInv'
<1> SUFFICES ASSUME TypeInv, LockInv, BornInv, LinesInv, [Next]_vars, NEW q \in Quotes \ mixed'
             PROVE  Clear(q)'
  BY DEF LinesInv
<1>1. ASSUME q \notin mixed PROVE Clear(q)
  BY <1>1 DEF LinesInv
<1>2. ASSUME NEW w \in Workers, Receive(w) PROVE Clear(q)'
  BY <1>1, <1>2, Arrives, ClearRead DEF history
<1>3. ASSUME NEW w \in Workers, Serve(w) PROVE Clear(q)'
  <2>1. CASE DeleteItems(w) \/ InsertItems(w) \/ SetSubtotal(w) \/ UpdateQuote(w)
             \/ ListItems(w) \/ UpdateRFQ(w) \/ SumLines(w)
    <3>1. mixed' = mixed
      BY <2>1 DEF DeleteItems, InsertItems, SetSubtotal, UpdateQuote, ListItems, UpdateRFQ,
                  SumLines, history
    <3> QED
      BY <1>1, <2>1, <3>1, ClearRead
  <2>2. CASE CommitAccept(w) \/ DeclineQuote(w) \/ ExpireQuote(w) \/ SubmitRFQ(w)
    <3>1. mixed' = mixed
      BY <2>2 DEF CommitAccept, DeclineQuote, ExpireQuote, SubmitRFQ, history
    <3> QED
      BY <1>1, <2>2, <3>1, ClearDecide
  <2>3. CASE CommitEdit(w) \/ CommitSend(w)
    BY <2>3, ClearEdit, ClearSend
  <2>4. CASE AddLine(w) \/ SetSum(w)
    BY <2>4, ClearAdd, ClearSum
  <2> QED
    BY <1>3, <2>1, <2>2, <2>3, <2>4 DEF Serve
<1>4. ASSUME NEW w \in Workers, Fail(w) PROVE Clear(q)'
  <2>1. q \notin mixed /\ ~HalfLine(w, q)
    BY <1>4 DEF Fail, HalfLine
  <2> QED
    BY <1>1, <1>4, <2>1, ClearDecide
<1>5. CASE Create \/ Lapse \/ UNCHANGED vars
  <2>1. mixed' = mixed
    BY <1>5 DEF Create, Lapse, vars, history
  <2> QED
    BY <1>1, <1>5, <2>1, ClearCreate
<1> QED
  BY <1>2, <1>3, <1>4, <1>5 DEF Next, Rest

-----------------------------------------------------------------------------
(* The columns: a subtotal sums finitely many rows, versions have no gap.  *)

ColumnsInv ==
  /\ \A q \in Quotes :
       /\ IsFiniteSet(items[q]) /\ subtotal[q] \in Nat
       /\ version[q] = Len(revisions[q]) + 1
       /\ \A i \in DOMAIN revisions[q] : revisions[q][i].version = i + 1
  /\ \A w \in Workers : req[w] \in EditReq => IsFiniteSet(req[w].rows)
  /\ \A w \in Workers : pc[w] = "setSum" => req[w].sub \in Nat

LEMMA RowsFinite ==
  ASSUME NEW by \in Nat, NEW c \in Drafts \cup Contents
  PROVE  IsFiniteSet(Rows(by, c)) /\ Sum(Rows(by, c)) \in Nat
<1>1. c \in Seq(Nat)
  BY QuoteAssumption
<1>2. Len(c) \in Nat /\ DOMAIN c = 1..Len(c) /\ IsFiniteSet(1..Len(c))
  BY <1>1, LenProperties, FS_Interval
<1> DEFINE f == [i \in 1..Len(c) |-> [by |-> by, at |-> i, total |-> c[i]]]
<1>3. f \in Surjection(1..Len(c), Rows(by, c))
  BY <1>2 DEF Rows, Surjection
<1>4. IsFiniteSet(Rows(by, c))
  <2> HIDE DEF f
  <2> QED BY <1>2, <1>3, FS_Surjection
<1>5. [row \in Rows(by, c) |-> row.total] \in [Rows(by, c) -> Nat]
  BY RowsType DEF Row
<1> QED BY <1>4, <1>5, SumNat DEF Sum

LEMMA SumOfRows ==
  ASSUME NEW rows \in SUBSET Row, IsFiniteSet(rows)
  PROVE  Sum(rows) \in Nat
<1>1. [row \in rows |-> row.total] \in [rows -> Nat]
  BY DEF Row
<1> QED BY <1>1, SumNat DEF Sum

LEMMA ColumnsInit == Init => ColumnsInv
BY EmptySeq, FS_EmptySet DEF Init, ColumnsInv, EditReq, NoReq

\* A step of one worker that leaves lines, subtotals and versions alone.
LEMMA ColumnsKeep ==
  ASSUME TypeInv, ColumnsInv, NEW w \in Workers, Receive(w) \/ Serve(w) \/ Fail(w),
         UNCHANGED <<items, subtotal, version, revisions>>,
         req'[w] \in EditReq => IsFiniteSet(req'[w].rows),
         pc'[w] = "setSum" => req'[w].sub \in Nat
  PROVE  ColumnsInv'
BY Others DEF ColumnsInv

LEMMA ColumnsReceive ==
  ASSUME TypeInv, ColumnsInv, NEW w \in Workers, Receive(w)
  PROVE  ColumnsInv'
<1> USE DEF TypeInv, WorkersType, Arrive, Goto
<1>1. UNCHANGED <<items, subtotal, version, revisions>> /\ pc'[w] # "setSum"
  BY Arrives DEF tables
<1>2. req'[w] \in EditReq => IsFiniteSet(req'[w].rows)
  <2>1. CASE LoadForEdit(w)
    <3>1. PICK c \in Contents : req'[w].rows = Rows(started + 1, c)
      BY <2>1 DEF LoadForEdit
    <3>2. started + 1 \in Nat
      OBVIOUS
    <3> QED BY <3>1, <3>2, RowsFinite
  <2>2. CASE LoadRFQ(w) \/ LoadForLine(w) \/ LoadForSend(w)
    BY <2>2 DEF LoadRFQ, LoadForLine, LoadForSend, EditReq
  <2>3. CASE LoadForAccept(w) \/ LoadForDecline(w) \/ ListExpirable(w)
    BY <2>3 DEF LoadForAccept, LoadForDecline, ListExpirable, EditReq
  <2> QED BY <2>1, <2>2, <2>3 DEF Receive
<1> QED BY <1>1, <1>2, ColumnsKeep

LEMMA ColumnsStatement ==
  ASSUME TypeInv, ColumnsInv, NEW w \in Workers,
         \/ DeleteItems(w) \/ InsertItems(w) \/ SetSubtotal(w)
         \/ UpdateQuote(w) \/ ListItems(w) \/ UpdateRFQ(w)
         \/ CommitAccept(w) \/ DeclineQuote(w) \/ ExpireQuote(w) \/ SubmitRFQ(w) \/ Fail(w)
  PROVE  ColumnsInv'
<1>0. pc \in [Workers -> StageNames] /\ req \in [Workers -> AnyReq]
  BY DEF TypeInv, WorkersType
<1>1. UNCHANGED <<items, subtotal, version, revisions>>
  BY DEF DeleteItems, InsertItems, SetSubtotal, UpdateQuote, ListItems, UpdateRFQ,
         CommitAccept, DeclineQuote, ExpireQuote, SubmitRFQ, Fail, tables
<1>2. pc'[w] # "setSum"
  <2>1. CASE DeleteItems(w) \/ InsertItems(w) \/ SetSubtotal(w)
    <3>1. req[w] \in EditReq /\ Advance(w) /\ pc[w] \in {"delete", "insert", "subtotal"}
      BY <2>1, RequestAt DEF DeleteItems, InsertItems, SetSubtotal
    <3>2. Goto(w, "insert") \/ Goto(w, "subtotal") \/ Goto(w, "commit")
      BY <3>1, AdvanceEdit
    <3> QED BY <1>0, <3>2 DEF Goto
  <2>2. CASE UpdateQuote(w) \/ ListItems(w) \/ UpdateRFQ(w)
    <3>1. req[w] \in SendReq \cup AcceptReq /\ Advance(w) /\ pc[w] \in {"quote", "list", "rfq"}
      BY <2>2, RequestAt DEF UpdateQuote, ListItems, UpdateRFQ
    <3>2. Goto(w, "list") \/ Goto(w, "rfq") \/ Goto(w, "commit") \/ Goto(w, "quote")
      BY <3>1, AdvanceSend, AdvanceAccept
    <3> QED BY <1>0, <3>2 DEF Goto
  <2>3. CASE CommitAccept(w) \/ DeclineQuote(w) \/ SubmitRFQ(w) \/ Fail(w)
    BY <1>0, <2>3 DEF CommitAccept, DeclineQuote, SubmitRFQ, Fail, Done, Goto
  <2>4. CASE ExpireQuote(w)
    BY <1>0, <2>4 DEF ExpireQuote, Done, Goto
  <2> QED BY <2>1, <2>2, <2>3, <2>4
<1>3. req'[w] \in EditReq => IsFiniteSet(req'[w].rows)
  <2>1. CASE DeleteItems(w) \/ InsertItems(w) \/ SetSubtotal(w)
    <3>1. req[w] \in EditReq
      BY <2>1, RequestAt DEF DeleteItems, InsertItems, SetSubtotal
    <3>2. req'[w].rows = req[w].rows
      BY <1>0, <2>1, <3>1 DEF DeleteItems, InsertItems, SetSubtotal, EditReq
    <3> QED BY <3>1, <3>2 DEF ColumnsInv
  <2>2. CASE UpdateQuote(w) \/ ListItems(w) \/ UpdateRFQ(w)
    <3>1. req[w] \in SendReq \cup AcceptReq
      BY <2>2, RequestAt DEF UpdateQuote, ListItems, UpdateRFQ
    <3>2. req[w].kind # "edit"
      BY <3>1 DEF SendReq, AcceptReq
    <3>3. req'[w].kind = req[w].kind
      BY <1>0, <2>2, <3>1 DEF UpdateQuote, ListItems, UpdateRFQ, SendReq, AcceptReq
    <3> QED BY <3>2, <3>3 DEF EditReq
  <2>3. CASE CommitAccept(w) \/ DeclineQuote(w) \/ SubmitRFQ(w) \/ Fail(w)
    BY <1>0, <2>3 DEF CommitAccept, DeclineQuote, SubmitRFQ, Fail, Done, NoReq, EditReq
  <2>4. CASE ExpireQuote(w)
    <3>1. req[w] \in ExpireReq
      BY <2>4, RequestAt DEF ExpireQuote
    <3>2. req'[w] = NoReq \/ req'[w].kind = "expire"
      BY <1>0, <2>4, <3>1 DEF ExpireQuote, Done, ExpireReq
    <3> QED BY <3>2 DEF NoReq, EditReq
  <2> QED BY <2>1, <2>2, <2>3, <2>4
<1> QED BY <1>1, <1>2, <1>3, ColumnsKeep DEF Serve

LEMMA ColumnsCommit ==
  ASSUME TypeInv, ColumnsInv, NEW w \in Workers, CommitEdit(w) \/ CommitSend(w)
  PROVE  ColumnsInv'
<1> DEFINE p == req[w].q
<1>0. /\ pc \in [Workers -> StageNames] /\ req \in [Workers -> AnyReq] /\ TablesType
      /\ pc'[w] = "idle" /\ req'[w] = NoReq
  BY DEF TypeInv, WorkersType, CommitEdit, CommitSend, Done, Goto
<1>1. /\ \A v \in Workers : req'[v] \in EditReq => IsFiniteSet(req'[v].rows)
      /\ \A v \in Workers : pc'[v] = "setSum" => req'[v].sub \in Nat
  BY <1>0, Others DEF Serve, NoReq, EditReq, ColumnsInv
<1>2. CASE CommitEdit(w)
  <2>1. req[w] \in EditReq /\ p \in Quotes
    BY <1>2, RequestAt, KindOf DEF CommitEdit
  <2>2. req[w].rows \in SUBSET Row /\ IsFiniteSet(req[w].rows)
    BY <2>1 DEF ColumnsInv, EditReq
  <2>3. Sum(req[w].rows) \in Nat
    BY <2>2, SumOfRows
  <2>4. /\ items' = [items EXCEPT ![p] = (@ \ req[w].gone) \cup req[w].rows]
        /\ subtotal' = [subtotal EXCEPT ![p] = Sum(req[w].rows)]
        /\ UNCHANGED <<version, revisions>>
    BY <1>2 DEF CommitEdit, NewSubtotal
  <2>5. IsFiniteSet((items[p] \ req[w].gone) \cup req[w].rows)
    <3>1. IsFiniteSet(items[p])
      BY <2>1 DEF ColumnsInv
    <3>2. IsFiniteSet(items[p] \ req[w].gone)
      BY <3>1, FS_Difference
    <3> QED BY <2>2, <3>2, FS_Union
  <2>6. \A q \in Quotes : IsFiniteSet(items'[q]) /\ subtotal'[q] \in Nat
    BY <1>0, <2>1, <2>3, <2>4, <2>5 DEF ColumnsInv, TablesType
  <2> QED BY <1>1, <2>4, <2>6 DEF ColumnsInv
<1>3. CASE CommitSend(w)
  <2>1. req[w] \in SendReq /\ p \in Quotes
    BY <1>3, RequestAt, KindOf DEF CommitSend
  <2> DEFINE r == [version |-> version[p] + 1, sub |-> req[w].sub, rows |-> req[w].rows]
  <2>2. /\ version' = [version EXCEPT ![p] = @ + 1]
        /\ revisions' = [revisions EXCEPT ![p] = Append(@, r)]
        /\ UNCHANGED <<items, subtotal>>
    BY <1>3 DEF CommitSend
  <2>3. r \in Revision /\ revisions[p] \in Seq(Revision) /\ r.version = version[p] + 1
    <3>1. revisions[p] \in Seq(Revision)
      BY <1>0, <2>1 DEF TablesType
    <3>2. version[p] \in Nat /\ req[w].sub \in Amounts /\ req[w].rows \in SUBSET Row
      BY <1>0, <2>1 DEF TablesType, SendReq
    <3>3. r \in Revision
      BY <3>2 DEF Revision
    <3> QED BY <3>1, <3>3
  <2> HIDE DEF r
  <2>4. /\ Len(Append(revisions[p], r)) = Len(revisions[p]) + 1 /\ Len(revisions[p]) \in Nat
        /\ DOMAIN Append(revisions[p], r) = 1..(Len(revisions[p]) + 1)
        /\ \A i \in DOMAIN revisions[p] : Append(revisions[p], r)[i] = revisions[p][i]
        /\ Append(revisions[p], r)[Len(revisions[p]) + 1] = r
        /\ DOMAIN revisions[p] = 1..Len(revisions[p])
    BY <2>3
  <2>5. version'[p] = Len(revisions'[p]) + 1
    BY <1>0, <2>1, <2>2, <2>4 DEF ColumnsInv, TablesType
  <2>6. \A i \in DOMAIN revisions'[p] : revisions'[p][i].version = i + 1
    <3>1. revisions'[p] = Append(revisions[p], r)
      BY <1>0, <2>1, <2>2 DEF TablesType
    <3>2. version[p] = Len(revisions[p]) + 1 /\ \A i \in DOMAIN revisions[p] : revisions[p][i].version = i + 1
      BY <2>1 DEF ColumnsInv
    <3> QED BY <2>3, <2>4, <3>1, <3>2
  <2>7. \A q \in Quotes \ {p} : version'[q] = version[q] /\ revisions'[q] = revisions[q]
    BY <1>0, <2>2 DEF TablesType
  <2> QED BY <1>1, <2>2, <2>5, <2>6, <2>7 DEF ColumnsInv
<1> QED BY <1>2, <1>3

LEMMA ColumnsLine ==
  ASSUME TypeInv, ColumnsInv, NEW w \in Workers, AddLine(w) \/ SumLines(w) \/ SetSum(w)
  PROVE  ColumnsInv'
<1> DEFINE p == req[w].q
<1>0. /\ pc \in [Workers -> StageNames] /\ req \in [Workers -> AnyReq] /\ TablesType
      /\ req[w] \in LineReq /\ p \in Quotes /\ req[w].row \in Row
  BY RequestAt DEF TypeInv, WorkersType, AddLine, SumLines, SetSum, LineReq
<1>1. CASE AddLine(w)
  <2>1. /\ items' = [items EXCEPT ![p] = @ \cup {req[w].row}] /\ pc'[w] = "sumLines"
        /\ UNCHANGED <<subtotal, version, revisions, req>>
    BY <1>0, <1>1 DEF AddLine, Goto
  <2>2. IsFiniteSet(items[p] \cup {req[w].row})
    <3>1. IsFiniteSet(items[p])
      BY <1>0 DEF ColumnsInv
    <3> QED BY <3>1, FS_AddElement
  <2>3. \A q \in Quotes : IsFiniteSet(items'[q])
    BY <1>0, <2>1, <2>2 DEF ColumnsInv, TablesType
  <2> QED BY <1>1, <2>1, <2>3, Others DEF Serve, ColumnsInv
<1>2. CASE SumLines(w)
  <2>1. req' = [req EXCEPT ![w].sub = Sum(items[p])] /\ pc'[w] = "setSum" /\ UNCHANGED tables
    BY <1>0, <1>2 DEF SumLines, Goto
  <2>2. Sum(items[p]) \in Nat
    BY <1>0, SumOfRows DEF ColumnsInv, TablesType
  <2>3. req'[w].sub \in Nat /\ req'[w].kind = "line"
    BY <1>0, <2>1, <2>2 DEF LineReq
  <2> QED BY <1>2, <2>1, <2>3, ColumnsKeep DEF Serve, tables, EditReq
<1>3. CASE SetSum(w)
  <2>1. /\ subtotal' = [subtotal EXCEPT ![p] = req[w].sub] /\ req[w].sub \in Nat
        /\ pc'[w] = "idle" /\ req'[w] = NoReq /\ UNCHANGED <<items, version, revisions>>
    BY <1>0, <1>3 DEF SetSum, Done, Goto, ColumnsInv
  <2>2. \A q \in Quotes : subtotal'[q] \in Nat
    BY <1>0, <2>1 DEF ColumnsInv, TablesType
  <2>3. /\ \A v \in Workers : req'[v] \in EditReq => IsFiniteSet(req'[v].rows)
        /\ \A v \in Workers : pc'[v] = "setSum" => req'[v].sub \in Nat
    BY <1>3, <2>1, Others DEF Serve, NoReq, EditReq, ColumnsInv
  <2> QED BY <2>1, <2>2, <2>3 DEF ColumnsInv
<1> QED BY <1>1, <1>2, <1>3

LEMMA ColumnsStep == TypeInv /\ ColumnsInv /\ [Next]_vars => ColumnsInv'
<1> SUFFICES ASSUME TypeInv, ColumnsInv, [Next]_vars PROVE ColumnsInv'
  OBVIOUS
<1>1. ASSUME NEW w \in Workers, Receive(w) \/ Serve(w) \/ Fail(w) PROVE ColumnsInv'
  BY <1>1, ColumnsReceive, ColumnsStatement, ColumnsCommit, ColumnsLine DEF Serve
<1>2. CASE Create
  <2>1. CASE CreateRFQ
    BY <1>2, <2>1 DEF Create, CreateRFQ, ColumnsInv
  <2>2. CASE CreateQuote
    <3>1. PICK p \in Quotes, c \in Drafts :
            /\ items' = [items EXCEPT ![p] = Rows(0, c)]
            /\ subtotal' = [subtotal EXCEPT ![p] = Sum(Rows(0, c))]
            /\ UNCHANGED <<version, revisions>>
      BY <2>2 DEF CreateQuote
    <3>2. IsFiniteSet(Rows(0, c)) /\ Sum(Rows(0, c)) \in Nat
      BY RowsFinite
    <3>3. UNCHANGED <<pc, req>>
      BY <1>2 DEF Create
    <3> QED BY <3>1, <3>2, <3>3 DEF TypeInv, TablesType, ColumnsInv
  <2> QED BY <1>2, <2>1, <2>2 DEF Create
<1>3. CASE Lapse \/ Rest \/ UNCHANGED vars
  BY <1>3 DEF Lapse, Rest, vars, tables, ColumnsInv
<1> QED BY <1>1, <1>2, <1>3 DEF Next

(* The columns keep to their constraints and a quote has one snapshot per  *)
(* version it was sent in, numbered without a gap (sendQuote).             *)
THEOREM ColumnsAlwaysTyped == Spec => []TypeOK
<1>1. TypeInv /\ ColumnsInv => TypeOK
  BY DEF TypeInv, TablesType, ColumnsInv, TypeOK
<1> QED BY <1>1, TypeInit, TypeStep, ColumnsInit, ColumnsStep, PTL DEF Spec

-----------------------------------------------------------------------------
(* The theorems.                                                           *)

Inv == TypeInv /\ LockInv /\ BornInv /\ DecisionStands /\ RfqFollowsQuotes /\ LinesInv

LEMMA SpecInv == Spec => []Inv
<1>1. Init => Inv
  BY TypeInit, LockInit, BornInit, DecisionInit, RfqInit, LinesInit DEF Inv
<1>2. Inv /\ [Next]_vars => Inv'
  BY TypeStep, LockStep, BornStep, DecisionStep, RfqStep, LinesStep DEF Inv
<1> QED
  BY <1>1, <1>2, PTL DEF Spec

(* No requests ever wait for each other in a circle, however many there    *)
(* are: of a group that waits, the one that has come furthest through      *)
(* lines, quote and RFQ waits for nobody in it.                            *)
THEOREM NeverWaitInCircle == Spec => []NoWaitCycle
<1>1. Inv => NoWaitCycle
  BY NoCircle DEF Inv
<1> QED
  BY <1>1, SpecInv, PTL

(* Acceptance and order are one fact (acceptQuote): unless it was written  *)
(* on an outdated reading, a quote is accepted exactly when it has its one *)
(* order, and expired only past its validity.                              *)
THEOREM DecisionsAlwaysStand == Spec => []DecisionStands
<1>1. Inv => DecisionStands
  BY DEF Inv
<1> QED
  BY <1>1, SpecInv, PTL

(* An RFQ is accepted only with an order from a quote of its own, quoted   *)
(* only once one of them was sent.                                         *)
THEOREM RfqsAlwaysFollow == Spec => []RfqFollowsQuotes
<1>1. Inv => RfqFollowsQuotes
  BY DEF Inv
<1> QED
  BY <1>1, SpecInv, PTL

(* A quote's subtotal is the sum of its lines, but for the quotes whose    *)
(* lines two requests wrote at once and those with half a configured line. *)
THEOREM SubtotalsAlwaysSum == Spec => []SubtotalIsSum
<1>1. Inv => SubtotalIsSum
  BY DEF Inv, LinesInv, Clear, Idle, SubtotalIsSum
<1> QED
  BY <1>1, SpecInv, PTL

(* Every snapshot sendQuote takes is whole, whatever runs beside it.       *)
THEOREM SnapshotsAlwaysWhole == Spec => []SnapshotsAreWhole
<1>1. Inv => SnapshotsAreWhole
  BY DEF Inv, LinesInv, Clear, SnapshotsAreWhole
<1> QED
  BY <1>1, SpecInv, PTL

(* LinesAddUp: columns are typed, and lines and subtotal agree in quotes   *)
(* and in their snapshots.                                                 *)
THEOREM LinesAlwaysAddUp == Spec => []LinesAddUp
BY ColumnsAlwaysTyped, SubtotalsAlwaysSum, SnapshotsAlwaysWhole, PTL DEF LinesAddUp

(* DecisionsHold: decisions stand, and the RFQs follow them.               *)
THEOREM DecisionsAlwaysHold == Spec => []DecisionsHold
BY DecisionsAlwaysStand, RfqsAlwaysFollow, PTL DEF DecisionsHold

=============================================================================
