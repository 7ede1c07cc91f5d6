--------------------------- MODULE QuoteLifecycle ---------------------------
(***************************************************************************)
(* From a request for quotation to the order it becomes: the RFQ and quote *)
(* endpoints (sales/rfq.go, sales/quote.go), configured lines              *)
(* (cpq/handler.go: addConfiguredLine), the buyer's acceptance             *)
(* (sales/order.go: acceptQuote) and the hourly expiry sweep               *)
(* (automation/actions.go: ExpireQuotes).                                  *)
(*                                                                         *)
(* Every handler loads the quote on the pool, checks its status, and only  *)
(* then opens the transaction that writes it; the writes name the quote by *)
(* id.  A transaction's effects are kept in its request and appear when it *)
(* commits.  Money is whole units; a quote line is the row an edit         *)
(* inserted, told apart by the request that wrote it.                      *)
(***************************************************************************)
EXTENDS Integers, Sequences, FiniteSets, Sums

CONSTANTS
  Workers,     \* requests and jobs the servers run at the same time
  NoWorker,    \* "nobody holds this row's lock"
  Rfqs,        \* ids rfqs may get
  NoRfq,       \* rfq_id is null: the seller started the quote
  Quotes,      \* ids quotes may get
  Drafts,      \* line lists a quote may start with: the row totals, in order
  Contents,    \* line lists an edit may enter
  MaxRequests  \* bound: requests started in a behaviour, creations aside

RfqStates   == {"draft", "submitted", "quoted", "accepted", "declined", "expired",
                "cancelled"}
QuoteStates == {"draft", "sent", "revised", "accepted", "declined", "expired"}
Validities  == {"none", "open", "past"}   \* valid_until: null, ahead, behind

ASSUME QuoteAssumption ==
  /\ NoWorker \notin Workers
  /\ NoRfq \notin Rfqs
  /\ Drafts \cup Contents \subseteq Seq(Nat)
  /\ MaxRequests \in Nat

VARIABLES
  rfq,        \* rfqs.status, "none" before the insert
  status,     \* quotes.status, likewise
  rfqOf,      \* quotes.rfq_id
  validity,   \* quotes.valid_until against the clock
  version,    \* quotes.version
  subtotal,   \* quotes.subtotal
  items,      \* quote_items: the committed rows
  revisions,  \* quote_revisions: the snapshots, oldest first
  orders,     \* orders made from the quote: the lines of each
  quoteLock, rfqLock,  \* who holds the row
  mixed,      \* history: quotes whose lines two requests wrote at once or one in
              \* part, or that were sent between a configured line and its subtotal
  overtaken,  \* history: quotes written on an outdated reading
  pc, req, started

tables  == <<rfq, status, rfqOf, validity, version, subtotal, items, revisions, orders>>
locks   == <<quoteLock, rfqLock>>
history == <<mixed, overtaken>>
vars    == <<tables, locks, history, pc, req, started>>

NoReq == [kind |-> "none"]

Init ==
  /\ rfq = [r \in Rfqs |-> "none"]
  /\ status = [q \in Quotes |-> "none"]
  /\ rfqOf = [q \in Quotes |-> NoRfq]
  /\ validity = [q \in Quotes |-> "none"]
  /\ version = [q \in Quotes |-> 1]
  /\ subtotal = [q \in Quotes |-> 0]
  /\ items = [q \in Quotes |-> {}]
  /\ revisions = [q \in Quotes |-> <<>>]
  /\ orders = [q \in Quotes |-> <<>>]
  /\ quoteLock = [q \in Quotes |-> NoWorker]
  /\ rfqLock = [r \in Rfqs |-> NoWorker]
  /\ mixed = {} /\ overtaken = {}
  /\ pc = [w \in Workers |-> "idle"]
  /\ req = [w \in Workers |-> NoReq]
  /\ started = 0

Row == [by : Nat, at : Nat, total : Nat]

\* The rows a request inserts for a list of row totals, and their sum.
Rows(by, c) == {[by |-> by, at |-> i, total |-> c[i]] : i \in DOMAIN c}
Sum(rows)   == SumOf([row \in rows |-> row.total])

Goto(w, stage) == pc' = [pc EXCEPT ![w] = stage]
Done(w) == Goto(w, "idle") /\ req' = [req EXCEPT ![w] = NoReq]

Arrive(w, stage, r) ==
  /\ pc[w] = "idle" /\ started < MaxRequests
  /\ started' = started + 1
  /\ req' = [req EXCEPT ![w] = r]
  /\ Goto(w, stage)
  /\ UNCHANGED <<tables, locks, history>>

\* (slip) acceptance updates the RFQ before the quote
StagesSwapped ==
  [edit   |-> [delete |-> "insert", insert |-> "subtotal", subtotal |-> "commit"],
   send   |-> [quote |-> "list", list |-> "rfq", rfq |-> "commit"],
   accept |-> [list |-> "rfq", rfq |-> "quote", quote |-> "commit"]]

\* What follows each statement of a transaction.
Stages ==
  [edit   |-> [delete |-> "insert", insert |-> "subtotal", subtotal |-> "commit"],
   send   |-> [quote |-> "list", list |-> "rfq", rfq |-> "commit"],
   accept |-> [list |-> "quote", quote |-> "rfq", rfq |-> "commit"]]

Advance(w) == Goto(w, Stages[req[w].kind][pc[w]])

Release(w) ==
  /\ quoteLock' = [q \in Quotes |-> IF quoteLock[q] = w THEN NoWorker ELSE quoteLock[q]]
  /\ rfqLock' = [r \in Rfqs |-> IF rfqLock[r] = w THEN NoWorker ELSE rfqLock[r]]

-----------------------------------------------------------------------------
(* Requests that insert new rows only.                                     *)

CreateRFQ ==
  \E r \in Rfqs :
    /\ rfq[r] = "none"
    /\ rfq' = [rfq EXCEPT ![r] = "draft"]
    /\ UNCHANGED <<status, rfqOf, validity, version, subtotal, items, revisions, orders>>

\* createQuote and quoteFromRFQ, which asks nothing of the RFQ's status and
\* sets no validity.  (A validity already past is one that lapses at once.)
CreateQuote ==
  \E q \in Quotes, r \in Rfqs \cup {NoRfq}, c \in Drafts, v \in {"none", "open"} :
    /\ status[q] = "none"
    /\ r # NoRfq => rfq[r] # "none" /\ v = "none"
    /\ status' = [status EXCEPT ![q] = "draft"]
    /\ rfqOf' = [rfqOf EXCEPT ![q] = r]
    /\ validity' = [validity EXCEPT ![q] = v]
    /\ items' = [items EXCEPT ![q] = Rows(0, c)]
    /\ subtotal' = [subtotal EXCEPT ![q] = Sum(Rows(0, c))]
    /\ UNCHANGED <<rfq, version, revisions, orders>>

Create == (CreateRFQ \/ CreateQuote) /\ UNCHANGED <<locks, history, pc, req, started>>

\* Time passes valid_until.
Lapse ==
  \E q \in Quotes :
    /\ validity[q] = "open"
    /\ validity' = [validity EXCEPT ![q] = "past"]
    /\ UNCHANGED <<rfq, status, rfqOf, version, subtotal, items, revisions, orders,
                   locks, history, pc, req, started>>

-----------------------------------------------------------------------------
(* Each handler's reading on the pool and its checks.                      *)

Open  == {"sent", "revised"}
Final == {"accepted", "declined", "expired"}

LoadRFQ(w) ==
  \E r \in Rfqs : rfq[r] = "draft" /\ Arrive(w, "submit", [kind |-> "submit", r |-> r])

LoadForEdit(w) ==
  \E q \in Quotes, c \in Contents :
    /\ status[q] \notin Final \cup {"none"}
    /\ Arrive(w, "delete", [kind |-> "edit", q |-> q, gone |-> {},
                            rows |-> Rows(started + 1, c)])

\* addConfiguredLine loads the quote and asks nothing of its status.
LoadForLine(w) ==
  \E q \in Quotes :
    /\ status[q] # "none"
    /\ Arrive(w, "addLine", [kind |-> "line", q |-> q, sub |-> 0,
                             row |-> [by |-> started + 1, at |-> 1, total |-> 1]])

\* renew: the rep's valid_until, absent in half the requests.
LoadForSend(w) ==
  \E q \in Quotes, renew \in BOOLEAN :
    /\ status[q] \in Open \cup {"draft"}
    /\ Arrive(w, "quote", [kind |-> "send", q |-> q, seen |-> status[q], renew |-> renew,
                           sub |-> subtotal[q], rows |-> {}])

LoadForAccept(w) ==
  \E q \in Quotes :
    /\ status[q] \in Open /\ validity[q] # "past"
    /\ Arrive(w, "list", [kind |-> "accept", q |-> q, seen |-> status[q], rows |-> {}])

LoadForDecline(w) ==
  \E q \in Quotes :
    /\ status[q] \in Open
    /\ Arrive(w, "decline", [kind |-> "decline", q |-> q, seen |-> status[q]])

Expirable == {q \in Quotes : status[q] \in Open /\ validity[q] = "past"}

ListExpirable(w) ==
  Expirable # {} /\ Arrive(w, "expire", [kind |-> "expire", todo |-> Expirable, seen |-> status])

-----------------------------------------------------------------------------
(* The statements of the transactions.                                     *)

\* Rows a transaction has deleted and keeps locked until it ends.
Deleting(v) ==
  IF pc[v] \in {"subtotal", "commit"} /\ req[v].kind = "edit" THEN req[v].gone ELSE {}

\* DELETE FROM quote_items starts: it will see the rows committed by now.
DeleteItems(w) ==
  /\ pc[w] = "delete"
  /\ req' = [req EXCEPT ![w].gone = items[req[w].q]]
  /\ Advance(w)
  /\ UNCHANGED <<tables, locks, history, started>>

\* It waits for the rows somebody else is deleting, skips those that are gone
\* by then, never sees rows committed since; then the new ones are inserted.
InsertItems(w) ==
  /\ pc[w] = "insert"
  /\ \A v \in Workers \ {w} : Deleting(v) \cap req[w].gone = {}
  /\ req' = [req EXCEPT ![w].gone = @ \cap items[req[w].q]]
  /\ Advance(w)
  /\ UNCHANGED <<tables, locks, history, started>>

\* SetQuoteSubtotal takes the quote's lock.
SetSubtotal(w) ==
  /\ pc[w] = "subtotal"
  /\ quoteLock[req[w].q] = NoWorker
  /\ quoteLock' = [quoteLock EXCEPT ![req[w].q] = w]
  /\ Advance(w)
  /\ UNCHANGED <<tables, rfqLock, history, req, started>>

\* (slip) the snapshot is taken of the quote as loaded, not as updated
UpdateQuoteAsLoaded(w) ==
  /\ pc[w] = "quote"
  /\ quoteLock[req[w].q] = NoWorker
  /\ quoteLock' = [quoteLock EXCEPT ![req[w].q] = w]
  /\ Advance(w)
  /\ UNCHANGED <<tables, rfqLock, history, req, started>>

\* SendQuote, which returns the row it has locked, or SetQuoteStatus.
UpdateQuote(w) ==
  /\ pc[w] = "quote"
  /\ LET q == req[w].q IN
     /\ quoteLock[q] = NoWorker
     /\ quoteLock' = [quoteLock EXCEPT ![q] = w]
     /\ IF req[w].kind = "send" THEN req' = [req EXCEPT ![w].sub = subtotal[q]]
                                ELSE UNCHANGED req
  /\ Advance(w)
  /\ UNCHANGED <<tables, rfqLock, history, started>>

ListItems(w) ==
  /\ pc[w] = "list"
  /\ req' = [req EXCEPT ![w].rows = items[req[w].q]]
  /\ Advance(w)
  /\ UNCHANGED <<tables, locks, history, started>>

\* (slip) the RFQ is updated on the pool, outside the transaction
UpdateRFQOnPool(w) ==
  /\ pc[w] = "rfq"
  /\ LET r == rfqOf[req[w].q] IN
     /\ r # NoRfq => rfqLock[r] = NoWorker
     /\ rfq' = [s \in Rfqs |-> IF s # r THEN rfq[s]
                  ELSE IF req[w].kind = "send" THEN "quoted" ELSE "accepted"]
  /\ Advance(w)
  /\ UNCHANGED <<status, rfqOf, validity, version, subtotal, items, revisions, orders,
                 locks, history, req, started>>

\* SetRFQStatus when the quote came from an RFQ.
UpdateRFQ(w) ==
  /\ pc[w] = "rfq"
  /\ LET r == rfqOf[req[w].q] IN
     /\ r # NoRfq => rfqLock[r] = NoWorker
     /\ rfqLock' = [s \in Rfqs |-> IF s = r THEN w ELSE rfqLock[s]]
  /\ Advance(w)
  /\ UNCHANGED <<tables, quoteLock, history, req, started>>

-----------------------------------------------------------------------------
(* Commits, and the single statements that commit by themselves.           *)

\* A write whose reading no longer holds is remembered.
Overtake(q, seen) == overtaken' = IF status[q] = seen THEN overtaken ELSE overtaken \cup {q}

\* A configured line has been added and the subtotal not yet.
HalfLine(v, q) == pc[v] \in {"sumLines", "setSum"} /\ req[v].q = q

\* A request has begun to write a quote's lines and has not ended.
WritingLines(v, q) ==
  \/ pc[v] \in {"insert", "subtotal", "commit"} /\ req[v].kind = "edit" /\ req[v].q = q
  \/ HalfLine(v, q)

Mix(w, q) ==
  mixed' = IF \E v \in Workers \ {w} : WritingLines(v, q) THEN mixed \cup {q} ELSE mixed

NewSubtotal(q, rows) == Sum(rows)

CommitEdit(w) ==
  /\ pc[w] = "commit" /\ req[w].kind = "edit"
  /\ LET r == req[w] IN
     /\ items' = [items EXCEPT ![r.q] = (@ \ r.gone) \cup r.rows]
     /\ subtotal' = [subtotal EXCEPT ![r.q] = NewSubtotal(r.q, r.rows)]
     /\ Mix(w, r.q)
  /\ Release(w) /\ Done(w)
  /\ UNCHANGED <<rfq, status, rfqOf, validity, version, revisions, orders, overtaken, started>>

SetRFQ(q, to) == rfq' = [r \in Rfqs |-> IF r = rfqOf[q] THEN to ELSE rfq[r]]

CommitSend(w) ==
  /\ pc[w] = "commit" /\ req[w].kind = "send"
  /\ LET r == req[w] IN
     /\ status' = [status EXCEPT ![r.q] = "sent"]
     /\ version' = [version EXCEPT ![r.q] = @ + 1]
     /\ validity' = [validity EXCEPT ![r.q] = IF r.renew THEN "open" ELSE @]
     /\ revisions' = [revisions EXCEPT ![r.q] =
          Append(@, [version |-> version[r.q] + 1, sub |-> r.sub, rows |-> r.rows])]
     /\ SetRFQ(r.q, "quoted")
     /\ Overtake(r.q, r.seen)
     /\ mixed' = IF \E v \in Workers : HalfLine(v, r.q) THEN mixed \cup {r.q} ELSE mixed
  /\ Release(w) /\ Done(w)
  /\ UNCHANGED <<rfqOf, subtotal, items, orders, started>>

CommitAccept(w) ==
  /\ pc[w] = "commit" /\ req[w].kind = "accept"
  /\ LET r == req[w] IN
     /\ status' = [status EXCEPT ![r.q] = "accepted"]
     /\ orders' = [orders EXCEPT ![r.q] = Append(@, r.rows)]
     /\ SetRFQ(r.q, "accepted")
     /\ Overtake(r.q, r.seen)
  /\ Release(w) /\ Done(w)
  /\ UNCHANGED <<rfqOf, validity, version, subtotal, items, revisions, mixed, started>>

DeclineQuote(w) ==
  /\ pc[w] = "decline"
  /\ quoteLock[req[w].q] = NoWorker
  /\ status' = [status EXCEPT ![req[w].q] = "declined"]
  /\ Overtake(req[w].q, req[w].seen)
  /\ Done(w)
  /\ UNCHANGED <<rfq, rfqOf, validity, version, subtotal, items, revisions, orders,
                 locks, mixed, started>>

\* The sweep's next quote; the last one ends it.
ExpireQuote(w) ==
  /\ pc[w] = "expire"
  /\ \E q \in req[w].todo :
       /\ quoteLock[q] = NoWorker
       /\ status' = [status EXCEPT ![q] = "expired"]
       /\ overtaken' = IF status[q] = req[w].seen[q] /\ validity[q] = "past"
                       THEN overtaken ELSE overtaken \cup {q}
       /\ IF req[w].todo = {q} THEN Done(w)
          ELSE req' = [req EXCEPT ![w].todo = @ \ {q}] /\ UNCHANGED pc
  /\ UNCHANGED <<rfq, rfqOf, validity, version, subtotal, items, revisions, orders,
                 locks, mixed, started>>

SubmitRFQ(w) ==
  /\ pc[w] = "submit"
  /\ rfqLock[req[w].r] = NoWorker
  /\ rfq' = [rfq EXCEPT ![req[w].r] = "submitted"]
  /\ Done(w)
  /\ UNCHANGED <<status, rfqOf, validity, version, subtotal, items, revisions, orders,
                 locks, history, started>>

\* addConfiguredLine: the line, the sum of the lines there are, the subtotal.
AddLine(w) ==
  /\ pc[w] = "addLine"
  /\ items' = [items EXCEPT ![req[w].q] = @ \cup {req[w].row}]
  /\ Mix(w, req[w].q)
  /\ Goto(w, "sumLines")
  /\ UNCHANGED <<rfq, status, rfqOf, validity, version, subtotal, revisions, orders,
                 locks, overtaken, req, started>>

SumLines(w) ==
  /\ pc[w] = "sumLines"
  /\ req' = [req EXCEPT ![w].sub = Sum(items[req[w].q])]
  /\ Goto(w, "setSum")
  /\ UNCHANGED <<tables, locks, history, started>>

SetSum(w) ==
  /\ pc[w] = "setSum"
  /\ quoteLock[req[w].q] = NoWorker
  /\ subtotal' = [subtotal EXCEPT ![req[w].q] = req[w].sub]
  /\ Mix(w, req[w].q)
  /\ Done(w)
  /\ UNCHANGED <<rfq, status, rfqOf, validity, version, items, revisions, orders,
                 locks, overtaken, started>>

\* A statement fails or the client leaves: an open transaction rolls back, a
\* configured line already added stays.
Fail(w) ==
  /\ pc[w] # "idle"
  /\ mixed' = IF pc[w] \in {"sumLines", "setSum"} THEN mixed \cup {req[w].q} ELSE mixed
  /\ Release(w) /\ Done(w)
  /\ UNCHANGED <<tables, overtaken, started>>

Receive(w) ==
  LoadRFQ(w) \/ LoadForEdit(w) \/ LoadForLine(w) \/ LoadForSend(w)
  \/ LoadForAccept(w) \/ LoadForDecline(w) \/ ListExpirable(w)

Serve(w) ==
  \/ DeleteItems(w) \/ InsertItems(w) \/ SetSubtotal(w)
  \/ UpdateQuote(w) \/ ListItems(w) \/ UpdateRFQ(w)
  \/ CommitEdit(w) \/ CommitSend(w) \/ CommitAccept(w)
  \/ DeclineQuote(w) \/ ExpireQuote(w) \/ SubmitRFQ(w)
  \/ AddLine(w) \/ SumLines(w) \/ SetSum(w)

Rest == (\A w \in Workers : pc[w] = "idle") /\ UNCHANGED vars

Next ==
  \/ \E w \in Workers : Receive(w) \/ Serve(w) \/ Fail(w)
  \/ Create \/ Lapse \/ Rest

Spec == Init /\ [][Next]_vars

-----------------------------------------------------------------------------
(* The columns keep to their CHECK constraints, and versions are numbered  *)
(* without a gap: one snapshot per sent version.                           *)
TypeOK ==
  /\ rfq \in [Rfqs -> RfqStates \cup {"none"}]
  /\ status \in [Quotes -> QuoteStates \cup {"none"}]
  /\ rfqOf \in [Quotes -> Rfqs \cup {NoRfq}]
  /\ validity \in [Quotes -> Validities]
  /\ subtotal \in [Quotes -> Nat]
  /\ \A q \in Quotes :
       /\ \A row \in items[q] : row \in Row
       /\ version[q] = Len(revisions[q]) + 1
       /\ \A i \in DOMAIN revisions[q] : revisions[q][i].version = i + 1
  /\ quoteLock \in [Quotes -> Workers \cup {NoWorker}]
  /\ rfqLock \in [Rfqs -> Workers \cup {NoWorker}]

(* A quote's subtotal is its lines' (replaceQuoteItems,                    *)
(* addConfiguredLine), also when sends and acceptances run beside an edit; *)
(* only requests that write its lines at once, or one that was cut off     *)
(* after its line, part them.                                              *)
SubtotalIsSum ==
  \A q \in Quotes \ mixed :
    status[q] # "none" /\ (\A w \in Workers : ~HalfLine(w, q))
      => subtotal[q] = Sum(items[q])

(* A snapshot in quote_revisions is one version of the quote: its lines    *)
(* add up to its subtotal, whatever edits run beside sendQuote.            *)
SnapshotsAreWhole ==
  \A q \in Quotes \ mixed : \A i \in DOMAIN revisions[q] :
    revisions[q][i].sub = Sum(revisions[q][i].rows)

(* acceptQuote makes a quote's acceptance and its order one fact: a quote  *)
(* is accepted exactly when it has one order, and expired only past its    *)
(* validity -- unless somebody wrote it on a reading that no longer held.  *)
DecisionStands ==
  \A q \in Quotes \ overtaken :
    /\ Len(orders[q]) <= 1
    /\ status[q] = "accepted" <=> orders[q] # <<>>
    /\ status[q] = "expired" => validity[q] = "past"

(* An RFQ is accepted only with an order from one of its quotes, and       *)
(* quoted only once one of them was sent, wherever a request was cut off.  *)
RfqFollowsQuotes ==
  \A r \in Rfqs :
    LET mine == {q \in Quotes : rfqOf[q] = r} IN
    /\ rfq[r] = "accepted" => \E q \in mine : orders[q] # <<>>
    /\ rfq[r] = "quoted" => \E q \in mine : revisions[q] # <<>>

\* Who a request waits for.
Needs(w) ==
  CASE pc[w] = "insert" -> {v \in Workers \ {w} : Deleting(v) \cap req[w].gone # {}}
    [] pc[w] \in {"subtotal", "quote", "decline", "setSum"} -> {quoteLock[req[w].q]} \ {NoWorker}
    [] pc[w] = "expire" -> {quoteLock[q] : q \in req[w].todo} \ {NoWorker}
    [] pc[w] = "rfq" -> IF rfqOf[req[w].q] = NoRfq THEN {} ELSE {rfqLock[rfqOf[req[w].q]]} \ {NoWorker}
    [] pc[w] = "submit" -> {rfqLock[req[w].r]} \ {NoWorker}
    [] OTHER -> {}

(* Lines, quote, RFQ: every transaction locks them in this order, so no    *)
(* group of requests waits for each other.                                 *)
NoWaitCycle ==
  \A C \in (SUBSET Workers) \ {{}} : \E c \in C : Needs(c) \cap C = {}

(* Every column keeps to its constraints, versions number the snapshots,   *)
(* and lines and subtotal agree in the quote and in every snapshot of it   *)
(* (replaceQuoteItems, addConfiguredLine, the revision taken on sending).  *)
LinesAddUp == TypeOK /\ SubtotalIsSum /\ SnapshotsAreWhole

(* A quote's decision stands, and its RFQ follows: no order without an     *)
(* acceptance, no accepted RFQ without the order (acceptQuote, sendQuote). *)
DecisionsHold == DecisionStands /\ RfqFollowsQuotes

=============================================================================
