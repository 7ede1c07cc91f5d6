------------------------------- MODULE Returns -------------------------------
(***************************************************************************)
(* Returns of one order's goods, their restocking and their credit notes   *)
(* (modules/otc/returns.go; migrations/0038).                              *)
(*                                                                         *)
(* A request to return is checked line by line on the pool and inserted by *)
(* a transaction that checks nothing again.  Approving, rejecting and      *)
(* receiving load the return, test its status, and set the status by id    *)
(* alone; receiving also restocks and issues a credit note, all in one     *)
(* transaction.                                                            *)
(***************************************************************************)
EXTENDS Sums, SequencesExt

CONSTANTS
  Workers,
  Items,      \* the order's lines, each of its own product
  Ordered,    \* item -> quantity ordered, of any sign like everything an order holds
  UnitPrice,  \* item -> its unit price
  Tracked,    \* items whose product has a level in the default warehouse
  Quantities, \* quantities a line may ask to return: the code asks for no sign
  MaxLines,   \* bound: lines of a return
  MaxReturns, \* bound: returns in a behaviour
  MaxRequests \* bound: requests in a behaviour

ASSUME ReturnsAssumption ==
  /\ IsFiniteSet(Items)
  /\ Ordered \in [Items -> Int] /\ UnitPrice \in [Items -> Int]
  /\ Tracked \subseteq Items /\ Quantities \subseteq Int
  /\ MaxLines \in Nat /\ MaxReturns \in Nat /\ MaxRequests \in Nat

VARIABLES
  ret,       \* the returns: [status, lines, overlapped, raced]; an id is a position
  credit,    \* the credit_notes of returns: [ret, amount]
  onHand,    \* item -> what returns have added to its product's level
  pc, req, started

tables == <<ret, credit, onHand>>
vars   == <<tables, pc, req, started>>

NoReq    == [kind |-> "none"]
Statuses == {"requested", "approved", "rejected", "received"}
Ids(table) == 1..Len(table)

Init ==
  /\ ret = <<>> /\ credit = <<>>
  /\ onHand = [i \in Items |-> 0]
  /\ pc = [w \in Workers |-> "idle"]
  /\ req = [w \in Workers |-> NoReq]
  /\ started = 0

Goto(w, label) == pc' = [pc EXCEPT ![w] = label]
Done(w) == Goto(w, "idle") /\ req' = [req EXCEPT ![w] = NoReq]

Arrive(w, label, r) ==
  /\ pc[w] = "idle" /\ started < MaxRequests
  /\ started' = started + 1
  /\ req' = [req EXCEPT ![w] = r]
  /\ Goto(w, label)
  /\ UNCHANGED tables

-----------------------------------------------------------------------------
(* validateAndCreateReturn, for buyers and admins alike; it asks nothing   *)
(* about the order's status or what has been shipped.                      *)

Asked(i, lines) ==
  SumOf([k \in Ids(lines) |-> IF lines[k].item = i THEN lines[k].qty ELSE 0])

\* (slip) what has been received does not count any more
CountsOpen(r) == r.status \in {"requested", "approved"}

Counts(r) == r.status # "rejected"

\* SumReturnedForOrderItem
Returned(i) ==
  SumOf([n \in Ids(ret) |-> IF Counts(ret[n]) THEN Asked(i, ret[n].lines) ELSE 0])

Remaining(i) == Ordered[i] - Returned(i)

AskReturn(w) ==
  /\ Len(ret) < MaxReturns
  /\ \E lines \in BoundedSeq([item : Items, qty : Quantities], MaxLines) :
       /\ lines # <<>>
       /\ Arrive(w, "check", [kind |-> "create", lines |-> lines, next |-> 1,
                              overlapped |-> FALSE])

\* Each line is checked for itself, against the returns already there, and
\* only from above: a line of less than nothing passes and leaves more to the
\* returns after it.
CheckLine(w) ==
  /\ pc[w] = "check"
  /\ LET r == req[w]
         l == r.lines[r.next]
     IN  IF l.qty > Remaining(l.item) THEN Done(w)
         ELSE IF r.next < Len(r.lines)
              THEN req' = [req EXCEPT ![w].next = @ + 1] /\ UNCHANGED pc
              ELSE Goto(w, "insert") /\ UNCHANGED req
  /\ UNCHANGED <<tables, started>>

\* The flag is the model's: another return came between check and insert.
InsertReturn(w) ==
  /\ pc[w] = "insert" /\ Len(ret) < MaxReturns
  /\ ret' = Append(ret, [status |-> "requested", lines |-> req[w].lines,
                         overlapped |-> req[w].overlapped, raced |-> FALSE])
  /\ req' = [x \in Workers |->
               IF x = w THEN NoReq
               ELSE IF req[x].kind = "create" THEN [req[x] EXCEPT !.overlapped = TRUE]
               ELSE req[x]]
  /\ Goto(w, "idle")
  /\ UNCHANGED <<credit, onHand, started>>

-----------------------------------------------------------------------------
(* approveReturn, rejectReturn and receiveReturn                           *)

\* (slip) a received return can still be rejected
MayRejectAny(status) == status # "rejected"

MayReject(status) == status = "requested"

MayReceive(status) == status = "approved"

Allowed(status, to) ==
  CASE to = "approved" -> status = "requested"
    [] to = "rejected" -> MayReject(status)
    [] to = "received" -> MayReceive(status)

LoadReturn(w) ==
  \E n \in Ids(ret), to \in Statuses \ {"requested"} :
    /\ Allowed(ret[n].status, to)
    /\ Arrive(w, IF to = "received" THEN "receive" ELSE "set",
              [kind |-> "status", ret |-> n, from |-> ret[n].status, to |-> to])

\* SetReturnStatus names the return by id only.  The flag is the model's: the
\* status overwritten is not the one the request was decided on.
SetReturnStatus(r) ==
  ret' = [ret EXCEPT ![r.ret].status = r.to,
                     ![r.ret].raced = @ \/ ret[r.ret].status # r.from]

SetStatus(w) ==
  /\ pc[w] = "set"
  /\ SetReturnStatus(req[w]) /\ Done(w)
  /\ UNCHANGED <<credit, onHand, started>>

CreditTotal(lines) ==
  SumOf([k \in Ids(lines) |-> lines[k].qty * UnitPrice[lines[k].item]])

Restock(i, lines) == IF i \in Tracked THEN Asked(i, lines) ELSE 0

ReceiveReturn(w) ==
  /\ pc[w] = "receive"
  /\ SetReturnStatus(req[w])
  /\ LET lines == ret[req[w].ret].lines IN
     /\ onHand' = [i \in Items |-> onHand[i] + Restock(i, lines)]
     /\ credit' = Append(credit, [ret |-> req[w].ret, amount |-> CreditTotal(lines)])
  /\ Done(w)
  /\ UNCHANGED started

\* The client leaves or a statement fails; what is not committed is undone.
Fail(w) == pc[w] # "idle" /\ Done(w) /\ UNCHANGED <<tables, started>>

Serve(w) == CheckLine(w) \/ InsertReturn(w) \/ SetStatus(w) \/ ReceiveReturn(w)

Receive(w) == AskReturn(w) \/ LoadReturn(w)

Rest == (\A w \in Workers : pc[w] = "idle") /\ UNCHANGED vars

Next == (\E w \in Workers : Receive(w) \/ Serve(w) \/ Fail(w)) \/ Rest

Spec == Init /\ [][Next]_vars

-----------------------------------------------------------------------------
Lines == Seq([item : Items, qty : Quantities])
ReturnRow == [status : Statuses, lines : Lines, overlapped : BOOLEAN, raced : BOOLEAN]
CreateRequest == [kind : {"create"}, lines : Lines, next : Nat \ {0}, overlapped : BOOLEAN]
StatusRequest == [kind : {"status"}, ret : Nat \ {0}, from : Statuses, to : Statuses]

(* The shape of the tables and of the requests in flight; only tracked     *)
(* products are restocked.                                                 *)
TypeOK ==
  /\ ret \in Seq(ReturnRow)
  /\ credit \in Seq([ret : Ids(ret), amount : Int])
  /\ onHand \in [Items -> Int]
  /\ \A i \in Items \ Tracked : onHand[i] = 0
  /\ pc \in [Workers -> {"idle", "check", "insert", "set", "receive"}]
  /\ req \in [Workers -> {NoReq} \cup CreateRequest \cup StatusRequest]
  /\ \A w \in Workers :
       /\ pc[w] = "idle" => req[w] = NoReq
       /\ pc[w] = "check" => req[w].next <= Len(req[w].lines)
       /\ pc[w] \in {"set", "receive"} => req[w].ret \in Ids(ret)
  /\ started \in Nat

CreditsOf(n) == {c \in Ids(credit) : credit[c].ret = n}

Twice(r, i) ==
  \E j, k \in Ids(r.lines) : j # k /\ r.lines[j].item = i /\ r.lines[k].item = i

AtLeastZero(n) == IF n < 0 THEN 0 ELSE n

Clean(r, i) == ~r.raced /\ ~r.overlapped /\ ~Twice(r, i)

\* How much of line i a return takes up.  One of less than nothing gives, and
\* what it gave may be taken before it is rejected.
Takes(r, i) ==
  IF Asked(i, r.lines) < 0 \/ (r.status # "rejected" /\ Clean(r, i))
  THEN Asked(i, r.lines) ELSE 0

(* What stands on return of a line exceeds what was ordered only by what   *)
(* negative returns gave, and by returns that overlapped another between   *)
(* its check and insert, had two status changes overlap, or name the line  *)
(* twice (validateAndCreateReturn's cap).                                  *)
OverReturnOnlyByOverlap ==
  \A i \in Items : SumOf([n \in Ids(ret) |-> Takes(ret[n], i)]) <= AtLeastZero(Ordered[i])

(* A return is credited and restocked a second time only after status      *)
(* changes of it overlapped (receiveReturn's test of a copy).              *)
CreditedOnceUnlessRaced ==
  \A n \in Ids(ret) : \A c, d \in CreditsOf(n) : c # d => ret[n].raced

(* The status tells whether the buyer was credited: received returns are,  *)
(* all others are not, unless status changes of the return overlapped.     *)
CreditedIffReceived ==
  \A n \in Ids(ret) : ~ret[n].raced =>
    (ret[n].status = "received" <=> CreditsOf(n) # {})

\* What negative returns gave of line i and did not take back from the buyer.
Given(i) ==
  SumOf([n \in Ids(ret) |-> IF ret[n].status = "received" \/ Asked(i, ret[n].lines) >= 0
                            THEN 0 ELSE 0 - Asked(i, ret[n].lines)])

(* While no returns or status changes overlap and no request names a line  *)
(* twice, the buyer is credited no more than the goods of the order were   *)
(* worth, and what negative returns gave that were never received.         *)
CreditWithinOrder ==
  (/\ \A n \in Ids(ret) : /\ ~ret[n].overlapped /\ ~ret[n].raced
                          /\ \A i \in Items : ~Twice(ret[n], i)
   /\ \A i \in Items : UnitPrice[i] >= 0)
  => SumOf([c \in Ids(credit) |-> credit[c].amount])
       <= SumOf([i \in Items |-> UnitPrice[i] * (AtLeastZero(Ordered[i]) + Given(i))])

(* Status, stock and credit note of a return agree, and only requests that *)
(* overlap part them (receiveReturn, rejectReturn).                        *)
CreditsFollowReceipts == TypeOK /\ CreditedIffReceived /\ CreditedOnceUnlessRaced

(* Nobody returns, or is credited for, more than was bought, but for what  *)
(* negative returns gave and for requests that overlap or repeat a line    *)
(* (validateAndCreateReturn).                                              *)
ReturnedWasBought == OverReturnOnlyByOverlap /\ CreditWithinOrder

=============================================================================
