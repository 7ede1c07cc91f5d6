----------------------------- MODULE Marketplace -----------------------------
(***************************************************************************)
(* Vendors' listings, their share of the buyers' orders, and their payouts *)
(* (modules/marketplace, called by sales/order.go; migrations/0041).       *)
(*                                                                         *)
(* Placing an order splits it into one vendor order per vendor in the same *)
(* transaction: one step.  A vendor's status change is a read and a blind  *)
(* update.  A payout is one transaction of two steps: the orders to pay    *)
(* are read and totalled; then the payout is inserted and the orders are   *)
(* attached by an UPDATE that evaluates its predicate again and, waiting   *)
(* for row locks, runs after any other payout that holds them has ended.   *)
(***************************************************************************)
EXTENDS Money, Sums, SequencesExt

CONSTANTS
  Handlers,
  Vendors,
  Products,
  VendorOf,    \* product -> its vendor, or House for the operator's own
  House,
  RowTotal,    \* product -> the row total of a line of it
  Rates,       \* commission rates an admin may set, in percent
  FirstRate,   \* the rate all vendors start with
  FirstApproval, \* product -> its listing's state at the start
  Kinds,       \* the changes that arrive
  MaxSales,    \* bound: orders in a behaviour
  MaxParts,    \* bound: vendor orders in a behaviour
  MaxRequests, \* bound: status changes and payouts in a behaviour
  MaxEdits     \* bound: all other changes, cart and checkout excepted

Approvals   == {"none", "draft", "pending", "approved", "rejected"}
Transitions == {<<"pending", "accepted">>, <<"pending", "cancelled">>,
                <<"accepted", "shipped">>, <<"accepted", "cancelled">>,
                <<"shipped", "delivered">>}
PartStatuses == UNION {{t[1], t[2]} : t \in Transitions}
AllKinds    == {"list", "submit", "moderate", "rate", "delete",
                "reorder", "behalf", "paid"}

ASSUME MarketplaceAssumption ==
  /\ House \notin Vendors
  /\ VendorOf \in [Products -> Vendors \cup {House}]
  /\ RowTotal \in [Products -> Int]
  /\ IsFiniteSet(Products)
  /\ Rates \cup {FirstRate} \subseteq Int
  /\ FirstApproval \in [Products -> Approvals]
  /\ \A p \in Products : VendorOf[p] = House => FirstApproval[p] = "approved"
  /\ Kinds \subseteq AllKinds
  /\ MaxSales \in Nat /\ MaxParts \in Nat /\ MaxRequests \in Nat /\ MaxEdits \in Nat

VARIABLES
  approval,  \* product -> products.approval_status ("none": not listed yet)
  reviewed,  \* products that a moderator has ever approved
  vendor,    \* vendor -> [rate, deleted]
  basket,    \* the products in the buyer's cart
  sale,      \* the orders: [byRep, lines]; an order's id is its position
  part,      \* the vendor_orders rows, likewise
  payout,    \* the vendor_payouts rows, likewise
  stage, req, started, edits

tables     == <<approval, reviewed, vendor, basket, sale, part, payout>>
marketVars == <<tables, stage, req, started, edits>>

NoReq == [kind |-> "none"]
HouseGoods == {p \in Products : VendorOf[p] = House}

MarketInit ==
  /\ approval = FirstApproval
  /\ reviewed = {p \in Products : FirstApproval[p] = "approved"}
  /\ vendor = [v \in Vendors |-> [rate |-> FirstRate, deleted |-> FALSE]]
  /\ basket = {}
  /\ sale = <<>> /\ part = <<>> /\ payout = <<>>
  /\ stage = [w \in Handlers |-> "idle"]
  /\ req = [w \in Handlers |-> NoReq]
  /\ started = 0 /\ edits = 0

RowsOf(table) == 1..Len(table)

MoveTo(w, label) == stage' = [stage EXCEPT ![w] = label]
Done(w) == MoveTo(w, "idle") /\ req' = [req EXCEPT ![w] = NoReq]

Arrive(w, label, r) ==
  /\ stage[w] = "idle"
  /\ started < MaxRequests /\ started' = started + 1
  /\ req' = [req EXCEPT ![w] = r]
  /\ MoveTo(w, label)
  /\ UNCHANGED <<tables, edits>>

\* A request that is one statement.
Edit(kind) ==
  /\ kind \in Kinds
  /\ edits < MaxEdits /\ edits' = edits + 1
  /\ UNCHANGED <<stage, req, started>>

-----------------------------------------------------------------------------
(* Listings                                                                *)

CreateProduct ==
  /\ Edit("list")
  /\ \E p \in Products \ HouseGoods :
       approval[p] = "none" /\ approval' = [approval EXCEPT ![p] = "pending"]
  /\ UNCHANGED <<reviewed, vendor, basket, sale, part, payout>>

SubmitProduct ==
  /\ Edit("submit")
  /\ \E p \in Products :
       /\ approval[p] \in {"draft", "rejected"}
       /\ approval' = [approval EXCEPT ![p] = "pending"]
  /\ UNCHANGED <<reviewed, vendor, basket, sale, part, payout>>

\* moderateProduct sets the verdict whatever the present status is.
ModerateProduct ==
  /\ Edit("moderate")
  /\ \E p \in Products \ HouseGoods, verdict \in {"approved", "rejected"} :
       /\ approval[p] # "none"
       /\ approval' = [approval EXCEPT ![p] = verdict]
       /\ reviewed' = IF verdict = "approved" THEN reviewed \cup {p} ELSE reviewed
  /\ UNCHANGED <<vendor, basket, sale, part, payout>>

-----------------------------------------------------------------------------
(* Vendors                                                                 *)

UpdateVendor ==
  /\ Edit("rate")
  /\ \E v \in Vendors, rate \in Rates :
       ~vendor[v].deleted /\ vendor' = [vendor EXCEPT ![v].rate = rate]
  /\ UNCHANGED <<approval, reviewed, basket, sale, part, payout>>

SoftDeleteVendor ==
  /\ Edit("delete")
  /\ \E v \in Vendors : vendor' = [vendor EXCEPT ![v].deleted = TRUE]
  /\ UNCHANGED <<approval, reviewed, basket, sale, part, payout>>

-----------------------------------------------------------------------------
(* Carts and orders, as far as vendors are concerned (Checkout has more)   *)

\* GetBuyableProductIDByPublicID
Buyable(p) == approval[p] = "approved"

\* addItem and addBulk check the listing.
AddToCart ==
  /\ Len(sale) < MaxSales
  /\ \E p \in Products : Buyable(p) /\ basket' = basket \cup {p}
  /\ UNCHANGED <<approval, reviewed, vendor, sale, part, payout, stage, req, started, edits>>

\* reorder does not.
Reorder ==
  /\ Edit("reorder")
  /\ Len(sale) < MaxSales
  /\ \E o \in RowsOf(sale) : basket' = basket \cup sale[o].lines
  /\ UNCHANGED <<approval, reviewed, vendor, sale, part, payout>>

SellersOf(lines) == {VendorOf[p] : p \in lines} \ {House}

LinesOf(v, lines) == {p \in lines : VendorOf[p] = v}

\* (slip) one line per vendor
GrossOfOne(v, lines) == RowTotal[CHOOSE p \in LinesOf(v, lines) : TRUE]

Gross(v, lines) == SumOf([p \in LinesOf(v, lines) |-> RowTotal[p]])

\* CreateVendorOrder: the commission at today's rate, frozen.  The last field
\* is the model's: did a status change overwrite one it had not seen?
Part(o, v, lines) ==
  LET gross      == Gross(v, lines)
      commission == Percent(gross, vendor[v].rate)
  IN  [order |-> o, vendor |-> v, gross |-> gross, commission |-> commission,
       net |-> gross - commission, status |-> "pending", payout |-> 0, raced |-> FALSE]

\* SplitOrder fails, and the order with it, when a vendor is deleted.
SplitOrder(lines) ==
  /\ \A v \in SellersOf(lines) : ~vendor[v].deleted
  /\ part' = part \o SetToSeq({Part(Len(sale) + 1, v, lines) : v \in SellersOf(lines)})
  /\ Len(part') <= MaxParts

PlaceFromCart ==
  /\ Len(sale) < MaxSales
  /\ basket # {} /\ basket' = {}
  /\ sale' = Append(sale, [byRep |-> FALSE, lines |-> basket])
  /\ SplitOrder(basket)
  /\ UNCHANGED <<approval, reviewed, vendor, payout, stage, req, started, edits>>

\* createOrderOnBehalf takes any product the organization has.
OrderOnBehalf ==
  /\ Edit("behalf")
  /\ Len(sale) < MaxSales
  /\ \E lines \in SUBSET {p \in Products : approval[p] # "none"} :
       /\ lines # {}
       /\ sale' = Append(sale, [byRep |-> TRUE, lines |-> lines])
       /\ SplitOrder(lines)
  /\ UNCHANGED <<approval, reviewed, vendor, basket, payout>>

-----------------------------------------------------------------------------
(* vendorOrderStatus                                                       *)

LoadPart(w) ==
  \E n \in RowsOf(part), to \in PartStatuses :
    /\ <<part[n].status, to>> \in Transitions
    /\ Arrive(w, "set", [kind |-> "status", part |-> n, from |-> part[n].status, to |-> to])

\* The model's: payouts being made for this vendor have totalled without these
\* changes of the vendor's orders ns.
Touch(w, v, ns) ==
  req' = [x \in Handlers |->
            IF x = w THEN NoReq
            ELSE IF stage[x] = "settle" /\ req[x].vendor = v
                 THEN [req[x] EXCEPT !.touched = @ \cup ns] ELSE req[x]]

\* SetVendorOrderStatus names the row by id only.
SetStatus(w) ==
  /\ stage[w] = "set"
  /\ LET r == req[w] IN
     /\ part' = [part EXCEPT ![r.part].status = r.to,
                             ![r.part].raced = @ \/ part[r.part].status # r.from]
     /\ Touch(w, part[r.part].vendor, {r.part})
  /\ MoveTo(w, "idle")
  /\ UNCHANGED <<approval, reviewed, vendor, basket, sale, payout, started, edits>>

-----------------------------------------------------------------------------
(* generatePayout and markPayoutPaid                                       *)

\* ListSettledUnpaidVendorOrders, and AttachOrdersToPayout's predicate
Payable(n, v) ==
  part[n].vendor = v /\ part[n].status = "delivered" /\ part[n].payout = 0

Net(ns) == SumOf([n \in ns |-> part[n].net])

\* Nothing to pay out changes nothing.  The orders that were totalled are
\* remembered by the model only; the code keeps their sum.
TotalPayable(w) ==
  \E v \in Vendors :
    LET rows == {n \in RowsOf(part) : Payable(n, v)} IN
    /\ ~vendor[v].deleted /\ rows # {}
    /\ Arrive(w, "settle", [kind |-> "payout", vendor |-> v,
                            orders |-> rows, amount |-> Net(rows), touched |-> {}])

\* (slip) the update settles what is settled already
AttachableAgain(n, v) == part[n].vendor = v /\ part[n].status = "delivered"

\* (slip) the update settles whatever is not settled
AttachableAny(n, v) == part[n].vendor = v /\ part[n].payout = 0

Attachable(n, v) == Payable(n, v)

SettlePayout(w) ==
  /\ stage[w] = "settle"
  /\ LET r == req[w] IN
     /\ payout' = Append(payout, [vendor |-> r.vendor, amount |-> r.amount,
                                  status |-> "pending", orders |-> r.orders,
                                  touched |-> r.touched])
     /\ part' = [n \in RowsOf(part) |->
                   IF Attachable(n, r.vendor)
                   THEN [part[n] EXCEPT !.payout = Len(payout) + 1] ELSE part[n]]
     /\ Touch(w, r.vendor, {n \in RowsOf(part) : Attachable(n, r.vendor)})
  /\ MoveTo(w, "idle")
  /\ UNCHANGED <<approval, reviewed, vendor, basket, sale, started, edits>>

MarkPayoutPaid ==
  /\ Edit("paid")
  /\ \E n \in RowsOf(payout) :
       payout[n].status = "pending" /\ payout' = [payout EXCEPT ![n].status = "paid"]
  /\ UNCHANGED <<approval, reviewed, vendor, basket, sale, part>>

\* The client leaves or a statement fails; a payout not committed is undone.
Fail(w) == stage[w] # "idle" /\ Done(w) /\ UNCHANGED <<tables, started, edits>>

Commit(w) == SetStatus(w) \/ SettlePayout(w)

Receive(w) == LoadPart(w) \/ TotalPayable(w)

Quiet == (\A w \in Handlers : stage[w] = "idle") /\ UNCHANGED marketVars

MarketNext ==
  \/ \E w \in Handlers : Receive(w) \/ Commit(w) \/ Fail(w)
  \/ CreateProduct \/ SubmitProduct \/ ModerateProduct
  \/ UpdateVendor \/ SoftDeleteVendor
  \/ AddToCart \/ Reorder \/ PlaceFromCart \/ OrderOnBehalf
  \/ MarkPayoutPaid \/ Quiet

MarketSpec == MarketInit /\ [][MarketNext]_marketVars

-----------------------------------------------------------------------------
PartRow == [order : Nat \ {0}, vendor : Vendors, gross : Int, commission : Int, net : Int,
            status : PartStatuses, payout : Nat, raced : BOOLEAN]
PayoutRow == [vendor : Vendors, amount : Int, status : {"pending", "paid"},
              orders : SUBSET Nat, touched : SUBSET Nat]
StatusRequest == [kind : {"status"}, part : Nat \ {0}, from : PartStatuses, to : PartStatuses]
PayoutRequest == [kind : {"payout"}, vendor : Vendors, amount : Int,
                  orders : SUBSET Nat, touched : SUBSET Nat]

(* The shape of the tables and of the requests in flight; a vendor order   *)
(* belongs to an order and, once settled, to a payout of its vendor.       *)
TypeOK ==
  /\ approval \in [Products -> Approvals]
  /\ reviewed \subseteq Products /\ basket \subseteq Products
  /\ vendor \in [Vendors -> [rate : Int, deleted : BOOLEAN]]
  /\ sale \in Seq([byRep : BOOLEAN, lines : SUBSET Products])
  /\ part \in Seq(PartRow) /\ payout \in Seq(PayoutRow)
  /\ \A n \in RowsOf(part) :
       /\ part[n].order \in RowsOf(sale)
       /\ part[n].payout # 0 =>
            /\ part[n].payout \in RowsOf(payout)
            /\ payout[part[n].payout].vendor = part[n].vendor
  /\ stage \in [Handlers -> {"idle", "set", "settle"}]
  /\ req \in [Handlers -> {NoReq} \cup StatusRequest \cup PayoutRequest]
  /\ \A w \in Handlers :
       /\ stage[w] = "idle" => req[w] = NoReq
       /\ stage[w] = "set" => req[w] \in StatusRequest /\ req[w].part \in RowsOf(part)
       /\ stage[w] = "settle" => req[w] \in PayoutRequest
  /\ started \in Nat /\ edits \in Nat

PartsOf(o) == {n \in RowsOf(part) : part[n].order = o}
SettledBy(m) == {n \in RowsOf(part) : part[n].payout = m}

(* A payout pays the orders it totalled, and it settles the same ones but  *)
(* for those that another payout settled, or whose status changed, between *)
(* its two statements.  The code's comment promises the same set without   *)
(* exception (generatePayout: one transaction), which READ COMMITTED does  *)
(* not give: the transaction's second statement sees later commits.        *)
PayoutPaysItsOrders ==
  \A m \in RowsOf(payout) :
    /\ payout[m].amount = Net(payout[m].orders)
    /\ \A n \in RowsOf(part) \ payout[m].touched :
         n \in payout[m].orders <=> n \in SettledBy(m)

(* A settled order was delivered and stays so: no vendor is paid for an    *)
(* order that is later cancelled, unless two status changes of that order  *)
(* overlapped.                                                             *)
PaidForDelivered ==
  \A n \in RowsOf(part) :
    part[n].payout # 0 /\ ~part[n].raced => part[n].status = "delivered"

(* Splitting loses nothing: every vendor line of an order is in exactly    *)
(* one vendor order, and their gross amounts are the lines' row totals.    *)
SplitIsWhole ==
  \A o \in RowsOf(sale) :
    LET sold == sale[o].lines \ HouseGoods IN
    /\ SumOf([n \in PartsOf(o) |-> part[n].gross]) = SumOf([p \in sold |-> RowTotal[p]])
    /\ \A p \in sold : Cardinality({n \in PartsOf(o) : part[n].vendor = VendorOf[p]}) = 1

(* What a vendor earns from an order is fixed when the order is placed,    *)
(* and the payout that settles it once it is settled, whatever admins do   *)
(* to rates and however payouts overlap (migrations/0041: frozen).         *)
EarningsAreFrozen ==
  [][\A n \in RowsOf(part) :
       /\ <<part'[n].order, part'[n].vendor, part'[n].gross, part'[n].commission, part'[n].net>>
            = <<part[n].order, part[n].vendor, part[n].gross, part[n].commission, part[n].net>>
       /\ part[n].payout # 0 => part'[n].payout = part[n].payout]_marketVars

(* A buyer orders only listings a moderator has approved at some time, or  *)
(* ones a sales rep has ordered before (reorder checks no approval).       *)
BoughtWasApproved ==
  \A o \in RowsOf(sale) : ~sale[o].byRep =>
    sale[o].lines \subseteq
      reviewed \cup UNION {sale[b].lines : b \in {x \in RowsOf(sale) : sale[x].byRep}}

(* What a vendor is asked to deliver is whole and was offered: the tables  *)
(* keep their shape, an order's lines are split without loss, and only     *)
(* approved listings are bought (SplitOrder, the cart's approval filter).  *)
OrdersAreWhole == TypeOK /\ SplitIsWhole /\ BoughtWasApproved

(* A payout is for delivered orders, and totals and settles the same ones  *)
(* but for those that changed between (generatePayout beside vendors'      *)
(* status changes).                                                        *)
PayoutsAreRight == PayoutPaysItsOrders /\ PaidForDelivered

=============================================================================
