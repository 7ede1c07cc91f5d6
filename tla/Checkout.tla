------------------------------ MODULE Checkout ------------------------------
(***************************************************************************)
(* From cart to order and invoice (modules/cart/handler.go,                *)
(* modules/sales/order.go, budgets.sql, promotions.sql): the buyers of a   *)
(* few customers change their one active cart, check it out under a        *)
(* promotion and a budget, and are invoiced.                               *)
(*                                                                         *)
(* Cart handlers run without a transaction, so each statement that changes *)
(* a row is a step; resolving a price and storing it are one step, because *)
(* nobody changes prices here.  Checkout reads the cart, its items, the    *)
(* promotions and the period's spend, each in a step of its own, and then  *)
(* commits every write at once.  A cart line is named by cart and product. *)
(***************************************************************************)
EXTENDS Promotions, Sums, SequencesExt

CONSTANTS
  Workers,
  Customers,
  Products,
  Quantities,   \* the quantities asked for; no handler asks for their sign
  Absent,       \* a product without a line
  Price,        \* customer -> product -> quantity -> unit price, or OnRequest
  Bulks,        \* the lines of an addBulk request
  OnRequest,    \* nothing resolves: price on request
  VatPercent,   \* product -> tax rate at the delivery address
  PromoList,    \* the promotions in the order ListActivePromotions gives them
  CostCenters,  \* "" and the named ones
  Budget,       \* customer -> cost center -> the period's amount, or NoBudget
  NoBudget,
  Shippings,    \* the shipping amounts buyers send: any number parses
  FirstCarts,   \* the active carts there are at first
  FirstList,    \* customer -> product -> quantity on the shopping list
  Kinds,        \* the requests that arrive
  MaxRequests   \* bound: requests and admin changes in a behaviour

AllKinds == {"view", "add", "addBulk", "quantity", "remove", "applyCoupon", "removeCoupon",
             "revalidate", "reorder", "convertList", "list", "checkout", "onBehalf",
             "cancel", "promotion", "invoice"}
Promos == DOMAIN PromoList
Codes  == {PromoList[i].code : i \in Promos} \cup {NoCode}
Line   == [qty : Quantities, price : Int] \cup {Absent}
Lines  == [Products -> Line]
Empty  == [p \in Products |-> Absent]
Cart   == [customer : Customers, status : {"active", "converted"}, coupon : Codes, item : Lines]

ASSUME CheckoutAssumption ==
  /\ IsFiniteSet(Products)
  /\ Quantities \subseteq Int
  /\ Absent \notin Quantities \cup [qty : Quantities, price : Int]
  /\ Price \in [Customers -> [Products -> [Quantities -> Int \cup {OnRequest}]]]
  /\ Bulks \subseteq Seq([product : Products, qty : Quantities])
  /\ VatPercent \in [Products -> Int]
  /\ PromoList \in Seq([type : {"percent", "amount"}, value : Nat, code : Codes, min : Int,
                        cap : Int \cup {Unlimited}, priority : Int])
  /\ "" \in CostCenters
  /\ Budget \in [Customers -> [CostCenters -> Int \cup {NoBudget}]]
  /\ Shippings \subseteq Int
  /\ FirstCarts \in Seq(Cart)
  /\ \A i, j \in DOMAIN FirstCarts :
       FirstCarts[i].status = "active" /\ (FirstCarts[i].customer = FirstCarts[j].customer => i = j)
  /\ FirstList \in [Customers -> [Products -> Quantities \cup {Absent}]]
  /\ Kinds \subseteq AllKinds
  /\ MaxRequests \in Nat

VARIABLES
  cart,      \* the carts rows with their items; a cart's id is its position
  list,      \* the shopping lists' items, as FirstList
  order,     \* the orders rows with their items, likewise
  redeemed,  \* promotion -> times_redeemed
  open,      \* the promotions that are active and in their window
  invoice,   \* the invoices rows
  raced,     \* carts that a checkout held together with another request
  pc, req, started

tables == <<cart, list, order, redeemed, open, invoice, raced>>
vars   == <<tables, pc, req, started>>

NoReq == [kind |-> "none"]

Init ==
  /\ cart = FirstCarts /\ list = FirstList
  /\ order = <<>> /\ invoice = <<>>
  /\ redeemed = [i \in Promos |-> 0]
  /\ open = Promos
  /\ raced = {}
  /\ pc = [w \in Workers |-> "idle"]
  /\ req = [w \in Workers |-> NoReq]
  /\ started = 0

Ids(table) == 1..Len(table)

Goto(w, label) == pc' = [pc EXCEPT ![w] = label]
Done(w) == Goto(w, "idle") /\ req' = [req EXCEPT ![w] = NoReq]

Arrive(w, label, r) ==
  /\ r.kind \in Kinds
  /\ pc[w] = "idle" /\ started < MaxRequests
  /\ started' = started + 1
  /\ req' = [req EXCEPT ![w] = r]
  /\ Goto(w, label)

\* A change by an admin, or by a buyer in one statement.
Change(kind) ==
  /\ kind \in Kinds
  /\ started < MaxRequests /\ started' = started + 1
  /\ UNCHANGED <<pc, req, raced>>

ActiveCarts(c) == {i \in Ids(cart) : cart[i].customer = c /\ cart[i].status = "active"}

Bought(i) == {p \in Products : cart[i].item[p] # Absent}

\* A worker of this kind now holds cart i: remember when it is not alone and
\* one of the two is a checkout.
Shared(w, i, kind) ==
  raced' = IF \E v \in Workers \ {w} :
                /\ pc[v] # "idle" /\ req[v].cart = i
                /\ "checkout" \in {kind, req[v].kind}
           THEN raced \cup {i} ELSE raced

-----------------------------------------------------------------------------
(* Changing the cart: a request is a list of edits, each one statement.    *)

Put(p, q)         == [do |-> "put", product |-> p, qty |-> q]
Quantity(i, p, q) == [do |-> "quantity", cart |-> i, product |-> p, qty |-> q]
DropLine(i, p)    == [do |-> "remove", cart |-> i, product |-> p]
Check(code)       == [do |-> "check", code |-> code]
Coupon(code)      == [do |-> "coupon", code |-> code]
Reprice(p, price) == [do |-> "reprice", product |-> p, price |-> price]

EditCart(w, kind, c, todo) ==
  /\ Arrive(w, "find", [kind |-> kind, customer |-> c, cart |-> 0, todo |-> todo])
  /\ UNCHANGED tables

\* getCart too makes a cart for a buyer who has none.
GetCart(w) == \E c \in Customers : EditCart(w, "view", c, <<>>)

AddItem(w) ==
  \E c \in Customers, p \in Products, q \in Quantities :
    EditCart(w, "add", c, <<Put(p, q)>>)

AddBulk(w) ==
  \E c \in Customers, wanted \in Bulks :
    EditCart(w, "addBulk", c, [n \in DOMAIN wanted |-> Put(wanted[n].product, wanted[n].qty)])

\* updateItem and removeItem name a line of a cart the buyer was shown.
UpdateItem(w) ==
  \E i \in Ids(cart), p \in Products, q \in Quantities :
    /\ p \in Bought(i)
    /\ EditCart(w, "quantity", cart[i].customer, <<Quantity(i, p, q)>>)

RemoveItem(w) ==
  \E i \in Ids(cart), p \in Products :
    /\ p \in Bought(i)
    /\ EditCart(w, "remove", cart[i].customer, <<DropLine(i, p)>>)

ApplyCoupon(w) ==
  \E c \in Customers, code \in Codes \ {NoCode, Automatic} :
    EditCart(w, "applyCoupon", c, <<Check(code), Coupon(code)>>)

RemoveCoupon(w) ==
  \E c \in Customers : EditCart(w, "removeCoupon", c, <<Coupon(NoCode)>>)

\* The lines of f (product -> quantity or Absent), in some order.
Puts(f) ==
  LET ps == SetToSeq({p \in Products : f[p] # Absent})
  IN  [n \in 1..Len(ps) |-> Put(ps[n], f[ps[n]])]

Asked(line) == IF line = Absent THEN Absent ELSE line.qty

ReorderItems(w) ==
  \E o \in Ids(order) :
    EditCart(w, "reorder", order[o].customer, Puts([p \in Products |-> Asked(order[o].line[p])]))

ConvertList(w) ==
  \E c \in Customers : EditCart(w, "convertList", c, Puts(list[c]))

Revalidate(w) ==
  \E c \in Customers : EditCart(w, "revalidate", c, <<>>)

\* activeCart: the active cart, or a new one; when another request has made
\* one meanwhile the unique index fails this request.
FindCart(w) ==
  /\ pc[w] = "find"
  /\ LET mine == ActiveCarts(req[w].customer) IN
     \/ \E i \in mine :
          /\ req' = [req EXCEPT ![w].cart = i]
          /\ Shared(w, i, req[w].kind)
          /\ Goto(w, IF req[w].kind = "revalidate" THEN "lines" ELSE "edit")
     \/ mine = {} /\ Goto(w, "create") /\ UNCHANGED <<req, raced>>
  /\ UNCHANGED <<cart, list, order, redeemed, open, invoice, started>>

CreateCart(w) ==
  /\ pc[w] = "create"
  /\ LET c == req[w].customer IN
     \/ /\ ActiveCarts(c) = {}
        /\ cart' = Append(cart, [customer |-> c, status |-> "active", coupon |-> NoCode,
                                 item |-> Empty])
        /\ req' = [req EXCEPT ![w].cart = Len(cart) + 1]
        /\ Goto(w, IF req[w].kind = "revalidate" THEN "lines" ELSE "edit")
     \/ ActiveCarts(c) # {} /\ Done(w) /\ UNCHANGED cart
  /\ UNCHANGED <<list, order, redeemed, open, invoice, raced, started>>

\* revalidate resolves each line it has read at the quantity it has read.
ReadLines(w) ==
  /\ pc[w] = "lines"
  /\ LET i  == req[w].cart
         ps == SetToSeq({p \in Bought(i) :
                 Price[cart[i].customer][p][cart[i].item[p].qty]
                   \notin {OnRequest, cart[i].item[p].price}})
     IN  req' = [req EXCEPT ![w].todo =
                   [n \in 1..Len(ps) |->
                      Reprice(ps[n], Price[cart[i].customer][ps[n]][cart[i].item[ps[n]].qty])]]
  /\ Goto(w, "edit")
  /\ UNCHANGED <<tables, started>>

\* A coupon is accepted while its promotion is open and under its cap.
CouponValid(code) ==
  \E i \in open : PromoList[i].code = code /\ UnderCap(PromoList[i], redeemed[i])

\* addItem refuses, and the others skip, a product without a price.
UpsertItem(c, i, e) ==
  LET price == Price[c][e.product][e.qty] IN
  IF price = OnRequest THEN cart
  ELSE [cart EXCEPT ![i].item[e.product] = [qty |-> e.qty, price |-> price]]

\* The price stays the one the line was added at.
UpdateQuantity(i, e) ==
  IF e.cart = i /\ e.product \in Bought(i)
  THEN [cart EXCEPT ![i].item[e.product].qty = e.qty] ELSE cart

DeleteItem(i, e) ==
  IF e.cart = i THEN [cart EXCEPT ![i].item[e.product] = Absent] ELSE cart

UpdatePrice(i, e) ==
  IF e.product \in Bought(i) THEN [cart EXCEPT ![i].item[e.product].price = e.price] ELSE cart

SetCoupon(i, e) == [cart EXCEPT ![i].coupon = e.code]

\* The cart after an edit for customer c, whose active cart was i.
Edited(c, i, e) ==
  CASE e.do = "put"      -> UpsertItem(c, i, e)
    [] e.do = "quantity" -> UpdateQuantity(i, e)
    [] e.do = "remove"   -> DeleteItem(i, e)
    [] e.do = "reprice"  -> UpdatePrice(i, e)
    [] e.do = "coupon"   -> SetCoupon(i, e)
    [] e.do = "check"    -> cart

Edit(w) ==
  /\ pc[w] = "edit"
  /\ LET r == req[w] IN
     \/ r.todo = <<>> /\ Done(w) /\ UNCHANGED cart
     \/ /\ r.todo # <<>>
        /\ cart' = Edited(r.customer, r.cart, Head(r.todo))
        /\ IF \/ Tail(r.todo) = <<>>
              \/ Head(r.todo).do = "check" /\ ~CouponValid(Head(r.todo).code)
           THEN Done(w)
           ELSE req' = [req EXCEPT ![w].todo = Tail(r.todo)] /\ UNCHANGED pc
  /\ UNCHANGED <<list, order, redeemed, open, invoice, raced, started>>

\* Shopping lists change in one statement.
SetList(c, p, q) ==
  /\ Change("list")
  /\ list' = [list EXCEPT ![c][p] = q]
  /\ UNCHANGED <<cart, order, redeemed, open, invoice>>

AddListItem == \E c \in Customers, p \in Products, q \in Quantities : SetList(c, p, q)

UpdateListItem ==
  \E c \in Customers, p \in Products, q \in Quantities : list[c][p] # Absent /\ SetList(c, p, q)

RemoveListItem ==
  \E c \in Customers, p \in Products : list[c][p] # Absent /\ SetList(c, p, Absent)

-----------------------------------------------------------------------------
(* placeOrderFromCart                                                      *)

RowTotal(line) == IF line = Absent THEN 0 ELSE line.qty * line.price

TaxOn(lines) == SumOf([p \in Products |-> Percent(RowTotal(lines[p]), VatPercent[p])])

Subtotal(lines) == SumOf([p \in Products |-> RowTotal(lines[p])])

\* A checkout fills in "line" and what follows as it goes on.
LoadCart(w) ==
  \E c \in Customers, cc \in CostCenters, s \in Shippings :
    /\ \E i \in ActiveCarts(c) :
         /\ Arrive(w, "items", [kind |-> "checkout", customer |-> c, cart |-> i,
                                coupon |-> cart[i].coupon, cc |-> cc, shipping |-> s,
                                line |-> Empty, promo |-> 0, seen |-> 0, discount |-> 0,
                                grand |-> 0, spent |-> 0])
         /\ Shared(w, i, "checkout")
    /\ UNCHANGED <<cart, list, order, redeemed, open, invoice>>

\* From here on the checkout works with the lines it has read.
ListCartItems(w) ==
  /\ pc[w] = "items"
  /\ LET i == req[w].cart IN
     IF Bought(i) = {} THEN Done(w)
     ELSE req' = [req EXCEPT ![w].line = cart[i].item] /\ Goto(w, "promote")
  /\ UNCHANGED <<tables, started>>

\* "seen" is the redemption count the cap was checked against.
EvaluatePromotion(w) ==
  /\ pc[w] = "promote"
  /\ LET r == req[w]
         i == Evaluate(PromoList, redeemed, open, Subtotal(r.line), r.coupon)
         d == IF i = 0 THEN 0 ELSE Discount(PromoList[i], Subtotal(r.line))
     IN  req' = [req EXCEPT ![w] =
                   [r EXCEPT !.promo = i, !.seen = IF i = 0 THEN 0 ELSE redeemed[i], !.discount = d,
                             !.grand = Subtotal(r.line) - d + TaxOn(r.line) + r.shipping]]
  /\ Goto(w, "budget")
  /\ UNCHANGED <<tables, started>>

\* SpendForCustomerPeriod
Stands(o, c, cc) ==
  order[o].customer = c /\ order[o].cc = cc /\ order[o].status # "cancelled"

Spend(c, cc) == SumOf([o \in Ids(order) |-> IF Stands(o, c, cc) THEN order[o].grand ELSE 0])

\* (slip) the budget stops orders only once it is used up
FitsSpent(spent, grand, amount) == spent <= amount

Fits(spent, grand, amount) == spent + grand <= amount

CheckBudget(w) ==
  /\ pc[w] = "budget"
  /\ LET r      == req[w]
         amount == Budget[r.customer][r.cc]
         spent  == Spend(r.customer, r.cc)
     IN  IF amount = NoBudget \/ Fits(spent, r.grand, amount)
         THEN req' = [req EXCEPT ![w].spent = spent] /\ Goto(w, "commit")
         ELSE Done(w)
  /\ UNCHANGED <<tables, started>>

\* (slip) the count that was read is written back
IncrementRead(i, seen) == [redeemed EXCEPT ![i] = seen + 1]

\* IncrementPromotionRedeemed
Increment(i, seen) == [redeemed EXCEPT ![i] = @ + 1]

\* (slip) the cart stays active
ConvertNot(i) == cart

\* MarkCartConverted names the row by id only.
Convert(i) == [cart EXCEPT ![i].status = "converted"]

\* CreateOrder and all that is committed with it.  The last two fields are the
\* model's: was the cap, or the spend, out of date when the order came to stand?
PlaceOrder(w) ==
  /\ pc[w] = "commit"
  /\ LET r == req[w] IN
     /\ order' = Append(order,
          [customer |-> r.customer, cart |-> r.cart, line |-> r.line, cc |-> r.cc,
           promo |-> r.promo, discount |-> r.discount,
           code |-> IF r.promo = 0 THEN NoCode ELSE r.coupon,
           tax |-> TaxOn(r.line), shipping |-> r.shipping, grand |-> r.grand,
           status |-> "pending",
           lateCap |-> r.promo # 0 /\ redeemed[r.promo] # r.seen,
           lateSpend |-> Spend(r.customer, r.cc) # r.spent])
     /\ redeemed' = IF r.promo = 0 THEN redeemed ELSE Increment(r.promo, r.seen)
     /\ cart' = Convert(r.cart)
  /\ Done(w)
  /\ UNCHANGED <<list, open, invoice, raced, started>>

-----------------------------------------------------------------------------
(* Admins, and invoices                                                    *)

\* createOrderOnBehalf: the rep's own prices, no promotion, no budget.
OrderOnBehalf ==
  /\ Change("onBehalf")
  /\ \E c \in Customers, p \in Products, q \in Quantities :
       LET lines == [r \in Products |-> IF r = p THEN [qty |-> q, price |-> 1] ELSE Absent] IN
       order' = Append(order,
          [customer |-> c, cart |-> 0, line |-> lines, cc |-> "", promo |-> 0,
           code |-> NoCode, discount |-> 0, tax |-> TaxOn(lines), shipping |-> 0,
           grand |-> Subtotal(lines) + TaxOn(lines), status |-> "pending",
           lateCap |-> FALSE, lateSpend |-> FALSE])
  /\ UNCHANGED <<cart, list, redeemed, open, invoice>>

\* OrderFulfilment has the whole life cycle of an order.
CancelOrder ==
  /\ Change("cancel")
  /\ \E o \in Ids(order) :
       order[o].status = "pending" /\ order' = [order EXCEPT ![o].status = "cancelled"]
  /\ UNCHANGED <<cart, list, redeemed, open, invoice>>

\* A transition that was resolved before the cancellation is stored after it
\* (OrderFulfilment has both): the order stands again, and nothing is checked.
ReviveOrder ==
  /\ Change("cancel")
  /\ \E o \in Ids(order) :
       /\ order[o].status = "cancelled"
       /\ order' = [order EXCEPT ![o].status = "pending", ![o].lateSpend = TRUE]
  /\ UNCHANGED <<cart, list, redeemed, open, invoice>>

\* A promotion is switched or enters or leaves its window; times_redeemed stays.
SwitchPromotion ==
  /\ Change("promotion")
  /\ \E i \in Promos : open' = IF i \in open THEN open \ {i} ELSE open \cup {i}
  /\ UNCHANGED <<cart, list, order, redeemed, invoice>>

\* createInvoiceForOrder sums the order's rows and their tax.
Billed(o) == Subtotal(order[o].line) + TaxOn(order[o].line)

IssueInvoice ==
  /\ Change("invoice")
  /\ \E o \in Ids(order) : invoice' = Append(invoice, [order |-> o, total |-> Billed(o)])
  /\ UNCHANGED <<cart, list, order, redeemed, open>>

\* The client leaves or a statement fails; what has committed stays.
Fail(w) == pc[w] # "idle" /\ Done(w) /\ UNCHANGED <<tables, started>>

Serve(w) ==
  \/ FindCart(w) \/ CreateCart(w) \/ ReadLines(w) \/ Edit(w)
  \/ ListCartItems(w) \/ EvaluatePromotion(w) \/ CheckBudget(w) \/ PlaceOrder(w)

Receive(w) ==
  \/ GetCart(w) \/ AddItem(w) \/ AddBulk(w) \/ UpdateItem(w) \/ RemoveItem(w) \/ ApplyCoupon(w) \/ RemoveCoupon(w)
  \/ ReorderItems(w) \/ ConvertList(w) \/ Revalidate(w) \/ LoadCart(w)

Rest == (\A w \in Workers : pc[w] = "idle") /\ UNCHANGED vars

Next ==
  \/ \E w \in Workers : Receive(w) \/ Serve(w) \/ Fail(w)
  \/ AddListItem \/ UpdateListItem \/ RemoveListItem \/ OrderOnBehalf
  \/ CancelOrder \/ ReviveOrder \/ SwitchPromotion \/ IssueInvoice
  \/ Rest

Spec == Init /\ [][Next]_vars

-----------------------------------------------------------------------------
OrderRow == [customer : Customers, cart : Nat, line : Lines, cc : CostCenters,
             promo : Promos \cup {0}, code : Codes, discount : Nat, tax : Int, shipping : Int,
             grand : Int, status : {"pending", "cancelled"}, lateCap : BOOLEAN,
             lateSpend : BOOLEAN]

EditOf ==
  [do : {"put"}, product : Products, qty : Quantities]
    \cup [do : {"quantity"}, cart : Nat, product : Products, qty : Quantities]
    \cup [do : {"remove"}, cart : Nat, product : Products]
    \cup [do : {"check", "coupon"}, code : Codes]
    \cup [do : {"reprice"}, product : Products, price : Int]

EditRequest == [kind : AllKinds \ {"checkout"}, customer : Customers, cart : Nat, todo : Seq(EditOf)]

CheckoutRequest ==
  [kind : {"checkout"}, customer : Customers, cart : Nat, coupon : Codes, cc : CostCenters,
   shipping : Shippings, line : Lines, promo : Promos \cup {0}, seen : Nat, discount : Nat,
   grand : Int, spent : Int]

Editing     == {"find", "create", "lines", "edit"}
CheckingOut == {"items", "promote", "budget", "commit"}

\* What a request holds at a stage, and the cart it is at.
RequestFits(stage, r) ==
  /\ stage = "idle" => r = NoReq
  /\ stage \in Editing => r \in EditRequest
  /\ stage \in CheckingOut => r \in CheckoutRequest
  /\ stage \in {"find", "create"} => r.cart = 0
  /\ stage \in CheckingOut \cup {"lines", "edit"} => r.cart \in Ids(cart)

(* The shape of the tables and of the requests in flight, and that every   *)
(* path to a new cart keeps to one active cart per customer.               *)
TypeOK ==
  /\ cart \in Seq(Cart) /\ order \in Seq(OrderRow)
  /\ list \in [Customers -> [Products -> Quantities \cup {Absent}]]
  /\ redeemed \in [Promos -> Nat] /\ open \subseteq Promos
  /\ invoice \in Seq([order : Ids(order), total : Int])
  /\ raced \subseteq Ids(cart)
  /\ pc \in [Workers -> {"idle"} \cup Editing \cup CheckingOut]
  /\ req \in [Workers -> {NoReq} \cup EditRequest \cup CheckoutRequest]
  /\ \A w \in Workers : RequestFits(pc[w], req[w])
  /\ \A c \in Customers : Cardinality(ActiveCarts(c)) <= 1
  /\ started \in Nat

OrdersOf(i) == {o \in Ids(order) : order[o].cart = i}

(* A cart is ordered once, and the order holds exactly what the cart holds *)
(* when it is converted: no line is ordered twice and none is lost, unless *)
(* a checkout shared the cart with another request (placeOrderFromCart     *)
(* reads the cart outside its transaction).                                *)
OrderedOnceUnlessRaced ==
  \A i \in Ids(cart) \ raced :
    IF cart[i].status = "active" THEN OrdersOf(i) = {}
    ELSE \E o \in Ids(order) : OrdersOf(i) = {o} /\ order[o].line = cart[i].item

(* However checkouts interleave, a promotion's counter is the number of    *)
(* orders that took it.                                                    *)
RedemptionsCounted ==
  \A i \in Promos : redeemed[i] = Cardinality({o \in Ids(order) : order[o].promo = i})

\* A cap or a budget may be negative, which lets through what zero does.
AtLeastZero(n) == IF n < 0 THEN 0 ELSE n

(* A promotion goes over its cap only by as many redemptions as were made  *)
(* while another was between its check and its commit.                     *)
OverCapOnlyByOverlap ==
  \A i \in Promos : PromoList[i].cap # Unlimited =>
    Cardinality({o \in Ids(order) : order[o].promo = i /\ ~order[o].lateCap})
      <= AtLeastZero(PromoList[i].cap)

\* What an order adds to the amount that a budget is held against: its total,
\* if it stands and passed the check; and a negative total whatever becomes of
\* it, because other orders may have been let through on its account.
Charged(o, c, cc) ==
  IF /\ order[o].customer = c /\ order[o].cc = cc
     /\ \/ order[o].status # "cancelled" /\ order[o].cart # 0 /\ ~order[o].lateSpend
        \/ order[o].grand < 0
  THEN order[o].grand ELSE 0

(* The orders that stand under a budget go over it by no more than the     *)
(* orders with a negative total took off (nothing forbids a negative       *)
(* quantity or shipping amount, and such an order may be cancelled later), *)
(* apart from orders placed while another one was between its check and    *)
(* its commit, orders that came to stand again after a cancellation, and   *)
(* those a sales rep placed, which no budget stops.                        *)
OverspentOnlyByOverlap ==
  \A c \in Customers, cc \in CostCenters : Budget[c][cc] # NoBudget =>
    SumOf([o \in Ids(order) |-> Charged(o, c, cc)]) <= AtLeastZero(Budget[c][cc])

(* A discount that needs a coupon is given only to a cart that carries it. *)
CouponWasEntered ==
  \A o \in Ids(order) : order[o].promo # 0 =>
    PromoList[order[o].promo].code \in {Automatic, order[o].code}

Candidates(s, code) ==
  {i \in open : Eligible(PromoList[i], redeemed[i], s, code) /\ Discount(PromoList[i], s) > 0}

(* Whatever cart and coupon, Evaluate picks a largest discount; among      *)
(* those the highest priority; among those the first.                      *)
BestPromotionWins ==
  \A code \in Codes, s \in {Subtotal(cart[i].item) : i \in Ids(cart)} :
    LET best == Evaluate(PromoList, redeemed, open, s, code) IN
    IF Candidates(s, code) = {} THEN best = 0
    ELSE /\ best \in Candidates(s, code)
         /\ \A i \in Candidates(s, code) \ {best} :
              LET mine == Discount(PromoList[best], s)
                  its  == Discount(PromoList[i], s)
              IN  \/ its < mine
                  \/ its = mine /\ PromoList[i].priority < PromoList[best].priority
                  \/ /\ its = mine /\ PromoList[i].priority = PromoList[best].priority
                     /\ best < i

(* An invoice differs from its order by exactly the discount it forgets    *)
(* and the shipping it forgets (createInvoiceForOrder sums the lines).     *)
InvoiceMatchesOrder ==
  \A n \in Ids(invoice) :
    LET o == order[invoice[n].order] IN invoice[n].total = o.grand + o.discount - o.shipping

(* The rows agree with each other: one active cart, redemptions with       *)
(* orders, discounts with coupons, invoices with orders.                   *)
BooksAgree == TypeOK /\ RedemptionsCounted /\ CouponWasEntered /\ InvoiceMatchesOrder

(* Neither a promotion's cap nor a budget gives way to anything but        *)
(* requests that overlap, and a budget to orders with a negative total     *)
(* (placeOrderFromCart).                                                   *)
LimitsHold == OverCapOnlyByOverlap /\ OverspentOnlyByOverlap

=============================================================================
