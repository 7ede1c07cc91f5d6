----------------------------- MODULE MCCheckout -----------------------------
(* Small instances of Checkout for TLC.                                    *)
EXTENDS Checkout

CONSTANTS w1, w2, c1, c2, p1, p2

\* p1 is cheaper from two on; p2 has no price for more than one.  No tier is
\* for less than one.
Tiers == [c \in Customers |-> [p \in Products |->
            IF p = p1 THEN (-2 :> OnRequest @@ 1 :> 3 @@ 2 :> 2)
            ELSE (-2 :> OnRequest @@ 1 :> 1 @@ 2 :> OnRequest)]]
Sizes == {-2, 1, 2}
Shipped == {-3, 1}
Ask(p, q) == [product |-> p, qty |-> q]
BulkLines == {<<Ask(p2, 2), Ask(p2, 1)>>}
Vat == [p \in Products |-> IF p = p1 THEN 20 ELSE 0]

Promo(t, v, code, min, cap, prio) ==
  [type |-> t, value |-> v, code |-> code, min |-> min, cap |-> cap, priority |-> prio]
\* In the order of ListActivePromotions: by falling priority.
Offers == << Promo("amount", 1, Automatic, 3, 1, 2), Promo("amount", 9, "SAVE", 0, 1, 1),
             Promo("percent", 25, Automatic, 4, Unlimited, 1) >>

Limits == [c \in Customers |-> [cc \in CostCenters |-> IF c = c1 THEN 3 ELSE NoBudget]]

Held(c, q) == [customer |-> c, status |-> "active", coupon |-> NoCode,
               item |-> [p \in Products |-> IF p = p1 THEN [qty |-> q, price |-> Tiers[c][p][q]] ELSE Absent]]
OneEach == << Held(c1, 1), Held(c2, 2) >>
Listed == [c \in Customers |-> [p \in Products |-> IF c = c1 THEN 1 ELSE Absent]]

AnyKind == AllKinds
SameWorkers == Permutations(Workers)

=============================================================================
