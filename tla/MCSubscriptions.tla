--------------------------- MODULE MCSubscriptions ---------------------------
(* A small instance of Subscriptions and Billing for TLC.                  *)
EXTENDS Subscriptions, TLC

CONSTANTS w1, w2, api, free, scale, p, q

OneNode == [w \in Threads |-> api]

Plan(feature, limits) == [feature |-> feature, limits |-> limits]
TwoPlans == (free :> Plan(FALSE, {1}) @@ scale :> Plan(TRUE, {}))
NewFree  == {[field |-> "feature", value |-> TRUE], [field |-> "limits", value |-> {0}]}

ShortOrLong == ("weekly" :> 1 @@ "biweekly" :> 2)
TwoTerms == {[cadence |-> "weekly", basket |-> {p}], [cadence |-> "biweekly", basket |-> {p, q}]}

Row(cadence, basket, next) ==
  [status |-> "active", cadence |-> cadence, basket |-> basket, next |-> next, moves |-> 0]
NoneYet == (1 :> NoSub @@ 2 :> NoSub)
OneDue  == (1 :> Row("weekly", {p}, 0) @@ 2 :> NoSub)
OneAhead == (1 :> Row("weekly", {p}, 4) @@ 2 :> NoSub)
TwoDue  == (1 :> Row("weekly", {p}, 0) @@ 2 :> Row("biweekly", {p, q}, 3))

Mix(kinds, requests, failures, warm, subs) ==
  [kinds |-> kinds, requests |-> requests, failures |-> failures, warm |-> warm, subs |-> subs]
FiveMixes == {Mix({"checkout", "assign", "edit", "expiry"}, 3, 1, FALSE, NoneYet),
              Mix({"run", "skip", "status", "update"}, 1, 1, TRUE, TwoDue),
              Mix({"run", "assign"}, 2, 0, FALSE, OneDue),
              Mix({"run", "skip"}, 2, 0, TRUE, OneAhead),
              Mix({"create"}, 1, 0, TRUE, OneDue)}

=============================================================================
