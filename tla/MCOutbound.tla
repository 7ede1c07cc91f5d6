------------------------------- MODULE MCOutbound ------------------------------
(***************************************************************************)
(* Instances of ErpOutbound.                                               *)
(***************************************************************************)
EXTENDS ErpOutbound, TLC

CONSTANTS w1, w2

MCOrders == {<<"order", 1>>, <<"order", 2>>, <<"order", 3>>}
MCInvoices == {<<"invoice", 1>>, <<"invoice", 3>>}

MCActionsOf == 1 :> 2 @@ 2 :> 1

MCMatchedBy == 1 :> {"due"} @@ 2 :> {"void"}

\* Two orders get the same id from the ERP.
MCErpId == <<"order", 1>> :> 7 @@ <<"order", 2>> :> 7 @@ <<"order", 3>> :> 8 @@
           <<"invoice", 1>> :> 7 @@ <<"invoice", 3>> :> 8

MCRefused == {<<"invoice", 1>>}

From(due, draft) ==
  [d \in MCOrders \cup MCInvoices |-> IF d \in due THEN "due"
                                      ELSE IF d \in draft THEN "draft" ELSE "void"]

Sweeps(due, failures) ==
  [from |-> From(due, {}), active |-> TRUE, requests |-> 0, failures |-> failures, changes |-> 0]

\* Events and their jobs; sweeps that meet a clash of ids, or each other and
\* failures, or a document that becomes due and a connection that is switched.
MCMixes ==
  { [from |-> From({}, {<<"order", 1>>}), active |-> FALSE,
     requests |-> 1, failures |-> 2, changes |-> 0],
    [from |-> From({}, {<<"order", 1>>}), active |-> FALSE,
     requests |-> 2, failures |-> 0, changes |-> 0],
    [from |-> From({<<"order", 1>>}, {}), active |-> FALSE,
     requests |-> 1, failures |-> 0, changes |-> 1],
    Sweeps(MCOrders \cup MCInvoices, 0),
    Sweeps({<<"order", 3>>, <<"invoice", 3>>}, 2),
    [from |-> From({}, {<<"order", 3>>}), active |-> TRUE,
     requests |-> 1, failures |-> 0, changes |-> 1] }
=============================================================================
