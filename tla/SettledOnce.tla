----------------------------- MODULE SettledOnce -----------------------------
(***************************************************************************)
(* What a rebate program promises: each account, a customer in a period,   *)
(* is credited at most once (rebate_settlements' UNIQUE, migrations/0050). *)
(* One settlement credits any number of customers, for one period.         *)
(***************************************************************************)
EXTENDS Sequences

CONSTANTS Customers, Periods

VARIABLE credits  \* account -> the credit notes issued for it

Init == credits = [x \in Customers \X Periods |-> <<>>]

Settle(p) ==
  \A x \in Customers \X Periods :
    \/ credits'[x] = credits[x]
    \/ x[2] = p /\ credits[x] = <<>> /\ Len(credits'[x]) = 1

Next == DOMAIN credits' = Customers \X Periods /\ \E p \in Periods : Settle(p)

Spec == Init /\ [][Next]_credits
=============================================================================
