---------------------------- MODULE PaymentLedger ----------------------------
(***************************************************************************)
(* What the handlers of invoices and payments keep, whatever they read and *)
(* when: an account for each invoice.  The card pays it once, after it was *)
(* charged and in full; other money comes in any amount; it is settled     *)
(* when what came covers it, and never opened again or billed differently  *)
(* (migrations/0024: a retry settles, it does not charge again).           *)
(***************************************************************************)
EXTENDS Integers, Sequences

CONSTANTS
  Totals,    \* what invoices are billed over
  Receipts   \* what comes other than by card

VARIABLES
  billed,    \* the total of each account, in the order they were opened
  got,       \* what came in for it
  charged,   \* accounts a card was charged for
  recorded,  \* accounts on which that charge was entered
  paid       \* accounts that are settled

vars == <<billed, got, charged, recorded, paid>>

Init == billed = <<>> /\ got = <<>> /\ charged = {} /\ recorded = {} /\ paid = {}

Bill ==
  /\ \E n \in Totals : billed' = Append(billed, n)
  /\ got' = Append(got, 0)
  /\ UNCHANGED <<charged, recorded, paid>>

Charge(i) ==
  /\ charged' = charged \cup {i}
  /\ UNCHANGED <<billed, got, recorded, paid>>

Record(i) ==
  /\ i \in charged \ recorded
  /\ recorded' = recorded \cup {i}
  /\ got' = [got EXCEPT ![i] = @ + billed[i]]
  /\ UNCHANGED <<billed, charged, paid>>

Collect(i) ==
  /\ \E n \in Receipts : got' = [got EXCEPT ![i] = @ + n]
  /\ UNCHANGED <<billed, charged, recorded, paid>>

Settle(i) ==
  /\ got[i] >= billed[i]
  /\ paid' = paid \cup {i}
  /\ UNCHANGED <<billed, got, charged, recorded>>

Next ==
  Bill \/ \E i \in DOMAIN billed : Charge(i) \/ Record(i) \/ Collect(i) \/ Settle(i)

Spec == Init /\ [][Next]_vars
=============================================================================
