---------------------------- MODULE MCReceivables ----------------------------
(* Small instances of Receivables for TLC.                                 *)
EXTENDS Receivables

CONSTANTS w1, w2, o1, o2

OneEmpty == [o \in Orders |-> IF o = o1 THEN <<[row |-> 1, tax |-> 1]>> ELSE <<>>]

Pay(m, s, n) == [method |-> m, status |-> s, amount |-> n]
Mixed   == {Pay("invoice", "captured", 1), Pay("po", "authorized", 2)}

=============================================================================
