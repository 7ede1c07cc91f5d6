-------------------------- MODULE MCOrderFulfilment --------------------------
(* Small instances of OrderFulfilment for TLC.                             *)
EXTENDS OrderFulfilment, TLC

CONSTANTS w1, w2, o1, o2, p1, p2, hub, east, s1, s2, s3

HubRows  == {p1, p2} \X {hub}
P1Rows   == {p1} \X {hub, east}
Stocked(rows, n) == [k \in Products \X Warehouses |-> IF k \in rows THEN n ELSE 0]
OneEach    == Stocked(InitTracked, 1)
HubAndEast == Stocked(P1Rows, 2)

Item(p, n) == [product |-> p, qty |-> n]
Pack(i, n) == [line |-> i, qty |-> n]

\* What each order asks for; CrossLines name the products in opposite order.
Per(l1, l2) == [o \in Orders |-> IF o = o1 THEN l1 ELSE l2]
CrossLines == Per(<<Item(p1, 1), Item(p2, 1)>>, <<Item(p2, 1), Item(p1, 1)>>)
OneLine    == Per(<<Item(p1, 1)>>, <<Item(p1, 1)>>)
OneOfTwo   == Per(<<Item(p1, 2)>>, <<Item(p1, 2)>>)

\* A part of the line, all of it, and a list that names it twice.
PackSome == {<<Pack(1, 1)>>, <<Pack(1, 2)>>, <<Pack(1, 1), Pack(1, 2)>>}

\* Workers, and ids of shipments, are interchangeable.
AnyNames == Permutations(Workers) \cup Permutations(Shipments)

Receipts == {[key |-> <<p1, hub>>, type |-> "receipt", qty |-> 1],
             [key |-> <<p1, hub>>, type |-> "adjustment", qty |-> -1]}
Flags    == {[key |-> <<p1, hub>>, allow |-> TRUE],
             [key |-> <<p1, east>>, allow |-> FALSE]}
Events   == {[id |-> "ev1", product |-> p1, qty |-> 3],
             [id |-> "ev2", product |-> p1, qty |-> 0]}

=============================================================================
