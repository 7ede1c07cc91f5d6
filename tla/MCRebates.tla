------------------------------ MODULE MCRebates ------------------------------
(* A small instance of Rebates for TLC.                                    *)
EXTENDS Rebates

CONSTANTS w1, w2, c1, c2

Low  == [min |-> 100, rate |-> 5]
High == [min |-> 200, rate |-> 10]
Ladder == {Low, High}
Lowest == {Low}
Order(c) == [customer |-> c, month |-> FirstMonth, subtotal |-> 100,
             status |-> "stands", since |-> FirstMonth]
TwoOrders == <<Order(c1), Order(c2)>>
Another == {[customer |-> c1, subtotal |-> 100]}

=============================================================================
