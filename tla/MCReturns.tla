------------------------------ MODULE MCReturns ------------------------------
(* A small instance of Returns for TLC.                                    *)
EXTENDS Returns, TLC

CONSTANTS w1, w2, a, b

Bought == (a :> 2 @@ b :> 1)
Prices == (a :> 3 @@ b :> 7)
Asks   == {-1, 2}
Clerks == Permutations(Workers)

=============================================================================
