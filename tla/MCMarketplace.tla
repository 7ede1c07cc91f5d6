---------------------------- MODULE MCMarketplace ----------------------------
(* A small instance of Marketplace for TLC.                                *)
EXTENDS Marketplace, TLC

CONSTANTS w1, w2, v1, v2, a, b, c, d, h

\* Goods of one vendor at different stages, one of another's, one of the operator's.
Owners == (a :> v1 @@ b :> v1 @@ c :> v2 @@ d :> v1 @@ h :> House)
Rows == (a :> 13 @@ b :> 2 @@ c :> -5 @@ d :> 3 @@ h :> 7)
First == (a :> "approved" @@ b :> "pending" @@ c :> "rejected" @@ d :> "none" @@ h :> "approved")

Sellers == Permutations(Handlers)

=============================================================================
