-------------------------- MODULE MCQuoteLifecycle --------------------------
(* A small instance of QuoteLifecycle for TLC.                             *)
EXTENDS QuoteLifecycle, TLC

CONSTANTS w1, w2, q1, q2, r1

Sym == Permutations({w1, w2}) \cup Permutations({q1, q2})

\* A quote starts with one line; an edit keeps one or removes them.
OneLine  == {<<1>>}
Editions == {<<>>, <<1>>}

=============================================================================
