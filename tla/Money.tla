-------------------------------- MODULE Money --------------------------------
(***************************************************************************)
(* Amounts as internal/money keeps them: exact decimals with four places,  *)
(* here integers that count the smallest unit (1/10000).                   *)
(***************************************************************************)
EXTENDS Integers

\* money.Format of n hundredths: rounded to the nearest, halves away from zero.
RoundHundredths(n) == IF n >= 0 THEN (2 * n + 100) \div 200 ELSE -((100 - 2 * n) \div 200)

\* money.Percent: exact, then rounded.
Percent(amount, rate) == RoundHundredths(amount * rate)

=============================================================================
