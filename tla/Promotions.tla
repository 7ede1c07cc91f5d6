----------------------------- MODULE Promotions -----------------------------
(***************************************************************************)
(* Cart-level discounts (internal/promotions/engine.go): the one best      *)
(* promotion for a subtotal, an entered coupon and the present redemption  *)
(* counts.  A promotion's schedule window is left to the caller's list.     *)
(***************************************************************************)
EXTENDS Money, Sequences

CONSTANTS
  Automatic,      \* the code of a promotion that needs none
  NoCode,    \* no coupon entered
  Unlimited  \* no cap on redemptions

\* discountFor, and Evaluate's clamp to the subtotal
Discount(promo, subtotal) ==
  LET raw == IF promo.type = "percent" THEN Percent(subtotal, promo.value) ELSE promo.value
  IN  IF raw > subtotal THEN subtotal ELSE raw

UnderCap(promo, used) == promo.cap = Unlimited \/ used < promo.cap

\* Candidate.eligible
Eligible(promo, used, subtotal, code) ==
  /\ promo.code # Automatic => promo.code = code
  /\ UnderCap(promo, used)
  /\ subtotal >= promo.min

\* (slip) the later of two equal promotions wins
BeatsOrTies(promo, best, subtotal) ==
  Discount(promo, subtotal) >= Discount(best, subtotal)

\* A later candidate replaces the best one only with a larger discount, or
\* with the same discount and a higher priority.
Beats(promo, best, subtotal) ==
  \/ Discount(promo, subtotal) > Discount(best, subtotal)
  \/ /\ Discount(promo, subtotal) = Discount(best, subtotal)
     /\ promo.priority > best.priority

\* Evaluate: the position of the chosen promotion in the list, 0 for none.
\* "used" gives each promotion's redemptions, "open" the active ones in their
\* window; best[n] is the choice after the loop's first n rounds.
Evaluate(list, used, open, subtotal, code) ==
  LET best[n \in 0..Len(list)] ==
        IF n = 0 THEN 0
        ELSE IF /\ n \in open
                /\ Eligible(list[n], used[n], subtotal, code)
                /\ Discount(list[n], subtotal) > 0
                /\ best[n - 1] = 0 \/ Beats(list[n], list[best[n - 1]], subtotal)
             THEN n ELSE best[n - 1]
  IN  best[Len(list)]

=============================================================================
