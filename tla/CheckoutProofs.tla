--------------------------- MODULE CheckoutProofs ---------------------------
(***************************************************************************)
(* Proofs about Checkout and Promotions, for every set of workers,         *)
(* customers and products and every list of promotions.                    *)
(***************************************************************************)
EXTENDS Checkout, SumTheorems, SequenceTheorems

-----------------------------------------------------------------------------
(* Amounts.                                                                *)

LEMMA PercentInt ==
  ASSUME NEW a \in Int, NEW r \in Int
  PROVE  Percent(a, r) \in Int
<1>1. a * r \in Int
  OBVIOUS
<1>2. \A x \in Int : RoundHundredths(x) \in Int
  BY DEF RoundHundredths
<1> QED BY <1>1, <1>2 DEF Percent

Promotion == [type : {"percent", "amount"}, value : Nat, code : Codes, min : Int,
              cap : Int \cup {Unlimited}, priority : Int]

LEMMA PromotionFacts ==
  /\ Len(PromoList) \in Nat /\ Promos = 1..Len(PromoList)
  /\ \A i \in Promos : PromoList[i] \in Promotion
<1>1. PromoList \in Seq(Promotion)
  BY CheckoutAssumption DEF Promotion
<1> HIDE DEF Promotion
<1>2. Len(PromoList) \in Nat /\ DOMAIN PromoList = 1..Len(PromoList)
  BY <1>1
<1>3. \A i \in 1..Len(PromoList) : PromoList[i] \in Promotion
  BY <1>1, ElementOfSeq
<1> QED BY <1>2, <1>3 DEF Promos

LEMMA PromoIds == \A i \in Promos : i \in Nat /\ i # 0 /\ i <= Len(PromoList)
BY PromotionFacts

(* A discount is at most the subtotal.                                     *)
LEMMA DiscountFits ==
  ASSUME NEW i \in Promos, NEW s \in Int
  PROVE  Discount(PromoList[i], s) \in Int /\ Discount(PromoList[i], s) <= s
<1> DEFINE p == PromoList[i]
<1>1. p \in Promotion
  BY PromotionFacts
<1>2. p.value \in Nat /\ p.value \in Int
  BY <1>1 DEF Promotion
<1> HIDE DEF p
<1>3. Percent(s, p.value) \in Int
  BY <1>2, PercentInt
<1> DEFINE raw == IF p.type = "percent" THEN Percent(s, p.value) ELSE p.value
<1>4. raw \in Int
  BY <1>2, <1>3
<1>5. Discount(p, s) = IF raw > s THEN s ELSE raw
  BY DEF Discount
<1>6. Discount(p, s) \in Int /\ Discount(p, s) <= s
  <2> HIDE DEF raw
  <2> QED BY <1>4, <1>5
<1> QED BY <1>6 DEF p

-----------------------------------------------------------------------------
(* Evaluate's loop.                                                        *)

\* The loop's next choice, from the choice b so far.
Chosen(used, opened, s, code, b, n) ==
  IF /\ n \in opened
     /\ Eligible(PromoList[n], used[n], s, code)
     /\ Discount(PromoList[n], s) > 0
     /\ b = 0 \/ Beats(PromoList[n], PromoList[b], s)
  THEN n ELSE b

\* f runs the loop for the first m rounds.
Rounds(used, opened, s, code, m, f) ==
  f = [n \in 0..m |-> IF n = 0 THEN 0 ELSE Chosen(used, opened, s, code, f[n - 1], n)]

(* The loop can be run for any number of rounds.                           *)
LEMMA RoundsExist ==
  ASSUME NEW used, NEW opened, NEW s, NEW code
  PROVE  \A m \in Nat : \E f : Rounds(used, opened, s, code, m, f)
<1> DEFINE P == {m \in Nat : \E f : Rounds(used, opened, s, code, m, f)}
           C(b, n) == Chosen(used, opened, s, code, b, n)
<1>1. 0 \in P
  <2> DEFINE f == [n \in 0..0 |-> 0]
  <2>1. \A n \in 0..0 : n = 0
    OBVIOUS
  <2>2. Rounds(used, opened, s, code, 0, f)
    BY <2>1 DEF Rounds
  <2> QED BY <2>2
<1>2. ASSUME NEW m \in Nat, m \in P PROVE m + 1 \in P
  <2>1. PICK f : Rounds(used, opened, s, code, m, f)
    BY <1>2
  <2> DEFINE g == [n \in 0..(m + 1) |-> IF n = m + 1 THEN C(f[m], n) ELSE f[n]]
  <2>2. \A n \in 0..m : f[n] = IF n = 0 THEN 0 ELSE C(f[n - 1], n)
    BY <2>1 DEF Rounds
  <2>3. \A n \in 0..(m + 1) : g[n] = IF n = 0 THEN 0 ELSE C(g[n - 1], n)
    <3> SUFFICES ASSUME NEW n \in 0..(m + 1) PROVE g[n] = IF n = 0 THEN 0 ELSE C(g[n - 1], n)
      OBVIOUS
    <3> HIDE DEF C
    <3>1. CASE n = m + 1
      <4>1. n # 0 /\ n - 1 = m /\ m \in 0..(m + 1) /\ m # m + 1
        BY <3>1
      <4> QED BY <3>1, <4>1
    <3>2. CASE n # m + 1
      <4>1. n \in 0..m
        BY <3>2
      <4>2. n # 0 => n - 1 \in 0..(m + 1) /\ n - 1 # m + 1
        BY <4>1
      <4> QED BY <2>2, <3>2, <4>1, <4>2
    <3> QED BY <3>1, <3>2
  <2>4. Rounds(used, opened, s, code, m + 1, g)
    <3>1. g = [n \in 0..(m + 1) |-> g[n]]
      OBVIOUS
    <3> HIDE DEF g
    <3> QED BY <2>3, <3>1 DEF Rounds
  <2>5. \E h : Rounds(used, opened, s, code, m + 1, h)
    <3> HIDE DEF g
    <3> QED BY <2>4
  <2> QED BY <2>5
<1>3. Nat \subseteq P
  <2> HIDE DEF P
  <2> QED BY <1>1, <1>2, NatSet
<1> QED BY <1>3

(* Evaluate is the choice after the last round.                            *)
LEMMA EvaluateIsLoop ==
  ASSUME NEW used, NEW opened, NEW s, NEW code
  PROVE  \E f : /\ Rounds(used, opened, s, code, Len(PromoList), f)
                /\ Evaluate(PromoList, used, opened, s, code) = f[Len(PromoList)]
<1> DEFINE f == CHOOSE f : Rounds(used, opened, s, code, Len(PromoList), f)
<1>1. Rounds(used, opened, s, code, Len(PromoList), f)
  BY PromotionFacts, RoundsExist
<1>2. Evaluate(PromoList, used, opened, s, code) = f[Len(PromoList)]
  BY Zenon DEF Evaluate, Rounds, Chosen
<1> QED BY <1>1, <1>2

\* Promotion b is a better choice than i.
Ahead(b, i, s) ==
  \/ Discount(PromoList[i], s) < Discount(PromoList[b], s)
  \/ /\ Discount(PromoList[i], s) = Discount(PromoList[b], s)
     /\ PromoList[i].priority < PromoList[b].priority
  \/ /\ Discount(PromoList[i], s) = Discount(PromoList[b], s)
     /\ PromoList[i].priority = PromoList[b].priority
     /\ b < i

\* Of the candidates among the first n, b is the best, or there is none.
BestOf(n, b, s, code) ==
  LET first == {i \in Candidates(s, code) : i <= n} IN
  IF first = {} THEN b = 0 ELSE b \in first /\ \A i \in first \ {b} : Ahead(b, i, s)

(* One round of the loop keeps the best.                                   *)
LEMMA RoundKeepsBest ==
  ASSUME open \subseteq Promos, NEW s \in Int, NEW code, NEW n \in Promos, NEW b,
         BestOf(n - 1, b, s, code)
  PROVE  BestOf(n, Chosen(redeemed, open, s, code, b, n), s, code)
<1> DEFINE C == Candidates(s, code)
           D(i) == Discount(PromoList[i], s)
           prio(i) == PromoList[i].priority
           before == {i \in C : i <= n - 1}
           upto == {i \in C : i <= n}
           c == Chosen(redeemed, open, s, code, b, n)
<1>0. n \in Nat /\ n # 0 /\ \A i \in Promos : i \in Nat /\ i # 0
  BY PromoIds
<1>1. C \subseteq Promos
  BY DEF Candidates
<1>2. \A i \in Promos : D(i) \in Int /\ prio(i) \in Int
  <2>1. \A i \in Promos : D(i) \in Int
    BY DiscountFits
  <2>2. \A i \in Promos : prio(i) \in Int
    BY PromotionFacts DEF Promotion
  <2> QED BY <2>1, <2>2
<1>3. n \in C <=> /\ n \in open /\ Eligible(PromoList[n], redeemed[n], s, code)
                  /\ D(n) > 0
  BY DEF Candidates
<1>4. c = IF n \in C /\ (b = 0 \/ Beats(PromoList[n], PromoList[b], s)) THEN n ELSE b
  BY <1>3 DEF Chosen
<1>5. upto = IF n \in C THEN before \cup {n} ELSE before
  <2>1. \A i \in C : i \in Nat
    BY <1>0, <1>1
  <2> HIDE DEF C
  <2>2. \A i \in C : i <= n <=> i <= n - 1 \/ i = n
    BY <1>0, <2>1
  <2>3. ~ (n <= n - 1) /\ n <= n
    BY <1>0
  <2> QED BY <2>2, <2>3
<1>6. IF before = {} THEN b = 0 ELSE b \in before /\ \A i \in before \ {b} : Ahead(b, i, s)
  BY DEF BestOf
<1>7. IF upto = {} THEN c = 0 ELSE c \in upto /\ \A i \in upto \ {c} : Ahead(c, i, s)
  <2>1. CASE n \notin C
    <3> HIDE DEF C, c
    <3> QED BY <1>4, <1>5, <1>6, <2>1
  <2>2. CASE n \in C /\ before = {}
    <3>1. b = 0 /\ c = n /\ upto = {n}
      <4> HIDE DEF C, c, before, upto
      <4> QED BY <1>4, <1>5, <1>6, <2>2
    <3> HIDE DEF C, c, before, upto
    <3> QED BY <3>1
  <2>3. CASE n \in C /\ before # {}
    <3>1. /\ b \in before /\ \A i \in before \ {b} : Ahead(b, i, s)
          /\ upto = before \cup {n}
      <4> HIDE DEF C, c, before, upto
      <4> QED BY <1>5, <1>6, <2>3
    <3>2. /\ \A i \in before : i \in Promos /\ i < n /\ D(i) \in Int /\ prio(i) \in Int
          /\ D(n) \in Int /\ prio(n) \in Int /\ b # 0
      <4>1. \A i \in before : i \in C /\ i < n
        <5> HIDE DEF C
        <5>1. \A i \in before : i \in C /\ i <= n - 1
          OBVIOUS
        <5> QED BY <1>0, <1>1, <5>1
      <4>2. b \in before /\ n \in Promos
        BY <3>1
      <4> HIDE DEF C, D, prio, before
      <4> QED BY <1>0, <1>1, <1>2, <4>1, <4>2
    <3>3. CASE Beats(PromoList[n], PromoList[b], s)
      <4>1. c = n
        BY <1>4, <2>3, <3>3
      <4>2. D(n) > D(b) \/ (D(n) = D(b) /\ prio(n) > prio(b))
        BY <3>3 DEF Beats
      <4>3. ASSUME NEW i \in before PROVE Ahead(n, i, s)
        <5>1. i = b \/ Ahead(b, i, s)
          BY <3>1
        <5>2. i = b \/ D(i) < D(b) \/ (D(i) = D(b) /\ prio(i) <= prio(b))
          <6>1. prio(i) \in Int /\ prio(b) \in Int
            BY <3>1, <3>2
          <6> QED BY <5>1, <6>1 DEF Ahead
        <5>3. D(i) < D(n) \/ (D(i) = D(n) /\ prio(i) < prio(n))
          <6>1. /\ D(i) \in Int /\ D(b) \in Int /\ D(n) \in Int
                /\ prio(i) \in Int /\ prio(b) \in Int /\ prio(n) \in Int
            BY <3>1, <3>2
          <6> HIDE DEF D, prio
          <6> QED BY <4>2, <5>2, <6>1
        <5> QED BY <5>3 DEF Ahead
      <4> HIDE DEF C, c, before, upto
      <4> QED BY <3>1, <4>1, <4>3
    <3>4. CASE ~ Beats(PromoList[n], PromoList[b], s)
      <4>1. c = b
        BY <1>4, <3>2, <3>4
      <4>2. Ahead(b, n, s)
        <5>1. ~ (D(n) > D(b)) /\ ~ (D(n) = D(b) /\ prio(n) > prio(b))
          BY <3>4 DEF Beats
        <5>2. D(n) < D(b) \/ (D(n) = D(b) /\ (prio(n) < prio(b) \/ prio(n) = prio(b)))
          <6>1. D(b) \in Int /\ D(n) \in Int /\ prio(b) \in Int /\ prio(n) \in Int
            BY <3>1, <3>2
          <6> HIDE DEF D, prio
          <6> QED BY <5>1, <6>1
        <5>3. b < n
          BY <3>1, <3>2
        <5> QED BY <5>2, <5>3 DEF Ahead
      <4> HIDE DEF C, c, before, upto
      <4> QED BY <3>1, <4>1, <4>2
    <3> QED BY <3>3, <3>4
  <2> QED BY <2>1, <2>2, <2>3
<1> QED BY <1>7 DEF BestOf

(* Evaluate picks the best candidate, whatever the subtotal and the code.  *)
LEMMA EvaluatePicksBest ==
  ASSUME open \subseteq Promos, NEW s \in Int, NEW code
  PROVE  BestOf(Len(PromoList), Evaluate(PromoList, redeemed, open, s, code), s, code)
<1> DEFINE N == Len(PromoList)
<1>0. N \in Nat /\ Promos = 1..N
  BY PromotionFacts
<1>1. PICK f : /\ Rounds(redeemed, open, s, code, N, f)
               /\ Evaluate(PromoList, redeemed, open, s, code) = f[N]
  BY EvaluateIsLoop
<1> DEFINE P == {n \in Nat : n <= N => BestOf(n, f[n], s, code)}
<1>2. 0 \in P
  <2>1. f[0] = 0
    BY <1>0, <1>1 DEF Rounds
  <2>2. {i \in Candidates(s, code) : i <= 0} = {}
    <3>1. \A i \in Candidates(s, code) : i \in Nat /\ i # 0
      BY PromoIds DEF Candidates
    <3> QED BY <3>1
  <2> QED BY <2>1, <2>2 DEF BestOf
<1>3. ASSUME NEW n \in Nat, n \in P PROVE n + 1 \in P
  <2> SUFFICES ASSUME n + 1 <= N PROVE BestOf(n + 1, f[n + 1], s, code)
    OBVIOUS
  <2>1. n <= N /\ n + 1 \in 0..N /\ n + 1 # 0 /\ (n + 1) - 1 = n /\ n + 1 \in Promos
    BY <1>0
  <2>2. BestOf((n + 1) - 1, f[n], s, code)
    BY <1>3, <2>1
  <2>3. f[n + 1] = Chosen(redeemed, open, s, code, f[n], n + 1)
    BY <1>1, <2>1 DEF Rounds
  <2>4. BestOf(n + 1, Chosen(redeemed, open, s, code, f[n], n + 1), s, code)
    BY <2>1, <2>2, RoundKeepsBest
  <2> QED BY <2>3, <2>4
<1>4. N \in P
  <2> HIDE DEF P
  <2>1. Nat \subseteq P
    BY <1>2, <1>3, NatSet
  <2> QED BY <1>0, <2>1
<1> QED BY <1>0, <1>1, <1>4

\* What BestOf says of the whole list.
LEMMA EvaluateChooses ==
  ASSUME open \subseteq Promos, NEW s \in Int, NEW code
  PROVE  LET best == Evaluate(PromoList, redeemed, open, s, code) IN
         IF Candidates(s, code) = {} THEN best = 0
         ELSE best \in Candidates(s, code) /\ \A i \in Candidates(s, code) \ {best} : Ahead(best, i, s)
<1>1. \A i \in Candidates(s, code) : i <= Len(PromoList)
  BY PromoIds DEF Candidates
<1>2. {i \in Candidates(s, code) : i <= Len(PromoList)} = Candidates(s, code)
  BY <1>1
<1> QED BY <1>2, EvaluatePicksBest DEF BestOf

-----------------------------------------------------------------------------
(* Rows of a table.                                                        *)

LEMMA TableFacts ==
  ASSUME NEW R, NEW t \in Seq(R)
  PROVE  /\ Len(t) \in Nat /\ IsFiniteSet(Ids(t)) /\ DOMAIN t = Ids(t)
         /\ \A i \in Ids(t) : t[i] \in R
         /\ \A i \in Ids(t) : i \in Nat /\ i # 0
<1>1. Len(t) \in Nat /\ DOMAIN t = Ids(t)
  BY LenProperties DEF Ids
<1>2. \A i \in Ids(t) : t[i] \in R
  BY ElementOfSeq DEF Ids
<1>3. IsFiniteSet(Ids(t))
  BY <1>1, FS_Interval DEF Ids
<1>4. \A i \in Ids(t) : i \in Nat /\ i # 0
  BY <1>1 DEF Ids
<1> QED BY <1>1, <1>2, <1>3, <1>4

\* Table u is t with row r added at its end.
RowAdded(R, t, r, u) ==
  /\ u \in Seq(R) /\ Len(u) = Len(t) + 1
  /\ Ids(u) = Ids(t) \cup {Len(t) + 1} /\ Len(t) + 1 \notin Ids(t)
  /\ u[Len(t) + 1] = r
  /\ \A i \in Ids(t) : u[i] = t[i]

\* Table u is t with r as its row i.
RowSet(R, t, i, r, u) ==
  /\ u \in Seq(R) /\ Ids(u) = Ids(t)
  /\ u[i] = r
  /\ \A j \in Ids(t) \ {i} : u[j] = t[j]

LEMMA AddRow ==
  ASSUME NEW R, NEW t \in Seq(R), NEW r \in R, NEW u, u = Append(t, r)
  PROVE  RowAdded(R, t, r, u)
<1>1. /\ u \in Seq(R) /\ Len(u) = Len(t) + 1
      /\ u[Len(t) + 1] = r
      /\ \A i \in 1..Len(t) : u[i] = t[i]
  BY AppendProperties
<1>2. Len(t) \in Nat
  BY LenProperties
<1>3. 1..(Len(t) + 1) = 1..Len(t) \cup {Len(t) + 1} /\ Len(t) + 1 \notin 1..Len(t)
  BY <1>2
<1> QED BY <1>1, <1>3 DEF Ids, RowAdded

LEMMA SetRow ==
  ASSUME NEW R, NEW t \in Seq(R), NEW i \in Ids(t), NEW r \in R, NEW u, u = [t EXCEPT ![i] = r]
  PROVE  RowSet(R, t, i, r, u)
<1>1. /\ u \in Seq(R) /\ Len(u) = Len(t)
      /\ \A j \in 1..Len(t) : u[j] = IF j = i THEN r ELSE t[j]
  BY ExceptSeq DEF Ids
<1> QED BY <1>1 DEF Ids, RowSet

-----------------------------------------------------------------------------
(* Lines of carts and orders.                                              *)

LEMMA LineFacts ==
  ASSUME NEW lines \in Lines
  PROVE  /\ DOMAIN lines = Products
         /\ \A p \in Products :
              /\ lines[p] \in Line /\ RowTotal(lines[p]) \in Int
              /\ lines[p] # Absent => lines[p] \in [qty : Quantities, price : Int]
<1>1. ASSUME NEW q \in Quantities, NEW n \in Int PROVE q * n \in Int
  <2>1. q \in Int
    BY CheckoutAssumption
  <2> QED BY <2>1
<1>2. \A x \in Line : x # Absent => x \in [qty : Quantities, price : Int]
  BY DEF Line
<1>3. \A x \in [qty : Quantities, price : Int] : x.qty \in Quantities /\ x.price \in Int
  OBVIOUS
<1>4. \A x \in Line : RowTotal(x) \in Int
  BY <1>1, <1>2, <1>3 DEF RowTotal
<1>5. DOMAIN lines = Products /\ \A p \in Products : lines[p] \in Line
  BY DEF Lines
<1> QED BY <1>2, <1>4, <1>5

LEMMA EmptyIsLines == Empty \in Lines /\ Absent \in Line
BY DEF Empty, Lines, Line

LEMMA AmountsInt ==
  ASSUME NEW lines \in Lines
  PROVE  Subtotal(lines) \in Int /\ TaxOn(lines) \in Int
<1>1. IsFiniteSet(Products) /\ \A p \in Products : VatPercent[p] \in Int
  BY CheckoutAssumption
<1>2. \A p \in Products : RowTotal(lines[p]) \in Int
  BY LineFacts
<1>3. \A p \in Products : Percent(RowTotal(lines[p]), VatPercent[p]) \in Int
  BY <1>1, <1>2, PercentInt
<1> DEFINE f == [p \in Products |-> RowTotal(lines[p])]
           g == [p \in Products |-> Percent(RowTotal(lines[p]), VatPercent[p])]
<1>4. f \in [Products -> Int] /\ g \in [Products -> Int]
  BY <1>2, <1>3
<1>5. SumOf(f) \in Int /\ SumOf(g) \in Int
  <2> HIDE DEF f, g
  <2> QED BY <1>1, <1>4, SumInt
<1> QED BY <1>5 DEF Subtotal, TaxOn

-----------------------------------------------------------------------------
(* Edits.                                                                  *)

(* SetToSeq enumerates a finite set.                                       *)
LEMMA Enumerates ==
  ASSUME NEW S, IsFiniteSet(S)
  PROVE  Cardinality(S) \in Nat /\ SetToSeq(S) \in [1..Cardinality(S) -> S]
<1>1. PICK n \in Nat : ExistsBijection(1..n, S)
  BY FS_NatBijection
<1>2. Cardinality(S) = n
  BY <1>1, FS_CountingElements
<1>3. \E f \in [1..Cardinality(S) -> S] : IsInjective(f)
  <2>1. PICK f : f \in Bijection(1..n, S)
    BY <1>1 DEF ExistsBijection
  <2>2. f \in [1..n -> S] /\ IsInjective(f)
    BY <2>1 DEF Bijection, Injection
  <2> QED BY <1>2, <2>2
<1> QED BY <1>2, <1>3 DEF SetToSeq

(* A list of edits made from an enumeration of some products.              *)
LEMMA EditsOf ==
  ASSUME NEW S \in SUBSET Products, NEW u, DOMAIN u = 1..Len(SetToSeq(S)),
         \A n \in DOMAIN u : SetToSeq(S)[n] \in S => u[n] \in EditOf,
         u = [n \in DOMAIN u |-> u[n]]
  PROVE  u \in Seq(EditOf)
<1>1. IsFiniteSet(S)
  BY FS_Subset, CheckoutAssumption
<1> DEFINE ps == SetToSeq(S)
           m == Cardinality(S)
<1>2. m \in Nat /\ ps \in [1..m -> S]
  BY <1>1, Enumerates
<1>3. Len(ps) = m
  <2> HIDE DEF ps, m
  <2>1. ps \in Seq(S)
    BY <1>2, SeqDef
  <2> QED BY <1>2, <2>1, LenProperties
<1>4. u \in [1..m -> EditOf]
  <2> HIDE DEF m
  <2>1. DOMAIN u = 1..m
    BY <1>3
  <2>2. \A n \in 1..m : ps[n] \in S
    <3> HIDE DEF ps
    <3> QED BY <1>2
  <2>3. \A n \in 1..m : u[n] \in EditOf
    BY <2>1, <2>2
  <2> QED BY <2>1, <2>3
<1> QED
  <2> HIDE DEF m
  <2> QED BY <1>2, <1>4, SeqDef

LEMMA PutsAreEdits ==
  ASSUME NEW f \in [Products -> Quantities \cup {Absent}]
  PROVE  Puts(f) \in Seq(EditOf)
<1> DEFINE S == {p \in Products : f[p] # Absent}
           u == [n \in 1..Len(SetToSeq(S)) |-> Put(SetToSeq(S)[n], f[SetToSeq(S)[n]])]
<1>1. \A p \in S : Put(p, f[p]) \in EditOf
  BY DEF EditOf, Put
<1>2. \A n \in DOMAIN u : SetToSeq(S)[n] \in S => u[n] \in EditOf
  <2> HIDE DEF S
  <2> QED BY <1>1
<1>3. u \in Seq(EditOf)
  <2>1. DOMAIN u = 1..Len(SetToSeq(S)) /\ u = [n \in DOMAIN u |-> u[n]] /\ S \in SUBSET Products
    OBVIOUS
  <2> HIDE DEF S, u
  <2> QED BY <1>2, <2>1, EditsOf
<1> QED BY <1>3 DEF Puts

-----------------------------------------------------------------------------
(* The tables and the requests keep their shape.                           *)

Stages     == {"idle"} \cup Editing \cup CheckingOut
AnyRequest == {NoReq} \cup EditRequest \cup CheckoutRequest
InvoiceRow == [order : Nat, total : Int]

OneActive ==
  \A i, j \in Ids(cart) :
    cart[i].status = "active" /\ cart[j].status = "active" /\ cart[i].customer = cart[j].customer
      => i = j

OrdersFit ==
  /\ order \in Seq(OrderRow)
  /\ \A o \in Ids(order) : order[o].cart \in Ids(cart) \cup {0}
  /\ invoice \in Seq(InvoiceRow)
  /\ \A n \in Ids(invoice) : invoice[n].order \in Ids(order)

CartsFit == cart \in Seq(Cart) /\ raced \subseteq Ids(cart) /\ OneActive

RestFits ==
  /\ list \in [Customers -> [Products -> Quantities \cup {Absent}]]
  /\ redeemed \in [Promos -> Nat] /\ open \subseteq Promos
  /\ started \in Nat

RequestsFit ==
  /\ pc \in [Workers -> Stages]
  /\ req \in [Workers -> AnyRequest]
  /\ \A w \in Workers : RequestFits(pc[w], req[w])

TypeInv == OrdersFit /\ CartsFit /\ RestFits /\ RequestsFit

(* One request moves to a stage it fits.                                   *)
LEMMA RequestMoves ==
  ASSUME RequestsFit, Ids(cart) \subseteq Ids(cart'),
         NEW w \in Workers, NEW stage \in Stages, NEW r \in AnyRequest,
         pc' = [pc EXCEPT ![w] = stage], req' = [req EXCEPT ![w] = r], RequestFits(stage, r)'
  PROVE  /\ RequestsFit'
         /\ pc'[w] = stage /\ req'[w] = r
         /\ \A v \in Workers \ {w} : pc'[v] = pc[v] /\ req'[v] = req[v]
<1>1. pc' \in [Workers -> Stages] /\ req' \in [Workers -> AnyRequest]
  BY DEF RequestsFit
<1>2. /\ pc'[w] = stage /\ req'[w] = r
      /\ \A v \in Workers \ {w} : pc'[v] = pc[v] /\ req'[v] = req[v]
  BY DEF RequestsFit
<1>3. ASSUME NEW v \in Workers PROVE RequestFits(pc[v], req[v])'
  <2>1. CASE v = w
    BY <1>2, <2>1 DEF RequestFits
  <2>2. CASE v # w
    <3>1. RequestFits(pc[v], req[v]) /\ pc'[v] = pc[v] /\ req'[v] = req[v]
      BY <1>2, <2>2 DEF RequestsFit
    <3> QED BY <3>1 DEF RequestFits
  <2> QED BY <2>1, <2>2
<1> QED BY <1>1, <1>2, <1>3 DEF RequestsFit

LEMMA OrdersStay ==
  ASSUME OrdersFit, Ids(cart) \subseteq Ids(cart'), UNCHANGED <<order, invoice>>
  PROVE  OrdersFit'
BY DEF OrdersFit

LEMMA CartsStay ==
  ASSUME CartsFit, UNCHANGED <<cart, raced>>
  PROVE  CartsFit'
BY DEF CartsFit, OneActive

LEMMA TablesStay ==
  ASSUME TypeInv, UNCHANGED tables, started' \in Nat
  PROVE  OrdersFit' /\ CartsFit' /\ RestFits'
<1>1. UNCHANGED <<cart, list, order, redeemed, open, invoice, raced>>
  BY DEF tables
<1>2. OrdersFit' /\ CartsFit'
  BY <1>1, OrdersStay, CartsStay DEF TypeInv
<1>3. RestFits'
  BY <1>1 DEF TypeInv, RestFits
<1> QED BY <1>2, <1>3

LEMMA RequestsStay ==
  ASSUME RequestsFit, Ids(cart) \subseteq Ids(cart'), UNCHANGED <<pc, req>>
  PROVE  RequestsFit'
<1>1. \A v \in Workers : RequestFits(pc[v], req[v])'
  BY DEF RequestsFit, RequestFits
<1> QED BY <1>1 DEF RequestsFit

(* A request that ends.                                                    *)
LEMMA RequestEnds ==
  ASSUME RequestsFit, Ids(cart) \subseteq Ids(cart'), NEW w \in Workers, Done(w)
  PROVE  /\ RequestsFit'
         /\ pc'[w] = "idle"
         /\ \A v \in Workers \ {w} : pc'[v] = pc[v] /\ req'[v] = req[v]
<1>1. "idle" \in Stages /\ NoReq \in AnyRequest
  BY DEF Stages, AnyRequest
<1>2. RequestFits("idle", NoReq)'
  BY DEF RequestFits, Editing, CheckingOut
<1>3. pc' = [pc EXCEPT ![w] = "idle"] /\ req' = [req EXCEPT ![w] = NoReq]
  BY DEF Done, Goto
<1> HIDE DEF NoReq
<1> QED BY <1>1, <1>2, <1>3, RequestMoves

(* What a request is, by its stage.                                        *)
LEMMA AtStage ==
  ASSUME RequestsFit, NEW w \in Workers
  PROVE  /\ pc[w] \in Stages
         /\ pc[w] = "idle" => req[w] = NoReq
         /\ pc[w] \in Editing => req[w] \in EditRequest
         /\ pc[w] \in CheckingOut => req[w] \in CheckoutRequest
         /\ pc[w] \in {"find", "create"} => req[w].cart = 0
         /\ pc[w] \in CheckingOut \cup {"lines", "edit"} => req[w].cart \in Ids(cart)
<1>1. pc[w] \in Stages /\ RequestFits(pc[w], req[w])
  BY DEF RequestsFit
<1> QED BY <1>1 DEF RequestFits

LEMMA EditRequestShape ==
  ASSUME NEW k \in AllKinds \ {"checkout"}, NEW c \in Customers, NEW i \in Nat, NEW t \in Seq(EditOf)
  PROVE  [kind |-> k, customer |-> c, cart |-> i, todo |-> t] \in EditRequest
BY DEF EditRequest

LEMMA EditRequestFields ==
  ASSUME NEW r \in EditRequest
  PROVE  /\ r.kind \in AllKinds \ {"checkout"} /\ r.customer \in Customers /\ r.cart \in Nat
         /\ r.todo \in Seq(EditOf)
BY DEF EditRequest

LEMMA EditRequestCart ==
  ASSUME NEW r \in EditRequest, NEW i \in Nat
  PROVE  [r EXCEPT !.cart = i] \in EditRequest /\ [r EXCEPT !.cart = i].cart = i
         /\ [r EXCEPT !.cart = i].kind = r.kind
BY DEF EditRequest

LEMMA EditRequestTodo ==
  ASSUME NEW r \in EditRequest, NEW t \in Seq(EditOf)
  PROVE  [r EXCEPT !.todo = t] \in EditRequest /\ [r EXCEPT !.todo = t].cart = r.cart
         /\ [r EXCEPT !.todo = t].kind = r.kind
BY DEF EditRequest

LEMMA CheckoutFields ==
  ASSUME NEW r \in CheckoutRequest
  PROVE  /\ r.kind = "checkout" /\ r.customer \in Customers /\ r.cart \in Nat /\ r.coupon \in Codes
         /\ r.cc \in CostCenters /\ r.shipping \in Shippings /\ r.line \in Lines
         /\ r.promo \in Promos \cup {0} /\ r.seen \in Nat /\ r.discount \in Nat
         /\ r.grand \in Int /\ r.spent \in Int
BY DEF CheckoutRequest

LEMMA CheckoutLine ==
  ASSUME NEW r \in CheckoutRequest, NEW x \in Lines
  PROVE  LET q == [r EXCEPT !.line = x] IN
         q \in CheckoutRequest /\ q.cart = r.cart /\ q.line = x
BY DEF CheckoutRequest

\* Request q is r with its promotion and amounts filled in.
Priced(r, q, i, s, d, g) ==
  /\ q \in CheckoutRequest
  /\ q.cart = r.cart /\ q.line = r.line /\ q.coupon = r.coupon /\ q.customer = r.customer
  /\ q.shipping = r.shipping /\ q.cc = r.cc
  /\ q.promo = i /\ q.seen = s /\ q.discount = d /\ q.grand = g

LEMMA CheckoutPriced ==
  ASSUME NEW r \in CheckoutRequest, NEW i \in Promos \cup {0}, NEW s \in Nat, NEW d \in Nat, NEW g \in Int
  PROVE  Priced(r, [r EXCEPT !.promo = i, !.seen = s, !.discount = d, !.grand = g], i, s, d, g)
BY DEF CheckoutRequest, Priced

\* Request q is r with its period's spend filled in.
Budgeted(r, q, s) ==
  /\ q \in CheckoutRequest
  /\ q.cart = r.cart /\ q.line = r.line /\ q.coupon = r.coupon /\ q.customer = r.customer
  /\ q.shipping = r.shipping /\ q.cc = r.cc /\ q.spent = s
  /\ q.promo = r.promo /\ q.seen = r.seen /\ q.discount = r.discount /\ q.grand = r.grand

LEMMA CheckoutBudgeted ==
  ASSUME NEW r \in CheckoutRequest, NEW s \in Int
  PROVE  Budgeted(r, [r EXCEPT !.spent = s], s)
BY DEF CheckoutRequest, Budgeted

-----------------------------------------------------------------------------
(* A request arrives.                                                      *)

LEMMA CartRows ==
  ASSUME CartsFit
  PROVE  /\ Len(cart) \in Nat /\ DOMAIN cart = Ids(cart)
         /\ \A i \in Ids(cart) :
              /\ i \in Nat /\ i # 0 /\ cart[i] \in Cart
              /\ cart[i].customer \in Customers /\ cart[i].status \in {"active", "converted"}
              /\ cart[i].coupon \in Codes /\ cart[i].item \in Lines
<1>1. cart \in Seq(Cart)
  BY DEF CartsFit
<1>2. /\ Len(cart) \in Nat /\ DOMAIN cart = Ids(cart)
      /\ \A i \in Ids(cart) : i \in Nat /\ i # 0 /\ cart[i] \in Cart
  BY <1>1, TableFacts
<1>3. \A x \in Cart : /\ x.customer \in Customers /\ x.status \in {"active", "converted"}
                     /\ x.coupon \in Codes /\ x.item \in Lines
  BY DEF Cart
<1> QED BY <1>2, <1>3

\* The request that EditCart makes, with typed parts.
EditArrives(w) ==
  \E kind \in AllKinds \ {"checkout"}, c \in Customers, todo \in Seq(EditOf) :
    EditCart(w, kind, c, todo)

LEMMA OrderRows ==
  ASSUME OrdersFit
  PROVE  /\ Len(order) \in Nat /\ DOMAIN order = Ids(order) /\ IsFiniteSet(Ids(order))
         /\ \A o \in Ids(order) :
              /\ o \in Nat /\ o # 0 /\ order[o] \in OrderRow
              /\ order[o].customer \in Customers /\ order[o].line \in Lines
              /\ order[o].grand \in Int /\ order[o].discount \in Nat /\ order[o].shipping \in Int
              /\ order[o].promo \in Promos \cup {0}
<1>1. order \in Seq(OrderRow)
  BY DEF OrdersFit
<1>2. /\ Len(order) \in Nat /\ DOMAIN order = Ids(order) /\ IsFiniteSet(Ids(order))
      /\ \A o \in Ids(order) : o \in Nat /\ o # 0 /\ order[o] \in OrderRow
  BY <1>1, TableFacts
<1>3. \A x \in OrderRow :
        /\ x.customer \in Customers /\ x.line \in Lines
        /\ x.grand \in Int /\ x.discount \in Nat /\ x.shipping \in Int
        /\ x.promo \in Promos \cup {0}
  BY DEF OrderRow
<1> QED BY <1>2, <1>3

(* Every request but a checkout is a list of edits.                        *)
LEMMA ReceiveIsEdit ==
  ASSUME TypeInv, NEW w \in Workers, Receive(w)
  PROVE  LoadCart(w) \/ EditArrives(w)
<1>0. /\ <<>> \in Seq(EditOf)
      /\ \A e \in EditOf : <<e>> \in Seq(EditOf)
      /\ \A d \in EditOf, e \in EditOf : <<d, e>> \in Seq(EditOf)
  <2> HIDE DEF EditOf
  <2> QED OBVIOUS
<1>1. ASSUME GetCart(w) PROVE EditArrives(w)
  <2>1. "view" \in AllKinds \ {"checkout"}
    BY DEF AllKinds
  <2> QED BY <1>0, <1>1, <2>1 DEF GetCart, EditArrives
<1>2. ASSUME AddItem(w) PROVE EditArrives(w)
  <2>1. PICK c \in Customers, p \in Products, q \in Quantities : EditCart(w, "add", c, <<Put(p, q)>>)
    BY <1>2 DEF AddItem
  <2>2. Put(p, q) \in EditOf
    BY DEF EditOf, Put
  <2>3. "add" \in AllKinds \ {"checkout"} /\ <<Put(p, q)>> \in Seq(EditOf)
    BY <1>0, <2>2 DEF AllKinds
  <2> QED BY <2>1, <2>3 DEF EditArrives
<1>3. ASSUME AddBulk(w) PROVE EditArrives(w)
  <2>1. PICK c \in Customers, wanted \in Bulks :
          EditCart(w, "addBulk", c, [n \in DOMAIN wanted |-> Put(wanted[n].product, wanted[n].qty)])
    BY <1>3 DEF AddBulk
  <2> DEFINE Wish == [product : Products, qty : Quantities]
             u == [n \in DOMAIN wanted |-> Put(wanted[n].product, wanted[n].qty)]
  <2>2. wanted \in Seq(Wish)
    BY CheckoutAssumption
  <2>3. Len(wanted) \in Nat /\ DOMAIN wanted = 1..Len(wanted)
        /\ \A n \in 1..Len(wanted) : wanted[n] \in Wish
    <3> HIDE DEF Wish
    <3>1. Len(wanted) \in Nat /\ DOMAIN wanted = 1..Len(wanted)
      BY <2>2, LenProperties
    <3>2. \A n \in 1..Len(wanted) : wanted[n] \in Wish
      BY <2>2, ElementOfSeq
    <3> QED BY <3>1, <3>2
  <2>4. \A x \in Wish : Put(x.product, x.qty) \in EditOf
    BY DEF EditOf, Put
  <2>5. u \in [1..Len(wanted) -> EditOf]
    <3> HIDE DEF Wish
    <3> QED BY <2>3, <2>4
  <2>6. u \in Seq(EditOf)
    <3> HIDE DEF u, Wish
    <3> QED BY <2>3, <2>5, SeqDef
  <2>7. "addBulk" \in AllKinds \ {"checkout"}
    BY DEF AllKinds
  <2>8. EditCart(w, "addBulk", c, u)
    BY <2>1
  <2> HIDE DEF u
  <2> QED BY <2>6, <2>7, <2>8 DEF EditArrives
<1>4. ASSUME UpdateItem(w) PROVE EditArrives(w)
  <2>1. PICK i \in Ids(cart), p \in Products, q \in Quantities :
          EditCart(w, "quantity", cart[i].customer, <<Quantity(i, p, q)>>)
    BY <1>4 DEF UpdateItem
  <2>2. i \in Nat /\ cart[i].customer \in Customers
    BY CartRows DEF TypeInv
  <2>3. Quantity(i, p, q) \in EditOf
    BY <2>2 DEF EditOf, Quantity
  <2>4. "quantity" \in AllKinds \ {"checkout"} /\ <<Quantity(i, p, q)>> \in Seq(EditOf)
    BY <1>0, <2>3 DEF AllKinds
  <2> QED BY <2>1, <2>2, <2>4 DEF EditArrives
<1>5. ASSUME RemoveItem(w) PROVE EditArrives(w)
  <2>1. PICK i \in Ids(cart), p \in Products :
          EditCart(w, "remove", cart[i].customer, <<DropLine(i, p)>>)
    BY <1>5 DEF RemoveItem
  <2>2. i \in Nat /\ cart[i].customer \in Customers
    BY CartRows DEF TypeInv
  <2>3. DropLine(i, p) \in EditOf
    BY <2>2 DEF EditOf, DropLine
  <2>4. "remove" \in AllKinds \ {"checkout"} /\ <<DropLine(i, p)>> \in Seq(EditOf)
    BY <1>0, <2>3 DEF AllKinds
  <2> QED BY <2>1, <2>2, <2>4 DEF EditArrives
<1>6. ASSUME ApplyCoupon(w) PROVE EditArrives(w)
  <2>1. PICK c \in Customers, code \in Codes \ {NoCode, Automatic} :
          EditCart(w, "applyCoupon", c, <<Check(code), Coupon(code)>>)
    BY <1>6 DEF ApplyCoupon
  <2>2. Check(code) \in EditOf /\ Coupon(code) \in EditOf
    BY DEF EditOf, Check, Coupon
  <2>3. "applyCoupon" \in AllKinds \ {"checkout"} /\ <<Check(code), Coupon(code)>> \in Seq(EditOf)
    BY <1>0, <2>2 DEF AllKinds
  <2> QED BY <2>1, <2>3 DEF EditArrives
<1>7. ASSUME RemoveCoupon(w) PROVE EditArrives(w)
  <2>1. PICK c \in Customers : EditCart(w, "removeCoupon", c, <<Coupon(NoCode)>>)
    BY <1>7 DEF RemoveCoupon
  <2>2. Coupon(NoCode) \in EditOf
    BY DEF EditOf, Coupon, Codes
  <2>3. "removeCoupon" \in AllKinds \ {"checkout"} /\ <<Coupon(NoCode)>> \in Seq(EditOf)
    BY <1>0, <2>2 DEF AllKinds
  <2> QED BY <2>1, <2>3 DEF EditArrives
<1>8. ASSUME ReorderItems(w) PROVE EditArrives(w)
  <2>1. PICK o \in Ids(order) :
          EditCart(w, "reorder", order[o].customer, Puts([p \in Products |-> Asked(order[o].line[p])]))
    BY <1>8 DEF ReorderItems
  <2>2. order[o].customer \in Customers /\ order[o].line \in Lines
    BY OrderRows DEF TypeInv
  <2>3. [p \in Products |-> Asked(order[o].line[p])] \in [Products -> Quantities \cup {Absent}]
    BY <2>2, LineFacts DEF Asked
  <2>4. Puts([p \in Products |-> Asked(order[o].line[p])]) \in Seq(EditOf)
    BY <2>3, PutsAreEdits
  <2>5. "reorder" \in AllKinds \ {"checkout"}
    BY DEF AllKinds
  <2> QED BY <2>1, <2>2, <2>4, <2>5 DEF EditArrives
<1>9. ASSUME ConvertList(w) PROVE EditArrives(w)
  <2>1. PICK c \in Customers : EditCart(w, "convertList", c, Puts(list[c]))
    BY <1>9 DEF ConvertList
  <2>2. list[c] \in [Products -> Quantities \cup {Absent}]
    BY DEF TypeInv, RestFits
  <2>3. Puts(list[c]) \in Seq(EditOf)
    BY <2>2, PutsAreEdits
  <2>4. "convertList" \in AllKinds \ {"checkout"}
    BY DEF AllKinds
  <2> QED BY <2>1, <2>3, <2>4 DEF EditArrives
<1>10. ASSUME Revalidate(w) PROVE EditArrives(w)
  <2>1. "revalidate" \in AllKinds \ {"checkout"}
    BY DEF AllKinds
  <2> QED BY <1>0, <1>10, <2>1 DEF Revalidate, EditArrives
<1> QED BY <1>1, <1>2, <1>3, <1>4, <1>5, <1>6, <1>7, <1>8, <1>9, <1>10 DEF Receive

LEMMA EditArrivesTyped ==
  ASSUME TypeInv, NEW w \in Workers, EditArrives(w)
  PROVE  /\ TypeInv' /\ UNCHANGED tables
         /\ pc'[w] = "find"
         /\ \A v \in Workers \ {w} : pc'[v] = pc[v] /\ req'[v] = req[v]
<1>1. PICK kind \in AllKinds \ {"checkout"}, c \in Customers, todo \in Seq(EditOf) :
        EditCart(w, kind, c, todo)
  BY DEF EditArrives
<1> DEFINE r == [kind |-> kind, customer |-> c, cart |-> 0, todo |-> todo]
<1>2. r \in EditRequest /\ r.cart = 0
  BY EditRequestShape
<1>3. pc' = [pc EXCEPT ![w] = "find"] /\ req' = [req EXCEPT ![w] = r] /\ UNCHANGED tables
      /\ started' = started + 1
  BY <1>1 DEF EditCart, Arrive, Goto
<1> HIDE DEF r
<1>4. RequestFits("find", r)'
  BY <1>2 DEF RequestFits, Editing, CheckingOut
<1>5. "find" \in Stages /\ r \in AnyRequest
  BY <1>2 DEF Stages, Editing, AnyRequest
<1>6. /\ RequestsFit' /\ pc'[w] = "find"
      /\ \A v \in Workers \ {w} : pc'[v] = pc[v] /\ req'[v] = req[v]
  <2>1. RequestsFit /\ Ids(cart) \subseteq Ids(cart')
    BY <1>3 DEF TypeInv, tables
  <2> QED BY <1>3, <1>4, <1>5, <2>1, RequestMoves
<1>7. OrdersFit' /\ CartsFit' /\ RestFits'
  <2>1. started' \in Nat
    BY <1>3 DEF TypeInv, RestFits
  <2> QED BY <1>3, <2>1, TablesStay
<1> QED BY <1>3, <1>6, <1>7 DEF TypeInv

(* A checkout that has its cart.                                           *)
LEMMA LoadCartTyped ==
  ASSUME TypeInv, NEW w \in Workers, LoadCart(w)
  PROVE  /\ TypeInv'
         /\ \E i \in Ids(cart) :
              /\ cart[i].status = "active"
              /\ Shared(w, i, "checkout") /\ pc[w] = "idle"
              /\ pc'[w] = "items" /\ req'[w].cart = i
         /\ \A v \in Workers \ {w} : pc'[v] = pc[v] /\ req'[v] = req[v]
<1>0. PICK c \in Customers, cc \in CostCenters, s \in Shippings :
        /\ \E i \in ActiveCarts(c) :
             /\ Arrive(w, "items", [kind |-> "checkout", customer |-> c, cart |-> i,
                                    coupon |-> cart[i].coupon, cc |-> cc, shipping |-> s,
                                    line |-> Empty, promo |-> 0, seen |-> 0, discount |-> 0,
                                    grand |-> 0, spent |-> 0])
             /\ Shared(w, i, "checkout")
        /\ UNCHANGED <<cart, list, order, redeemed, open, invoice>>
  BY DEF LoadCart
<1>1. PICK i \in ActiveCarts(c) :
        /\ Arrive(w, "items", [kind |-> "checkout", customer |-> c, cart |-> i,
                               coupon |-> cart[i].coupon, cc |-> cc, shipping |-> s,
                               line |-> Empty, promo |-> 0, seen |-> 0, discount |-> 0,
                               grand |-> 0, spent |-> 0])
        /\ Shared(w, i, "checkout")
        /\ UNCHANGED <<cart, list, order, redeemed, open, invoice>>
  BY <1>0
<1>2. i \in Ids(cart) /\ i \in Nat /\ cart[i].status = "active" /\ cart[i].coupon \in Codes
  BY CartRows DEF ActiveCarts, TypeInv
<1>3. PICK r : r = [kind |-> "checkout", customer |-> c, cart |-> i,
                    coupon |-> cart[i].coupon, cc |-> cc, shipping |-> s,
                    line |-> Empty, promo |-> 0, seen |-> 0, discount |-> 0,
                    grand |-> 0, spent |-> 0]
  OBVIOUS
<1>4. r \in CheckoutRequest /\ r.cart = i
  BY <1>2, <1>3, EmptyIsLines DEF CheckoutRequest
<1>5. /\ pc' = [pc EXCEPT ![w] = "items"] /\ req' = [req EXCEPT ![w] = r]
      /\ started' = started + 1 /\ pc[w] = "idle"
  BY <1>1, <1>3 DEF Arrive, Goto
<1>6. Ids(cart') = Ids(cart)
  BY <1>1
<1>7. RequestFits("items", r)'
  BY <1>2, <1>4, <1>6 DEF RequestFits, Editing, CheckingOut
<1>8. "items" \in Stages /\ r \in AnyRequest
  BY <1>4 DEF Stages, CheckingOut, AnyRequest
<1>9. /\ RequestsFit' /\ pc'[w] = "items" /\ req'[w] = r
      /\ \A v \in Workers \ {w} : pc'[v] = pc[v] /\ req'[v] = req[v]
  <2>1. RequestsFit /\ Ids(cart) \subseteq Ids(cart')
    BY <1>6 DEF TypeInv
  <2> QED BY <1>5, <1>7, <1>8, <2>1, RequestMoves
<1>10. OrdersFit' /\ RestFits'
  <2>1. OrdersFit'
    BY <1>1, <1>6, OrdersStay DEF TypeInv
  <2> QED BY <1>1, <1>5, <2>1 DEF RestFits, TypeInv
<1>11. CartsFit'
  BY <1>1, <1>2 DEF CartsFit, TypeInv, OneActive, Shared
<1> QED BY <1>1, <1>2, <1>4, <1>5, <1>9, <1>10, <1>11 DEF TypeInv

-----------------------------------------------------------------------------
(* The steps of a list of edits.                                           *)

LEMMA FindCartTyped ==
  ASSUME TypeInv, NEW w \in Workers, FindCart(w)
  PROVE  /\ TypeInv' /\ UNCHANGED <<cart, list, order, redeemed, open, invoice>>
         /\ pc[w] = "find" /\ req[w].kind # "checkout"
         /\ \/ pc'[w] = "create" /\ UNCHANGED raced
            \/ \E i \in Ids(cart) :
                 /\ cart[i].status = "active"
                 /\ Shared(w, i, req[w].kind)
                 /\ pc'[w] \in {"lines", "edit"} /\ req'[w].cart = i
         /\ \A v \in Workers \ {w} : pc'[v] = pc[v] /\ req'[v] = req[v]
<1>0. pc[w] = "find" /\ UNCHANGED <<cart, list, order, redeemed, open, invoice, started>>
  BY DEF FindCart
<1>1. req[w] \in EditRequest /\ req[w].kind # "checkout" /\ req[w].cart = 0
  BY <1>0, AtStage, EditRequestFields DEF TypeInv, Editing
<1>2. Ids(cart') = Ids(cart) /\ RequestsFit /\ Ids(cart) \subseteq Ids(cart')
  BY <1>0 DEF TypeInv
<1>3. OrdersFit' /\ RestFits'
  <2>1. OrdersFit'
    BY <1>0, <1>2, OrdersStay DEF TypeInv
  <2> QED BY <1>0, <2>1 DEF RestFits, TypeInv
<1>4. CASE Goto(w, "create") /\ UNCHANGED <<req, raced>>
  <2>1. PICK r : r = req[w]
    OBVIOUS
  <2>2. pc' = [pc EXCEPT ![w] = "create"] /\ req' = [req EXCEPT ![w] = r]
    BY <1>4, <2>1 DEF Goto, RequestsFit, TypeInv
  <2>3. RequestFits("create", r)'
    BY <1>1, <2>1 DEF RequestFits, Editing, CheckingOut
  <2>4. "create" \in Stages /\ r \in AnyRequest
    BY <1>1, <2>1 DEF Stages, Editing, AnyRequest
  <2>5. /\ RequestsFit' /\ pc'[w] = "create"
        /\ \A v \in Workers \ {w} : pc'[v] = pc[v] /\ req'[v] = req[v]
    BY <1>2, <2>2, <2>3, <2>4, RequestMoves
  <2>6. CartsFit'
    BY <1>0, <1>4, CartsStay DEF TypeInv
  <2> QED BY <1>0, <1>1, <1>3, <1>4, <2>5, <2>6 DEF TypeInv
<1>5. ASSUME NEW i \in ActiveCarts(req[w].customer),
             req' = [req EXCEPT ![w].cart = i], Shared(w, i, req[w].kind),
             NEW stage \in {"lines", "edit"}, Goto(w, stage)
      PROVE  /\ TypeInv'
             /\ i \in Ids(cart) /\ cart[i].status = "active"
             /\ pc'[w] = stage /\ req'[w].cart = i
             /\ \A v \in Workers \ {w} : pc'[v] = pc[v] /\ req'[v] = req[v]
  <2>0. i \in Ids(cart) /\ i \in Nat /\ cart[i].status = "active"
    BY CartRows DEF ActiveCarts, TypeInv
  <2>1. PICK r : r = [req[w] EXCEPT !.cart = i]
    OBVIOUS
  <2>2. pc' = [pc EXCEPT ![w] = stage] /\ req' = [req EXCEPT ![w] = r]
    BY <1>5, <2>1 DEF Goto
  <2>3. r \in EditRequest /\ r.cart = i
    BY <1>1, <2>0, <2>1, EditRequestCart
  <2>4. RequestFits(stage, r)'
    BY <1>2, <2>0, <2>3 DEF RequestFits, Editing, CheckingOut
  <2>5. stage \in Stages /\ r \in AnyRequest
    BY <2>3 DEF Stages, Editing, AnyRequest
  <2>6. /\ RequestsFit' /\ pc'[w] = stage /\ req'[w] = r
        /\ \A v \in Workers \ {w} : pc'[v] = pc[v] /\ req'[v] = req[v]
    BY <1>2, <2>2, <2>4, <2>5, RequestMoves
  <2>7. CartsFit'
    BY <1>0, <1>5, <2>0 DEF CartsFit, TypeInv, OneActive, Shared
  <2> QED BY <1>3, <2>0, <2>3, <2>6, <2>7 DEF TypeInv
<1>6. CASE \E i \in ActiveCarts(req[w].customer) :
             /\ req' = [req EXCEPT ![w].cart = i]
             /\ Shared(w, i, req[w].kind)
             /\ Goto(w, IF req[w].kind = "revalidate" THEN "lines" ELSE "edit")
  <2>1. PICK i \in ActiveCarts(req[w].customer) :
          /\ req' = [req EXCEPT ![w].cart = i]
          /\ Shared(w, i, req[w].kind)
          /\ Goto(w, IF req[w].kind = "revalidate" THEN "lines" ELSE "edit")
    BY <1>6
  <2>2. PICK stage \in {"lines", "edit"} : Goto(w, stage)
    BY <2>1
  <2>3. /\ TypeInv'
        /\ i \in Ids(cart) /\ cart[i].status = "active"
        /\ pc'[w] = stage /\ req'[w].cart = i
        /\ \A v \in Workers \ {w} : pc'[v] = pc[v] /\ req'[v] = req[v]
    BY <1>5, <2>1, <2>2
  <2> QED BY <1>0, <1>1, <2>1, <2>2, <2>3
<1> QED BY <1>4, <1>6 DEF FindCart

NewCart(c) == [customer |-> c, status |-> "active", coupon |-> NoCode, item |-> Empty]

LEMMA CreateCartTyped ==
  ASSUME TypeInv, NEW w \in Workers, CreateCart(w)
  PROVE  /\ TypeInv' /\ UNCHANGED <<list, order, redeemed, open, invoice, raced>>
         /\ pc[w] = "create" /\ req[w].kind # "checkout"
         /\ \/ pc'[w] = "idle" /\ UNCHANGED cart
            \/ /\ Ids(cart') = Ids(cart) \cup {Len(cart) + 1} /\ Len(cart) + 1 \notin Ids(cart)
               /\ cart'[Len(cart) + 1].status = "active"
               /\ \A i \in Ids(cart) : cart'[i] = cart[i]
               /\ pc'[w] \in {"lines", "edit"} /\ req'[w].cart = Len(cart) + 1
         /\ \A v \in Workers \ {w} : pc'[v] = pc[v] /\ req'[v] = req[v]
<1>0. pc[w] = "create" /\ UNCHANGED <<list, order, redeemed, open, invoice, raced, started>>
  BY DEF CreateCart
<1>1. /\ req[w] \in EditRequest /\ req[w].kind # "checkout" /\ req[w].cart = 0
      /\ req[w].customer \in Customers
  BY <1>0, AtStage, EditRequestFields DEF TypeInv, Editing
<1>2. CASE Done(w) /\ UNCHANGED cart
  <2>1. /\ RequestsFit' /\ pc'[w] = "idle"
        /\ \A v \in Workers \ {w} : pc'[v] = pc[v] /\ req'[v] = req[v]
    BY <1>2, RequestEnds DEF TypeInv
  <2>2. UNCHANGED tables /\ started' \in Nat
    BY <1>0, <1>2 DEF tables, TypeInv, RestFits
  <2>3. TypeInv'
    BY <2>1, <2>2, TablesStay DEF TypeInv
  <2> QED BY <1>0, <1>1, <1>2, <2>1, <2>3
<1>3. CASE /\ ActiveCarts(req[w].customer) = {}
           /\ cart' = Append(cart, NewCart(req[w].customer))
           /\ req' = [req EXCEPT ![w].cart = Len(cart) + 1]
           /\ Goto(w, IF req[w].kind = "revalidate" THEN "lines" ELSE "edit")
  <2>1. NewCart(req[w].customer) \in Cart
    BY <1>1, EmptyIsLines DEF NewCart, Cart, Codes
  <2>2. cart \in Seq(Cart)
    BY DEF TypeInv, CartsFit
  <2>3. /\ cart' \in Seq(Cart)
        /\ Ids(cart') = Ids(cart) \cup {Len(cart) + 1} /\ Len(cart) + 1 \notin Ids(cart)
        /\ cart'[Len(cart) + 1] = NewCart(req[w].customer)
        /\ \A i \in Ids(cart) : cart'[i] = cart[i]
    <3>1. PICK x : x = NewCart(req[w].customer)
      OBVIOUS
    <3>2. x \in Cart /\ cart' = Append(cart, x)
      BY <1>3, <2>1, <3>1
    <3>3. /\ cart' \in Seq(Cart)
          /\ Ids(cart') = Ids(cart) \cup {Len(cart) + 1} /\ Len(cart) + 1 \notin Ids(cart)
          /\ cart'[Len(cart) + 1] = x
          /\ \A i \in Ids(cart) : cart'[i] = cart[i]
      <4>1. PICK u : u = cart'
        OBVIOUS
      <4>2. u = Append(cart, x)
        BY <3>2, <4>1
      <4>3. /\ u \in Seq(Cart)
            /\ Ids(u) = Ids(cart) \cup {Len(cart) + 1} /\ Len(cart) + 1 \notin Ids(cart)
            /\ u[Len(cart) + 1] = x
            /\ \A i \in Ids(cart) : u[i] = cart[i]
        <5>1. RowAdded(Cart, cart, x, u)
          BY <2>2, <3>2, <4>2, AddRow
        <5> QED BY <5>1 DEF RowAdded
      <4> QED BY <4>1, <4>3
    <3> QED BY <3>1, <3>3
  <2>4. Len(cart) \in Nat
    BY <2>2, TableFacts
  <2>5. PICK n : n = Len(cart) + 1
    OBVIOUS
  <2>6. PICK stage \in {"lines", "edit"} : Goto(w, stage)
    BY <1>3
  <2>7. PICK r : r = [req[w] EXCEPT !.cart = n]
    OBVIOUS
  <2>8. r \in EditRequest /\ r.cart = n
    <3>1. n \in Nat
      BY <2>4, <2>5
    <3> QED BY <1>1, <2>7, <3>1, EditRequestCart
  <2>9. pc' = [pc EXCEPT ![w] = stage] /\ req' = [req EXCEPT ![w] = r]
    BY <1>3, <2>5, <2>6, <2>7 DEF Goto
  <2>10. RequestFits(stage, r)'
    BY <2>3, <2>5, <2>8 DEF RequestFits, Editing, CheckingOut
  <2>11. stage \in Stages /\ r \in AnyRequest
    BY <2>8 DEF Stages, Editing, AnyRequest
  <2>12. RequestsFit /\ Ids(cart) \subseteq Ids(cart')
    BY <2>3 DEF TypeInv
  <2>13. /\ RequestsFit' /\ pc'[w] = stage /\ req'[w] = r
         /\ \A v \in Workers \ {w} : pc'[v] = pc[v] /\ req'[v] = req[v]
    <3>1. RequestsFit'
      BY <2>9, <2>10, <2>11, <2>12, RequestMoves
    <3>2. pc'[w] = stage /\ req'[w] = r
          /\ \A v \in Workers \ {w} : pc'[v] = pc[v] /\ req'[v] = req[v]
      BY <2>9, <2>12 DEF RequestsFit
    <3> QED BY <3>1, <3>2
  <2>14. OneActive'
    <3>1. \A i \in Ids(cart) : cart[i].status = "active" => cart[i].customer # req[w].customer
      BY <1>3 DEF ActiveCarts
    <3>2. cart'[n].customer = req[w].customer /\ cart'[n].status = "active"
      BY <2>3, <2>5 DEF NewCart
    <3> QED BY <2>3, <2>5, <3>1, <3>2 DEF OneActive, TypeInv, CartsFit
  <2>15. CartsFit'
    BY <1>0, <2>3, <2>14 DEF CartsFit, TypeInv
  <2>16. OrdersFit' /\ RestFits'
    <3>1. OrdersFit'
      BY <1>0, <2>12, OrdersStay DEF TypeInv
    <3> QED BY <1>0, <3>1 DEF RestFits, TypeInv
  <2>17. cart'[Len(cart) + 1].status = "active"
    BY <2>3 DEF NewCart
  <2> QED BY <1>0, <1>1, <2>3, <2>5, <2>8, <2>13, <2>15, <2>16, <2>17 DEF TypeInv
<1> QED BY <1>2, <1>3 DEF CreateCart, NewCart

(* A cart row changes, but neither its customer nor its status.            *)
LEMMA CartChanges ==
  ASSUME CartsFit, NEW i \in Ids(cart), NEW x \in Cart,
         x.customer = cart[i].customer, x.status = cart[i].status,
         cart' = [cart EXCEPT ![i] = x], UNCHANGED raced
  PROVE  /\ CartsFit' /\ Ids(cart') = Ids(cart)
         /\ cart'[i] = x /\ \A j \in Ids(cart) \ {i} : cart'[j] = cart[j]
<1>1. cart \in Seq(Cart)
  BY DEF CartsFit
<1>2. /\ cart' \in Seq(Cart) /\ Ids(cart') = Ids(cart)
      /\ cart'[i] = x /\ \A j \in Ids(cart) \ {i} : cart'[j] = cart[j]
  <2>1. PICK u : u = cart'
    OBVIOUS
  <2>2. u = [cart EXCEPT ![i] = x]
    BY <2>1
  <2>3. /\ u \in Seq(Cart) /\ Ids(u) = Ids(cart)
        /\ u[i] = x /\ \A j \in Ids(cart) \ {i} : u[j] = cart[j]
    <3>1. RowSet(Cart, cart, i, x, u)
      BY <1>1, <2>2, SetRow
    <3> QED BY <3>1 DEF RowSet
  <2> QED BY <2>1, <2>3
<1>3. \A j \in Ids(cart) : cart'[j].status = cart[j].status /\ cart'[j].customer = cart[j].customer
  BY <1>2
<1>4. OneActive'
  BY <1>2, <1>3 DEF OneActive, CartsFit
<1> QED BY <1>1, <1>2, <1>4 DEF CartsFit

LEMMA CartFields ==
  ASSUME NEW x \in Cart
  PROVE  /\ \A p \in Products, l \in Line :
              /\ [x EXCEPT !.item = [x.item EXCEPT ![p] = l]] \in Cart
              /\ [x EXCEPT !.item = [x.item EXCEPT ![p] = l]].customer = x.customer
              /\ [x EXCEPT !.item = [x.item EXCEPT ![p] = l]].status = x.status
         /\ \A code \in Codes :
              /\ [x EXCEPT !.coupon = code] \in Cart
              /\ [x EXCEPT !.coupon = code].customer = x.customer
              /\ [x EXCEPT !.coupon = code].status = x.status
<1> HIDE DEF Codes
<1>1. ASSUME NEW p \in Products, NEW l \in Line
      PROVE  [x.item EXCEPT ![p] = l] \in Lines
  BY DEF Cart, Lines
<1>2. ASSUME NEW y \in Lines
      PROVE  /\ [x EXCEPT !.item = y] \in Cart
             /\ [x EXCEPT !.item = y].customer = x.customer
             /\ [x EXCEPT !.item = y].status = x.status
  BY DEF Cart
<1>3. ASSUME NEW code \in Codes
      PROVE  /\ [x EXCEPT !.coupon = code] \in Cart
             /\ [x EXCEPT !.coupon = code].customer = x.customer
             /\ [x EXCEPT !.coupon = code].status = x.status
  BY DEF Cart
<1> QED BY <1>1, <1>2, <1>3

(* An edit changes its cart only, and neither its customer nor its status. *)
LEMMA EditedCart ==
  ASSUME CartsFit, NEW c \in Customers, NEW i \in Ids(cart), NEW e \in EditOf
  PROVE  \E x \in Cart : /\ x.customer = cart[i].customer /\ x.status = cart[i].status
                        /\ Edited(c, i, e) = [cart EXCEPT ![i] = x]
<1> DEFINE Goal(t) == \E x \in Cart : /\ x.customer = cart[i].customer /\ x.status = cart[i].status
                                    /\ t = [cart EXCEPT ![i] = x]
<1>0. /\ cart[i] \in Cart /\ cart[i].item \in Lines /\ cart \in Seq(Cart) /\ DOMAIN cart = Ids(cart)
      /\ \A p \in Products :
           cart[i].item[p] # Absent => cart[i].item[p] \in [qty : Quantities, price : Int]
  <2>1. cart[i] \in Cart /\ cart[i].item \in Lines /\ DOMAIN cart = Ids(cart) /\ cart \in Seq(Cart)
    BY CartRows DEF CartsFit
  <2> QED BY <2>1, LineFacts
<1>1. Goal(cart)
  <2>1. cart = [cart EXCEPT ![i] = cart[i]]
    BY <1>0
  <2> QED BY <1>0, <2>1
<1>2. ASSUME NEW p \in Products, NEW l \in Line PROVE Goal([cart EXCEPT ![i].item[p] = l])
  <2>1. [cart EXCEPT ![i].item[p] = l] = [cart EXCEPT ![i] = [cart[i] EXCEPT !.item = [cart[i].item EXCEPT ![p] = l]]]
    OBVIOUS
  <2>2. cart[i] \in Cart
    BY <1>0
  <2> QED BY <2>1, <2>2, CartFields
<1> HIDE DEF Goal
<1>3. CASE e.do = "put"
  <2>1. e.product \in Products /\ e.qty \in Quantities
    BY <1>3 DEF EditOf
  <2>2. Price[c][e.product][e.qty] \in Int \cup {OnRequest}
    <3>1. Price \in [Customers -> [Products -> [Quantities -> Int \cup {OnRequest}]]]
      BY CheckoutAssumption
    <3> QED BY <2>1, <3>1
  <2>3. Price[c][e.product][e.qty] # OnRequest => [qty |-> e.qty, price |-> Price[c][e.product][e.qty]] \in Line
    BY <2>1, <2>2 DEF Line
  <2>4. Goal(UpsertItem(c, i, e))
    BY <1>1, <1>2, <2>1, <2>3 DEF UpsertItem
  <2> QED BY <1>3, <2>4 DEF Edited, Goal
<1>4. CASE e.do = "quantity"
  <2>1. e.product \in Products /\ e.qty \in Quantities
    BY <1>4 DEF EditOf
  <2>2. ASSUME e.product \in Bought(i) PROVE Goal([cart EXCEPT ![i].item[e.product].qty = e.qty])
    <3>1. cart[i].item[e.product] \in [qty : Quantities, price : Int]
      BY <1>0, <2>1, <2>2 DEF Bought
    <3>2. PICK l : l = [cart[i].item[e.product] EXCEPT !.qty = e.qty]
      OBVIOUS
    <3>3. l \in Line
      BY <2>1, <3>1, <3>2 DEF Line
    <3>4. [cart EXCEPT ![i].item[e.product].qty = e.qty] = [cart EXCEPT ![i].item[e.product] = l]
      BY <3>2
    <3> QED BY <1>2, <2>1, <3>3, <3>4
  <2>3. Goal(UpdateQuantity(i, e))
    BY <1>1, <2>2 DEF UpdateQuantity
  <2> QED BY <1>4, <2>3 DEF Edited, Goal
<1>5. CASE e.do = "remove"
  <2>1. e.product \in Products
    BY <1>5 DEF EditOf
  <2>2. Goal(DeleteItem(i, e))
    BY <1>1, <1>2, <2>1, EmptyIsLines DEF DeleteItem
  <2> QED BY <1>5, <2>2 DEF Edited, Goal
<1>6. CASE e.do = "reprice"
  <2>1. e.product \in Products /\ e.price \in Int
    BY <1>6 DEF EditOf
  <2>2. ASSUME e.product \in Bought(i) PROVE Goal([cart EXCEPT ![i].item[e.product].price = e.price])
    <3>1. cart[i].item[e.product] \in [qty : Quantities, price : Int]
      BY <1>0, <2>1, <2>2 DEF Bought
    <3>2. PICK l : l = [cart[i].item[e.product] EXCEPT !.price = e.price]
      OBVIOUS
    <3>3. l \in Line
      BY <2>1, <3>1, <3>2 DEF Line
    <3>4. [cart EXCEPT ![i].item[e.product].price = e.price] = [cart EXCEPT ![i].item[e.product] = l]
      BY <3>2
    <3> QED BY <1>2, <2>1, <3>3, <3>4
  <2>3. Goal(UpdatePrice(i, e))
    BY <1>1, <2>2 DEF UpdatePrice
  <2> QED BY <1>6, <2>3 DEF Edited, Goal
<1>7. CASE e.do = "coupon"
  <2>1. e.code \in Codes
    BY <1>7 DEF EditOf
  <2>2. [cart EXCEPT ![i].coupon = e.code] = [cart EXCEPT ![i] = [cart[i] EXCEPT !.coupon = e.code]]
    OBVIOUS
  <2>3. Goal(SetCoupon(i, e))
    BY <1>0, <2>1, <2>2, CartFields DEF SetCoupon, Goal
  <2> QED BY <1>7, <2>3 DEF Edited, Goal
<1>8. CASE e.do = "check"
  BY <1>1, <1>8 DEF Edited, Goal
<1>9. e.do \in {"put", "quantity", "remove", "check", "coupon", "reprice"}
  BY DEF EditOf
<1> QED BY <1>3, <1>4, <1>5, <1>6, <1>7, <1>8, <1>9

\* Worker w is now at this stage with request r, and the others are as they were.
Stepped(w, stage, r) ==
  /\ pc'[w] = stage /\ req'[w] = r
  /\ \A v \in Workers \ {w} : pc'[v] = pc[v] /\ req'[v] = req[v]

LEMMA WorkerMoves ==
  ASSUME RequestsFit, NEW w \in Workers, NEW stage, NEW r,
         pc' = [pc EXCEPT ![w] = stage], req' = [req EXCEPT ![w] = r]
  PROVE  Stepped(w, stage, r)
BY DEF RequestsFit, Stepped

(* A request that only goes on to its next stage.                          *)
LEMMA GoesOn ==
  ASSUME TypeInv, UNCHANGED <<tables, started>>,
         NEW w \in Workers, NEW stage \in Stages, NEW r \in AnyRequest,
         pc' = [pc EXCEPT ![w] = stage], req' = [req EXCEPT ![w] = r], RequestFits(stage, r)
  PROVE  TypeInv' /\ Stepped(w, stage, r)
<1>1. Ids(cart') = Ids(cart) /\ UNCHANGED tables /\ started' \in Nat
  BY DEF tables, TypeInv, RestFits
<1>2. RequestsFit /\ Ids(cart) \subseteq Ids(cart')
  BY <1>1 DEF TypeInv
<1>3. RequestFits(stage, r)'
  BY <1>1 DEF RequestFits
<1>4. RequestsFit'
  BY <1>2, <1>3, RequestMoves
<1>5. OrdersFit' /\ CartsFit' /\ RestFits'
  BY <1>1, TablesStay
<1>6. Stepped(w, stage, r)
  BY <1>2, WorkerMoves
<1> QED BY <1>4, <1>5, <1>6 DEF TypeInv

LEMMA EndsTyped ==
  ASSUME TypeInv, UNCHANGED <<tables, started>>, NEW w \in Workers, Done(w)
  PROVE  TypeInv' /\ Stepped(w, "idle", NoReq)
<1>1. pc' = [pc EXCEPT ![w] = "idle"] /\ req' = [req EXCEPT ![w] = NoReq]
  BY DEF Done, Goto
<1>2. "idle" \in Stages /\ NoReq \in AnyRequest
  BY DEF Stages, AnyRequest
<1>3. RequestFits("idle", NoReq)
  BY DEF RequestFits, Editing, CheckingOut
<1> HIDE DEF NoReq
<1> QED BY <1>1, <1>2, <1>3, GoesOn

LEMMA ReadLinesTyped ==
  ASSUME TypeInv, NEW w \in Workers, ReadLines(w)
  PROVE  /\ TypeInv' /\ UNCHANGED tables /\ pc[w] = "lines" /\ req[w].kind # "checkout"
         /\ \E r : Stepped(w, "edit", r) /\ r.cart = req[w].cart /\ r.kind = req[w].kind
<1>0. pc[w] = "lines" /\ UNCHANGED <<tables, started>> /\ Goto(w, "edit")
  BY DEF ReadLines
<1>1. /\ req[w] \in EditRequest /\ req[w].kind # "checkout" /\ req[w].cart \in Ids(cart)
  BY <1>0, AtStage, EditRequestFields DEF TypeInv, Editing
<1>2. PICK i : i = req[w].cart
  OBVIOUS
<1>3. /\ cart[i].customer \in Customers
      /\ \A p \in Products : cart[i].item[p] # Absent => cart[i].item[p].qty \in Quantities
  <2>1. cart[i].customer \in Customers /\ cart[i].item \in Lines
    BY <1>1, <1>2, CartRows DEF TypeInv
  <2>2. \A x \in [qty : Quantities, price : Int] : x.qty \in Quantities
    OBVIOUS
  <2> QED BY <2>1, <2>2, LineFacts
<1>4. \A p \in Products, q \in Quantities :
        Price[cart[i].customer][p][q] \in Int \cup {OnRequest}
  <2>1. Price \in [Customers -> [Products -> [Quantities -> Int \cup {OnRequest}]]]
    BY CheckoutAssumption
  <2> QED BY <1>3, <2>1
<1> DEFINE S == {p \in Bought(i) :
                   Price[cart[i].customer][p][cart[i].item[p].qty]
                     \notin {OnRequest, cart[i].item[p].price}}
           t == [n \in 1..Len(SetToSeq(S)) |->
                   Reprice(SetToSeq(S)[n],
                           Price[cart[i].customer][SetToSeq(S)[n]][cart[i].item[SetToSeq(S)[n]].qty])]
<1>5. \A p \in S : Reprice(p, Price[cart[i].customer][p][cart[i].item[p].qty]) \in EditOf
  <2>1. \A p \in S : p \in Products /\ Price[cart[i].customer][p][cart[i].item[p].qty] \in Int
    BY <1>3, <1>4 DEF Bought
  <2> HIDE DEF S
  <2> QED BY <2>1 DEF Reprice, EditOf
<1>6. t \in Seq(EditOf)
  <2>1. DOMAIN t = 1..Len(SetToSeq(S)) /\ t = [n \in DOMAIN t |-> t[n]]
    OBVIOUS
  <2>2. S \in SUBSET Products
    BY DEF Bought
  <2>3. \A n \in DOMAIN t : SetToSeq(S)[n] \in S => t[n] \in EditOf
    <3> HIDE DEF S
    <3> QED BY <1>5
  <2> HIDE DEF S, t
  <2> QED BY <2>1, <2>2, <2>3, EditsOf
<1>7. req' = [req EXCEPT ![w].todo = t]
  BY <1>2 DEF ReadLines
<1> HIDE DEF S, t
<1>8. PICK r : r = [req[w] EXCEPT !.todo = t]
  OBVIOUS
<1>9. r \in EditRequest /\ r.cart = req[w].cart /\ r.kind = req[w].kind
  BY <1>1, <1>6, <1>8, EditRequestTodo
<1>10. pc' = [pc EXCEPT ![w] = "edit"] /\ req' = [req EXCEPT ![w] = r]
  BY <1>0, <1>7, <1>8 DEF Goto
<1>11. RequestFits("edit", r)
  BY <1>1, <1>9 DEF RequestFits, Editing, CheckingOut
<1>12. "edit" \in Stages /\ r \in AnyRequest
  BY <1>9 DEF Stages, Editing, AnyRequest
<1>13. TypeInv' /\ Stepped(w, "edit", r)
  BY <1>0, <1>10, <1>11, <1>12, GoesOn
<1> QED BY <1>0, <1>1, <1>9, <1>13

LEMMA EditTyped ==
  ASSUME TypeInv, NEW w \in Workers, Edit(w)
  PROVE  /\ TypeInv' /\ UNCHANGED <<list, order, redeemed, open, invoice, raced>>
         /\ pc[w] = "edit" /\ req[w].kind # "checkout" /\ req[w].cart \in Ids(cart)
         /\ \E stage \in {"idle", "edit"} : \E r :
              /\ Stepped(w, stage, r)
              /\ stage = "edit" => r.cart = req[w].cart /\ r.kind = req[w].kind
         /\ Ids(cart') = Ids(cart)
         /\ \A j \in Ids(cart) : cart'[j].status = cart[j].status
         /\ \A j \in Ids(cart) \ {req[w].cart} : cart'[j] = cart[j]
<1>0. pc[w] = "edit" /\ UNCHANGED <<list, order, redeemed, open, invoice, raced, started>>
  BY DEF Edit
<1>1. /\ req[w] \in EditRequest /\ req[w].kind # "checkout" /\ req[w].cart \in Ids(cart)
      /\ req[w].customer \in Customers /\ req[w].todo \in Seq(EditOf)
  BY <1>0, AtStage, EditRequestFields DEF TypeInv, Editing
<1>2. CASE req[w].todo = <<>> /\ Done(w) /\ UNCHANGED cart
  <2>1. UNCHANGED <<tables, started>>
    BY <1>0, <1>2 DEF tables
  <2>2. TypeInv' /\ Stepped(w, "idle", NoReq)
    BY <1>2, <2>1, EndsTyped
  <2> QED BY <1>0, <1>1, <1>2, <2>2
<1>3. CASE /\ req[w].todo # <<>>
           /\ cart' = Edited(req[w].customer, req[w].cart, Head(req[w].todo))
           /\ IF \/ Tail(req[w].todo) = <<>>
                 \/ Head(req[w].todo).do = "check" /\ ~CouponValid(Head(req[w].todo).code)
              THEN Done(w)
              ELSE req' = [req EXCEPT ![w].todo = Tail(req[w].todo)] /\ UNCHANGED pc
  <2>1. PICK t : t = req[w].todo
    OBVIOUS
  <2>2. Head(t) \in EditOf /\ Tail(t) \in Seq(EditOf)
    <3>1. t \in Seq(EditOf) /\ t # <<>>
      BY <1>1, <1>3, <2>1
    <3> HIDE DEF EditOf
    <3> QED BY <3>1, HeadTailProperties
  <2>3. PICK i : i = req[w].cart
    OBVIOUS
  <2>4. i \in Ids(cart) /\ CartsFit /\ cart' = Edited(req[w].customer, i, Head(t))
    BY <1>1, <1>3, <2>1, <2>3 DEF TypeInv
  <2>5. PICK x \in Cart : /\ x.customer = cart[i].customer /\ x.status = cart[i].status
                         /\ Edited(req[w].customer, i, Head(t)) = [cart EXCEPT ![i] = x]
    BY <1>1, <2>2, <2>4, EditedCart
  <2>6. cart' = [cart EXCEPT ![i] = x] /\ UNCHANGED raced
    BY <1>0, <2>4, <2>5
  <2>7. /\ CartsFit' /\ Ids(cart') = Ids(cart)
        /\ cart'[i] = x /\ \A j \in Ids(cart) \ {i} : cart'[j] = cart[j]
    BY <2>4, <2>5, <2>6, CartChanges
  <2>8. \A j \in Ids(cart) : cart'[j].status = cart[j].status
    BY <2>5, <2>7
  <2>9. RequestsFit /\ Ids(cart) \subseteq Ids(cart')
    BY <2>7 DEF TypeInv
  <2>11. ASSUME req' = [req EXCEPT ![w].todo = Tail(t)] /\ UNCHANGED pc
         PROVE  /\ RequestsFit'
                /\ \E r : Stepped(w, "edit", r) /\ r.cart = req[w].cart /\ r.kind = req[w].kind
    <3>1. PICK r : r = [req[w] EXCEPT !.todo = Tail(t)]
      OBVIOUS
    <3>2. r \in EditRequest /\ r.cart = req[w].cart /\ r.kind = req[w].kind
      BY <1>1, <2>2, <3>1, EditRequestTodo
    <3>3. pc' = [pc EXCEPT ![w] = "edit"] /\ req' = [req EXCEPT ![w] = r]
      BY <1>0, <2>9, <2>11, <3>1 DEF RequestsFit
    <3>4. RequestFits("edit", r)'
      BY <1>1, <2>9, <3>2 DEF RequestFits, Editing, CheckingOut
    <3>5. "edit" \in Stages /\ r \in AnyRequest
      BY <3>2 DEF Stages, Editing, AnyRequest
    <3>6. RequestsFit'
      BY <2>9, <3>3, <3>4, <3>5, RequestMoves
    <3>7. Stepped(w, "edit", r)
      BY <2>9, <3>3, WorkerMoves
    <3> QED BY <3>2, <3>6, <3>7
  <2>12. /\ RequestsFit'
         /\ \E stage \in {"idle", "edit"} : \E r :
              /\ Stepped(w, stage, r)
              /\ stage = "edit" => r.cart = req[w].cart /\ r.kind = req[w].kind
    <3>1. Done(w) \/ (req' = [req EXCEPT ![w].todo = Tail(t)] /\ UNCHANGED pc)
      BY <1>3, <2>1
    <3>2. CASE Done(w)
      <4>1. RequestsFit' /\ Stepped(w, "idle", NoReq)
        BY <2>9, <3>2, RequestEnds, WorkerMoves DEF Done, Goto
      <4> QED BY <4>1
    <3> QED BY <2>11, <3>1, <3>2
  <2>13. OrdersFit' /\ RestFits'
    <3>1. OrdersFit'
      BY <1>0, <2>9, OrdersStay DEF TypeInv
    <3> QED BY <1>0, <3>1 DEF RestFits, TypeInv
  <2> QED BY <1>0, <1>1, <2>3, <2>7, <2>8, <2>12, <2>13 DEF TypeInv
<1> QED BY <1>2, <1>3 DEF Edit

-----------------------------------------------------------------------------
(* The steps of a checkout.                                                *)

LEMMA ListCartItemsTyped ==
  ASSUME TypeInv, NEW w \in Workers, ListCartItems(w)
  PROVE  /\ TypeInv' /\ UNCHANGED tables /\ pc[w] = "items"
         /\ \/ Stepped(w, "idle", NoReq)
            \/ \E r \in CheckoutRequest :
                 Stepped(w, "promote", r) /\ r.cart = req[w].cart /\ r.line = cart[r.cart].item
<1>0. pc[w] = "items" /\ UNCHANGED <<tables, started>>
  BY DEF ListCartItems
<1>1. req[w] \in CheckoutRequest /\ req[w].cart \in Ids(cart)
  BY <1>0, AtStage DEF TypeInv, CheckingOut
<1>2. CASE Done(w)
  BY <1>0, <1>2, EndsTyped
<1>3. CASE req' = [req EXCEPT ![w].line = cart[req[w].cart].item] /\ Goto(w, "promote")
  <2>1. cart[req[w].cart].item \in Lines
    BY <1>1, CartRows DEF TypeInv
  <2>2. PICK r : r = [req[w] EXCEPT !.line = cart[req[w].cart].item]
    OBVIOUS
  <2>3. r \in CheckoutRequest /\ r.cart = req[w].cart /\ r.line = cart[r.cart].item
    BY <1>1, <2>1, <2>2, CheckoutLine
  <2>4. pc' = [pc EXCEPT ![w] = "promote"] /\ req' = [req EXCEPT ![w] = r]
    BY <1>3, <2>2 DEF Goto
  <2>5. RequestFits("promote", r)
    BY <1>1, <2>3 DEF RequestFits, Editing, CheckingOut
  <2>6. "promote" \in Stages /\ r \in AnyRequest
    BY <2>3 DEF Stages, CheckingOut, AnyRequest
  <2>7. TypeInv' /\ Stepped(w, "promote", r)
    BY <1>0, <2>4, <2>5, <2>6, GoesOn
  <2> QED BY <1>0, <2>3, <2>7
<1> QED BY <1>2, <1>3 DEF ListCartItems

\* A checkout's promotion needs no coupon or the one its cart carried, and was
\* under its cap as far as it could see.
Granted(r) ==
  r.promo # 0 => /\ PromoList[r.promo].code \in {Automatic, r.coupon}
                 /\ UnderCap(PromoList[r.promo], r.seen)

\* A document's lines and tax are its total, but for the discount and the shipping.
AddsUp(x) == x.grand + x.discount - x.shipping = Subtotal(x.line) + TaxOn(x.line)

\* A checkout fitted its budget as far as it could see.
Within(r) ==
  Budget[r.customer][r.cc] = NoBudget \/ Fits(r.spent, r.grand, Budget[r.customer][r.cc])

\* Request q is r, further on: the same cart, lines, coupon, customer and center.
Continues(q, r) ==
  q.cart = r.cart /\ q.line = r.line /\ q.coupon = r.coupon /\ q.customer = r.customer /\ q.cc = r.cc

LEMMA EvaluateTyped ==
  ASSUME TypeInv, NEW w \in Workers, EvaluatePromotion(w)
  PROVE  /\ TypeInv' /\ UNCHANGED tables /\ pc[w] = "promote"
         /\ \E r \in CheckoutRequest :
              Stepped(w, "budget", r) /\ Continues(r, req[w]) /\ Granted(r) /\ AddsUp(r)
<1>0. pc[w] = "promote" /\ UNCHANGED <<tables, started>>
  BY DEF EvaluatePromotion
<1>1. req[w] \in CheckoutRequest /\ req[w].cart \in Ids(cart)
  BY <1>0, AtStage DEF TypeInv, CheckingOut
<1>2. PICK r : r = req[w]
  OBVIOUS
<1>3. PICK s : s = Subtotal(r.line)
  OBVIOUS
<1>4. PICK i : i = Evaluate(PromoList, redeemed, open, s, r.coupon)
  OBVIOUS
<1>5. PICK d : d = IF i = 0 THEN 0 ELSE Discount(PromoList[i], s)
  OBVIOUS
<1>6. PICK n : n = IF i = 0 THEN 0 ELSE redeemed[i]
  OBVIOUS
<1>7. PICK g : g = s - d + TaxOn(r.line) + r.shipping
  OBVIOUS
<1>8. /\ r \in CheckoutRequest /\ s \in Int /\ TaxOn(r.line) \in Int /\ r.shipping \in Int
      /\ r.coupon \in Codes /\ r.line \in Lines
  <2>1. r \in CheckoutRequest /\ r.line \in Lines /\ r.shipping \in Shippings /\ r.coupon \in Codes
    BY <1>1, <1>2, CheckoutFields
  <2>2. s \in Int /\ TaxOn(r.line) \in Int
    BY <1>3, <2>1, AmountsInt
  <2>3. Shippings \subseteq Int
    BY CheckoutAssumption
  <2> QED BY <2>1, <2>2, <2>3
<1>9. open \subseteq Promos /\ redeemed \in [Promos -> Nat]
  BY DEF TypeInv, RestFits
<1>10. i = 0 \/ i \in Candidates(s, r.coupon)
  <2>1. LET best == Evaluate(PromoList, redeemed, open, s, r.coupon) IN
        IF Candidates(s, r.coupon) = {} THEN best = 0
        ELSE /\ best \in Candidates(s, r.coupon)
             /\ \A j \in Candidates(s, r.coupon) \ {best} : Ahead(best, j, s)
    BY <1>8, <1>9, EvaluateChooses
  <2> QED BY <1>4, <2>1
<1>11. i \in Promos \cup {0} /\ n \in Nat /\ d \in Nat
  <2>1. CASE i = 0
    BY <1>5, <1>6, <1>8, <2>1
  <2>2. CASE i # 0
    <3>1. i \in Promos /\ Discount(PromoList[i], s) > 0
      BY <1>9, <1>10, <2>2 DEF Candidates
    <3>2. Discount(PromoList[i], s) \in Int
      BY <1>8, <3>1, DiscountFits
    <3> QED BY <1>5, <1>6, <1>9, <2>2, <3>1, <3>2
  <2> QED BY <2>1, <2>2
<1>12. g \in Int /\ g + d - r.shipping = s + TaxOn(r.line)
  BY <1>7, <1>8, <1>11
<1>13. PICK q : q = [r EXCEPT !.promo = i, !.seen = n, !.discount = d, !.grand = g]
  OBVIOUS
<1>14. /\ q \in CheckoutRequest
       /\ q.cart = r.cart /\ q.line = r.line /\ q.coupon = r.coupon /\ q.customer = r.customer
       /\ q.shipping = r.shipping /\ q.cc = r.cc
       /\ q.promo = i /\ q.seen = n /\ q.discount = d /\ q.grand = g
  <2>1. Priced(r, q, i, n, d, g)
    BY <1>8, <1>11, <1>12, <1>13, CheckoutPriced
  <2> QED BY <2>1 DEF Priced
<1>15. Granted(q)
  <2> SUFFICES ASSUME i # 0
               PROVE  PromoList[i].code \in {Automatic, r.coupon} /\ UnderCap(PromoList[i], n)
    BY <1>14 DEF Granted
  <2>1. Eligible(PromoList[i], redeemed[i], s, r.coupon)
    BY <1>10 DEF Candidates
  <2> QED BY <1>6, <2>1 DEF Eligible
<1>16. AddsUp(q)
  BY <1>3, <1>12, <1>14 DEF AddsUp
<1>17. pc' = [pc EXCEPT ![w] = "budget"] /\ req' = [req EXCEPT ![w] = q]
  <2>1. pc' = [pc EXCEPT ![w] = "budget"]
    BY DEF EvaluatePromotion, Goto
  <2>2. req' = [req EXCEPT ![w] = [r EXCEPT !.promo = i, !.seen = n, !.discount = d, !.grand = g]]
    BY <1>2, <1>3, <1>4, <1>5, <1>6, <1>7, Zenon DEF EvaluatePromotion
  <2> QED BY <1>13, <2>1, <2>2
<1>18. RequestFits("budget", q)
  BY <1>1, <1>2, <1>14 DEF RequestFits, Editing, CheckingOut
<1>19. "budget" \in Stages /\ q \in AnyRequest
  BY <1>14 DEF Stages, CheckingOut, AnyRequest
<1>20. TypeInv' /\ Stepped(w, "budget", q)
  BY <1>0, <1>17, <1>18, <1>19, GoesOn
<1> QED BY <1>0, <1>2, <1>14, <1>15, <1>16, <1>20 DEF Continues

LEMMA SpendInt ==
  ASSUME OrdersFit, NEW c, NEW cc
  PROVE  Spend(c, cc) \in Int
<1> DEFINE f == [o \in Ids(order) |-> IF Stands(o, c, cc) THEN order[o].grand ELSE 0]
<1>1. f \in [Ids(order) -> Int] /\ IsFiniteSet(Ids(order))
  BY OrderRows
<1>2. SumOf(f) \in Int
  <2> HIDE DEF f
  <2> QED BY <1>1, SumInt
<1> QED BY <1>2 DEF Spend

LEMMA CheckBudgetTyped ==
  ASSUME TypeInv, NEW w \in Workers, CheckBudget(w)
  PROVE  /\ TypeInv' /\ UNCHANGED tables /\ pc[w] = "budget"
         /\ \/ Stepped(w, "idle", NoReq)
            \/ \E r \in CheckoutRequest :
                 /\ Stepped(w, "commit", r) /\ Continues(r, req[w]) /\ Within(r)
                 /\ Granted(req[w]) => Granted(r)
                 /\ AddsUp(req[w]) => AddsUp(r)
<1>0. pc[w] = "budget" /\ UNCHANGED <<tables, started>>
  BY DEF CheckBudget
<1>1. req[w] \in CheckoutRequest /\ req[w].cart \in Ids(cart)
  BY <1>0, AtStage DEF TypeInv, CheckingOut
<1>2. PICK r : r = req[w]
  OBVIOUS
<1>3. PICK s : s = Spend(r.customer, r.cc)
  OBVIOUS
<1>4. s \in Int
  BY <1>3, SpendInt DEF TypeInv
<1>5. CASE Done(w)
  BY <1>0, <1>5, EndsTyped
<1>6. CASE /\ Budget[r.customer][r.cc] = NoBudget \/ Fits(s, r.grand, Budget[r.customer][r.cc])
           /\ req' = [req EXCEPT ![w].spent = s] /\ Goto(w, "commit")
  <2>1. PICK q : q = [r EXCEPT !.spent = s]
    OBVIOUS
  <2>2. Budgeted(r, q, s)
    BY <1>1, <1>2, <1>4, <2>1, CheckoutBudgeted
  <2>3. pc' = [pc EXCEPT ![w] = "commit"] /\ req' = [req EXCEPT ![w] = q]
    BY <1>2, <1>6, <2>1 DEF Goto
  <2>4. RequestFits("commit", q)
    BY <1>1, <1>2, <2>2 DEF RequestFits, Editing, CheckingOut, Budgeted
  <2>5. "commit" \in Stages /\ q \in AnyRequest
    BY <2>2 DEF Stages, CheckingOut, AnyRequest, Budgeted
  <2>6. TypeInv' /\ Stepped(w, "commit", q)
    BY <1>0, <2>3, <2>4, <2>5, GoesOn
  <2>7. Within(q) /\ (Granted(r) => Granted(q)) /\ (AddsUp(r) => AddsUp(q)) /\ Continues(q, r)
    BY <1>6, <2>2 DEF Within, Granted, AddsUp, Continues, Budgeted
  <2>8. q \in CheckoutRequest
    BY <2>2 DEF Budgeted
  <2> QED BY <1>0, <1>2, <2>6, <2>7, <2>8
<1> QED BY <1>2, <1>3, <1>5, <1>6 DEF CheckBudget

\* The row that a checkout with request r writes.
RowFrom(row, r) ==
  /\ row.cart = r.cart /\ row.line = r.line /\ row.customer = r.customer /\ row.cc = r.cc
  /\ row.promo = r.promo /\ row.discount = r.discount /\ row.shipping = r.shipping
  /\ row.grand = r.grand /\ row.status = "pending"
  /\ row.promo # 0 => row.code = r.coupon
  /\ row.promo # 0 /\ ~row.lateCap => redeemed[row.promo] = r.seen
  /\ ~row.lateSpend => Spend(r.customer, r.cc) = r.spent

LEMMA PlaceOrderTyped ==
  ASSUME TypeInv, NEW w \in Workers, PlaceOrder(w)
  PROVE  /\ TypeInv' /\ UNCHANGED <<list, open, invoice, raced>>
         /\ pc[w] = "commit" /\ req[w] \in CheckoutRequest /\ req[w].cart \in Ids(cart)
         /\ Stepped(w, "idle", NoReq)
         /\ \E row \in OrderRow :
              RowFrom(row, req[w]) /\ RowAdded(OrderRow, order, row, order')
         /\ redeemed' = IF req[w].promo = 0 THEN redeemed
                        ELSE [redeemed EXCEPT ![req[w].promo] = redeemed[req[w].promo] + 1]
         /\ Ids(cart') = Ids(cart)
         /\ cart'[req[w].cart].status = "converted"
         /\ cart'[req[w].cart].item = cart[req[w].cart].item
         /\ \A j \in Ids(cart) \ {req[w].cart} : cart'[j] = cart[j]
<1>0. /\ pc[w] = "commit" /\ UNCHANGED <<list, open, invoice, raced, started>> /\ Done(w)
      /\ redeemed' = IF req[w].promo = 0 THEN redeemed
                     ELSE [redeemed EXCEPT ![req[w].promo] = redeemed[req[w].promo] + 1]
  BY DEF PlaceOrder, Increment
<1>1. req[w] \in CheckoutRequest /\ req[w].cart \in Ids(cart)
  BY <1>0, AtStage DEF TypeInv, CheckingOut
<1>2. PICK r : r = req[w]
  OBVIOUS
<1>3. /\ r \in CheckoutRequest /\ r.cart \in Ids(cart) /\ r.cart \in Nat /\ r.customer \in Customers
      /\ r.line \in Lines /\ r.cc \in CostCenters /\ r.promo \in Promos \cup {0}
      /\ r.discount \in Nat /\ r.shipping \in Int /\ r.grand \in Int /\ r.coupon \in Codes
  <2>1. Shippings \subseteq Int
    BY CheckoutAssumption
  <2> QED BY <1>1, <1>2, <2>1, CheckoutFields
<1>4. PICK row : row = [customer |-> r.customer, cart |-> r.cart, line |-> r.line, cc |-> r.cc,
                        promo |-> r.promo, discount |-> r.discount,
                        code |-> IF r.promo = 0 THEN NoCode ELSE r.coupon,
                        tax |-> TaxOn(r.line), shipping |-> r.shipping, grand |-> r.grand,
                        status |-> "pending",
                        lateCap |-> r.promo # 0 /\ redeemed[r.promo] # r.seen,
                        lateSpend |-> Spend(r.customer, r.cc) # r.spent]
  OBVIOUS
<1>5. row \in OrderRow
  <2>1. TaxOn(r.line) \in Int
    BY <1>3, AmountsInt
  <2>2. (IF r.promo = 0 THEN NoCode ELSE r.coupon) \in Codes
    BY <1>3 DEF Codes
  <2>3. (r.promo # 0 /\ redeemed[r.promo] # r.seen) \in BOOLEAN
    OBVIOUS
  <2>4. (Spend(r.customer, r.cc) # r.spent) \in BOOLEAN
    OBVIOUS
  <2>5. PICK b, c, d : /\ b = (r.promo # 0 /\ redeemed[r.promo] # r.seen)
                       /\ c = (Spend(r.customer, r.cc) # r.spent)
                       /\ d = IF r.promo = 0 THEN NoCode ELSE r.coupon
    OBVIOUS
  <2>6. b \in BOOLEAN /\ c \in BOOLEAN /\ d \in Codes
    BY <2>2, <2>3, <2>4, <2>5
  <2>7. row = [customer |-> r.customer, cart |-> r.cart, line |-> r.line, cc |-> r.cc,
               promo |-> r.promo, discount |-> r.discount, code |-> d,
               tax |-> TaxOn(r.line), shipping |-> r.shipping, grand |-> r.grand,
               status |-> "pending", lateCap |-> b, lateSpend |-> c]
    BY <1>4, <2>5
  <2> QED BY <1>3, <2>1, <2>6, <2>7 DEF OrderRow
<1>6. RowFrom(row, r)
  BY <1>4 DEF RowFrom
<1>7. order' = Append(order, row)
  BY <1>2, <1>4, Zenon DEF PlaceOrder
<1>8. RowAdded(OrderRow, order, row, order')
  <2>1. PICK u : u = order'
    OBVIOUS
  <2>2. order \in Seq(OrderRow) /\ u = Append(order, row)
    BY <1>7, <2>1 DEF TypeInv, OrdersFit
  <2>3. RowAdded(OrderRow, order, row, u)
    BY <1>5, <2>2, AddRow
  <2> QED BY <2>1, <2>3
<1>9. PICK i : i = r.cart
  OBVIOUS
<1>10. /\ cart' \in Seq(Cart) /\ Ids(cart') = Ids(cart)
       /\ cart'[i].status = "converted" /\ cart'[i].item = cart[i].item
       /\ \A j \in Ids(cart) \ {i} : cart'[j] = cart[j]
  <2>1. PICK x : x = [cart[i] EXCEPT !.status = "converted"]
    OBVIOUS
  <2>2. i \in Ids(cart) /\ cart[i] \in Cart /\ cart \in Seq(Cart)
    BY <1>3, <1>9, CartRows DEF TypeInv, CartsFit
  <2>3. x \in Cart /\ x.status = "converted" /\ x.item = cart[i].item
    BY <2>1, <2>2 DEF Cart
  <2>4. PICK u : u = cart'
    OBVIOUS
  <2>5. u = [cart EXCEPT ![i] = x]
    BY <1>2, <1>9, <2>1, <2>4 DEF PlaceOrder, Convert
  <2>6. RowSet(Cart, cart, i, x, u)
    BY <2>2, <2>3, <2>5, SetRow
  <2> QED BY <2>3, <2>4, <2>6 DEF RowSet
<1>11. RequestsFit' /\ Stepped(w, "idle", NoReq)
  <2>1. RequestsFit /\ Ids(cart) \subseteq Ids(cart')
    BY <1>10 DEF TypeInv
  <2>2. RequestsFit'
    BY <1>0, <2>1, RequestEnds
  <2>3. Stepped(w, "idle", NoReq)
    BY <1>0, <2>1, WorkerMoves DEF Done, Goto
  <2> QED BY <2>2, <2>3
<1>12. CartsFit'
  <2>1. OneActive'
    <3>1. OneActive
      BY DEF TypeInv, CartsFit
    <3>2. \A j \in Ids(cart') : cart'[j].status = "active" => j \in Ids(cart) \ {i} /\ cart'[j] = cart[j]
      BY <1>10
    <3> QED BY <3>1, <3>2 DEF OneActive
  <2> QED BY <1>0, <1>10, <2>1 DEF CartsFit, TypeInv
<1>13. OrdersFit'
  <2>1. /\ Ids(order') = Ids(order) \cup {Len(order) + 1}
        /\ order'[Len(order) + 1] = row /\ order' \in Seq(OrderRow)
        /\ \A o \in Ids(order) : order'[o] = order[o]
    BY <1>8 DEF RowAdded
  <2>2. row.cart \in Ids(cart)
    BY <1>3, <1>6 DEF RowFrom
  <2>3. \A o \in Ids(order') : order'[o].cart \in Ids(cart') \cup {0}
    BY <1>10, <2>1, <2>2 DEF TypeInv, OrdersFit
  <2>4. invoice' \in Seq(InvoiceRow) /\ \A n \in Ids(invoice') : invoice'[n].order \in Ids(order')
    BY <1>0, <2>1 DEF TypeInv, OrdersFit
  <2> QED BY <2>1, <2>3, <2>4 DEF OrdersFit
<1>14. RestFits'
  <2>1. redeemed' \in [Promos -> Nat]
    <3>1. redeemed \in [Promos -> Nat]
      BY DEF TypeInv, RestFits
    <3>2. r.promo # 0 => redeemed[r.promo] + 1 \in Nat
      BY <1>3, <3>1
    <3> QED BY <1>0, <1>2, <3>1, <3>2
  <2> QED BY <1>0, <2>1 DEF TypeInv, RestFits
<1> QED BY <1>0, <1>1, <1>2, <1>5, <1>6, <1>8, <1>9, <1>10, <1>11, <1>12, <1>13, <1>14 DEF TypeInv

LEMMA FailTyped ==
  ASSUME TypeInv, NEW w \in Workers, Fail(w)
  PROVE  TypeInv' /\ UNCHANGED tables /\ Stepped(w, "idle", NoReq)
<1>1. UNCHANGED <<tables, started>> /\ Done(w)
  BY DEF Fail
<1> QED BY <1>1, EndsTyped

-----------------------------------------------------------------------------
(* Lists, admins and invoices.                                             *)

\* What every such change leaves alone.
OtherwiseTyped == UNCHANGED <<cart, raced, pc, req>> /\ started' \in Nat

LEMMA ChangeTyped ==
  ASSUME TypeInv, OtherwiseTyped
  PROVE  CartsFit' /\ RequestsFit'
<1>1. UNCHANGED <<cart, raced, pc, req>>
  BY DEF OtherwiseTyped
<1>2. CartsFit'
  BY <1>1, CartsStay DEF TypeInv
<1>3. RequestsFit'
  BY <1>1, RequestsStay DEF TypeInv
<1> QED BY <1>2, <1>3

LEMMA SetListTyped ==
  ASSUME TypeInv, AddListItem \/ UpdateListItem \/ RemoveListItem
  PROVE  TypeInv' /\ UNCHANGED <<cart, order, redeemed, open, invoice, raced, pc, req>>
<1>1. PICK c \in Customers, p \in Products, q \in Quantities \cup {Absent} : SetList(c, p, q)
  <2>1. CASE AddListItem
    BY <2>1 DEF AddListItem
  <2>2. CASE UpdateListItem
    BY <2>2 DEF UpdateListItem
  <2>3. CASE RemoveListItem
    BY <2>3 DEF RemoveListItem
  <2> QED BY <2>1, <2>2, <2>3
<1>2. /\ UNCHANGED <<cart, order, redeemed, open, invoice, raced, pc, req>>
      /\ started' \in Nat /\ list' = [list EXCEPT ![c][p] = q]
  BY <1>1 DEF SetList, Change, TypeInv, RestFits
<1>3. list' \in [Customers -> [Products -> Quantities \cup {Absent}]]
  <2> DEFINE Q == Quantities \cup {Absent}
  <2>1. list \in [Customers -> [Products -> Q]] /\ q \in Q
    BY DEF TypeInv, RestFits
  <2> HIDE DEF Q
  <2>2. [list[c] EXCEPT ![p] = q] \in [Products -> Q]
    BY <2>1
  <2>3. list' = [list EXCEPT ![c] = [list[c] EXCEPT ![p] = q]]
    BY <1>2
  <2>4. list' \in [Customers -> [Products -> Q]]
    BY <2>1, <2>2, <2>3
  <2> QED BY <2>4 DEF Q
<1>4. OrdersFit'
  BY <1>2, OrdersStay DEF TypeInv
<1>5. RestFits'
  BY <1>2, <1>3 DEF RestFits, TypeInv
<1>6. CartsFit' /\ RequestsFit'
  BY <1>2, ChangeTyped DEF OtherwiseTyped
<1> QED BY <1>2, <1>4, <1>5, <1>6 DEF TypeInv

LEMMA OnBehalfTyped ==
  ASSUME TypeInv, OrderOnBehalf
  PROVE  /\ TypeInv' /\ UNCHANGED <<cart, redeemed, open, invoice, raced, pc, req>>
         /\ \E row \in OrderRow :
              /\ row.cart = 0 /\ row.promo = 0 /\ AddsUp(row)
              /\ RowAdded(OrderRow, order, row, order')
<1>1. /\ UNCHANGED <<cart, list, redeemed, open, invoice, raced, pc, req>>
      /\ started' \in Nat
  <2>1. UNCHANGED <<cart, list, redeemed, open, invoice>> /\ Change("onBehalf")
    BY Zenon DEF OrderOnBehalf
  <2> QED BY <2>1 DEF Change, TypeInv, RestFits
<1>2. PICK c \in Customers, p \in Products, q \in Quantities :
        LET lines == [r \in Products |-> IF r = p THEN [qty |-> q, price |-> 1] ELSE Absent] IN
        order' = Append(order,
           [customer |-> c, cart |-> 0, line |-> lines, cc |-> "", promo |-> 0,
            code |-> NoCode, discount |-> 0, tax |-> TaxOn(lines), shipping |-> 0,
            grand |-> Subtotal(lines) + TaxOn(lines), status |-> "pending",
            lateCap |-> FALSE, lateSpend |-> FALSE])
  BY DEF OrderOnBehalf
<1>3. PICK lines : lines = [r \in Products |-> IF r = p THEN [qty |-> q, price |-> 1] ELSE Absent]
  OBVIOUS
<1>4. PICK t, s : t = TaxOn(lines) /\ s = Subtotal(lines)
  OBVIOUS
<1>5. lines \in Lines /\ t \in Int /\ s \in Int
  <2>1. [qty |-> q, price |-> 1] \in Line /\ Absent \in Line
    BY EmptyIsLines DEF Line
  <2>2. lines \in Lines
    BY <1>3, <2>1 DEF Lines
  <2> QED BY <1>4, <2>2, AmountsInt
<1>6. PICK row : row = [customer |-> c, cart |-> 0, line |-> lines, cc |-> "", promo |-> 0,
                        code |-> NoCode, discount |-> 0, tax |-> t, shipping |-> 0,
                        grand |-> s + t, status |-> "pending",
                        lateCap |-> FALSE, lateSpend |-> FALSE]
  OBVIOUS
<1>7. row \in OrderRow
  <2>1. "" \in CostCenters /\ NoCode \in Codes /\ s + t \in Int
    <3>1. "" \in CostCenters
      BY CheckoutAssumption
    <3>2. NoCode \in Codes
      BY DEF Codes
    <3>3. s + t \in Int
      BY <1>5
    <3> QED BY <3>1, <3>2, <3>3
  <2>2. PICK z : z = 0
    OBVIOUS
  <2>3. PICK g, e : g = s + t /\ e = ""
    OBVIOUS
  <2>4. PICK b : b = FALSE
    OBVIOUS
  <2>5. row = [customer |-> c, cart |-> z, line |-> lines, cc |-> e, promo |-> z,
               code |-> NoCode, discount |-> z, tax |-> t, shipping |-> z,
               grand |-> g, status |-> "pending", lateCap |-> b, lateSpend |-> b]
    BY <1>6, <2>2, <2>3, <2>4
  <2>6. g \in Int /\ z \in Nat /\ z \in Int /\ z \in Promos \cup {0}
    <3>1. g \in Int
      BY <2>1, <2>3
    <3>2. z \in Nat /\ z \in Int
      BY <2>2
    <3>3. z \in Promos \cup {0}
      BY <2>2, Zenon
    <3> QED BY <3>1, <3>2, <3>3
  <2>7. e \in CostCenters
    BY <2>1, <2>3
  <2>8. b \in BOOLEAN
    BY <2>4
  <2> QED BY <1>5, <2>1, <2>5, <2>6, <2>7, <2>8 DEF OrderRow
<1>8. row.cart = 0 /\ row.promo = 0 /\ AddsUp(row)
  <2>1. /\ row.cart = 0 /\ row.promo = 0 /\ row.grand = s + t /\ row.discount = 0
        /\ row.shipping = 0 /\ row.line = lines
    BY <1>6
  <2>2. (s + t) + 0 - 0 = s + t
    BY <1>5
  <2> QED BY <1>4, <2>1, <2>2 DEF AddsUp
<1>9. RowAdded(OrderRow, order, row, order')
  <2>1. PICK u : u = order'
    OBVIOUS
  <2>2. order \in Seq(OrderRow) /\ u = Append(order, row)
    BY <1>2, <1>3, <1>4, <1>6, <2>1 DEF TypeInv, OrdersFit
  <2>3. RowAdded(OrderRow, order, row, u)
    BY <1>7, <2>2, AddRow
  <2> QED BY <2>1, <2>3
<1>10. OrdersFit'
  <2>1. /\ Ids(order') = Ids(order) \cup {Len(order) + 1}
        /\ order'[Len(order) + 1] = row /\ order' \in Seq(OrderRow)
        /\ \A o \in Ids(order) : order'[o] = order[o]
    BY <1>9 DEF RowAdded
  <2>2. \A o \in Ids(order') : order'[o].cart \in Ids(cart') \cup {0}
    BY <1>1, <1>8, <2>1 DEF TypeInv, OrdersFit
  <2>3. invoice' \in Seq(InvoiceRow) /\ \A n \in Ids(invoice') : invoice'[n].order \in Ids(order')
    BY <1>1, <2>1 DEF TypeInv, OrdersFit
  <2> QED BY <2>1, <2>2, <2>3 DEF OrdersFit
<1>11. RestFits'
  BY <1>1 DEF RestFits, TypeInv
<1>12. CartsFit' /\ RequestsFit'
  BY <1>1, ChangeTyped DEF OtherwiseTyped
<1> QED BY <1>1, <1>7, <1>8, <1>9, <1>10, <1>11, <1>12 DEF TypeInv

\* Row x is order row y, cancelled or standing again.
MovedFrom(x, y) ==
  /\ \/ x.status = "cancelled" /\ x.lateSpend = y.lateSpend
     \/ x.status = "pending" /\ x.lateSpend
  /\ x.cart = y.cart /\ x.line = y.line /\ x.promo = y.promo /\ x.code = y.code
  /\ x.grand = y.grand /\ x.discount = y.discount /\ x.shipping = y.shipping
  /\ x.lateCap = y.lateCap /\ x.customer = y.customer /\ x.cc = y.cc

MoveOrder == CancelOrder \/ ReviveOrder

LEMMA MoveTyped ==
  ASSUME TypeInv, MoveOrder
  PROVE  /\ TypeInv' /\ UNCHANGED <<cart, redeemed, open, invoice, raced, pc, req>>
         /\ \E o \in Ids(order), x \in OrderRow :
              MovedFrom(x, order[o]) /\ RowSet(OrderRow, order, o, x, order')
<1>1. /\ UNCHANGED <<cart, list, redeemed, open, invoice, raced, pc, req>>
      /\ started' \in Nat
  BY DEF MoveOrder, CancelOrder, ReviveOrder, Change, TypeInv, RestFits
<1>2. PICK o \in Ids(order) :
        \/ order' = [order EXCEPT ![o].status = "cancelled"]
        \/ order' = [order EXCEPT ![o].status = "pending", ![o].lateSpend = TRUE]
  BY DEF MoveOrder, CancelOrder, ReviveOrder
<1>3. order[o] \in OrderRow /\ order \in Seq(OrderRow)
  BY OrderRows DEF TypeInv, OrdersFit
<1>4. PICK x : /\ order' = [order EXCEPT ![o] = x]
               /\ \/ x = [order[o] EXCEPT !.status = "cancelled"]
                  \/ x = [order[o] EXCEPT !.status = "pending", !.lateSpend = TRUE]
  <2>1. CASE order' = [order EXCEPT ![o].status = "cancelled"]
    <3>1. order' = [order EXCEPT ![o] = [order[o] EXCEPT !.status = "cancelled"]]
      BY <2>1
    <3> QED BY <3>1
  <2>2. CASE order' = [order EXCEPT ![o].status = "pending", ![o].lateSpend = TRUE]
    <3>1. order' = [order EXCEPT ![o] = [order[o] EXCEPT !.status = "pending", !.lateSpend = TRUE]]
      BY <1>3, <2>2
    <3> QED BY <3>1
  <2> QED BY <1>2, <2>1, <2>2
<1>5. x \in OrderRow /\ MovedFrom(x, order[o])
  BY <1>3, <1>4 DEF OrderRow, MovedFrom
<1>6. RowSet(OrderRow, order, o, x, order')
  <2>1. PICK u : u = order'
    OBVIOUS
  <2>2. u = [order EXCEPT ![o] = x]
    BY <1>4, <2>1
  <2>3. RowSet(OrderRow, order, o, x, u)
    BY <1>3, <1>5, <2>2, SetRow
  <2> QED BY <2>1, <2>3
<1>7. OrdersFit'
  <2>1. /\ Ids(order') = Ids(order) /\ order'[o] = x /\ order' \in Seq(OrderRow)
        /\ \A n \in Ids(order) \ {o} : order'[n] = order[n]
    BY <1>6 DEF RowSet
  <2>2. \A n \in Ids(order') : order'[n].cart \in Ids(cart') \cup {0}
    BY <1>1, <1>5, <2>1 DEF TypeInv, OrdersFit, MovedFrom
  <2>3. invoice' \in Seq(InvoiceRow) /\ \A n \in Ids(invoice') : invoice'[n].order \in Ids(order')
    BY <1>1, <2>1 DEF TypeInv, OrdersFit
  <2> QED BY <2>1, <2>2, <2>3 DEF OrdersFit
<1>8. RestFits'
  BY <1>1 DEF RestFits, TypeInv
<1>9. CartsFit' /\ RequestsFit'
  BY <1>1, ChangeTyped DEF OtherwiseTyped
<1> QED BY <1>1, <1>5, <1>6, <1>7, <1>8, <1>9 DEF TypeInv

LEMMA SwitchTyped ==
  ASSUME TypeInv, SwitchPromotion
  PROVE  TypeInv' /\ UNCHANGED <<cart, order, redeemed, invoice, raced, pc, req>>
<1>1. /\ UNCHANGED <<cart, list, order, redeemed, invoice, raced, pc, req>>
      /\ started' \in Nat /\ open' \subseteq Promos
  BY DEF SwitchPromotion, Change, TypeInv, RestFits
<1>2. OrdersFit'
  BY <1>1, OrdersStay DEF TypeInv
<1>3. RestFits'
  BY <1>1 DEF RestFits, TypeInv
<1>4. CartsFit' /\ RequestsFit'
  BY <1>1, ChangeTyped DEF OtherwiseTyped
<1> QED BY <1>1, <1>2, <1>3, <1>4 DEF TypeInv

LEMMA InvoiceTyped ==
  ASSUME TypeInv, IssueInvoice
  PROVE  /\ TypeInv' /\ UNCHANGED <<cart, order, redeemed, open, raced, pc, req>>
         /\ \E o \in Ids(order), x \in InvoiceRow :
              /\ x.order = o /\ x.total = Billed(o)
              /\ RowAdded(InvoiceRow, invoice, x, invoice')
<1>1. /\ UNCHANGED <<cart, list, order, redeemed, open, raced, pc, req>>
      /\ started' \in Nat
  BY DEF IssueInvoice, Change, TypeInv, RestFits
<1>2. PICK o \in Ids(order) : invoice' = Append(invoice, [order |-> o, total |-> Billed(o)])
  BY DEF IssueInvoice
<1>3. PICK b : b = Billed(o)
  OBVIOUS
<1>4. PICK x : x = [order |-> o, total |-> b]
  OBVIOUS
<1>5. o \in Nat /\ b \in Int
  <2>1. o \in Nat /\ order[o].line \in Lines
    BY OrderRows DEF TypeInv
  <2>2. Subtotal(order[o].line) \in Int /\ TaxOn(order[o].line) \in Int
    BY <2>1, AmountsInt
  <2> QED BY <1>3, <2>1, <2>2 DEF Billed
<1>6. x \in InvoiceRow /\ x.order = o /\ x.total = b
  BY <1>4, <1>5 DEF InvoiceRow
<1>7. RowAdded(InvoiceRow, invoice, x, invoice')
  <2>1. PICK u : u = invoice'
    OBVIOUS
  <2>2. invoice \in Seq(InvoiceRow) /\ u = Append(invoice, x)
    BY <1>2, <1>3, <1>4, <2>1 DEF TypeInv, OrdersFit
  <2>3. RowAdded(InvoiceRow, invoice, x, u)
    BY <1>6, <2>2, AddRow
  <2> QED BY <2>1, <2>3
<1>8. OrdersFit'
  <2>1. /\ Ids(invoice') = Ids(invoice) \cup {Len(invoice) + 1}
        /\ invoice'[Len(invoice) + 1] = x /\ invoice' \in Seq(InvoiceRow)
        /\ \A n \in Ids(invoice) : invoice'[n] = invoice[n]
    BY <1>7 DEF RowAdded
  <2>2. \A n \in Ids(invoice') : invoice'[n].order \in Ids(order')
    BY <1>1, <1>6, <2>1 DEF TypeInv, OrdersFit
  <2>3. order' \in Seq(OrderRow) /\ \A n \in Ids(order') : order'[n].cart \in Ids(cart') \cup {0}
    BY <1>1 DEF TypeInv, OrdersFit
  <2> QED BY <2>1, <2>2, <2>3 DEF OrdersFit
<1>9. RestFits'
  BY <1>1 DEF RestFits, TypeInv
<1>10. CartsFit' /\ RequestsFit'
  BY <1>1, ChangeTyped DEF OtherwiseTyped
<1> QED BY <1>1, <1>3, <1>6, <1>7, <1>8, <1>9, <1>10 DEF TypeInv

-----------------------------------------------------------------------------
(* Carts: who holds one, and what became of it.                            *)

Holding == CheckingOut \cup {"lines", "edit"}

\* No other request holds w's cart, unless neither of the two is a checkout.
Alone(w) ==
  \A v \in Workers \ {w} :
    pc[v] \in Holding /\ req[v].cart = req[w].cart =>
      req[v].kind # "checkout" /\ req[w].kind # "checkout"

\* A cart that no checkout shared is active as long as a request holds it, and
\* a checkout's lines are the cart's.
HoldsWell(w) ==
  pc[w] \in Holding /\ req[w].cart \notin raced =>
    /\ cart[req[w].cart].status = "active"
    /\ Alone(w)
    /\ pc[w] \in {"promote", "budget", "commit"} => req[w].line = cart[req[w].cart].item

HoldInv == \A w \in Workers : HoldsWell(w)

\* The others' carts are as active as they were, and a checkout's as it read them.
OthersKeep(w) ==
  \A v \in Workers \ {w} :
    pc[v] \in Holding /\ req[v].cart \notin raced' =>
      /\ cart'[req[v].cart].status = cart[req[v].cart].status
      /\ pc[v] \in {"promote", "budget", "commit"} =>
           cart'[req[v].cart].item = cart[req[v].cart].item

\* No other request holds cart i, unless neither it nor one of this kind is a checkout.
FreeFor(w, i, kind) ==
  \A v \in Workers \ {w} :
    pc[v] \in Holding /\ req[v].cart = i => req[v].kind # "checkout" /\ kind # "checkout"

\* The same, of the one that moved: r at its new stage.
HoldsWellAt(w, stage, r) ==
  stage \in Holding /\ r.cart \notin raced' =>
    /\ cart'[r.cart].status = "active"
    /\ FreeFor(w, r.cart, r.kind)
    /\ stage \in {"promote", "budget", "commit"} => r.line = cart'[r.cart].item

LEMMA HoldStep ==
  ASSUME HoldInv, raced \subseteq raced', NEW w \in Workers, NEW stage, NEW r,
         Stepped(w, stage, r), OthersKeep(w), HoldsWellAt(w, stage, r)
  PROVE  HoldInv'
<1>1. HoldsWell(w)'
  <2>1. pc'[w] = stage /\ req'[w] = r /\ \A v \in Workers \ {w} : pc'[v] = pc[v] /\ req'[v] = req[v]
    BY DEF Stepped
  <2> QED BY <2>1 DEF HoldsWell, HoldsWellAt, FreeFor, Alone
<1>2. ASSUME NEW v \in Workers \ {w} PROVE HoldsWell(v)'
  <2>1. pc'[w] = stage /\ req'[w] = r /\ \A u \in Workers \ {w} : pc'[u] = pc[u] /\ req'[u] = req[u]
    BY DEF Stepped
  <2> SUFFICES ASSUME pc[v] \in Holding, req[v].cart \notin raced'
               PROVE  /\ cart'[req[v].cart].status = "active"
                      /\ Alone(v)'
                      /\ pc[v] \in {"promote", "budget", "commit"} =>
                           req[v].line = cart'[req[v].cart].item
    BY <2>1 DEF HoldsWell
  <2>2. HoldsWell(v) /\ req[v].cart \notin raced
    BY DEF HoldInv
  <2>3. /\ cart'[req[v].cart].status = "active"
        /\ pc[v] \in {"promote", "budget", "commit"} => req[v].line = cart'[req[v].cart].item
    BY <2>2 DEF OthersKeep, HoldsWell
  <2>4. ASSUME NEW u \in Workers \ {v}, pc'[u] \in Holding, req'[u].cart = req[v].cart
        PROVE  req'[u].kind # "checkout" /\ req[v].kind # "checkout"
    <3>1. CASE u = w
      BY <2>1, <2>4, <3>1 DEF HoldsWellAt, FreeFor
    <3>2. CASE u # w
      BY <2>1, <2>2, <2>4, <3>2 DEF HoldsWell, Alone
    <3> QED BY <3>1, <3>2
  <2>5. Alone(v)'
    BY <2>1, <2>4 DEF Alone
  <2> QED BY <2>3, <2>5
<1> QED BY <1>1, <1>2 DEF HoldInv

(* A request that leaves every cart alone.                                 *)
LEMMA OthersStay ==
  ASSUME NEW w, UNCHANGED cart
  PROVE  OthersKeep(w)
BY DEF OthersKeep

LEMMA HoldEnds ==
  ASSUME HoldInv, NEW w \in Workers, UNCHANGED <<cart, raced>>, Stepped(w, "idle", NoReq)
  PROVE  HoldInv'
<1>1. HoldsWellAt(w, "idle", NoReq)
  BY DEF HoldsWellAt, Holding, CheckingOut
<1>2. OthersKeep(w) /\ raced \subseteq raced'
  BY OthersStay
<1> HIDE DEF NoReq
<1> QED BY <1>1, <1>2, HoldStep

(* A request that goes on with the cart it holds.                          *)
LEMMA HoldGoesOn ==
  ASSUME HoldInv, NEW w \in Workers, UNCHANGED <<cart, raced>>, pc[w] \in Holding,
         NEW stage, NEW r, Stepped(w, stage, r), r.cart = req[w].cart, r.kind = req[w].kind,
         stage \in {"promote", "budget", "commit"} =>
           \/ r.line = cart[r.cart].item
           \/ pc[w] \in {"promote", "budget", "commit"} /\ r.line = req[w].line
  PROVE  HoldInv'
<1>1. OthersKeep(w) /\ raced \subseteq raced'
  BY OthersStay
<1>2. HoldsWell(w)
  BY DEF HoldInv
<1>3. HoldsWellAt(w, stage, r)
  BY <1>2 DEF HoldsWell, HoldsWellAt, FreeFor, Alone
<1> QED BY <1>1, <1>3, HoldStep

(* A request that takes an active cart, and remembers whom it shares it with. *)
LEMMA HoldTakes ==
  ASSUME TypeInv, HoldInv, NEW w \in Workers, UNCHANGED cart,
         NEW i \in Ids(cart), NEW stage \in {"items", "lines", "edit"}, NEW r,
         Stepped(w, stage, r), r.cart = i, cart[i].status = "active",
         NEW kind, Shared(w, i, kind), kind = "checkout" <=> r.kind = "checkout"
  PROVE  HoldInv'
<1>1. OthersKeep(w)
  BY OthersStay
<1>2. raced \subseteq raced'
  BY DEF Shared
<1>3. r.cart \notin raced' => FreeFor(w, r.cart, r.kind)
  <2> SUFFICES ASSUME i \notin raced', NEW v \in Workers \ {w}, pc[v] \in Holding, req[v].cart = i
               PROVE  req[v].kind # "checkout" /\ r.kind # "checkout"
    BY DEF FreeFor
  <2>1. pc[v] # "idle"
    BY DEF Holding, CheckingOut
  <2> QED BY <2>1 DEF Shared
<1>4. HoldsWellAt(w, stage, r)
  BY <1>3 DEF HoldsWellAt
<1> QED BY <1>1, <1>2, <1>4, HoldStep

LEMMA HoldLoad ==
  ASSUME TypeInv, HoldInv, NEW w \in Workers, LoadCart(w)
  PROVE  HoldInv'
<1>1. /\ TypeInv'
      /\ \E i \in Ids(cart) :
           /\ cart[i].status = "active"
           /\ Shared(w, i, "checkout") /\ pc[w] = "idle"
           /\ pc'[w] = "items" /\ req'[w].cart = i
      /\ \A v \in Workers \ {w} : pc'[v] = pc[v] /\ req'[v] = req[v]
  BY LoadCartTyped
<1>2. PICK i \in Ids(cart) : /\ cart[i].status = "active" /\ Shared(w, i, "checkout")
                            /\ pc'[w] = "items" /\ req'[w].cart = i
  BY <1>1
<1>3. PICK r : r = req'[w]
  OBVIOUS
<1>4. r.kind = "checkout"
  BY <1>1, <1>2, <1>3 DEF TypeInv, RequestsFit, RequestFits, CheckingOut, CheckoutRequest
<1>5. Stepped(w, "items", r) /\ r.cart = i /\ UNCHANGED cart
  BY <1>1, <1>2, <1>3 DEF Stepped, LoadCart
<1> QED BY <1>2, <1>4, <1>5, HoldTakes

LEMMA HoldArrives ==
  ASSUME TypeInv, HoldInv, NEW w \in Workers, EditArrives(w)
  PROVE  HoldInv'
<1>1. /\ UNCHANGED <<cart, raced>> /\ pc'[w] = "find"
      /\ \A v \in Workers \ {w} : pc'[v] = pc[v] /\ req'[v] = req[v]
  BY EditArrivesTyped DEF tables
<1>2. PICK r : r = req'[w]
  OBVIOUS
<1>3. Stepped(w, "find", r)
  BY <1>1, <1>2 DEF Stepped
<1>4. HoldsWellAt(w, "find", r)
  BY DEF HoldsWellAt, Holding, CheckingOut
<1>5. OthersKeep(w) /\ raced \subseteq raced'
  BY <1>1, OthersStay
<1> QED BY <1>3, <1>4, <1>5, HoldStep

LEMMA HoldFind ==
  ASSUME TypeInv, HoldInv, NEW w \in Workers, FindCart(w)
  PROVE  HoldInv'
<1>1. /\ TypeInv' /\ UNCHANGED cart /\ req[w].kind # "checkout"
      /\ \/ pc'[w] = "create" /\ UNCHANGED raced
         \/ \E i \in Ids(cart) :
              /\ cart[i].status = "active"
              /\ Shared(w, i, req[w].kind)
              /\ pc'[w] \in {"lines", "edit"} /\ req'[w].cart = i
      /\ \A v \in Workers \ {w} : pc'[v] = pc[v] /\ req'[v] = req[v]
  BY FindCartTyped
<1>2. PICK r : r = req'[w]
  OBVIOUS
<1>3. CASE pc'[w] = "create" /\ UNCHANGED raced
  <2>1. Stepped(w, "create", r)
    BY <1>1, <1>2, <1>3 DEF Stepped
  <2>2. HoldsWellAt(w, "create", r)
    BY DEF HoldsWellAt, Holding, CheckingOut
  <2>3. OthersKeep(w) /\ raced \subseteq raced'
    BY <1>1, <1>3, OthersStay
  <2> QED BY <2>1, <2>2, <2>3, HoldStep
<1>4. CASE \E i \in Ids(cart) :
             /\ cart[i].status = "active"
             /\ Shared(w, i, req[w].kind)
             /\ pc'[w] \in {"lines", "edit"} /\ req'[w].cart = i
  <2>1. PICK i \in Ids(cart) : /\ cart[i].status = "active" /\ Shared(w, i, req[w].kind)
                              /\ pc'[w] \in {"lines", "edit"} /\ req'[w].cart = i
    BY <1>4
  <2>2. PICK stage \in {"lines", "edit"} : stage = pc'[w]
    BY <2>1
  <2>3. Stepped(w, stage, r) /\ r.cart = i
    BY <1>1, <1>2, <2>1, <2>2 DEF Stepped
  <2>4. r.kind # "checkout"
    <3>1. RequestFits(stage, r)'
      BY <1>1, <1>2, <2>2 DEF TypeInv, RequestsFit
    <3>2. r \in EditRequest
      BY <3>1 DEF RequestFits, Editing
    <3> QED BY <3>2, EditRequestFields
  <2>5. PICK kind : kind = req[w].kind
    OBVIOUS
  <2>6. Shared(w, i, kind) /\ (kind = "checkout" <=> r.kind = "checkout")
    BY <1>1, <2>1, <2>4, <2>5
  <2> QED BY <1>1, <2>1, <2>3, <2>6, HoldTakes
<1> QED BY <1>1, <1>3, <1>4

\* Who holds a cart, by type.
LEMMA HeldIsThere ==
  ASSUME TypeInv, NEW v \in Workers, pc[v] \in Holding
  PROVE  /\ req[v].cart \in Ids(cart)
         /\ pc[v] \in CheckingOut => req[v].kind = "checkout"
<1>1. /\ pc[v] \in CheckingOut => req[v] \in CheckoutRequest
      /\ pc[v] \in CheckingOut \cup {"lines", "edit"} => req[v].cart \in Ids(cart)
  BY AtStage DEF TypeInv
<1> QED BY <1>1, CheckoutFields DEF Holding

LEMMA HoldCreate ==
  ASSUME TypeInv, HoldInv, NEW w \in Workers, CreateCart(w)
  PROVE  HoldInv'
<1>1. /\ UNCHANGED raced
      /\ \/ pc'[w] = "idle" /\ UNCHANGED cart
         \/ /\ Ids(cart') = Ids(cart) \cup {Len(cart) + 1} /\ Len(cart) + 1 \notin Ids(cart)
            /\ cart'[Len(cart) + 1].status = "active"
            /\ \A i \in Ids(cart) : cart'[i] = cart[i]
            /\ pc'[w] \in {"lines", "edit"} /\ req'[w].cart = Len(cart) + 1
      /\ \A v \in Workers \ {w} : pc'[v] = pc[v] /\ req'[v] = req[v]
  BY CreateCartTyped
<1>2. PICK r : r = req'[w]
  OBVIOUS
<1>3. CASE pc'[w] = "idle" /\ UNCHANGED cart
  <2>1. Stepped(w, "idle", r)
    BY <1>1, <1>2, <1>3 DEF Stepped
  <2>2. HoldsWellAt(w, "idle", r)
    BY DEF HoldsWellAt, Holding, CheckingOut
  <2>3. OthersKeep(w) /\ raced \subseteq raced'
    BY <1>1, <1>3, OthersStay
  <2> QED BY <2>1, <2>2, <2>3, HoldStep
<1>4. CASE /\ Len(cart) + 1 \notin Ids(cart)
           /\ cart'[Len(cart) + 1].status = "active"
           /\ \A i \in Ids(cart) : cart'[i] = cart[i]
           /\ pc'[w] \in {"lines", "edit"} /\ req'[w].cart = Len(cart) + 1
  <2>1. PICK stage \in {"lines", "edit"} : stage = pc'[w]
    BY <1>4
  <2>2. PICK n : n = Len(cart) + 1
    OBVIOUS
  <2>3. Stepped(w, stage, r) /\ r.cart = n /\ n \notin Ids(cart) /\ cart'[n].status = "active"
    BY <1>1, <1>2, <1>4, <2>1, <2>2 DEF Stepped
  <2>4. OthersKeep(w)
    BY <1>4, HeldIsThere DEF OthersKeep
  <2>5. FreeFor(w, n, r.kind)
    BY <2>3, HeldIsThere DEF FreeFor
  <2>6. HoldsWellAt(w, stage, r)
    BY <2>3, <2>5 DEF HoldsWellAt
  <2> QED BY <1>1, <2>3, <2>4, <2>6, HoldStep
<1> QED BY <1>1, <1>3, <1>4

LEMMA HoldEdit ==
  ASSUME TypeInv, HoldInv, NEW w \in Workers, Edit(w)
  PROVE  HoldInv'
<1>1. /\ UNCHANGED raced
      /\ pc[w] = "edit" /\ req[w].kind # "checkout" /\ req[w].cart \in Ids(cart)
      /\ \A j \in Ids(cart) : cart'[j].status = cart[j].status
      /\ \A j \in Ids(cart) \ {req[w].cart} : cart'[j] = cart[j]
  BY EditTyped
<1>2. PICK stage \in {"idle", "edit"} :
        \E r : Stepped(w, stage, r) /\ (stage = "edit" => r.cart = req[w].cart /\ r.kind = req[w].kind)
  BY EditTyped
<1>3. PICK r : Stepped(w, stage, r) /\ (stage = "edit" => r.cart = req[w].cart /\ r.kind = req[w].kind)
  BY <1>2
<1>4. HoldsWell(w) /\ pc[w] \in Holding
  BY <1>1 DEF HoldInv, Holding
<1>5. OthersKeep(w)
  <2> SUFFICES ASSUME NEW v \in Workers \ {w}, pc[v] \in Holding, req[v].cart \notin raced
               PROVE  /\ cart'[req[v].cart].status = cart[req[v].cart].status
                      /\ pc[v] \in {"promote", "budget", "commit"} =>
                           cart'[req[v].cart].item = cart[req[v].cart].item
    BY <1>1 DEF OthersKeep
  <2>1. req[v].cart \in Ids(cart) /\ (pc[v] \in CheckingOut => req[v].kind = "checkout")
    BY HeldIsThere
  <2>2. CASE req[v].cart # req[w].cart
    BY <1>1, <2>1, <2>2
  <2>3. CASE req[v].cart = req[w].cart
    <3>1. req[v].kind # "checkout"
      BY <1>4, <2>3 DEF HoldsWell, Alone
    <3>2. pc[v] \notin {"promote", "budget", "commit"}
      BY <2>1, <3>1 DEF CheckingOut
    <3> QED BY <1>1, <2>1, <3>2
  <2> QED BY <2>2, <2>3
<1>6. HoldsWellAt(w, stage, r)
  <2>1. CASE stage = "idle"
    BY <2>1 DEF HoldsWellAt, Holding, CheckingOut
  <2>2. CASE stage = "edit"
    <3>1. r.cart = req[w].cart /\ r.kind = req[w].kind
      BY <1>3, <2>2
    <3>2. req[w].cart \notin raced => cart'[req[w].cart].status = "active" /\ Alone(w)
      BY <1>1, <1>4 DEF HoldsWell
    <3> QED BY <1>1, <2>2, <3>1, <3>2 DEF HoldsWellAt, FreeFor, Alone
  <2> QED BY <2>1, <2>2
<1> QED BY <1>1, <1>3, <1>5, <1>6, HoldStep

LEMMA HoldPlace ==
  ASSUME TypeInv, HoldInv, NEW w \in Workers, PlaceOrder(w)
  PROVE  HoldInv'
<1>1. /\ UNCHANGED raced /\ pc[w] = "commit"
      /\ Stepped(w, "idle", NoReq)
      /\ \A j \in Ids(cart) \ {req[w].cart} : cart'[j] = cart[j]
  BY PlaceOrderTyped
<1>2. HoldsWell(w) /\ pc[w] \in Holding /\ req[w].kind = "checkout"
  <2>1. pc[w] \in Holding /\ pc[w] \in CheckingOut
    BY <1>1 DEF Holding, CheckingOut
  <2> QED BY <2>1, HeldIsThere DEF HoldInv
<1>3. OthersKeep(w)
  <2> SUFFICES ASSUME NEW v \in Workers \ {w}, pc[v] \in Holding, req[v].cart \notin raced
               PROVE  cart'[req[v].cart] = cart[req[v].cart]
    BY <1>1 DEF OthersKeep
  <2>1. req[v].cart # req[w].cart
    BY <1>2 DEF HoldsWell, Alone
  <2> QED BY <1>1, <2>1, HeldIsThere
<1>4. HoldsWellAt(w, "idle", NoReq)
  BY DEF HoldsWellAt, Holding, CheckingOut
<1> HIDE DEF NoReq
<1> QED BY <1>1, <1>3, <1>4, HoldStep

(* What a step of a worker can be.                                         *)
WorkerStep(w) ==
  \/ EditArrives(w) \/ LoadCart(w) \/ FindCart(w) \/ CreateCart(w) \/ ReadLines(w) \/ Edit(w)
  \/ ListCartItems(w) \/ EvaluatePromotion(w) \/ CheckBudget(w) \/ PlaceOrder(w) \/ Fail(w)

AdminStep ==
  \/ (AddListItem \/ UpdateListItem \/ RemoveListItem)
  \/ OrderOnBehalf \/ MoveOrder \/ SwitchPromotion \/ IssueInvoice

LEMMA Steps ==
  ASSUME TypeInv, [Next]_vars
  PROVE  (\E w \in Workers : WorkerStep(w)) \/ AdminStep \/ UNCHANGED vars
<1>1. CASE \E w \in Workers : Receive(w) \/ Serve(w) \/ Fail(w)
  <2>1. PICK w \in Workers : Receive(w) \/ Serve(w) \/ Fail(w)
    BY <1>1
  <2>2. Receive(w) => LoadCart(w) \/ EditArrives(w)
    BY ReceiveIsEdit
  <2>3. WorkerStep(w)
    BY <2>1, <2>2 DEF WorkerStep, Serve
  <2> QED BY <2>3
<1>2. CASE AdminStep
  BY <1>2
<1>3. CASE Rest \/ UNCHANGED vars
  BY <1>3 DEF Rest
<1> QED BY <1>1, <1>2, <1>3 DEF Next, AdminStep, MoveOrder

LEMMA TypeInit == Init => TypeInv
<1> SUFFICES ASSUME Init PROVE TypeInv
  OBVIOUS
<1>1. /\ FirstCarts \in Seq(Cart)
      /\ \A i, j \in DOMAIN FirstCarts :
           FirstCarts[i].status = "active" /\ (FirstCarts[i].customer = FirstCarts[j].customer => i = j)
      /\ FirstList \in [Customers -> [Products -> Quantities \cup {Absent}]]
  BY CheckoutAssumption
<1>2. CartsFit
  <2>1. cart = FirstCarts /\ raced = {}
    BY DEF Init
  <2>2. DOMAIN cart = Ids(cart)
    BY <1>1, <2>1, TableFacts
  <2> QED BY <1>1, <2>1, <2>2 DEF CartsFit, OneActive
<1>3. OrdersFit
  <2>1. order = <<>> /\ invoice = <<>>
    BY DEF Init
  <2>2. Ids(<<>>) = {} /\ <<>> \in Seq(OrderRow) /\ <<>> \in Seq(InvoiceRow)
    <3> HIDE DEF OrderRow, InvoiceRow
    <3> QED BY DEF Ids
  <2> QED BY <2>1, <2>2 DEF OrdersFit
<1>4. RestFits
  BY <1>1 DEF Init, RestFits
<1>5. RequestsFit
  BY DEF Init, RequestsFit, RequestFits, Stages, AnyRequest, Editing, CheckingOut
<1> QED BY <1>2, <1>3, <1>4, <1>5 DEF TypeInv

LEMMA TypeNext ==
  ASSUME TypeInv, [Next]_vars
  PROVE  TypeInv'
<1>1. ASSUME NEW w \in Workers, WorkerStep(w) PROVE TypeInv'
  <2>1. CASE EditArrives(w)
    BY <2>1, EditArrivesTyped
  <2>2. CASE LoadCart(w)
    BY <2>2, LoadCartTyped
  <2>3. CASE FindCart(w)
    BY <2>3, FindCartTyped
  <2>4. CASE CreateCart(w)
    BY <2>4, CreateCartTyped
  <2>5. CASE ReadLines(w)
    BY <2>5, ReadLinesTyped
  <2>6. CASE Edit(w)
    BY <2>6, EditTyped
  <2>7. CASE ListCartItems(w)
    BY <2>7, ListCartItemsTyped
  <2>8. CASE EvaluatePromotion(w)
    BY <2>8, EvaluateTyped
  <2>9. CASE CheckBudget(w)
    BY <2>9, CheckBudgetTyped
  <2>10. CASE PlaceOrder(w)
    BY <2>10, PlaceOrderTyped
  <2>11. CASE Fail(w)
    BY <2>11, FailTyped
  <2> QED
    BY <1>1, <2>1, <2>2, <2>3, <2>4, <2>5, <2>6, <2>7, <2>8, <2>9, <2>10, <2>11 DEF WorkerStep
<1>2. ASSUME AdminStep PROVE TypeInv'
  BY <1>2, SetListTyped, OnBehalfTyped, MoveTyped, SwitchTyped, InvoiceTyped DEF AdminStep
<1>3. ASSUME UNCHANGED vars PROVE TypeInv'
  <2>1. UNCHANGED <<tables, pc, req, started>>
    BY <1>3 DEF vars
  <2>2. started' \in Nat /\ UNCHANGED <<cart, pc, req>>
    BY <2>1 DEF TypeInv, RestFits, tables
  <2>3. OrdersFit' /\ CartsFit' /\ RestFits'
    BY <2>1, <2>2, TablesStay
  <2>4. RequestsFit'
    BY <2>2, RequestsStay DEF TypeInv
  <2> QED BY <2>3, <2>4 DEF TypeInv
<1> QED BY <1>1, <1>2, <1>3, Steps

LEMMA HoldInit == Init => HoldInv
BY DEF Init, HoldInv, HoldsWell, Holding, CheckingOut

LEMMA HoldNext ==
  ASSUME TypeInv, HoldInv, [Next]_vars
  PROVE  HoldInv'
<1>1. ASSUME NEW w \in Workers, WorkerStep(w) PROVE HoldInv'
  <2>1. CASE EditArrives(w)
    BY <2>1, HoldArrives
  <2>2. CASE LoadCart(w)
    BY <2>2, HoldLoad
  <2>3. CASE FindCart(w)
    BY <2>3, HoldFind
  <2>4. CASE CreateCart(w)
    BY <2>4, HoldCreate
  <2>5. CASE ReadLines(w)
    <3>1. /\ UNCHANGED <<cart, raced>> /\ pc[w] \in Holding
          /\ \E r : Stepped(w, "edit", r) /\ r.cart = req[w].cart /\ r.kind = req[w].kind
      BY <2>5, ReadLinesTyped DEF tables, Holding
    <3> QED BY <3>1, HoldGoesOn
  <2>6. CASE Edit(w)
    BY <2>6, HoldEdit
  <2>7. CASE ListCartItems(w)
    <3>1. /\ UNCHANGED <<cart, raced>> /\ pc[w] \in Holding
          /\ \/ Stepped(w, "idle", NoReq)
             \/ \E r \in CheckoutRequest :
                  Stepped(w, "promote", r) /\ r.cart = req[w].cart /\ r.line = cart[r.cart].item
      BY <2>7, ListCartItemsTyped DEF tables, Holding, CheckingOut
    <3>2. req[w].kind = "checkout"
      BY <2>7, HeldIsThere, <3>1 DEF ListCartItems, CheckingOut
    <3>3. ASSUME NEW r \in CheckoutRequest, Stepped(w, "promote", r), r.cart = req[w].cart,
                 r.line = cart[r.cart].item
          PROVE  HoldInv'
      <4>1. r.kind = req[w].kind
        BY <3>2, CheckoutFields
      <4> QED BY <3>1, <3>3, <4>1, HoldGoesOn
    <3> QED BY <3>1, <3>3, HoldEnds
  <2>8. CASE EvaluatePromotion(w)
    <3>1. /\ UNCHANGED <<cart, raced>> /\ pc[w] = "promote" /\ pc[w] \in Holding
          /\ pc[w] \in CheckingOut
      BY <2>8, EvaluateTyped DEF tables, Holding, CheckingOut
    <3>2. PICK r \in CheckoutRequest : Stepped(w, "budget", r) /\ Continues(r, req[w])
      BY <2>8, EvaluateTyped
    <3>3. r.kind = req[w].kind /\ r.cart = req[w].cart /\ r.line = req[w].line
      BY <3>1, <3>2, HeldIsThere, CheckoutFields DEF Continues
    <3> QED BY <3>1, <3>2, <3>3, HoldGoesOn
  <2>9. CASE CheckBudget(w)
    <3>1. /\ UNCHANGED <<cart, raced>> /\ pc[w] = "budget" /\ pc[w] \in Holding
          /\ pc[w] \in CheckingOut
      BY <2>9, CheckBudgetTyped DEF tables, Holding, CheckingOut
    <3>2. \/ Stepped(w, "idle", NoReq)
          \/ \E r \in CheckoutRequest : Stepped(w, "commit", r) /\ Continues(r, req[w])
      BY <2>9, CheckBudgetTyped
    <3>3. ASSUME NEW r \in CheckoutRequest, Stepped(w, "commit", r), Continues(r, req[w])
          PROVE  HoldInv'
      <4>1. r.kind = req[w].kind /\ r.cart = req[w].cart /\ r.line = req[w].line
        BY <3>1, <3>3, HeldIsThere, CheckoutFields DEF Continues
      <4> QED BY <3>1, <3>3, <4>1, HoldGoesOn
    <3> QED BY <3>1, <3>2, <3>3, HoldEnds
  <2>10. CASE PlaceOrder(w)
    BY <2>10, HoldPlace
  <2>11. CASE Fail(w)
    <3>1. UNCHANGED <<cart, raced>> /\ Stepped(w, "idle", NoReq)
      BY <2>11, FailTyped DEF tables
    <3> QED BY <3>1, HoldEnds
  <2> QED
    BY <1>1, <2>1, <2>2, <2>3, <2>4, <2>5, <2>6, <2>7, <2>8, <2>9, <2>10, <2>11 DEF WorkerStep
<1>2. ASSUME UNCHANGED <<cart, raced, pc, req>> PROVE HoldInv'
  BY <1>2 DEF HoldInv, HoldsWell, Alone
<1>3. ASSUME AdminStep \/ UNCHANGED vars PROVE UNCHANGED <<cart, raced, pc, req>>
  <2>1. CASE AdminStep
    BY <2>1, SetListTyped, OnBehalfTyped, MoveTyped, SwitchTyped, InvoiceTyped DEF AdminStep
  <2>2. CASE UNCHANGED vars
    BY <2>2 DEF vars, tables
  <2> QED BY <1>3, <2>1, <2>2
<1> QED BY <1>1, <1>2, <1>3, Steps

-----------------------------------------------------------------------------
(* A cart is ordered once.                                                 *)

LEMMA OrderedKept ==
  ASSUME TypeInv, OrderedOnceUnlessRaced, raced \subseteq raced', Ids(cart) \subseteq Ids(cart'),
         \A i \in Ids(cart') : i # 0,
         \A i \in Ids(cart) \ raced' :
           /\ cart'[i].status = cart[i].status
           /\ cart[i].status # "active" => cart'[i].item = cart[i].item,
         \A i \in Ids(cart') \ Ids(cart) : cart'[i].status = "active",
         Ids(order) \subseteq Ids(order'),
         \A o \in Ids(order) : order'[o].cart = order[o].cart /\ order'[o].line = order[o].line,
         \A o \in Ids(order') \ Ids(order) : order'[o].cart = 0
  PROVE  OrderedOnceUnlessRaced'
<1>1. \A o \in Ids(order) : order[o].cart \in Ids(cart) \cup {0}
  BY DEF TypeInv, OrdersFit
<1>2. ASSUME NEW i \in Ids(cart') \ raced'
      PROVE  IF cart'[i].status = "active" THEN OrdersOf(i)' = {}
             ELSE \E o \in Ids(order') : OrdersOf(i)' = {o} /\ order'[o].line = cart'[i].item
  <2>1. CASE i \notin Ids(cart)
    <3>1. \A o \in Ids(order') : order'[o].cart # i
      BY <1>1, <2>1
    <3> QED BY <2>1, <3>1 DEF OrdersOf
  <2>2. CASE i \in Ids(cart)
    <3>1. OrdersOf(i)' = OrdersOf(i)
      <4>1. \A o \in Ids(order') : order'[o].cart = i <=> o \in Ids(order) /\ order[o].cart = i
        OBVIOUS
      <4> QED BY <4>1 DEF OrdersOf
    <3>2. IF cart[i].status = "active" THEN OrdersOf(i) = {}
          ELSE \E o \in Ids(order) : OrdersOf(i) = {o} /\ order[o].line = cart[i].item
      BY <2>2 DEF OrderedOnceUnlessRaced
    <3>3. /\ cart'[i].status = cart[i].status
          /\ cart[i].status # "active" => cart'[i].item = cart[i].item
      BY <2>2
    <3> QED BY <3>1, <3>2, <3>3
  <2> QED BY <2>1, <2>2
<1> QED BY <1>2 DEF OrderedOnceUnlessRaced

LEMMA OrderedSame ==
  ASSUME TypeInv, OrderedOnceUnlessRaced, raced \subseteq raced', UNCHANGED <<cart, order>>
  PROVE  OrderedOnceUnlessRaced'
<1>1. \A i \in Ids(cart) : i # 0
  BY CartRows DEF TypeInv
<1> QED BY <1>1, OrderedKept

LEMMA OrderedEdit ==
  ASSUME TypeInv, HoldInv, OrderedOnceUnlessRaced, NEW w \in Workers, Edit(w)
  PROVE  OrderedOnceUnlessRaced'
<1>1. /\ UNCHANGED <<order, raced>> /\ pc[w] = "edit" /\ Ids(cart') = Ids(cart)
      /\ \A j \in Ids(cart) : cart'[j].status = cart[j].status
      /\ \A j \in Ids(cart) \ {req[w].cart} : cart'[j] = cart[j]
  BY EditTyped
<1>2. req[w].cart \notin raced => cart[req[w].cart].status = "active"
  BY <1>1 DEF HoldInv, HoldsWell, Holding
<1>3. \A i \in Ids(cart) : i # 0
  BY CartRows DEF TypeInv
<1>4. \A i \in Ids(cart) \ raced' :
        /\ cart'[i].status = cart[i].status
        /\ cart[i].status # "active" => cart'[i].item = cart[i].item
  BY <1>1, <1>2
<1> QED BY <1>1, <1>3, <1>4, OrderedKept

LEMMA OrderedCreate ==
  ASSUME TypeInv, OrderedOnceUnlessRaced, NEW w \in Workers, CreateCart(w)
  PROVE  OrderedOnceUnlessRaced'
<1>1. /\ TypeInv' /\ UNCHANGED <<order, raced>>
      /\ \/ UNCHANGED cart
         \/ /\ Ids(cart') = Ids(cart) \cup {Len(cart) + 1} /\ Len(cart) + 1 \notin Ids(cart)
            /\ cart'[Len(cart) + 1].status = "active"
            /\ \A i \in Ids(cart) : cart'[i] = cart[i]
  BY CreateCartTyped
<1>2. CASE UNCHANGED cart
  BY <1>1, <1>2, OrderedSame
<1>3. CASE /\ Ids(cart') = Ids(cart) \cup {Len(cart) + 1}
           /\ cart'[Len(cart) + 1].status = "active"
           /\ \A i \in Ids(cart) : cart'[i] = cart[i]
  <2>1. Len(cart) + 1 # 0 /\ \A i \in Ids(cart) : i # 0
    BY CartRows DEF TypeInv
  <2>2. \A i \in Ids(cart') : i # 0
    BY <1>3, <2>1
  <2>3. \A i \in Ids(cart') \ Ids(cart) : cart'[i].status = "active"
    BY <1>3
  <2> QED BY <1>1, <1>3, <2>2, <2>3, OrderedKept
<1> QED BY <1>1, <1>2, <1>3

LEMMA OrderedPlace ==
  ASSUME TypeInv, HoldInv, OrderedOnceUnlessRaced, NEW w \in Workers, PlaceOrder(w)
  PROVE  OrderedOnceUnlessRaced'
<1>1. PICK i : i = req[w].cart
  OBVIOUS
<1>2. /\ UNCHANGED raced /\ pc[w] = "commit" /\ i \in Ids(cart)
      /\ Ids(cart') = Ids(cart)
      /\ cart'[i].status = "converted" /\ cart'[i].item = cart[i].item
      /\ \A j \in Ids(cart) \ {i} : cart'[j] = cart[j]
  BY <1>1, PlaceOrderTyped
<1>3. PICK row \in OrderRow : RowFrom(row, req[w]) /\ RowAdded(OrderRow, order, row, order')
  BY PlaceOrderTyped
<1>4. PICK n : n = Len(order) + 1
  OBVIOUS
<1>5. /\ Ids(order') = Ids(order) \cup {n} /\ n \notin Ids(order) /\ order'[n] = row
      /\ \A o \in Ids(order) : order'[o] = order[o]
      /\ row.cart = i /\ row.line = req[w].line
  BY <1>1, <1>3, <1>4 DEF RowAdded, RowFrom
<1>6. i \notin raced => cart[i].status = "active" /\ req[w].line = cart[i].item
  BY <1>1, <1>2 DEF HoldInv, HoldsWell, Holding, CheckingOut
<1>7. ASSUME NEW j \in Ids(cart) \ raced
      PROVE  IF cart'[j].status = "active" THEN OrdersOf(j)' = {}
             ELSE \E o \in Ids(order') : OrdersOf(j)' = {o} /\ order'[o].line = cart'[j].item
  <2>1. IF cart[j].status = "active" THEN OrdersOf(j) = {}
        ELSE \E o \in Ids(order) : OrdersOf(j) = {o} /\ order[o].line = cart[j].item
    BY DEF OrderedOnceUnlessRaced
  <2>2. CASE j = i
    <3>1. OrdersOf(i)' = {n}
      BY <1>5, <1>6, <2>1, <2>2 DEF OrdersOf
    <3>2. order'[n].line = cart'[i].item /\ n \in Ids(order') /\ cart'[i].status # "active"
      BY <1>2, <1>5, <1>6, <2>2
    <3> QED BY <2>2, <3>1, <3>2
  <2>3. CASE j # i
    <3>1. OrdersOf(j)' = OrdersOf(j)
      BY <1>5, <2>3 DEF OrdersOf
    <3>2. cart'[j] = cart[j]
      BY <1>2, <2>3
    <3> QED BY <1>5, <2>1, <3>1, <3>2
  <2> QED BY <2>2, <2>3
<1> QED BY <1>2, <1>7 DEF OrderedOnceUnlessRaced

LEMMA OrderedInit == Init => OrderedOnceUnlessRaced
<1> SUFFICES ASSUME Init PROVE OrderedOnceUnlessRaced
  OBVIOUS
<1>1. TypeInv
  BY TypeInit
<1>2. \A i \in Ids(cart) : cart[i].status = "active"
  <2>1. DOMAIN cart = Ids(cart)
    BY <1>1, CartRows DEF TypeInv
  <2>2. \A i \in DOMAIN FirstCarts : FirstCarts[i].status = "active"
    BY CheckoutAssumption
  <2> QED BY <2>1, <2>2 DEF Init
<1>3. \A i : OrdersOf(i) = {}
  BY DEF Init, OrdersOf, Ids
<1> QED BY <1>2, <1>3 DEF OrderedOnceUnlessRaced

LEMMA OrderedNext ==
  ASSUME TypeInv, HoldInv, OrderedOnceUnlessRaced, [Next]_vars
  PROVE  OrderedOnceUnlessRaced'
<1>1. ASSUME NEW w \in Workers, WorkerStep(w) PROVE OrderedOnceUnlessRaced'
  <2>1. CASE CreateCart(w)
    BY <2>1, OrderedCreate
  <2>2. CASE Edit(w)
    BY <2>2, OrderedEdit
  <2>3. CASE PlaceOrder(w)
    BY <2>3, OrderedPlace
  <2>4. CASE \/ EditArrives(w) \/ ReadLines(w) \/ ListCartItems(w) \/ EvaluatePromotion(w)
             \/ CheckBudget(w) \/ Fail(w)
    <3>1. UNCHANGED tables
      BY <2>4, EditArrivesTyped, ReadLinesTyped, ListCartItemsTyped, EvaluateTyped,
         CheckBudgetTyped, FailTyped
    <3> QED BY <3>1, OrderedSame DEF tables
  <2>5. CASE LoadCart(w) \/ FindCart(w)
    <3>1. UNCHANGED <<cart, order>>
      BY <2>5, FindCartTyped DEF LoadCart
    <3>2. raced \subseteq raced'
      <4>1. CASE LoadCart(w)
        BY <4>1 DEF LoadCart, Shared
      <4>2. CASE FindCart(w)
        BY <4>2, FindCartTyped DEF Shared
      <4> QED BY <2>5, <4>1, <4>2
    <3> QED BY <3>1, <3>2, OrderedSame
  <2> QED BY <1>1, <2>1, <2>2, <2>3, <2>4, <2>5 DEF WorkerStep
<1>2. ASSUME AdminStep PROVE OrderedOnceUnlessRaced'
  <2>0. \A i \in Ids(cart) : i # 0
    BY CartRows DEF TypeInv
  <2>1. CASE OrderOnBehalf
    <3>1. UNCHANGED <<cart, raced>>
      BY <2>1, OnBehalfTyped
    <3>2. PICK row \in OrderRow : row.cart = 0 /\ RowAdded(OrderRow, order, row, order')
      BY <2>1, OnBehalfTyped
    <3>3. /\ Ids(order) \subseteq Ids(order')
          /\ \A o \in Ids(order) : order'[o] = order[o]
          /\ \A o \in Ids(order') \ Ids(order) : order'[o].cart = 0
      BY <3>2 DEF RowAdded
    <3> QED BY <2>0, <3>1, <3>3, OrderedKept
  <2>2. CASE MoveOrder
    <3>1. UNCHANGED <<cart, raced>>
      BY <2>2, MoveTyped
    <3>2. PICK o \in Ids(order), x \in OrderRow :
            MovedFrom(x, order[o]) /\ RowSet(OrderRow, order, o, x, order')
      BY <2>2, MoveTyped
    <3>3. /\ Ids(order) = Ids(order')
          /\ \A n \in Ids(order) : order'[n].cart = order[n].cart /\ order'[n].line = order[n].line
      BY <3>2 DEF RowSet, MovedFrom
    <3> QED BY <2>0, <3>1, <3>3, OrderedKept
  <2>3. CASE (AddListItem \/ UpdateListItem \/ RemoveListItem) \/ SwitchPromotion \/ IssueInvoice
    <3>1. UNCHANGED <<cart, order, raced>>
      BY <2>3, SetListTyped, SwitchTyped, InvoiceTyped
    <3> QED BY <3>1, OrderedSame
  <2> QED BY <1>2, <2>1, <2>2, <2>3 DEF AdminStep
<1>3. ASSUME UNCHANGED vars PROVE OrderedOnceUnlessRaced'
  BY <1>3, OrderedSame DEF vars, tables
<1> QED BY <1>1, <1>2, <1>3, Steps

-----------------------------------------------------------------------------
(* Prices: what a checkout has worked out is what it will write.           *)

PriceInv ==
  \A w \in Workers :
    /\ pc[w] \in {"budget", "commit"} => Granted(req[w]) /\ AddsUp(req[w])
    /\ pc[w] = "commit" => Within(req[w])

LEMMA PriceStep ==
  ASSUME PriceInv, NEW w \in Workers, NEW stage, NEW r, Stepped(w, stage, r),
         stage \in {"budget", "commit"} => Granted(r) /\ AddsUp(r),
         stage = "commit" => Within(r)
  PROVE  PriceInv'
<1>1. pc'[w] = stage /\ req'[w] = r /\ \A v \in Workers \ {w} : pc'[v] = pc[v] /\ req'[v] = req[v]
  BY DEF Stepped
<1>2. /\ pc'[w] \in {"budget", "commit"} => Granted(req[w])' /\ AddsUp(req[w])'
      /\ pc'[w] = "commit" => Within(req[w])'
  BY <1>1 DEF Granted, AddsUp, Within
<1>3. \A v \in Workers \ {w} :
        /\ pc'[v] \in {"budget", "commit"} => Granted(req[v])' /\ AddsUp(req[v])'
        /\ pc'[v] = "commit" => Within(req[v])'
  BY <1>1 DEF PriceInv, Granted, AddsUp, Within
<1> QED BY <1>2, <1>3 DEF PriceInv

LEMMA PriceOther ==
  ASSUME PriceInv, NEW w \in Workers, pc'[w] \notin {"budget", "commit"},
         \A v \in Workers \ {w} : pc'[v] = pc[v] /\ req'[v] = req[v]
  PROVE  PriceInv'
<1>1. PICK stage, r : stage = pc'[w] /\ r = req'[w]
  OBVIOUS
<1>2. Stepped(w, stage, r) /\ stage \notin {"budget", "commit"}
  BY <1>1 DEF Stepped
<1> QED BY <1>2, PriceStep

LEMMA PriceInit == Init => PriceInv
BY DEF Init, PriceInv

LEMMA PriceNext ==
  ASSUME TypeInv, PriceInv, [Next]_vars
  PROVE  PriceInv'
<1>1. ASSUME NEW w \in Workers, WorkerStep(w) PROVE PriceInv'
  <2>1. CASE EditArrives(w)
    BY <2>1, EditArrivesTyped, PriceOther
  <2>2. CASE LoadCart(w)
    BY <2>2, LoadCartTyped, PriceOther
  <2>3. CASE FindCart(w)
    <3>1. /\ pc'[w] \notin {"budget", "commit"}
          /\ \A v \in Workers \ {w} : pc'[v] = pc[v] /\ req'[v] = req[v]
      BY <2>3, FindCartTyped
    <3> QED BY <3>1, PriceOther
  <2>4. CASE CreateCart(w)
    <3>1. /\ pc'[w] \notin {"budget", "commit"}
          /\ \A v \in Workers \ {w} : pc'[v] = pc[v] /\ req'[v] = req[v]
      BY <2>4, CreateCartTyped
    <3> QED BY <3>1, PriceOther
  <2>5. CASE ReadLines(w)
    <3>1. PICK r : Stepped(w, "edit", r)
      BY <2>5, ReadLinesTyped
    <3> QED BY <3>1, PriceStep
  <2>6. CASE Edit(w)
    <3>1. PICK stage \in {"idle", "edit"} : \E r : Stepped(w, stage, r)
      BY <2>6, EditTyped
    <3>2. PICK r : Stepped(w, stage, r)
      BY <3>1
    <3> QED BY <3>2, PriceStep
  <2>7. CASE ListCartItems(w)
    <3>1. Stepped(w, "idle", NoReq) \/ \E r : Stepped(w, "promote", r)
      BY <2>7, ListCartItemsTyped
    <3> HIDE DEF NoReq
    <3> QED BY <3>1, PriceStep
  <2>8. CASE EvaluatePromotion(w)
    <3>1. PICK r \in CheckoutRequest : Stepped(w, "budget", r) /\ Granted(r) /\ AddsUp(r)
      BY <2>8, EvaluateTyped
    <3> QED BY <3>1, PriceStep
  <2>9. CASE CheckBudget(w)
    <3>1. Granted(req[w]) /\ AddsUp(req[w])
      BY <2>9 DEF PriceInv, CheckBudget
    <3>2. \/ Stepped(w, "idle", NoReq)
          \/ \E r \in CheckoutRequest :
               Stepped(w, "commit", r) /\ Within(r) /\ Granted(r) /\ AddsUp(r)
      BY <2>9, <3>1, CheckBudgetTyped
    <3> HIDE DEF NoReq
    <3> QED BY <3>2, PriceStep
  <2>10. CASE PlaceOrder(w)
    <3>1. Stepped(w, "idle", NoReq)
      BY <2>10, PlaceOrderTyped
    <3> HIDE DEF NoReq
    <3> QED BY <3>1, PriceStep
  <2>11. CASE Fail(w)
    <3>1. Stepped(w, "idle", NoReq)
      BY <2>11, FailTyped
    <3> HIDE DEF NoReq
    <3> QED BY <3>1, PriceStep
  <2> QED
    BY <1>1, <2>1, <2>2, <2>3, <2>4, <2>5, <2>6, <2>7, <2>8, <2>9, <2>10, <2>11 DEF WorkerStep
<1>2. ASSUME UNCHANGED <<pc, req>> PROVE PriceInv'
  BY <1>2 DEF PriceInv, Granted, AddsUp, Within
<1>3. ASSUME AdminStep \/ UNCHANGED vars PROVE UNCHANGED <<pc, req>>
  <2>1. CASE AdminStep
    BY <2>1, SetListTyped, OnBehalfTyped, MoveTyped, SwitchTyped, InvoiceTyped DEF AdminStep
  <2>2. CASE UNCHANGED vars
    BY <2>2 DEF vars, tables
  <2> QED BY <1>3, <2>1, <2>2
<1> QED BY <1>1, <1>2, <1>3, Steps

-----------------------------------------------------------------------------
(* The order rows.                                                         *)

RowInv == \A o \in Ids(order) :
  /\ AddsUp(order[o])
  /\ order[o].promo # 0 => PromoList[order[o].promo].code \in {Automatic, order[o].code}

\* What happens to the order rows in a step: nothing, a checkout's row or a
\* sales rep's is added, or one is cancelled or stands again.
OrderPlaced ==
  \E w \in Workers : PlaceOrder(w)

LEMMA OrderSteps ==
  ASSUME TypeInv, [Next]_vars
  PROVE  \/ UNCHANGED <<order, redeemed>>
         \/ OrderPlaced /\ UNCHANGED invoice
         \/ OrderOnBehalf /\ UNCHANGED <<redeemed, invoice>>
         \/ MoveOrder /\ UNCHANGED <<redeemed, invoice>>
<1>1. ASSUME NEW w \in Workers, WorkerStep(w), ~ PlaceOrder(w) PROVE UNCHANGED <<order, redeemed>>
  <2>1. CASE \/ EditArrives(w) \/ ReadLines(w) \/ ListCartItems(w) \/ EvaluatePromotion(w)
             \/ CheckBudget(w) \/ Fail(w)
    <3>1. UNCHANGED tables
      BY <2>1, EditArrivesTyped, ReadLinesTyped, ListCartItemsTyped, EvaluateTyped,
         CheckBudgetTyped, FailTyped
    <3> QED BY <3>1 DEF tables
  <2>2. CASE LoadCart(w)
    BY <2>2 DEF LoadCart
  <2>3. CASE FindCart(w) \/ CreateCart(w) \/ Edit(w)
    BY <2>3, FindCartTyped, CreateCartTyped, EditTyped
  <2> QED BY <1>1, <2>1, <2>2, <2>3 DEF WorkerStep
<1>2. ASSUME NEW w \in Workers, PlaceOrder(w) PROVE OrderPlaced /\ UNCHANGED invoice
  BY <1>2, PlaceOrderTyped DEF OrderPlaced
<1>3. CASE AdminStep
  BY <1>3, SetListTyped, OnBehalfTyped, MoveTyped, SwitchTyped, InvoiceTyped DEF AdminStep
<1>4. CASE UNCHANGED vars
  BY <1>4 DEF vars, tables
<1> QED BY <1>1, <1>2, <1>3, <1>4, Steps

LEMMA RowInit == Init => RowInv
BY DEF Init, RowInv, Ids

LEMMA RowNext ==
  ASSUME TypeInv, PriceInv, RowInv, [Next]_vars
  PROVE  RowInv'
<1> DEFINE Good(x) == /\ AddsUp(x)
                      /\ x.promo # 0 => PromoList[x.promo].code \in {Automatic, x.code}
<1>1. \A o \in Ids(order) : Good(order[o])
  BY DEF RowInv
<1>2. (\A o \in Ids(order') : Good(order'[o])) => RowInv'
  BY DEF RowInv, AddsUp
<1>3. CASE UNCHANGED order
  BY <1>1, <1>2, <1>3
<1>4. ASSUME NEW row, RowAdded(OrderRow, order, row, order'), Good(row) PROVE RowInv'
  <2>1. /\ Ids(order') = Ids(order) \cup {Len(order) + 1} /\ order'[Len(order) + 1] = row
        /\ \A o \in Ids(order) : order'[o] = order[o]
    BY <1>4 DEF RowAdded
  <2> HIDE DEF Good
  <2> QED BY <1>1, <1>2, <1>4, <2>1
<1>5. CASE OrderPlaced
  <2>1. PICK w \in Workers : PlaceOrder(w)
    BY <1>5 DEF OrderPlaced
  <2>2. PICK row \in OrderRow : RowFrom(row, req[w]) /\ RowAdded(OrderRow, order, row, order')
    BY <2>1, PlaceOrderTyped
  <2>3. Granted(req[w]) /\ AddsUp(req[w])
    BY <2>1 DEF PlaceOrder, PriceInv
  <2>4. Good(row)
    BY <2>2, <2>3 DEF RowFrom, Granted, AddsUp
  <2> HIDE DEF Good
  <2> QED BY <1>4, <2>2, <2>4
<1>6. CASE OrderOnBehalf
  <2>1. PICK row \in OrderRow : /\ row.promo = 0 /\ AddsUp(row)
                               /\ RowAdded(OrderRow, order, row, order')
    BY <1>6, OnBehalfTyped
  <2> QED BY <1>4, <2>1
<1>7. CASE MoveOrder
  <2>1. PICK o \in Ids(order), x \in OrderRow :
          MovedFrom(x, order[o]) /\ RowSet(OrderRow, order, o, x, order')
    BY <1>7, MoveTyped
  <2>2. Good(x)
    BY <1>1, <2>1 DEF MovedFrom, AddsUp
  <2>3. Ids(order') = Ids(order) /\ order'[o] = x /\ \A n \in Ids(order) \ {o} : order'[n] = order[n]
    BY <2>1 DEF RowSet
  <2> HIDE DEF Good
  <2> QED BY <1>1, <1>2, <2>2, <2>3
<1> QED BY <1>3, <1>5, <1>6, <1>7, OrderSteps

(* Invoices, of orders whose amounts never change.                         *)
LEMMA InvoiceNext ==
  ASSUME TypeInv, RowInv, InvoiceMatchesOrder, [Next]_vars
  PROVE  InvoiceMatchesOrder'
<1> DEFINE Off(x) == x.grand + x.discount - x.shipping
<1>1. \A n \in Ids(invoice) : invoice[n].order \in Ids(order) /\ invoice[n].total = Off(order[invoice[n].order])
  BY DEF InvoiceMatchesOrder, TypeInv, OrdersFit
<1>2. (\A n \in Ids(invoice') : invoice'[n].total = Off(order'[invoice'[n].order]))
        => InvoiceMatchesOrder'
  BY DEF InvoiceMatchesOrder
<1>3. ASSUME UNCHANGED invoice, \A o \in Ids(order) : Off(order'[o]) = Off(order[o])
      PROVE  InvoiceMatchesOrder'
  <2> HIDE DEF Off
  <2> QED BY <1>1, <1>2, <1>3
<1>4. CASE OrderPlaced /\ UNCHANGED invoice
  <2>1. PICK w \in Workers : PlaceOrder(w)
    BY <1>4 DEF OrderPlaced
  <2>2. PICK row \in OrderRow : RowAdded(OrderRow, order, row, order')
    BY <2>1, PlaceOrderTyped
  <2> QED BY <1>3, <1>4, <2>2 DEF RowAdded
<1>5. CASE OrderOnBehalf /\ UNCHANGED invoice
  <2>1. PICK row \in OrderRow : RowAdded(OrderRow, order, row, order')
    BY <1>5, OnBehalfTyped
  <2> QED BY <1>3, <1>5, <2>1 DEF RowAdded
<1>6. CASE MoveOrder /\ UNCHANGED invoice
  <2>1. PICK o \in Ids(order), x \in OrderRow :
          MovedFrom(x, order[o]) /\ RowSet(OrderRow, order, o, x, order')
    BY <1>6, MoveTyped
  <2>2. order'[o] = x /\ \A n \in Ids(order) \ {o} : order'[n] = order[n]
    BY <2>1 DEF RowSet
  <2>3. Off(x) = Off(order[o])
    BY <2>1 DEF MovedFrom
  <2> HIDE DEF Off
  <2> QED BY <1>3, <1>6, <2>2, <2>3
<1>7. CASE UNCHANGED <<order, redeemed>> /\ UNCHANGED invoice
  BY <1>3, <1>7
<1>8. CASE IssueInvoice
  <2>1. UNCHANGED order
    BY <1>8, InvoiceTyped
  <2>2. PICK o \in Ids(order), x \in InvoiceRow :
          x.order = o /\ x.total = Billed(o) /\ RowAdded(InvoiceRow, invoice, x, invoice')
    BY <1>8, InvoiceTyped
  <2>3. x.total = Off(order[o])
    BY <2>2 DEF RowInv, AddsUp, Billed
  <2>4. /\ Ids(invoice') = Ids(invoice) \cup {Len(invoice) + 1} /\ invoice'[Len(invoice) + 1] = x
        /\ \A n \in Ids(invoice) : invoice'[n] = invoice[n]
    BY <2>2 DEF RowAdded
  <2> HIDE DEF Off
  <2> QED BY <1>1, <1>2, <2>1, <2>2, <2>3, <2>4
<1>9. UNCHANGED invoice \/ IssueInvoice
  <2>1. ASSUME NEW w \in Workers, WorkerStep(w) PROVE UNCHANGED invoice
    BY <2>1, EditArrivesTyped, ReadLinesTyped, ListCartItemsTyped, EvaluateTyped,
       CheckBudgetTyped, FailTyped, FindCartTyped, CreateCartTyped, EditTyped, PlaceOrderTyped
       DEF WorkerStep, LoadCart, tables
  <2>2. CASE AdminStep
    BY <2>2, SetListTyped, OnBehalfTyped, MoveTyped, SwitchTyped DEF AdminStep
  <2>3. CASE UNCHANGED vars
    BY <2>3 DEF vars, tables
  <2> QED BY <2>1, <2>2, <2>3, Steps
<1> QED BY <1>4, <1>5, <1>6, <1>7, <1>8, <1>9, OrderSteps

-----------------------------------------------------------------------------
(* Redemptions and caps.                                                   *)

Taken(i)  == {o \in Ids(order) : order[o].promo = i}
OnTime(i) == {o \in Ids(order) : order[o].promo = i /\ ~order[o].lateCap}

CountInv ==
  /\ \A i \in Promos : redeemed[i] = Cardinality(Taken(i))
  /\ \A i \in Promos : PromoList[i].cap # Unlimited =>
       Cardinality(OnTime(i)) <= AtLeastZero(PromoList[i].cap)

LEMMA TakenFinite ==
  ASSUME TypeInv, NEW i
  PROVE  /\ IsFiniteSet(Taken(i)) /\ IsFiniteSet(OnTime(i))
         /\ Cardinality(Taken(i)) \in Nat /\ Cardinality(OnTime(i)) \in Nat
         /\ Cardinality(OnTime(i)) <= Cardinality(Taken(i))
<1>1. IsFiniteSet(Ids(order))
  BY OrderRows DEF TypeInv
<1>2. Taken(i) \subseteq Ids(order) /\ OnTime(i) \subseteq Taken(i)
  BY DEF Taken, OnTime
<1>3. IsFiniteSet(Taken(i))
  BY <1>1, <1>2, FS_Subset
<1>4. IsFiniteSet(OnTime(i)) /\ Cardinality(OnTime(i)) <= Cardinality(Taken(i))
  BY <1>2, <1>3, FS_Subset
<1> QED BY <1>3, <1>4, FS_CardinalityType

LEMMA CountInit == Init => CountInv
<1> SUFFICES ASSUME Init PROVE CountInv
  OBVIOUS
<1>1. \A i : Taken(i) = {} /\ OnTime(i) = {}
  BY DEF Init, Taken, OnTime, Ids
<1>2. Cardinality({}) = 0
  BY FS_EmptySet
<1>3. \A i \in Promos : redeemed[i] = 0
  BY DEF Init
<1>4. \A i \in Promos : PromoList[i].cap # Unlimited => 0 <= AtLeastZero(PromoList[i].cap)
  <2>1. \A i \in Promos : PromoList[i].cap \in Int \cup {Unlimited}
    BY PromotionFacts DEF Promotion
  <2> QED BY <2>1 DEF AtLeastZero
<1> QED BY <1>1, <1>2, <1>3, <1>4 DEF CountInv

LEMMA CountNext ==
  ASSUME TypeInv, PriceInv, CountInv, [Next]_vars
  PROVE  CountInv'
<1>1. ASSUME UNCHANGED redeemed, \A i : Taken(i)' = Taken(i) /\ OnTime(i)' = OnTime(i)
      PROVE  CountInv'
  BY <1>1 DEF CountInv
<1>2. CASE UNCHANGED <<order, redeemed>>
  <2>1. \A i : Taken(i)' = Taken(i) /\ OnTime(i)' = OnTime(i)
    BY <1>2 DEF Taken, OnTime
  <2> QED BY <1>1, <1>2, <2>1
<1>3. CASE MoveOrder /\ UNCHANGED redeemed
  <2>1. PICK o \in Ids(order), x \in OrderRow :
          MovedFrom(x, order[o]) /\ RowSet(OrderRow, order, o, x, order')
    BY <1>3, MoveTyped
  <2>2. /\ Ids(order') = Ids(order)
        /\ \A n \in Ids(order) : order'[n].promo = order[n].promo /\ order'[n].lateCap = order[n].lateCap
    BY <2>1 DEF RowSet, MovedFrom
  <2>3. \A i : Taken(i)' = Taken(i) /\ OnTime(i)' = OnTime(i)
    BY <2>2 DEF Taken, OnTime
  <2> QED BY <1>1, <1>3, <2>3
<1>4. ASSUME NEW row, RowAdded(OrderRow, order, row, order'), NEW i
      PROVE  /\ Taken(i)' = IF row.promo = i THEN Taken(i) \cup {Len(order) + 1} ELSE Taken(i)
             /\ OnTime(i)' = IF row.promo = i /\ ~row.lateCap
                             THEN OnTime(i) \cup {Len(order) + 1} ELSE OnTime(i)
             /\ Len(order) + 1 \notin Taken(i) /\ Len(order) + 1 \notin OnTime(i)
  <2>1. /\ Ids(order') = Ids(order) \cup {Len(order) + 1} /\ Len(order) + 1 \notin Ids(order)
        /\ order'[Len(order) + 1] = row
        /\ \A o \in Ids(order) : order'[o] = order[o]
    BY <1>4 DEF RowAdded
  <2> QED BY <2>1 DEF Taken, OnTime
<1>5. CASE OrderOnBehalf /\ UNCHANGED redeemed
  <2>1. PICK row \in OrderRow : row.promo = 0 /\ RowAdded(OrderRow, order, row, order')
    BY <1>5, OnBehalfTyped
  <2>2. \A i \in Promos : i # 0
    BY PromoIds
  <2>3. \A i \in Promos : Taken(i)' = Taken(i) /\ OnTime(i)' = OnTime(i)
    BY <1>4, <2>1, <2>2
  <2> QED BY <1>5, <2>3 DEF CountInv
<1>6. CASE OrderPlaced
  <2>1. PICK w \in Workers : PlaceOrder(w)
    BY <1>6 DEF OrderPlaced
  <2>2. PICK row \in OrderRow : RowFrom(row, req[w]) /\ RowAdded(OrderRow, order, row, order')
    BY <2>1, PlaceOrderTyped
  <2>3. PICK k : k = row.promo
    OBVIOUS
  <2>4. PICK n : n = Len(order) + 1
    OBVIOUS
  <2>5. /\ redeemed' = IF k = 0 THEN redeemed ELSE [redeemed EXCEPT ![k] = redeemed[k] + 1]
        /\ k = req[w].promo /\ Granted(req[w])
    <3>1. k = req[w].promo
      BY <2>2, <2>3 DEF RowFrom
    <3>2. redeemed' = IF req[w].promo = 0 THEN redeemed
                      ELSE [redeemed EXCEPT ![req[w].promo] = redeemed[req[w].promo] + 1]
      BY <2>1, PlaceOrderTyped
    <3>3. Granted(req[w])
      BY <2>1 DEF PriceInv, PlaceOrder
    <3> QED BY <3>1, <3>2, <3>3
  <2>6. redeemed \in [Promos -> Nat] /\ \A i \in Promos : i # 0
    BY PromoIds DEF TypeInv, RestFits
  <2>7. ASSUME NEW i \in Promos PROVE redeemed'[i] = Cardinality(Taken(i)')
    <3>1. redeemed[i] = Cardinality(Taken(i)) /\ IsFiniteSet(Taken(i))
      BY TakenFinite DEF CountInv
    <3>2. CASE i = k
      <4>1. Taken(i)' = Taken(i) \cup {n} /\ n \notin Taken(i)
        BY <1>4, <2>2, <2>3, <2>4, <3>2
      <4>2. Cardinality(Taken(i) \cup {n}) = Cardinality(Taken(i)) + 1
        BY <3>1, <4>1, FS_AddElement
      <4> QED BY <2>5, <2>6, <3>1, <3>2, <4>1, <4>2
    <3>3. CASE i # k
      <4>1. Taken(i)' = Taken(i)
        BY <1>4, <2>2, <2>3, <3>3
      <4> QED BY <2>5, <2>6, <3>1, <3>3, <4>1
    <3> QED BY <3>2, <3>3
  <2>8. ASSUME NEW i \in Promos, PromoList[i].cap # Unlimited
        PROVE  Cardinality(OnTime(i)') <= AtLeastZero(PromoList[i].cap)
    <3>1. Cardinality(OnTime(i)) <= AtLeastZero(PromoList[i].cap)
      BY <2>8 DEF CountInv
    <3>2. CASE i = k /\ ~row.lateCap
      <4>1. OnTime(i)' = OnTime(i) \cup {n} /\ n \notin OnTime(i)
        BY <1>4, <2>2, <2>3, <2>4, <3>2
      <4>2. /\ IsFiniteSet(OnTime(i)) /\ Cardinality(OnTime(i)) \in Nat
            /\ Cardinality(OnTime(i)) <= Cardinality(Taken(i)) /\ Cardinality(Taken(i)) \in Nat
        BY TakenFinite
      <4>3. Cardinality(OnTime(i) \cup {n}) = Cardinality(OnTime(i)) + 1
        BY <4>1, <4>2, FS_AddElement
      <4>4. Cardinality(Taken(i)) = req[w].seen
        <5>1. redeemed[i] = req[w].seen
          BY <2>2, <2>3, <2>6, <3>2 DEF RowFrom
        <5> QED BY <5>1 DEF CountInv
      <4>5. req[w].seen < PromoList[i].cap
        BY <2>5, <2>6, <2>8, <3>2 DEF Granted, UnderCap
      <4>6. PromoList[i].cap \in Int /\ PromoList[i].cap <= AtLeastZero(PromoList[i].cap)
            /\ AtLeastZero(PromoList[i].cap) \in Int
        <5>1. PromoList[i].cap \in Int
          BY <2>8, PromotionFacts DEF Promotion
        <5> QED BY <5>1 DEF AtLeastZero
      <4> QED BY <4>1, <4>2, <4>3, <4>4, <4>5, <4>6
    <3>3. CASE ~ (i = k /\ ~row.lateCap)
      <4>1. OnTime(i)' = OnTime(i)
        BY <1>4, <2>2, <2>3, <3>3
      <4> QED BY <3>1, <4>1
    <3> QED BY <3>2, <3>3
  <2> QED BY <2>7, <2>8 DEF CountInv
<1> QED BY <1>2, <1>3, <1>5, <1>6, OrderSteps

-----------------------------------------------------------------------------
(* Budgets.                                                                *)

\* Charged, of a row.
Charge(x, c, cc) ==
  IF /\ x.customer = c /\ x.cc = cc
     /\ \/ x.status # "cancelled" /\ x.cart # 0 /\ ~x.lateSpend
        \/ x.grand < 0
  THEN x.grand ELSE 0

Charges(c, cc) == [o \in Ids(order) |-> Charge(order[o], c, cc)]

SpentInv ==
  \A c \in Customers, cc \in CostCenters : Budget[c][cc] # NoBudget =>
    SumOf(Charges(c, cc)) <= AtLeastZero(Budget[c][cc])

(* What is charged is at most the period's spend: a row that stands counts *)
(* there whole, and one that does not is charged only if it is negative.   *)
LEMMA ChargesFit ==
  ASSUME TypeInv, NEW c, NEW cc
  PROVE  /\ Charges(c, cc) \in [Ids(order) -> Int] /\ Charges(c, cc) \in [1..Len(order) -> Int]
         /\ SumOf(Charges(c, cc)) \in Int /\ SumOf(Charges(c, cc)) <= Spend(c, cc)
         /\ Len(order) \in Nat
<1> DEFINE f == Charges(c, cc)
           g == [o \in Ids(order) |-> IF Stands(o, c, cc) THEN order[o].grand ELSE 0]
<1>1. IsFiniteSet(Ids(order)) /\ Len(order) \in Nat /\ \A o \in Ids(order) : order[o].grand \in Int
  BY OrderRows DEF TypeInv
<1>2. f \in [Ids(order) -> Int] /\ g \in [Ids(order) -> Int]
  BY <1>1 DEF Charges, Charge
<1>3. \A o \in Ids(order) : f[o] <= g[o]
  BY <1>1 DEF Charges, Charge, Stands
<1>4. SumOf(f) \in Int
  <2> HIDE DEF f
  <2> QED BY <1>1, <1>2, SumInt
<1>5. SumOf(f) <= SumOf(g)
  <2> HIDE DEF f, g
  <2> QED BY <1>1, <1>2, <1>3, SumMonotone
<1> QED BY <1>1, <1>2, <1>4, <1>5 DEF Ids, Spend

LEMMA BudgetInt ==
  ASSUME NEW c \in Customers, NEW cc \in CostCenters, Budget[c][cc] # NoBudget
  PROVE  /\ Budget[c][cc] \in Int /\ AtLeastZero(Budget[c][cc]) \in Nat
         /\ Budget[c][cc] <= AtLeastZero(Budget[c][cc])
<1>1. Budget \in [Customers -> [CostCenters -> Int \cup {NoBudget}]]
  BY CheckoutAssumption
<1>2. Budget[c][cc] \in Int
  BY <1>1
<1> QED BY <1>2 DEF AtLeastZero

LEMMA SpentInit == Init => SpentInv
<1> SUFFICES ASSUME Init PROVE SpentInv
  OBVIOUS
<1>1. ASSUME NEW c, NEW cc PROVE SumOf(Charges(c, cc)) = 0
  <2>1. DOMAIN Charges(c, cc) = {}
    BY DEF Init, Charges, Ids
  <2> QED BY <2>1, SumEmpty
<1>2. \A c \in Customers, cc \in CostCenters :
        Budget[c][cc] # NoBudget => 0 <= AtLeastZero(Budget[c][cc])
  BY BudgetInt
<1> QED BY <1>1, <1>2 DEF SpentInv

(* One more row adds what it is charged.                                   *)
LEMMA RowCharges ==
  ASSUME TypeInv, NEW row \in OrderRow, RowAdded(OrderRow, order, row, order'),
         NEW c, NEW cc
  PROVE  SumOf(Charges(c, cc))' = SumOf(Charges(c, cc)) + Charge(row, c, cc)
<1>1. /\ Ids(order') = Ids(order) \cup {Len(order) + 1} /\ Len(order) + 1 \notin Ids(order)
      /\ order'[Len(order) + 1] = row /\ Len(order') = Len(order) + 1
      /\ \A o \in Ids(order) : order'[o] = order[o]
  BY DEF RowAdded
<1>2. PICK n, f, g : n = Len(order) /\ f = Charges(c, cc) /\ g = Charges(c, cc)'
  OBVIOUS
<1>3. n \in Nat /\ f \in [1..n -> Int]
  BY <1>2, ChargesFit
<1>4. \A k \in 1..n : g[k] = f[k]
  <2>1. \A k \in Ids(order) : k \in Ids(order') /\ order'[k] = order[k]
    BY <1>1
  <2>2. 1..n = Ids(order)
    BY <1>2 DEF Ids
  <2> QED BY <1>2, <2>1, <2>2 DEF Charges, Charge
<1>5. g[n + 1] = Charge(row, c, cc)
  BY <1>1, <1>2 DEF Charges, Charge
<1>6. g \in [1..(n + 1) -> Int]
  <2>1. g = [k \in 1..(n + 1) |-> g[k]]
    BY <1>1, <1>2 DEF Charges, Ids
  <2>2. Charge(row, c, cc) \in Int
    BY DEF OrderRow, Charge
  <2>3. g[n + 1] \in Int /\ \A k \in 1..n : g[k] \in Int
    BY <1>3, <1>4, <1>5, <2>2
  <2>4. \A k \in 1..(n + 1) : k = n + 1 \/ k \in 1..n
    BY <1>3
  <2> QED BY <2>1, <2>3, <2>4
<1>7. SumOf(g) = SumOf(f) + g[n + 1]
  BY <1>3, <1>4, <1>6, SumLonger
<1> QED BY <1>2, <1>5, <1>7

LEMMA SpentNext ==
  ASSUME TypeInv, PriceInv, SpentInv, [Next]_vars
  PROVE  SpentInv'
<1> SUFFICES ASSUME NEW c \in Customers, NEW cc \in CostCenters, Budget[c][cc] # NoBudget
             PROVE  SumOf(Charges(c, cc))' <= AtLeastZero(Budget[c][cc])
  BY DEF SpentInv
<1>1. SumOf(Charges(c, cc)) <= AtLeastZero(Budget[c][cc]) /\ SumOf(Charges(c, cc)) \in Int
  BY ChargesFit DEF SpentInv
<1>2. /\ Budget[c][cc] \in Int /\ AtLeastZero(Budget[c][cc]) \in Nat
      /\ Budget[c][cc] <= AtLeastZero(Budget[c][cc])
  BY BudgetInt
<1>3. CASE UNCHANGED order
  BY <1>1, <1>3 DEF Charges, Charge
<1>4. ASSUME NEW row \in OrderRow, RowAdded(OrderRow, order, row, order'), Charge(row, c, cc) <= 0
      PROVE  SumOf(Charges(c, cc))' <= AtLeastZero(Budget[c][cc])
  <2>1. SumOf(Charges(c, cc))' = SumOf(Charges(c, cc)) + Charge(row, c, cc)
    BY <1>4, RowCharges
  <2>2. Charge(row, c, cc) \in Int
    BY DEF OrderRow, Charge
  <2> QED BY <1>1, <1>2, <1>4, <2>1, <2>2
<1>5. CASE OrderOnBehalf
  <2>1. PICK row \in OrderRow : row.cart = 0 /\ RowAdded(OrderRow, order, row, order')
    BY <1>5, OnBehalfTyped
  <2>2. row.grand \in Int
    BY DEF OrderRow
  <2>3. Charge(row, c, cc) <= 0
    BY <2>1, <2>2 DEF Charge
  <2> QED BY <1>4, <2>1, <2>3
<1>6. CASE OrderPlaced
  <2>1. PICK w \in Workers : PlaceOrder(w)
    BY <1>6 DEF OrderPlaced
  <2>2. PICK row \in OrderRow : RowFrom(row, req[w]) /\ RowAdded(OrderRow, order, row, order')
    BY <2>1, PlaceOrderTyped
  <2>3. row.grand \in Int
    BY DEF OrderRow
  <2>4. CASE Charge(row, c, cc) <= 0
    BY <1>4, <2>2, <2>4
  <2>5. CASE ~ (Charge(row, c, cc) <= 0)
    <3>1. /\ row.customer = c /\ row.cc = cc /\ ~row.lateSpend
          /\ Charge(row, c, cc) = row.grand
      BY <2>3, <2>5 DEF Charge
    <3>2. /\ req[w].customer = c /\ req[w].cc = cc /\ row.grand = req[w].grand
          /\ Spend(c, cc) = req[w].spent
      BY <2>2, <3>1 DEF RowFrom
    <3>3. Within(req[w])
      BY <2>1 DEF PlaceOrder, PriceInv
    <3>4. Spend(c, cc) + row.grand <= Budget[c][cc]
      BY <3>2, <3>3 DEF Within, Fits
    <3>5. SumOf(Charges(c, cc)) <= Spend(c, cc) /\ Spend(c, cc) \in Int
      BY ChargesFit, SpendInt DEF TypeInv
    <3>6. SumOf(Charges(c, cc))' = SumOf(Charges(c, cc)) + row.grand
      BY <2>2, <3>1, RowCharges
    <3> QED BY <1>1, <1>2, <2>3, <3>4, <3>5, <3>6
  <2> QED BY <2>4, <2>5
<1>7. CASE MoveOrder
  <2>1. PICK o \in Ids(order), x \in OrderRow :
          MovedFrom(x, order[o]) /\ RowSet(OrderRow, order, o, x, order')
    BY <1>7, MoveTyped
  <2>2. /\ Ids(order') = Ids(order) /\ order'[o] = x
        /\ \A n \in Ids(order) \ {o} : order'[n] = order[n]
    BY <2>1 DEF RowSet
  <2>3. PICK S, f, g : S = Ids(order) /\ f = Charges(c, cc)' /\ g = Charges(c, cc)
    OBVIOUS
  <2>4. IsFiniteSet(S) /\ order[o].grand \in Int /\ x.grand = order[o].grand
    BY <2>1, <2>3, OrderRows DEF TypeInv, MovedFrom
  <2>5. g \in [S -> Int]
    BY <2>3, ChargesFit
  <2>6. Charge(x, c, cc) \in Int /\ Charge(x, c, cc) <= Charge(order[o], c, cc)
    BY <2>1, <2>4 DEF MovedFrom, Charge
  <2>7. f = [n \in S |-> IF n = o THEN Charge(x, c, cc) ELSE g[n]]
    <3>1. f = [n \in S |-> Charge(order'[n], c, cc)]
      BY <2>2, <2>3 DEF Charges, Charge
    <3>2. g = [n \in S |-> Charge(order[n], c, cc)]
      BY <2>3 DEF Charges
    <3>3. ASSUME NEW n \in S PROVE f[n] = IF n = o THEN Charge(x, c, cc) ELSE g[n]
      BY <2>2, <2>3, <3>1, <3>2
    <3> QED BY <3>1, <3>3
  <2>8. g[o] = Charge(order[o], c, cc)
    BY <2>3 DEF Charges
  <2>9. f \in [S -> Int] /\ \A n \in S : f[n] <= g[n]
    BY <2>5, <2>6, <2>7, <2>8
  <2>10. SumOf(f) <= SumOf(g) /\ SumOf(f) \in Int
    BY <2>4, <2>5, <2>9, SumMonotone, SumInt
  <2> QED BY <1>1, <1>2, <2>3, <2>10
<1> QED BY <1>3, <1>5, <1>6, <1>7, OrderSteps

-----------------------------------------------------------------------------
(* The theorems.                                                           *)

CheckoutInv ==
  /\ TypeInv /\ HoldInv /\ OrderedOnceUnlessRaced
  /\ PriceInv /\ RowInv /\ CountInv /\ SpentInv /\ InvoiceMatchesOrder

LEMMA CheckoutInvAlways == Spec => []CheckoutInv
<1>1. Init => CheckoutInv
  <2>1. Init => InvoiceMatchesOrder
    BY DEF Init, InvoiceMatchesOrder, Ids
  <2> QED BY <2>1, TypeInit, HoldInit, OrderedInit, PriceInit, RowInit, CountInit, SpentInit
          DEF CheckoutInv
<1>2. CheckoutInv /\ [Next]_vars => CheckoutInv'
  <2> SUFFICES ASSUME CheckoutInv, [Next]_vars PROVE CheckoutInv'
    OBVIOUS
  <2>1. /\ TypeInv /\ HoldInv /\ OrderedOnceUnlessRaced
        /\ PriceInv /\ RowInv /\ CountInv /\ SpentInv /\ InvoiceMatchesOrder
    BY DEF CheckoutInv
  <2>2. TypeInv' /\ HoldInv' /\ OrderedOnceUnlessRaced'
    BY <2>1, TypeNext, HoldNext, OrderedNext
  <2>3. PriceInv' /\ RowInv' /\ CountInv'
    BY <2>1, PriceNext, RowNext, CountNext
  <2>4. SpentInv' /\ InvoiceMatchesOrder'
    BY <2>1, SpentNext, InvoiceNext
  <2> QED BY <2>2, <2>3, <2>4 DEF CheckoutInv
<1> QED BY <1>1, <1>2, PTL DEF Spec

LEMMA ActiveAtMostOne ==
  ASSUME CartsFit, NEW c \in Customers
  PROVE  Cardinality(ActiveCarts(c)) <= 1
<1>1. \A i, j \in ActiveCarts(c) : i = j
  BY DEF CartsFit, OneActive, ActiveCarts
<1>2. CASE ActiveCarts(c) = {}
  BY <1>2, FS_EmptySet
<1>3. CASE ActiveCarts(c) # {}
  <2>1. PICK i : i \in ActiveCarts(c)
    BY <1>3
  <2>2. ActiveCarts(c) = {i}
    BY <1>1, <2>1
  <2>3. Cardinality({i}) = 1
    BY FS_Singleton
  <2> QED BY <2>2, <2>3
<1> QED BY <1>2, <1>3

LEMMA TypeInvIsTypeOK ==
  ASSUME TypeInv
  PROVE  TypeOK
<1>1. /\ cart \in Seq(Cart) /\ order \in Seq(OrderRow)
      /\ list \in [Customers -> [Products -> Quantities \cup {Absent}]]
      /\ redeemed \in [Promos -> Nat] /\ open \subseteq Promos
      /\ raced \subseteq Ids(cart) /\ started \in Nat
  BY DEF TypeInv, OrdersFit, CartsFit, RestFits
<1>2. invoice \in Seq([order : Ids(order), total : Int])
  <2> DEFINE R == [order : Ids(order), total : Int]
  <2>1. invoice \in Seq(InvoiceRow) /\ \A n \in Ids(invoice) : invoice[n].order \in Ids(order)
    BY DEF TypeInv, OrdersFit
  <2>2. Len(invoice) \in Nat /\ DOMAIN invoice = Ids(invoice) /\ \A n \in Ids(invoice) : invoice[n] \in InvoiceRow
    BY <2>1, TableFacts
  <2>3. \A n \in Ids(invoice) : invoice[n] \in R
    BY <2>1, <2>2 DEF InvoiceRow
  <2> HIDE DEF R
  <2>4. invoice = [n \in 1..Len(invoice) |-> invoice[n]]
    <3>1. invoice \in [1..Len(invoice) -> InvoiceRow]
      BY <2>1, LenProperties
    <3> QED BY <3>1
  <2>5. invoice \in [1..Len(invoice) -> R]
    BY <2>3, <2>4 DEF Ids
  <2>6. invoice \in Seq(R)
    BY <2>2, <2>5, SeqDef
  <2> QED BY <2>6 DEF R
<1>3. /\ pc \in [Workers -> {"idle"} \cup Editing \cup CheckingOut]
      /\ req \in [Workers -> {NoReq} \cup EditRequest \cup CheckoutRequest]
      /\ \A w \in Workers : RequestFits(pc[w], req[w])
  BY DEF TypeInv, RequestsFit, Stages, AnyRequest
<1>4. \A c \in Customers : Cardinality(ActiveCarts(c)) <= 1
  BY ActiveAtMostOne DEF TypeInv
<1> QED BY <1>1, <1>2, <1>3, <1>4 DEF TypeOK

(* Whatever the customers, products, promotions and workers: the tables    *)
(* keep their shape and at most one active cart per customer, a promotion  *)
(* is counted as often as it was taken, a coupon's discount goes to a cart *)
(* that carries it, and an invoice differs from its order by the discount  *)
(* and the shipping it forgets (cart and order handlers).                  *)
THEOREM BooksAlwaysAgree == Spec => []BooksAgree
<1>1. CheckoutInv => BooksAgree
  <2> SUFFICES ASSUME CheckoutInv PROVE BooksAgree
    OBVIOUS
  <2>1. TypeOK
    BY TypeInvIsTypeOK DEF CheckoutInv
  <2>2. RedemptionsCounted
    BY DEF CheckoutInv, CountInv, Taken, RedemptionsCounted
  <2>3. CouponWasEntered
    BY DEF CheckoutInv, RowInv, CouponWasEntered
  <2> QED BY <2>1, <2>2, <2>3 DEF CheckoutInv, BooksAgree
<1> QED BY <1>1, CheckoutInvAlways, PTL

(* A cart that no checkout shared is ordered once, with the lines it holds *)
(* (placeOrderFromCart, against every other request on the cart).          *)
THEOREM OrderedAlwaysOnce == Spec => []OrderedOnceUnlessRaced
<1>1. CheckoutInv => OrderedOnceUnlessRaced
  BY DEF CheckoutInv
<1> QED BY <1>1, CheckoutInvAlways, PTL

(* The redemptions made with an up-to-date count stay under the cap, and   *)
(* the orders placed with an up-to-date spend stay within the budget, less *)
(* what negative orders took off it, however many checkouts overlap and    *)
(* whatever the sign of quantities, shipping amounts, caps and budgets     *)
(* (Evaluate, checkBudget).                                                *)
THEOREM LimitsAlwaysHold == Spec => []LimitsHold
<1>1. CheckoutInv => LimitsHold
  <2> SUFFICES ASSUME CheckoutInv PROVE LimitsHold
    OBVIOUS
  <2>1. OverCapOnlyByOverlap
    BY DEF CheckoutInv, CountInv, OnTime, OverCapOnlyByOverlap
  <2>2. OverspentOnlyByOverlap
    <3> SUFFICES ASSUME NEW c \in Customers, NEW cc \in CostCenters, Budget[c][cc] # NoBudget
                 PROVE  SumOf([o \in Ids(order) |-> Charged(o, c, cc)]) <= AtLeastZero(Budget[c][cc])
      BY DEF OverspentOnlyByOverlap
    <3>1. SumOf(Charges(c, cc)) <= AtLeastZero(Budget[c][cc])
      BY DEF CheckoutInv, SpentInv
    <3>2. Charges(c, cc) = [o \in Ids(order) |-> Charged(o, c, cc)]
      BY DEF Charges, Charge, Charged
    <3> QED BY <3>1, <3>2
  <2> QED BY <2>1, <2>2 DEF LimitsHold
<1> QED BY <1>1, CheckoutInvAlways, PTL

(* The loop over the promotions returns a largest discount, then the       *)
(* highest priority, then the first, for any list, any cart and any code   *)
(* (promotions.Evaluate).                                                  *)
THEOREM BestAlwaysWins == Spec => []BestPromotionWins
<1> DEFINE Wins(s, code, best) ==
             IF Candidates(s, code) = {} THEN best = 0
             ELSE /\ best \in Candidates(s, code)
                  /\ \A k \in Candidates(s, code) \ {best} : Ahead(best, k, s)
<1>1. ASSUME CheckoutInv, NEW code \in Codes, NEW s \in {Subtotal(cart[i].item) : i \in Ids(cart)}
      PROVE  Wins(s, code, Evaluate(PromoList, redeemed, open, s, code))
  <2>1. PICK i \in Ids(cart) : s = Subtotal(cart[i].item)
    OBVIOUS
  <2>2. s \in Int /\ open \subseteq Promos
    <3>1. cart[i].item \in Lines
      BY <1>1, CartRows DEF CheckoutInv, TypeInv
    <3> QED BY <1>1, <2>1, <3>1, AmountsInt DEF CheckoutInv, TypeInv, RestFits
  <2> QED BY <2>2, EvaluateChooses
<1>2. ASSUME \A code \in Codes, s \in {Subtotal(cart[i].item) : i \in Ids(cart)} :
               Wins(s, code, Evaluate(PromoList, redeemed, open, s, code))
      PROVE  BestPromotionWins
  BY <1>2 DEF BestPromotionWins, Ahead
<1>3. CheckoutInv => BestPromotionWins
  <2> HIDE DEF Wins
  <2> QED BY <1>1, <1>2
<1> QED BY <1>3, CheckoutInvAlways, PTL

=============================================================================
