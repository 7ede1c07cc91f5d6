----------------------------- MODULE SumTheorems -----------------------------
(***************************************************************************)
(* What SumOf returns and how a change of its argument changes it.         *)
(*                                                                         *)
(* Induction is done by hand: a set of naturals that holds 0 and, with n,  *)
(* also n + 1 is all of Nat (NatSet, from the library's well-foundedness   *)
(* of the naturals), and a proof by induction names the set of the numbers *)
(* its claim holds of.                                                     *)
(***************************************************************************)
EXTENDS Sums, Sequences, FiniteSets, FiniteSetTheorems, WellFoundedInduction, TLAPS

Below == {ss \in Nat \X Nat : ss[1] < ss[2]}

(* Every set of naturals that is not empty has a least element.            *)
LEMMA LeastOf ==
  ASSUME NEW T, T \subseteq Nat, T # {}
  PROVE  \E x \in T : \A y \in T : x <= y
<1>1. IsWellFoundedOn(Below, Nat)
  BY NatLessThanWellFounded DEF OpToRel, Below
<1>2. PICK x \in T : \A y \in T : ~ (<<y, x>> \in Below)
  BY <1>1, WFMin
<1>3. \A y \in T : y < x => <<y, x>> \in Below
  BY DEF Below
<1>4. ASSUME NEW y \in T PROVE x <= y
  <2>1. x \in Nat /\ y \in Nat
    OBVIOUS
  <2>2. ~ (y < x)
    BY <1>2, <1>3
  <2> QED BY <2>1, <2>2
<1> QED BY <1>4

(* Induction over the naturals, for a set of naturals.                     *)
LEMMA NatSet ==
  ASSUME NEW P, 0 \in P, \A n \in Nat : n \in P => n + 1 \in P
  PROVE  Nat \subseteq P
<1> SUFFICES ASSUME Nat \ P # {} PROVE FALSE
  OBVIOUS
<1>1. PICK m \in Nat \ P : \A y \in Nat \ P : m <= y
  BY LeastOf
<1>2. m # 0 /\ m - 1 \in Nat /\ ~ (m <= m - 1)
  BY <1>1
<1>3. m - 1 \in P
  BY <1>1, <1>2
<1> QED BY <1>1, <1>2, <1>3

(* A finite set without one of its n + 1 elements has n.                   *)
LEMMA OneLess ==
  ASSUME NEW s, IsFiniteSet(s), NEW n \in Nat, Cardinality(s) = n + 1
  PROVE  /\ s # {}
         /\ \A x \in s : IsFiniteSet(s \ {x}) /\ Cardinality(s \ {x}) = n
<1>1. Cardinality({}) = 0
  BY FS_EmptySet
<1>2. n + 1 # 0 /\ (n + 1) - 1 = n
  OBVIOUS
<1>3. s # {}
  BY <1>1, <1>2, Zenon
<1>4. ASSUME NEW x \in s PROVE IsFiniteSet(s \ {x}) /\ Cardinality(s \ {x}) = (n + 1) - 1
  BY FS_RemoveElement, Zenon
<1> QED BY <1>2, <1>3, <1>4

-----------------------------------------------------------------------------
(* The equation of the fold.                                               *)

Pick(s) == CHOOSE x \in s : TRUE
Drop(f, x) == [y \in DOMAIN f \ {x} |-> f[y]]

\* t gives the sum of f over each set in T.
Folds(f, T, t) ==
  t = [s \in T |-> IF s = {} THEN 0 ELSE f[Pick(s)] + t[s \ {Pick(s)}]]

(* SumOf is what the library's fold says: some function that satisfies the *)
(* fold's equation, applied to the domain.                                 *)
LEMMA SumIsFold ==
  ASSUME NEW f
  PROVE  SumOf(f) = (CHOOSE t : Folds(f, SUBSET DOMAIN f, t))[DOMAIN f]
BY Zenon DEF SumOf, FoldFunction, FoldFunctionOnSet, MapThenFoldSet, Folds, Pick

(* Such a function exists on the subsets of a finite set.                  *)
LEMMA FoldExists ==
  ASSUME NEW f, NEW S, IsFiniteSet(S)
  PROVE  \E t : Folds(f, SUBSET S, t)
<1> DEFINE T(n) == {s \in SUBSET S : Cardinality(s) <= n}
           P == {n \in Nat : \E t : Folds(f, T(n), t)}
<1>0. \A s \in SUBSET S : IsFiniteSet(s) /\ Cardinality(s) \in Nat
  BY FS_Subset, FS_CardinalityType
<1>1. 0 \in P
  <2> DEFINE t == [s \in T(0) |-> 0]
  <2>1. \A s \in T(0) : s = {}
    BY <1>0, FS_EmptySet
  <2>2. Folds(f, T(0), t)
    BY <2>1 DEF Folds
  <2> QED BY <2>2
<1>2. ASSUME NEW n \in Nat, n \in P PROVE n + 1 \in P
  <2>1. PICK t : Folds(f, T(n), t)
    BY <1>2
  <2> DEFINE u == [s \in T(n + 1) |-> IF s = {} THEN 0 ELSE f[Pick(s)] + t[s \ {Pick(s)}]]
  <2>2. \A s \in T(n) : s \in T(n + 1) /\ u[s] = t[s]
    <3>1. \A s \in T(n) : s \in T(n + 1)
      BY <1>0
    <3> HIDE DEF T
    <3>2. \A s \in T(n) : t[s] = IF s = {} THEN 0 ELSE f[Pick(s)] + t[s \ {Pick(s)}]
      BY <2>1 DEF Folds
    <3> QED BY <3>1, <3>2
  <2>3. \A s \in T(n + 1) : s # {} => s \ {Pick(s)} \in T(n)
    <3> SUFFICES ASSUME NEW s \in T(n + 1), s # {} PROVE s \ {Pick(s)} \in T(n)
      OBVIOUS
    <3>1. Pick(s) \in s
      BY DEF Pick
    <3>2. Cardinality(s \ {Pick(s)}) = Cardinality(s) - 1
      BY <1>0, <3>1, FS_RemoveElement
    <3> QED BY <1>0, <3>2
  <2>4. \A s \in T(n + 1) : s # {} => u[s \ {Pick(s)}] = t[s \ {Pick(s)}]
    BY <2>2, <2>3
  <2>5. Folds(f, T(n + 1), u)
    <3> HIDE DEF T
    <3> QED BY <2>4 DEF Folds
  <2>6. n + 1 \in Nat /\ \E v : Folds(f, T(n + 1), v)
    <3> HIDE DEF T, u
    <3> QED BY <2>5
  <2> QED BY <2>6
<1>3. Cardinality(S) \in P
  <2> HIDE DEF P
  <2>1. Nat \subseteq P
    BY <1>1, <1>2, NatSet
  <2> QED BY <2>1, <1>0
<1>4. T(Cardinality(S)) = SUBSET S
  BY FS_Subset, <1>0
<1> QED BY <1>3, <1>4
(* A fold depends on the values of its function only.                      *)
LEMMA FoldUnique ==
  ASSUME NEW f, NEW g, NEW S, NEW R, NEW t, NEW u,
         IsFiniteSet(S), Folds(f, SUBSET S, t), Folds(g, SUBSET R, u),
         NEW Q \in SUBSET S, Q \subseteq R, \A x \in Q : f[x] = g[x]
  PROVE  t[Q] = u[Q]
<1> DEFINE P == {n \in Nat : \A s \in SUBSET Q : Cardinality(s) = n => t[s] = u[s]}
<1>0. \A s \in SUBSET Q : IsFiniteSet(s) /\ Cardinality(s) \in Nat
  BY FS_Subset, FS_CardinalityType
<1>1. \A s \in SUBSET Q :
        /\ t[s] = IF s = {} THEN 0 ELSE f[Pick(s)] + t[s \ {Pick(s)}]
        /\ u[s] = IF s = {} THEN 0 ELSE g[Pick(s)] + u[s \ {Pick(s)}]
  BY DEF Folds
<1>2. \A s \in SUBSET Q : s # {} =>
        /\ Pick(s) \in s /\ f[Pick(s)] = g[Pick(s)]
        /\ s \ {Pick(s)} \in SUBSET Q
        /\ Cardinality(s \ {Pick(s)}) = Cardinality(s) - 1
  BY <1>0, FS_RemoveElement DEF Pick
<1>3. 0 \in P
  BY <1>0, <1>1, FS_EmptySet
<1>4. ASSUME NEW n \in Nat, n \in P PROVE n + 1 \in P
  <2> SUFFICES ASSUME NEW s \in SUBSET Q, Cardinality(s) = n + 1 PROVE t[s] = u[s]
    OBVIOUS
  <2>1. s # {}
    BY <1>0, OneLess
  <2>2. t[s \ {Pick(s)}] = u[s \ {Pick(s)}]
    BY <1>2, <1>4, <2>1
  <2> QED BY <1>1, <1>2, <2>1, <2>2
<1>5. Cardinality(Q) \in P
  <2> HIDE DEF P
  <2>1. Nat \subseteq P
    BY <1>3, <1>4, NatSet
  <2> QED BY <2>1, <1>0
<1> QED BY <1>5

(* SumOf is the value of any fold over its function's domain.              *)
LEMMA SumByFold ==
  ASSUME NEW f, IsFiniteSet(DOMAIN f)
  PROVE  \E t : Folds(f, SUBSET DOMAIN f, t) /\ SumOf(f) = t[DOMAIN f]
<1> DEFINE t == CHOOSE t : Folds(f, SUBSET DOMAIN f, t)
<1>1. Folds(f, SUBSET DOMAIN f, t)
  BY FoldExists
<1>2. SumOf(f) = t[DOMAIN f]
  BY SumIsFold
<1> QED BY <1>1, <1>2

(* The sum of nothing.                                                     *)
LEMMA SumEmpty ==
  ASSUME NEW f, DOMAIN f = {}
  PROVE  SumOf(f) = 0
<1>1. IsFiniteSet(DOMAIN f)
  BY FS_EmptySet
<1>2. PICK t : Folds(f, SUBSET DOMAIN f, t) /\ SumOf(f) = t[DOMAIN f]
  BY <1>1, SumByFold
<1> QED BY <1>2 DEF Folds

(* Functions that agree have the same sum.                                 *)
LEMMA SumSame ==
  ASSUME NEW f, NEW g, IsFiniteSet(DOMAIN f), DOMAIN f = DOMAIN g,
         \A x \in DOMAIN f : f[x] = g[x]
  PROVE  SumOf(f) = SumOf(g)
<1>1. PICK t : Folds(f, SUBSET DOMAIN f, t) /\ SumOf(f) = t[DOMAIN f]
  BY SumByFold
<1>2. PICK u : Folds(g, SUBSET DOMAIN g, u) /\ SumOf(g) = u[DOMAIN g]
  BY SumByFold
<1>3. t[DOMAIN f] = u[DOMAIN f]
  BY <1>1, <1>2, FoldUnique
<1> QED BY <1>1, <1>2, <1>3

(* The element the fold picks comes off first.                             *)
LEMMA SumPick ==
  ASSUME NEW f, IsFiniteSet(DOMAIN f), DOMAIN f # {}
  PROVE  SumOf(f) = f[Pick(DOMAIN f)] + SumOf(Drop(f, Pick(DOMAIN f)))
<1> DEFINE S == DOMAIN f
           p == Pick(DOMAIN f)
           R == S \ {p}
           g == Drop(f, p)
<1>1. PICK t : Folds(f, SUBSET S, t) /\ SumOf(f) = t[S]
  BY SumByFold
<1>2. DOMAIN g = R /\ IsFiniteSet(R) /\ R \in SUBSET S
  BY FS_Subset DEF Drop
<1>3. PICK u : Folds(g, SUBSET R, u) /\ SumOf(g) = u[R]
  BY <1>2, SumByFold
<1>4. \A x \in R : f[x] = g[x]
  BY DEF Drop
<1>5. t[R] = u[R]
  <2> HIDE DEF S, R, g, p
  <2> QED BY <1>1, <1>2, <1>3, <1>4, FoldUnique DEF S
<1>6. t[S] = f[p] + t[R]
  BY <1>1 DEF Folds
<1> QED BY <1>1, <1>3, <1>5, <1>6

-----------------------------------------------------------------------------
(* Types.                                                                  *)

(* A sum of integers is an integer, one of naturals a natural.             *)
LEMMA SumClosed ==
  ASSUME NEW N \in {Nat, Int}, NEW S, IsFiniteSet(S), NEW f \in [S -> N]
  PROVE  SumOf(f) \in N
<1> DEFINE P == {n \in Nat : \A s \in SUBSET S : \A g \in [s -> N] :
                               Cardinality(s) = n => SumOf(g) \in N}
<1>0. \A s \in SUBSET S : IsFiniteSet(s) /\ Cardinality(s) \in Nat
  BY FS_Subset, FS_CardinalityType
<1>1. 0 \in P
  <2> SUFFICES ASSUME NEW s \in SUBSET S, NEW g \in [s -> N], Cardinality(s) = 0
               PROVE  SumOf(g) \in N
    OBVIOUS
  <2>1. s = {}
    BY <1>0, FS_EmptySet
  <2>2. SumOf(g) = 0
    BY <2>1, SumEmpty
  <2> QED BY <2>2
<1>2. ASSUME NEW n \in Nat, n \in P PROVE n + 1 \in P
  <2> SUFFICES ASSUME NEW s \in SUBSET S, NEW g \in [s -> N], Cardinality(s) = n + 1
               PROVE  SumOf(g) \in N
    OBVIOUS
  <2> DEFINE p == Pick(s)
             h == Drop(g, p)
  <2>1. s # {}
    BY <1>0, OneLess
  <2>2. p \in s
    BY <2>1 DEF Pick
  <2>3. Cardinality(s \ {p}) = n
    BY <1>0, <2>2, OneLess
  <2>4. h \in [s \ {p} -> N]
    BY DEF Drop
  <2>5. SumOf(h) \in N
    BY <1>2, <2>3, <2>4
  <2>6. SumOf(g) = g[p] + SumOf(h)
    BY <1>0, <2>1, SumPick
  <2> QED BY <2>2, <2>5, <2>6
<1>3. Cardinality(S) \in P
  <2> HIDE DEF P
  <2>1. Nat \subseteq P
    BY <1>1, <1>2, NatSet
  <2> QED BY <2>1, <1>0
<1> QED BY <1>3

LEMMA SumNat ==
  ASSUME NEW S, IsFiniteSet(S), NEW f \in [S -> Nat]
  PROVE  SumOf(f) \in Nat
BY SumClosed

LEMMA SumInt ==
  ASSUME NEW S, IsFiniteSet(S), NEW f \in [S -> Int]
  PROVE  SumOf(f) \in Int
BY SumClosed

-----------------------------------------------------------------------------
(* Taking one element out.                                                 *)

(* Any element may come off first: the order of the rows does not matter.  *)
LEMMA SumDrop ==
  ASSUME NEW S, IsFiniteSet(S), NEW f \in [S -> Int], NEW x \in S
  PROVE  SumOf(f) = f[x] + SumOf(Drop(f, x))
<1> DEFINE P == {n \in Nat : \A s \in SUBSET S : \A g \in [s -> Int] : \A y \in s :
                               Cardinality(s) = n => SumOf(g) = g[y] + SumOf(Drop(g, y))}
<1>0. \A s \in SUBSET S : IsFiniteSet(s) /\ Cardinality(s) \in Nat
  BY FS_Subset, FS_CardinalityType
<1>1. 0 \in P
  <2>1. \A s \in SUBSET S : Cardinality(s) = 0 => s = {}
    BY <1>0, FS_EmptySet
  <2> QED BY <2>1
<1>2. ASSUME NEW n \in Nat, n \in P PROVE n + 1 \in P
  <2> SUFFICES ASSUME NEW s \in SUBSET S, NEW g \in [s -> Int], NEW y \in s,
                      Cardinality(s) = n + 1
               PROVE  SumOf(g) = g[y] + SumOf(Drop(g, y))
    OBVIOUS
  <2> DEFINE p == Pick(s)
             h == Drop(g, p)
             k == Drop(g, y)
  <2>1. p \in s
    BY DEF Pick
  <2>2. SumOf(g) = g[p] + SumOf(h)
    BY <1>0, SumPick
  <2>3. CASE y = p
    BY <2>2, <2>3
  <2>4. CASE y # p
    <3>1. /\ s \ {p} \in SUBSET S /\ s \ {y} \in SUBSET S
          /\ Cardinality(s \ {p}) = n /\ Cardinality(s \ {y}) = n
      BY <1>0, <2>1, OneLess
    <3>2. h \in [s \ {p} -> Int] /\ k \in [s \ {y} -> Int]
      BY DEF Drop
    <3>3. SumOf(h) = h[y] + SumOf(Drop(h, y))
      BY <1>2, <2>4, <3>1, <3>2
    <3>4. SumOf(k) = k[p] + SumOf(Drop(k, p))
      BY <1>2, <2>1, <2>4, <3>1, <3>2
    <3>5. Drop(h, y) = Drop(k, p) /\ Drop(h, y) \in [s \ {p, y} -> Int]
      BY DEF Drop
    <3>6. h[y] = g[y] /\ k[p] = g[p] /\ g[y] \in Int /\ g[p] \in Int
      BY <2>1, <2>4 DEF Drop
    <3>7. SumOf(Drop(h, y)) \in Int
      <4>1. s \ {p, y} \in SUBSET S
        OBVIOUS
      <4> QED BY <1>0, <3>5, <4>1, SumInt
    <3>8. SumOf(k) = g[p] + SumOf(Drop(h, y)) /\ SumOf(h) = g[y] + SumOf(Drop(h, y))
      BY <3>3, <3>4, <3>5, <3>6
    <3>9. SumOf(g) = g[y] + SumOf(k)
      <4> HIDE DEF h, k, p
      <4> QED BY <2>2, <3>6, <3>7, <3>8
    <3> QED BY <3>9
  <2> QED BY <2>3, <2>4
<1>3. Cardinality(S) \in P
  <2> HIDE DEF P
  <2>1. Nat \subseteq P
    BY <1>1, <1>2, NatSet
  <2> QED BY <2>1, <1>0
<1> QED BY <1>3

(* Changing one value changes the sum by the difference.                   *)
LEMMA SumChange ==
  ASSUME NEW S, IsFiniteSet(S), NEW f \in [S -> Int], NEW g \in [S -> Int],
         NEW x \in S, \A y \in S \ {x} : g[y] = f[y]
  PROVE  SumOf(g) = SumOf(f) - f[x] + g[x]
<1>1. SumOf(f) = f[x] + SumOf(Drop(f, x)) /\ SumOf(g) = g[x] + SumOf(Drop(g, x))
  BY SumDrop
<1>2. Drop(f, x) = Drop(g, x) /\ Drop(f, x) \in [S \ {x} -> Int]
  BY DEF Drop
<1>3. SumOf(Drop(f, x)) \in Int
  BY <1>2, SumInt, FS_Subset
<1> QED BY <1>1, <1>2, <1>3

-----------------------------------------------------------------------------
(* Comparing and combining sums.                                           *)

(* Induction over a finite set, for a set of its subsets.                  *)
LEMMA SubsetInduction ==
  ASSUME NEW S, IsFiniteSet(S), NEW P, {} \in P,
         \A T \in SUBSET S : \A x \in S \ T : T \in P => T \cup {x} \in P
  PROVE  S \in P
<1> DEFINE C == {n \in Nat : \A T \in SUBSET S : Cardinality(T) = n => T \in P}
<1>0. \A T \in SUBSET S : IsFiniteSet(T) /\ Cardinality(T) \in Nat
  BY FS_Subset, FS_CardinalityType
<1>1. 0 \in C
  <2>1. \A T \in SUBSET S : Cardinality(T) = 0 => T = {}
    BY <1>0, FS_EmptySet
  <2> QED BY <2>1
<1>2. ASSUME NEW n \in Nat, n \in C PROVE n + 1 \in C
  <2> SUFFICES ASSUME NEW T \in SUBSET S, Cardinality(T) = n + 1 PROVE T \in P
    OBVIOUS
  <2>1. PICK x \in T : Cardinality(T \ {x}) = n
    BY <1>0, OneLess
  <2>2. T \ {x} \in P
    BY <1>2, <2>1
  <2>3. (T \ {x}) \cup {x} \in P
    BY <2>2
  <2>4. (T \ {x}) \cup {x} = T
    OBVIOUS
  <2> QED BY <2>3, <2>4
<1>3. Cardinality(S) \in C
  <2> HIDE DEF C
  <2>1. Nat \subseteq C
    BY <1>1, <1>2, NatSet
  <2> QED BY <2>1, <1>0
<1> QED BY <1>3

On(f, T) == [y \in T |-> f[y]]

(* The sum over a set with one element more.                               *)
LEMMA SumOn ==
  ASSUME NEW S, IsFiniteSet(S)
  PROVE  \A f \in [S -> Int] : \A T \in SUBSET S : \A x \in S \ T :
           /\ SumOf(On(f, T)) \in Int
           /\ SumOf(On(f, T \cup {x})) = SumOf(On(f, T)) + f[x]
<1> SUFFICES ASSUME NEW f \in [S -> Int], NEW T \in SUBSET S, NEW x \in S \ T
             PROVE  /\ SumOf(On(f, T)) \in Int
                    /\ SumOf(On(f, T \cup {x})) = SumOf(On(f, T)) + f[x]
  OBVIOUS
<1> DEFINE R == T \cup {x}
           v == On(f, R)
<1>1. IsFiniteSet(T) /\ IsFiniteSet(R)
  BY FS_Subset
<1>2. On(f, T) \in [T -> Int] /\ v \in [R -> Int]
  BY DEF On
<1>3. Drop(v, x) = On(f, T) /\ v[x] = f[x]
  BY DEF On, Drop
<1>4. SumOf(On(f, T)) \in Int
  BY <1>1, <1>2, SumInt
<1>5. SumOf(v) = v[x] + SumOf(Drop(v, x))
  <2>1. x \in R
    OBVIOUS
  <2> HIDE DEF v, R
  <2> QED BY <1>1, <1>2, <2>1, SumDrop
<1> QED BY <1>3, <1>4, <1>5

LEMMA SumOnAll ==
  ASSUME NEW S, NEW f \in [S -> Int]
  PROVE  SumOf(On(f, {})) = 0 /\ On(f, S) = f
BY SumEmpty DEF On

(* A greater function has a greater sum.                                   *)
LEMMA SumMonotone ==
  ASSUME NEW S, IsFiniteSet(S), NEW f \in [S -> Int], NEW g \in [S -> Int],
         \A x \in S : f[x] <= g[x]
  PROVE  SumOf(f) <= SumOf(g)
<1> DEFINE P == {T \in SUBSET S : SumOf(On(f, T)) <= SumOf(On(g, T))}
<1>0. \A k \in [S -> Int] : \A T \in SUBSET S : \A x \in S \ T :
        /\ SumOf(On(k, T)) \in Int
        /\ SumOf(On(k, T \cup {x})) = SumOf(On(k, T)) + k[x]
  <2> HIDE DEF P
  <2> QED BY SumOn
<1>1. {} \in P
  BY SumOnAll
<1>2. ASSUME NEW T \in SUBSET S, NEW x \in S \ T, T \in P PROVE T \cup {x} \in P
  <2>1. /\ SumOf(On(f, T)) \in Int /\ SumOf(On(g, T)) \in Int
        /\ SumOf(On(f, T \cup {x})) = SumOf(On(f, T)) + f[x]
        /\ SumOf(On(g, T \cup {x})) = SumOf(On(g, T)) + g[x]
    <3> HIDE DEF P
    <3> QED BY <1>0
  <2>2. f[x] \in Int /\ g[x] \in Int /\ f[x] <= g[x] /\ SumOf(On(f, T)) <= SumOf(On(g, T))
    BY <1>2
  <2>3. SumOf(On(f, T \cup {x})) <= SumOf(On(g, T \cup {x}))
    BY <2>1, <2>2
  <2> QED BY <2>3
<1>3. S \in P
  <2> HIDE DEF P
  <2> QED BY <1>1, <1>2, SubsetInduction
<1> QED BY <1>3, SumOnAll

(* Sums add up.                                                            *)
LEMMA SumPlus ==
  ASSUME NEW S, IsFiniteSet(S), NEW f \in [S -> Int], NEW g \in [S -> Int],
         NEW h \in [S -> Int], \A x \in S : h[x] = f[x] + g[x]
  PROVE  SumOf(h) = SumOf(f) + SumOf(g)
<1> DEFINE P == {T \in SUBSET S : SumOf(On(h, T)) = SumOf(On(f, T)) + SumOf(On(g, T))}
<1>0. \A k \in [S -> Int] : \A T \in SUBSET S : \A x \in S \ T :
        /\ SumOf(On(k, T)) \in Int
        /\ SumOf(On(k, T \cup {x})) = SumOf(On(k, T)) + k[x]
  <2> HIDE DEF P
  <2> QED BY SumOn
<1>1. {} \in P
  BY SumOnAll
<1>2. ASSUME NEW T \in SUBSET S, NEW x \in S \ T, T \in P PROVE T \cup {x} \in P
  <2>1. /\ SumOf(On(f, T)) \in Int /\ SumOf(On(g, T)) \in Int
        /\ SumOf(On(f, T \cup {x})) = SumOf(On(f, T)) + f[x]
        /\ SumOf(On(g, T \cup {x})) = SumOf(On(g, T)) + g[x]
        /\ SumOf(On(h, T \cup {x})) = SumOf(On(h, T)) + h[x]
    <3> HIDE DEF P
    <3> QED BY <1>0
  <2>2. /\ f[x] \in Int /\ g[x] \in Int /\ h[x] = f[x] + g[x]
        /\ SumOf(On(h, T)) = SumOf(On(f, T)) + SumOf(On(g, T))
    BY <1>2
  <2>3. SumOf(On(h, T \cup {x})) = SumOf(On(f, T \cup {x})) + SumOf(On(g, T \cup {x}))
    BY <2>1, <2>2
  <2> QED BY <2>3
<1>3. S \in P
  <2> HIDE DEF P
  <2> QED BY <1>1, <1>2, SubsetInduction
<1> QED BY <1>3, SumOnAll

(* No row of naturals exceeds their sum.                                   *)
LEMMA SumMember ==
  ASSUME NEW S, IsFiniteSet(S), NEW f \in [S -> Nat], NEW x \in S
  PROVE  f[x] <= SumOf(f)
<1>1. SumOf(f) = f[x] + SumOf(Drop(f, x))
  BY SumDrop
<1>2. Drop(f, x) \in [S \ {x} -> Nat] /\ IsFiniteSet(S \ {x})
  BY FS_Subset DEF Drop
<1>3. SumOf(Drop(f, x)) \in Nat
  BY <1>2, SumNat
<1> QED BY <1>1, <1>3

(* A single row that is not zero is the sum.                               *)
LEMMA SumSingle ==
  ASSUME NEW S, IsFiniteSet(S), NEW f \in [S -> Int], NEW x \in S,
         \A y \in S \ {x} : f[y] = 0
  PROVE  SumOf(f) = f[x]
<1> DEFINE P == {T \in SUBSET S : SumOf(On(f, T)) = IF x \in T THEN f[x] ELSE 0}
<1>0. \A k \in [S -> Int] : \A T \in SUBSET S : \A y \in S \ T :
        /\ SumOf(On(k, T)) \in Int
        /\ SumOf(On(k, T \cup {y})) = SumOf(On(k, T)) + k[y]
  <2> HIDE DEF P
  <2> QED BY SumOn
<1>1. {} \in P
  BY SumOnAll
<1>2. ASSUME NEW T \in SUBSET S, NEW y \in S \ T, T \in P PROVE T \cup {y} \in P
  <2>1. SumOf(On(f, T \cup {y})) = SumOf(On(f, T)) + f[y]
    BY <1>0
  <2>2. SumOf(On(f, T)) = (IF x \in T THEN f[x] ELSE 0) /\ f[y] \in Int
    BY <1>2
  <2>3. CASE y = x
    BY <2>1, <2>2, <2>3
  <2>4. CASE y # x
    BY <2>1, <2>2, <2>4
  <2> QED BY <2>3, <2>4
<1>3. S \in P
  <2> HIDE DEF P
  <2> QED BY <1>1, <1>2, SubsetInduction
<1> QED BY <1>3, SumOnAll

(* Zeros add up to zero.                                                   *)
LEMMA SumZero ==
  ASSUME NEW S, IsFiniteSet(S), NEW f \in [S -> Int], \A y \in S : f[y] = 0
  PROVE  SumOf(f) = 0
<1>1. CASE S = {}
  BY <1>1, SumEmpty
<1>2. CASE S # {}
  <2>1. PICK x \in S : TRUE
    BY <1>2
  <2> QED BY <2>1, SumSingle
<1> QED BY <1>1, <1>2

(* Zeros add nothing.                                                      *)
LEMMA SumSupport ==
  ASSUME NEW S, IsFiniteSet(S), NEW f \in [S -> Int], NEW T \in SUBSET S,
         \A x \in S \ T : f[x] = 0
  PROVE  SumOf(f) = SumOf(On(f, T))
<1> DEFINE P == {U \in SUBSET S : SumOf(On(f, U)) = SumOf(On(f, U \cap T))}
<1>0. \A U \in SUBSET S : \A x \in S \ U :
        /\ SumOf(On(f, U)) \in Int
        /\ SumOf(On(f, U \cup {x})) = SumOf(On(f, U)) + f[x]
  <2> HIDE DEF P
  <2> QED BY SumOn
<1>1. {} \in P
  <2>1. {} \cap T = {}
    OBVIOUS
  <2> QED BY <2>1
<1>2. ASSUME NEW U \in SUBSET S, NEW x \in S \ U, U \in P PROVE U \cup {x} \in P
  <2>1. /\ SumOf(On(f, U)) \in Int
        /\ SumOf(On(f, U \cup {x})) = SumOf(On(f, U)) + f[x]
        /\ U \cap T \in SUBSET S /\ x \in S \ (U \cap T)
    <3> HIDE DEF P
    <3> QED BY <1>0
  <2>2. SumOf(On(f, (U \cap T) \cup {x})) = SumOf(On(f, U \cap T)) + f[x]
    <3> HIDE DEF P
    <3> QED BY <1>0, <2>1
  <2>3. SumOf(On(f, U)) = SumOf(On(f, U \cap T))
    BY <1>2
  <2>4. CASE x \in T
    <3>1. (U \cup {x}) \cap T = (U \cap T) \cup {x}
      BY <2>4
    <3>2. SumOf(On(f, U \cup {x})) = SumOf(On(f, (U \cup {x}) \cap T))
      BY <2>1, <2>2, <2>3, <3>1
    <3> QED BY <3>2
  <2>5. CASE x \notin T
    <3>1. (U \cup {x}) \cap T = U \cap T /\ f[x] = 0
      BY <2>5
    <3>2. SumOf(On(f, U \cup {x})) = SumOf(On(f, U))
      <4> HIDE DEF P
      <4>1. \A i \in Int : i + 0 = i
        OBVIOUS
      <4> QED BY <2>1, <3>1, <4>1
    <3>3. SumOf(On(f, U \cup {x})) = SumOf(On(f, (U \cup {x}) \cap T))
      BY <2>3, <3>1, <3>2
    <3> QED BY <3>3
  <2> QED BY <2>4, <2>5
<1>3. S \in P
  <2> HIDE DEF P
  <2> QED BY <1>1, <1>2, SubsetInduction
<1>4. S \cap T = T /\ On(f, S) = f
  BY SumOnAll
<1> QED BY <1>3, <1>4

(* A constant factor can be taken out.                                     *)
LEMMA SumScale ==
  ASSUME NEW S, IsFiniteSet(S), NEW c \in Int, NEW f \in [S -> Int], NEW g \in [S -> Int],
         \A x \in S : g[x] = c * f[x]
  PROVE  SumOf(g) = c * SumOf(f)
<1> DEFINE P == {T \in SUBSET S : SumOf(On(g, T)) = c * SumOf(On(f, T))}
<1>0. \A k \in [S -> Int] : \A T \in SUBSET S : \A x \in S \ T :
        /\ SumOf(On(k, T)) \in Int
        /\ SumOf(On(k, T \cup {x})) = SumOf(On(k, T)) + k[x]
  <2> HIDE DEF P
  <2> QED BY SumOn
<1>1. {} \in P
  BY SumOnAll
<1>2. ASSUME NEW T \in SUBSET S, NEW x \in S \ T, T \in P PROVE T \cup {x} \in P
  <2> DEFINE a == SumOf(On(f, T))
             b == f[x]
  <2>1. a \in Int /\ b \in Int
    BY <1>0
  <2>2. SumOf(On(f, T \cup {x})) = a + b /\ SumOf(On(g, T \cup {x})) = c * a + c * b
    BY <1>0, <1>2
  <2>3. c * (a + b) = c * a + c * b
    <3> HIDE DEF a, b
    <3> QED BY <2>1
  <2> QED BY <2>2, <2>3
<1>3. S \in P
  <2> HIDE DEF P
  <2> QED BY <1>1, <1>2, SubsetInduction
<1> QED BY <1>3, SumOnAll

(* Rows first or columns first: a table of numbers has one sum.            *)
LEMMA SumSwap ==
  ASSUME NEW A, IsFiniteSet(A), NEW B, IsFiniteSet(B), NEW F \in [A -> [B -> Int]]
  PROVE  SumOf([x \in A |-> SumOf(F[x])]) = SumOf([y \in B |-> SumOf([x \in A |-> F[x][y]])])
<1> DEFINE rows == [x \in A |-> SumOf(F[x])]
           col(y) == [x \in A |-> F[x][y]]
           cols(T) == [y \in B |-> SumOf(On(col(y), T))]
           P == {T \in SUBSET A : SumOf(On(rows, T)) = SumOf(cols(T))}
<1>0. \A k \in [A -> Int] : \A T \in SUBSET A : \A x \in A \ T :
        /\ SumOf(On(k, T)) \in Int
        /\ SumOf(On(k, T \cup {x})) = SumOf(On(k, T)) + k[x]
  <2> HIDE DEF P
  <2> QED BY SumOn
<1>1. rows \in [A -> Int] /\ \A y \in B : col(y) \in [A -> Int]
  BY SumInt
<1>2. {} \in P
  <2>1. SumOf(On(rows, {})) = 0 /\ \A y \in B : SumOf(On(col(y), {})) = 0
    BY <1>1, SumOnAll
  <2>2. cols({}) \in [B -> Int] /\ \A y \in B : cols({})[y] = 0
    BY <2>1
  <2>3. SumOf(cols({})) = 0
    <3> HIDE DEF cols
    <3> QED BY <2>2, SumZero
  <2> QED BY <2>1, <2>3
<1>3. ASSUME NEW T \in SUBSET A, NEW x \in A \ T, T \in P PROVE T \cup {x} \in P
  <2> DEFINE R == T \cup {x}
  <2>1. SumOf(On(rows, R)) = SumOf(On(rows, T)) + SumOf(F[x])
    BY <1>0, <1>1
  <2>2. \A y \in B : /\ SumOf(On(col(y), T)) \in Int
                     /\ SumOf(On(col(y), R)) = SumOf(On(col(y), T)) + F[x][y]
    <3> SUFFICES ASSUME NEW y \in B
                 PROVE  /\ SumOf(On(col(y), T)) \in Int
                        /\ SumOf(On(col(y), R)) = SumOf(On(col(y), T)) + F[x][y]
      OBVIOUS
    <3>1. col(y)[x] = F[x][y] /\ col(y) \in [A -> Int]
      BY <1>1
    <3> HIDE DEF col
    <3> QED BY <1>0, <3>1
  <2>3. /\ cols(T) \in [B -> Int] /\ cols(R) \in [B -> Int] /\ F[x] \in [B -> Int]
        /\ \A y \in B : cols(R)[y] = cols(T)[y] + F[x][y]
    <3>1. F[x] \in [B -> Int]
      OBVIOUS
    <3>2. \A y \in B : SumOf(On(col(y), R)) \in Int
      <4> HIDE DEF col, R
      <4> QED BY <2>2, <3>1
    <3> HIDE DEF col, R
    <3> QED BY <2>2, <3>1, <3>2
  <2>4. SumOf(cols(R)) = SumOf(cols(T)) + SumOf(F[x])
    <3> HIDE DEF cols, R
    <3> QED BY <2>3, SumPlus
  <2>5. SumOf(On(rows, T)) = SumOf(cols(T))
    BY <1>3
  <2>6. SumOf(On(rows, R)) = SumOf(cols(R))
    BY <2>1, <2>4, <2>5
  <2>7. R \in SUBSET A
    OBVIOUS
  <2> QED BY <2>6, <2>7
<1>4. A \in P
  <2> HIDE DEF P
  <2> QED BY <1>2, <1>3, SubsetInduction
<1>5. On(rows, A) = rows /\ \A y \in B : On(col(y), A) = col(y)
  BY <1>1, SumOnAll
<1>6. cols(A) = [y \in B |-> SumOf(col(y))]
  BY <1>5
<1> QED BY <1>4, <1>5, <1>6

(* Sums of sequences.                                                      *)
LEMMA SumSequence ==
  ASSUME NEW N \in {Nat, Int}, NEW s \in Seq(N)
  PROVE  SumOf(s) \in N /\ IsFiniteSet(DOMAIN s)
<1>1. s \in [1..Len(s) -> N] /\ IsFiniteSet(1..Len(s)) /\ DOMAIN s = 1..Len(s)
  BY FS_Interval
<1> QED BY <1>1, SumClosed

(* A table gets one more row.                                              *)
LEMMA SumLonger ==
  ASSUME NEW n \in Nat, NEW f \in [1..n -> Int], NEW g \in [1..(n + 1) -> Int],
         \A k \in 1..n : g[k] = f[k]
  PROVE  SumOf(g) = SumOf(f) + g[n + 1]
<1> DEFINE x == n + 1
           R == 1..x
<1>0. x \in Int /\ IsFiniteSet(R) /\ IsFiniteSet(1..n)
  BY FS_Interval
<1>1. x \in R /\ R \ {x} = 1..n /\ g \in [R -> Int]
  OBVIOUS
<1>2. Drop(g, x) = f
  <2> HIDE DEF x, R
  <2> QED BY <1>1 DEF Drop
<1>3. SumOf(g) = g[x] + SumOf(Drop(g, x))
  <2> HIDE DEF x, R
  <2> QED BY <1>0, <1>1, SumDrop
<1>4. SumOf(f) \in Int /\ g[x] \in Int
  BY <1>0, <1>1, SumInt
<1> QED BY <1>2, <1>3, <1>4

(* The first element of a list comes off as the last does.                 *)
LEMMA SumShift ==
  ASSUME NEW n \in Nat, NEW f \in [1..(n + 1) -> Int], NEW g \in [1..n -> Int],
         \A k \in 1..n : g[k] = f[k + 1]
  PROVE  SumOf(f) = f[1] + SumOf(g)
<1> DEFINE P == {m \in Nat : \A u \in [1..(m + 1) -> Int] : \A v \in [1..m -> Int] :
                               (\A k \in 1..m : v[k] = u[k + 1]) => SumOf(u) = u[1] + SumOf(v)}
<1>1. 0 \in P
  <2>0. 1..(0 + 1) = {1} /\ 1..0 = {} /\ IsFiniteSet({1})
    <3>1. IsFiniteSet({1})
      BY FS_Singleton, Zenon
    <3>2. \A x : x \in 1..(0 + 1) <=> x \in {1}
      OBVIOUS
    <3>3. \A x : ~ (x \in 1..0)
      OBVIOUS
    <3> QED BY <3>1, <3>2, <3>3, Zenon
  <2>1. ASSUME NEW u \in [{1} -> Int], NEW v \in [{} -> Int]
        PROVE  SumOf(u) = u[1] + SumOf(v)
    <3>1. SumOf(v) = 0
      BY SumEmpty
    <3>2. 1 \in {1} /\ \A y \in {1} \ {1} : u[y] = 0
      OBVIOUS
    <3>3. SumOf(u) = u[1]
      <4> DEFINE S == {1}
      <4>1. u \in [S -> Int] /\ 1 \in S /\ IsFiniteSet(S) /\ \A y \in S \ {1} : u[y] = 0
        BY <2>0, <3>2
      <4> HIDE DEF S
      <4> QED BY <4>1, SumSingle
    <3> QED BY <3>1, <3>3
  <2> QED BY <2>0, <2>1
<1>2. ASSUME NEW m \in Nat, m \in P PROVE m + 1 \in P
  <2> SUFFICES \A u \in [1..(m + 1 + 1) -> Int] : \A v \in [1..(m + 1) -> Int] :
                 (\A k \in 1..(m + 1) : v[k] = u[k + 1]) => SumOf(u) = u[1] + SumOf(v)
    <3>1. m + 1 \in Nat
      OBVIOUS
    <3> QED BY <3>1, Zenon
  <2> SUFFICES ASSUME NEW u \in [1..(m + 1 + 1) -> Int], NEW v \in [1..(m + 1) -> Int],
                      \A k \in 1..(m + 1) : v[k] = u[k + 1]
               PROVE  SumOf(u) = u[1] + SumOf(v)
    OBVIOUS
  <2> DEFINE a == [k \in 1..(m + 1) |-> u[k]]
             b == [k \in 1..m |-> v[k]]
  <2>1. a \in [1..(m + 1) -> Int] /\ b \in [1..m -> Int] /\ m + 1 \in Nat
    OBVIOUS
  <2>2. (\A k \in 1..(m + 1) : a[k] = u[k]) /\ (\A k \in 1..m : b[k] = v[k])
    OBVIOUS
  <2>3. \A k \in 1..m : b[k] = a[k + 1]
    OBVIOUS
  <2>4. a[1] = u[1] /\ v[m + 1] = u[m + 1 + 1] /\ u[1] \in Int /\ v[m + 1] \in Int
    OBVIOUS
  <2>5. SumOf(a) = a[1] + SumOf(b)
    <3> HIDE DEF a, b
    <3> QED BY <1>2, <2>1, <2>3
  <2> HIDE DEF a, b, P
  <2>6. SumOf(v) = SumOf(b) + v[m + 1]
    BY <2>1, <2>2, SumLonger
  <2>7. SumOf(u) = SumOf(a) + u[m + 1 + 1]
    BY <2>1, <2>2, SumLonger
  <2>8. SumOf(b) \in Int
    <3>1. IsFiniteSet(1..m)
      BY FS_Interval
    <3> QED BY <2>1, <3>1, SumInt
  <2> QED BY <2>4, <2>5, <2>6, <2>7, <2>8
<1>3. Nat \subseteq P
  <2> HIDE DEF P
  <2> QED BY <1>1, <1>2, NatSet
<1> QED BY <1>3

(* A sum is at most its largest element times their number.                *)
LEMMA SumBound ==
  ASSUME NEW S, IsFiniteSet(S), NEW f \in [S -> Int], NEW c \in Int, \A x \in S : f[x] <= c
  PROVE  SumOf(f) <= c * Cardinality(S)
<1> DEFINE P == {T \in SUBSET S : SumOf(On(f, T)) <= c * Cardinality(T)}
<1>0. \A k \in [S -> Int] : \A T \in SUBSET S : \A x \in S \ T :
        /\ SumOf(On(k, T)) \in Int
        /\ SumOf(On(k, T \cup {x})) = SumOf(On(k, T)) + k[x]
  <2> HIDE DEF P
  <2> QED BY SumOn
<1>1. {} \in P
  <2>1. SumOf(On(f, {})) = 0 /\ Cardinality({}) = 0
    BY SumOnAll, FS_EmptySet
  <2> QED BY <2>1
<1>2. ASSUME NEW T \in SUBSET S, NEW x \in S \ T, T \in P PROVE T \cup {x} \in P
  <2>1. SumOf(On(f, T)) \in Int /\ SumOf(On(f, T \cup {x})) = SumOf(On(f, T)) + f[x]
    BY <1>0
  <2>2. IsFiniteSet(T) /\ Cardinality(T) \in Nat /\ Cardinality(T \cup {x}) = Cardinality(T) + 1
    BY FS_Subset, FS_CardinalityType, FS_AddElement
  <2>3. SumOf(On(f, T)) <= c * Cardinality(T) /\ f[x] <= c /\ f[x] \in Int
    BY <1>2
  <2>4. \A n \in Nat : c * (n + 1) = c * n + c /\ c * n \in Int
    OBVIOUS
  <2>5. SumOf(On(f, T \cup {x})) <= c * Cardinality(T \cup {x})
    <3> HIDE DEF P
    <3>1. c * Cardinality(T \cup {x}) = c * Cardinality(T) + c /\ c * Cardinality(T) \in Int
      BY <2>2, <2>4
    <3> QED BY <2>1, <2>3, <3>1
  <2> QED BY <2>5
<1>3. S \in P
  <2> HIDE DEF P
  <2> QED BY <1>1, <1>2, SubsetInduction
<1>4. On(f, S) = f
  BY SumOnAll
<1> QED BY <1>3, <1>4

=============================================================================
