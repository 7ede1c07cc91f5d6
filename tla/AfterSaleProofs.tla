-------------------------- MODULE AfterSaleProofs --------------------------
(***************************************************************************)
(* Proofs about what follows a sale: Returns, for every set of workers and *)
(* lines, and Subscriptions with Billing, for every set of threads, nodes, *)
(* plans, subscriptions and cadences.                                      *)
(***************************************************************************)
EXTENDS Returns, Subscriptions, SumTheorems, SequenceTheorems

-----------------------------------------------------------------------------
(* What a list of lines asks for.                                          *)

Line == [item : Items, qty : Quantities]

LEMMA LineFacts ==
  ASSUME ReturnsAssumption, NEW lines \in Lines
  PROVE  /\ Len(lines) \in Nat /\ IsFiniteSet(Ids(lines))
         /\ \A k \in Ids(lines) :
              /\ lines[k].item \in Items /\ lines[k].qty \in Int
              /\ UnitPrice[lines[k].item] \in Int /\ Ordered[lines[k].item] \in Int
<1>1. lines \in Seq(Line)
  BY DEF Lines, Line
<1>2. Len(lines) \in Nat /\ \A k \in Ids(lines) : lines[k] \in Line
  BY <1>1, ElementOfSeq DEF Ids
<1>3. IsFiniteSet(Ids(lines))
  BY <1>2, FS_Interval DEF Ids
<1> QED BY <1>2, <1>3 DEF Line, ReturnsAssumption

AskedRow(i, lines) == [k \in Ids(lines) |-> IF lines[k].item = i THEN lines[k].qty ELSE 0]

LEMMA AskedRowType ==
  ASSUME ReturnsAssumption, NEW lines \in Lines, NEW i
  PROVE  /\ IsFiniteSet(Ids(lines))
         /\ AskedRow(i, lines) \in [Ids(lines) -> Int]
         /\ Asked(i, lines) = SumOf(AskedRow(i, lines))
<1>1. AskedRow(i, lines) \in [Ids(lines) -> Int]
  BY LineFacts DEF AskedRow
<1> QED BY <1>1, LineFacts DEF Asked, AskedRow

(* What is asked for is an integer.                                        *)
LEMMA AskedInt ==
  ASSUME ReturnsAssumption, NEW lines \in Lines, NEW i
  PROVE  Asked(i, lines) \in Int
BY AskedRowType, SumInt

(* If no two lines name an item, one line asks for it, or none does.       *)
LEMMA AskedOnce ==
  ASSUME ReturnsAssumption, NEW lines \in Lines, NEW i,
         \A j, k \in Ids(lines) : lines[j].item = i /\ lines[k].item = i => j = k
  PROVE  \/ Asked(i, lines) = 0
         \/ \E k \in Ids(lines) : lines[k].item = i /\ Asked(i, lines) = lines[k].qty
<1> DEFINE f == AskedRow(i, lines)
<1>0. f \in [Ids(lines) -> Int]
  BY AskedRowType
<1>1. CASE \E k \in Ids(lines) : lines[k].item = i
  <2>1. PICK k \in Ids(lines) : lines[k].item = i
    BY <1>1
  <2>2. \A y \in Ids(lines) \ {k} : f[y] = 0
    BY <2>1 DEF AskedRow
  <2>3. SumOf(f) = f[k]
    <3> HIDE DEF f
    <3>1. IsFiniteSet(Ids(lines)) /\ k \in Ids(lines)
      BY <2>1, LineFacts
    <3> QED BY <1>0, <2>2, <3>1, SumSingle
  <2>4. f[k] = lines[k].qty
    BY <2>1 DEF AskedRow
  <2> QED BY <2>1, <2>3, <2>4, AskedRowType
<1>2. CASE ~ \E k \in Ids(lines) : lines[k].item = i
  <2>1. \A y \in Ids(lines) : f[y] = 0
    BY <1>2 DEF AskedRow
  <2>2. SumOf(f) = 0
    <3> HIDE DEF f
    <3> QED BY <1>0, <2>1, LineFacts, SumZero
  <2> QED BY <2>2, AskedRowType
<1> QED BY <1>1, <1>2

(* A credit is an integer.                                                 *)
LEMMA CreditTotalInt ==
  ASSUME ReturnsAssumption, NEW lines \in Lines
  PROVE  CreditTotal(lines) \in Int
<1> DEFINE f == [k \in Ids(lines) |-> lines[k].qty * UnitPrice[lines[k].item]]
<1>1. \A k \in Ids(lines) : lines[k].qty \in Int /\ UnitPrice[lines[k].item] \in Int
  BY LineFacts
<1>2. \A a, b \in Int : a * b \in Int
  OBVIOUS
<1>3. f \in [Ids(lines) -> Int]
  BY <1>1, <1>2
<1>4. SumOf(f) \in Int
  <2> HIDE DEF f
  <2> QED BY <1>3, AskedRowType, SumInt
<1> QED BY <1>4 DEF CreditTotal

(* A credit is worth what is asked for, item by item.                      *)
LEMMA CreditByItem ==
  ASSUME ReturnsAssumption, NEW lines \in Lines
  PROVE  CreditTotal(lines) = SumOf([i \in Items |-> UnitPrice[i] * Asked(i, lines)])
<1> DEFINE K == Ids(lines)
           F == [k \in K |-> [i \in Items |->
                   IF lines[k].item = i THEN lines[k].qty * UnitPrice[i] ELSE 0]]
           row == [k \in K |-> SumOf(F[k])]
           col == [i \in Items |-> SumOf([k \in K |-> F[k][i]])]
<1>0. IsFiniteSet(Items) /\ \A i \in Items : UnitPrice[i] \in Int
  BY DEF ReturnsAssumption
<1>1. F \in [K -> [Items -> Int]]
  BY <1>0, LineFacts
<1>2. SumOf(row) = SumOf(col)
  <2>1. IsFiniteSet(K)
    BY LineFacts
  <2> HIDE DEF F, K
  <2> QED BY <1>0, <1>1, <2>1, SumSwap
<1>3. row = [k \in K |-> lines[k].qty * UnitPrice[lines[k].item]]
  <2> SUFFICES ASSUME NEW k \in K PROVE SumOf(F[k]) = lines[k].qty * UnitPrice[lines[k].item]
    OBVIOUS
  <2> DEFINE f == F[k]
             x == lines[k].item
  <2>1. x \in Items /\ f \in [Items -> Int] /\ \A y \in Items \ {x} : f[y] = 0
    BY <1>1, LineFacts
  <2>2. SumOf(f) = f[x]
    <3> HIDE DEF f, x
    <3> QED BY <1>0, <2>1, SumSingle
  <2>3. f[x] = lines[k].qty * UnitPrice[x]
    BY <2>1
  <2> QED BY <2>2, <2>3
<1>4. col = [i \in Items |-> UnitPrice[i] * Asked(i, lines)]
  <2> SUFFICES ASSUME NEW i \in Items
               PROVE  SumOf([k \in K |-> F[k][i]]) = UnitPrice[i] * Asked(i, lines)
    OBVIOUS
  <2> DEFINE f == AskedRow(i, lines)
             g == [k \in K |-> F[k][i]]
             c == UnitPrice[i]
  <2>1. c \in Int /\ f \in [K -> Int] /\ g \in [K -> Int]
    BY <1>0, <1>1, AskedRowType
  <2>2. \A k \in K : g[k] = c * f[k]
    <3> SUFFICES ASSUME NEW k \in K PROVE g[k] = c * f[k]
      OBVIOUS
    <3>1. lines[k].qty \in Int
      BY LineFacts
    <3>2. CASE lines[k].item = i
      <4>1. g[k] = lines[k].qty * c /\ f[k] = lines[k].qty
        BY <3>2 DEF AskedRow
      <4> QED BY <2>1, <3>1, <4>1
    <3>3. CASE lines[k].item # i
      <4>1. g[k] = 0 /\ f[k] = 0
        BY <3>3 DEF AskedRow
      <4> QED BY <2>1, <4>1
    <3> QED BY <3>2, <3>3
  <2>3. SumOf(g) = c * SumOf(f)
    <3>1. IsFiniteSet(K)
      BY LineFacts
    <3> HIDE DEF f, g, c, K
    <3> QED BY <2>1, <2>2, <3>1, SumScale
  <2>4. SumOf(f) = Asked(i, lines)
    BY AskedRowType
  <2> QED BY <2>3, <2>4
<1> QED BY <1>2, <1>3, <1>4 DEF CreditTotal


-----------------------------------------------------------------------------
(* What a table of returns holds of an item.                               *)

TakesRow(t, i) == [n \in Ids(t) |-> Takes(t[n], i)]
Taken(t, i)    == SumOf(TakesRow(t, i))

OpenAsked(r, i) == IF r.status # "rejected" THEN Asked(i, r.lines) ELSE 0
OpenRow(t, i)   == [n \in Ids(t) |-> OpenAsked(t[n], i)]

LEMMA TableFacts ==
  ASSUME ReturnsAssumption, NEW t \in Seq(ReturnRow)
  PROVE  /\ Len(t) \in Nat /\ IsFiniteSet(Ids(t))
         /\ \A n \in Ids(t) : /\ t[n] \in ReturnRow /\ t[n].lines \in Lines
                              /\ \A i : Asked(i, t[n].lines) \in Int
<1>1. Len(t) \in Nat /\ \A n \in Ids(t) : t[n] \in ReturnRow
  BY ElementOfSeq DEF Ids
<1>2. IsFiniteSet(Ids(t))
  BY <1>1, FS_Interval DEF Ids
<1>3. \A n \in Ids(t) : t[n].lines \in Lines
  BY <1>1 DEF ReturnRow
<1> QED BY <1>1, <1>2, <1>3, AskedInt

(* What returns take is at most what those not rejected ask for.           *)
LEMMA RowType ==
  ASSUME ReturnsAssumption, NEW t \in Seq(ReturnRow), NEW i
  PROVE  /\ TakesRow(t, i) \in [Ids(t) -> Int] /\ Taken(t, i) \in Int
         /\ OpenRow(t, i) \in [Ids(t) -> Int] /\ SumOf(OpenRow(t, i)) \in Int
         /\ Taken(t, i) <= SumOf(OpenRow(t, i))
<1>1. TakesRow(t, i) \in [Ids(t) -> Int] /\ OpenRow(t, i) \in [Ids(t) -> Int]
  <2>1. \A n \in Ids(t) : Asked(i, t[n].lines) \in Int
    BY TableFacts
  <2>2. \A n \in Ids(t) : Takes(t[n], i) \in Int /\ OpenAsked(t[n], i) \in Int
    BY <2>1 DEF Takes, OpenAsked
  <2> QED BY <2>2 DEF TakesRow, OpenRow
<1>2. \A n \in Ids(t) : TakesRow(t, i)[n] <= OpenRow(t, i)[n]
  <2> SUFFICES ASSUME NEW n \in Ids(t) PROVE TakesRow(t, i)[n] <= OpenRow(t, i)[n]
    OBVIOUS
  <2>1. Asked(i, t[n].lines) \in Int
    BY TableFacts
  <2> QED BY <2>1 DEF TakesRow, OpenRow, Takes, OpenAsked
<1>3. Taken(t, i) <= SumOf(OpenRow(t, i))
  <2> DEFINE f == TakesRow(t, i)
             g == OpenRow(t, i)
  <2>1. SumOf(f) <= SumOf(g)
    <3>1. IsFiniteSet(Ids(t))
      BY TableFacts
    <3> HIDE DEF f, g
    <3> QED BY <1>1, <1>2, <3>1, SumMonotone DEF f, g
  <2> QED BY <2>1 DEF Taken
<1> QED BY <1>1, <1>3, TableFacts, SumInt DEF Taken

(* A new return adds what it takes.                                        *)
LEMMA TakenAppend ==
  ASSUME ReturnsAssumption, NEW t \in Seq(ReturnRow), NEW r \in ReturnRow, NEW i
  PROVE  Taken(Append(t, r), i) = Taken(t, i) + Takes(r, i)
<1> DEFINE u == Append(t, r)
           n == Len(t)
           f == TakesRow(t, i)
           g == TakesRow(u, i)
<1>1. n \in Nat /\ u \in Seq(ReturnRow) /\ Len(u) = n + 1
  OBVIOUS
<1>2. u[n + 1] = r /\ \A k \in 1..n : u[k] = t[k]
  OBVIOUS
<1>3. f \in [1..n -> Int] /\ g \in [1..(n + 1) -> Int]
  <2>1. f \in [Ids(t) -> Int] /\ g \in [Ids(u) -> Int]
    <3> HIDE DEF u, n
    <3>1. TakesRow(t, i) \in [Ids(t) -> Int] /\ TakesRow(u, i) \in [Ids(u) -> Int]
      BY <1>1, RowType
    <3> QED BY <3>1
  <2>2. Ids(t) = 1..n /\ Ids(u) = 1..(n + 1)
    BY <1>1 DEF Ids
  <2> HIDE DEF f, g, u, n
  <2> QED BY <2>1, <2>2
<1>4. (\A k \in 1..n : g[k] = f[k]) /\ g[n + 1] = Takes(r, i)
  <2>1. Ids(t) = 1..n /\ Ids(u) = 1..(n + 1) /\ n + 1 \in 1..(n + 1) /\ \A k \in 1..n : k \in 1..(n + 1)
    BY <1>1 DEF Ids
  <2> HIDE DEF u, n
  <2> QED BY <1>2, <2>1 DEF TakesRow
<1>5. SumOf(g) = SumOf(f) + g[n + 1]
  <2> HIDE DEF f, g, n
  <2> QED BY <1>1, <1>3, <1>4, SumLonger
<1> QED BY <1>4, <1>5 DEF Taken

(* A table whose returns each take no more takes no more.                  *)
LEMMA TakenFalls ==
  ASSUME ReturnsAssumption, NEW t \in Seq(ReturnRow), NEW u \in Seq(ReturnRow), NEW i,
         Ids(t) = Ids(u), \A n \in Ids(t) : Takes(u[n], i) <= Takes(t[n], i)
  PROVE  Taken(u, i) <= Taken(t, i)
<1> DEFINE f == TakesRow(u, i)
           g == TakesRow(t, i)
<1>1. f \in [Ids(t) -> Int] /\ g \in [Ids(t) -> Int] /\ IsFiniteSet(Ids(t))
  BY RowType, TableFacts
<1>2. \A n \in Ids(t) : f[n] <= g[n]
  BY DEF TakesRow
<1>3. SumOf(f) <= SumOf(g)
  <2> HIDE DEF f, g
  <2> QED BY <1>1, <1>2, SumMonotone
<1> QED BY <1>3 DEF Taken

-----------------------------------------------------------------------------
(* The inductive invariant.                                                *)

(* What a request in flight is: the lines it creates a return of, or the   *)
(* status change it was admitted to.                                       *)
RequestFits(w) ==
  /\ pc[w] \in {"check", "insert"} => req[w] \in CreateRequest /\ req[w].lines # <<>>
  /\ pc[w] = "set" => /\ req[w] \in StatusRequest
                      /\ req[w].from = "requested" /\ req[w].to \in {"approved", "rejected"}
  /\ pc[w] = "receive" => /\ req[w] \in StatusRequest
                          /\ req[w].from = "approved" /\ req[w].to = "received"

RequestsFit == \A w \in Workers : RequestFits(w)

(* A line that was checked still fits beside what returns take, until      *)
(* another return comes between.                                           *)
Checked(w, k) == pc[w] = "insert" \/ (pc[w] = "check" /\ k < req[w].next)

LinesFit(w) ==
  pc[w] \in {"check", "insert"} /\ ~req[w].overlapped =>
    \A k \in Ids(req[w].lines) : Checked(w, k) =>
      req[w].lines[k].qty + Taken(ret, req[w].lines[k].item)
        <= Ordered[req[w].lines[k].item]

CapInv ==
  /\ \A i \in Items : Taken(ret, i) <= AtLeastZero(Ordered[i])
  /\ \A w \in Workers : LinesFit(w)

(* Credits are of the returns that were received.                          *)
Worth(r)    == IF r.status = "received" THEN CreditTotal(r.lines) ELSE 0
WorthRow(t) == [n \in Ids(t) |-> Worth(t[n])]
AmountRow(c) == [k \in Ids(c) |-> c[k].amount]

AmountInv ==
  (\A n \in Ids(ret) : ~ret[n].raced) => SumOf(AmountRow(credit)) = SumOf(WorthRow(ret))

Inv == TypeOK /\ RequestsFit /\ CreditedIffReceived /\ CreditedOnceUnlessRaced
       /\ CapInv /\ AmountInv

-----------------------------------------------------------------------------
(* What a status change does to the table.                                 *)

LEMMA SetRow ==
  ASSUME ret \in Seq(ReturnRow), NEW r \in StatusRequest, r.ret \in Ids(ret), SetReturnStatus(r)
  PROVE  /\ ret' \in Seq(ReturnRow) /\ Len(ret') = Len(ret) /\ Ids(ret') = Ids(ret)
         /\ \A n \in Ids(ret) : /\ ret'[n].lines = ret[n].lines
                                /\ ret'[n].overlapped = ret[n].overlapped
                                /\ n # r.ret => ret'[n] = ret[n]
                                /\ n = r.ret => /\ ret'[n].status = r.to
                                                /\ ret'[n].raced = (ret[n].raced \/ ret[n].status # r.from)
<1> DEFINE m == r.ret
           new == [ret[m] EXCEPT !.status = r.to, !.raced = @ \/ ret[m].status # r.from]
<1>1. \A n \in 1..Len(ret) : ret[n] \in ReturnRow
  BY ElementOfSeq
<1>2. ret[m] \in ReturnRow /\ m \in 1..Len(ret) /\ r.to \in Statuses
  BY <1>1 DEF Ids, StatusRequest
<1>3. /\ new \in ReturnRow
      /\ new.lines = ret[m].lines /\ new.overlapped = ret[m].overlapped
      /\ new.status = r.to /\ new.raced = (ret[m].raced \/ ret[m].status # r.from)
  BY <1>2 DEF ReturnRow
<1>4. ret' = [ret EXCEPT ![m] = new]
  BY <1>2 DEF SetReturnStatus
<1> HIDE DEF new, m
<1>5. ret' \in Seq(ReturnRow) /\ Len(ret') = Len(ret)
  BY <1>2, <1>3, <1>4
<1>6. ret'[m] = new /\ \A n \in 1..Len(ret) : n # m => ret'[n] = ret[n]
  BY <1>2, <1>4
<1> QED BY <1>3, <1>5, <1>6 DEF Ids, m

(* What a new return does to it.                                           *)
LEMMA NewRow ==
  ASSUME ret \in Seq(ReturnRow), NEW w \in Workers, InsertReturn(w), req[w] \in CreateRequest
  PROVE  LET r == [status |-> "requested", lines |-> req[w].lines,
                   overlapped |-> req[w].overlapped, raced |-> FALSE]
         IN  /\ r \in ReturnRow /\ ret' = Append(ret, r)
             /\ ret' \in Seq(ReturnRow) /\ Len(ret) \in Nat /\ Len(ret') = Len(ret) + 1
             /\ Ids(ret) \subseteq Ids(ret') /\ Ids(ret') = Ids(ret) \cup {Len(ret')}
             /\ Len(ret') \notin Ids(ret)
             /\ \A n \in Ids(ret) : ret'[n] = ret[n]
             /\ ret'[Len(ret')] = r
<1> DEFINE r == [status |-> "requested", lines |-> req[w].lines,
                 overlapped |-> req[w].overlapped, raced |-> FALSE]
<1>1. r \in ReturnRow
  BY DEF CreateRequest, ReturnRow, Statuses
<1>2. ret' = Append(ret, r)
  BY DEF InsertReturn
<1> HIDE DEF r
<1>3. /\ ret' \in Seq(ReturnRow) /\ Len(ret) \in Nat /\ Len(ret') = Len(ret) + 1
      /\ \A n \in 1..Len(ret) : ret'[n] = ret[n]
      /\ ret'[Len(ret) + 1] = r
  BY <1>1, <1>2
<1>4. /\ Ids(ret) \subseteq Ids(ret') /\ Ids(ret') = Ids(ret) \cup {Len(ret')}
      /\ Len(ret') \notin Ids(ret)
  BY <1>3 DEF Ids
<1> QED BY <1>1, <1>2, <1>3, <1>4 DEF Ids, r

-----------------------------------------------------------------------------
(* The tables and the requests keep their shape.                           *)

LEMMA InitOK == ReturnsAssumption /\ Init => TypeOK /\ RequestsFit
BY DEF Init, TypeOK, ReturnsAssumption, RequestsFit, RequestFits, Ids, NoReq

\* A request that is answered leaves nothing behind.
LEMMA DoneOK ==
  ASSUME TypeOK, RequestsFit, NEW w \in Workers, Done(w)
  PROVE  /\ pc' \in [Workers -> {"idle", "check", "insert", "set", "receive"}]
         /\ req' \in [Workers -> {NoReq} \cup CreateRequest \cup StatusRequest]
         /\ pc'[w] = "idle" /\ req'[w] = NoReq
         /\ \A v \in Workers \ {w} : pc'[v] = pc[v] /\ req'[v] = req[v]
         /\ RequestsFit'
<1>1. /\ pc' \in [Workers -> {"idle", "check", "insert", "set", "receive"}]
      /\ req' \in [Workers -> {NoReq} \cup CreateRequest \cup StatusRequest]
      /\ pc'[w] = "idle" /\ req'[w] = NoReq
      /\ \A v \in Workers \ {w} : pc'[v] = pc[v] /\ req'[v] = req[v]
  BY DEF TypeOK, Done, Goto
<1>2. ASSUME NEW v \in Workers PROVE RequestFits(v)'
  <2>1. CASE v = w
    BY <1>1, <2>1 DEF RequestFits
  <2>2. CASE v # w
    BY <1>1, <2>2 DEF RequestFits, RequestsFit
  <2> QED BY <2>1, <2>2
<1> QED BY <1>1, <1>2 DEF RequestsFit

\* A request that arrives fits if what it asks for does.
LEMMA ArriveOK ==
  ASSUME TypeOK, RequestsFit, NEW w \in Workers, NEW label, NEW r, Arrive(w, label, r),
         \/ /\ label = "check" /\ r \in CreateRequest /\ r.lines # <<>> /\ r.next <= Len(r.lines)
         \/ /\ label \in {"set", "receive"} /\ r \in StatusRequest /\ r.ret \in Ids(ret)
            /\ label = "set" => r.from = "requested" /\ r.to \in {"approved", "rejected"}
            /\ label = "receive" => r.from = "approved" /\ r.to = "received"
  PROVE  TypeOK' /\ RequestsFit'
<1> HIDE DEF CreateRequest, StatusRequest, ReturnRow
<1>1. /\ pc' \in [Workers -> {"idle", "check", "insert", "set", "receive"}]
      /\ req' \in [Workers -> {NoReq} \cup CreateRequest \cup StatusRequest]
      /\ pc'[w] = label /\ req'[w] = r
      /\ \A v \in Workers \ {w} : pc'[v] = pc[v] /\ req'[v] = req[v]
  BY DEF TypeOK, Arrive, Goto
<1>2. ret' = ret /\ credit' = credit /\ onHand' = onHand /\ started' \in Nat
  BY DEF TypeOK, Arrive, tables
<1>3. ASSUME NEW v \in Workers
      PROVE  /\ RequestFits(v)'
             /\ pc'[v] = "idle" => req'[v] = NoReq
             /\ pc'[v] = "check" => req'[v].next <= Len(req'[v].lines)
             /\ pc'[v] \in {"set", "receive"} => req'[v].ret \in Ids(ret')
  <2>1. CASE v = w
    BY <1>1, <1>2, <2>1 DEF RequestFits
  <2>2. CASE v # w
    BY <1>1, <1>2, <2>2 DEF RequestFits, RequestsFit, TypeOK
  <2> QED BY <2>1, <2>2
<1>4. TypeOK'
  BY <1>1, <1>2, <1>3 DEF TypeOK
<1> QED BY <1>3, <1>4 DEF RequestsFit

LEMMA AskReturnOK ==
  ASSUME ReturnsAssumption, TypeOK, RequestsFit, NEW w \in Workers, AskReturn(w)
  PROVE  TypeOK' /\ RequestsFit'
<1>1. PICK lines \in BoundedSeq([item : Items, qty : Quantities], MaxLines) :
        /\ lines # <<>>
        /\ Arrive(w, "check", [kind |-> "create", lines |-> lines, next |-> 1,
                               overlapped |-> FALSE])
  BY DEF AskReturn
<1> DEFINE r == [kind |-> "create", lines |-> lines, next |-> 1, overlapped |-> FALSE]
<1>2. lines \in Lines /\ Len(lines) \in Nat /\ 1 <= Len(lines)
  <2>1. lines \in Seq(Line)
    <3>1. \E m \in 0..MaxLines : lines \in [1..m -> Line]
      BY <1>1 DEF BoundedSeq, SeqOf, Line
    <3>2. \A m \in 0..MaxLines : m \in Nat
      BY DEF ReturnsAssumption
    <3> QED BY <3>1, <3>2, SeqDef
  <2>2. Len(lines) \in Nat /\ Len(lines) # 0
    BY <1>1, <2>1, EmptySeq
  <2> QED BY <2>1, <2>2 DEF Lines, Line
<1>3. r \in CreateRequest /\ r.lines = lines /\ r.next = 1
  BY <1>2 DEF CreateRequest
<1> QED BY <1>1, <1>2, <1>3, ArriveOK

LEMMA LoadReturnOK ==
  ASSUME TypeOK, RequestsFit, NEW w \in Workers, LoadReturn(w)
  PROVE  TypeOK' /\ RequestsFit'
<1>1. PICK n \in Ids(ret), to \in Statuses \ {"requested"} :
        /\ Allowed(ret[n].status, to)
        /\ Arrive(w, IF to = "received" THEN "receive" ELSE "set",
                  [kind |-> "status", ret |-> n, from |-> ret[n].status, to |-> to])
  BY DEF LoadReturn
<1> DEFINE r == [kind |-> "status", ret |-> n, from |-> ret[n].status, to |-> to]
           label == IF to = "received" THEN "receive" ELSE "set"
<1>2. ret[n] \in ReturnRow /\ n \in Nat \ {0}
  BY ElementOfSeq DEF TypeOK, Ids
<1>3. r \in StatusRequest /\ r.ret = n /\ r.from = ret[n].status /\ r.to = to
  BY <1>2 DEF StatusRequest, ReturnRow
<1>4. /\ label \in {"set", "receive"}
      /\ label = "set" => r.from = "requested" /\ r.to \in {"approved", "rejected"}
      /\ label = "receive" => r.from = "approved" /\ r.to = "received"
  BY <1>1, <1>3 DEF Allowed, MayReject, MayReceive, Statuses
<1>5. Arrive(w, label, r)
  BY <1>1
<1> HIDE DEF label, r
<1> QED BY <1>3, <1>4, <1>5, ArriveOK

LEMMA CheckLineOK ==
  ASSUME TypeOK, RequestsFit, NEW w \in Workers, CheckLine(w)
  PROVE  TypeOK' /\ RequestsFit'
<1> HIDE DEF StatusRequest, ReturnRow
<1>1. UNCHANGED <<ret, credit, onHand, started>> /\ pc[w] = "check"
  BY DEF CheckLine, tables
<1>2. req[w] \in CreateRequest /\ req[w].lines # <<>> /\ req[w].next <= Len(req[w].lines)
  BY <1>1 DEF RequestsFit, RequestFits, TypeOK
<1>3. CASE Done(w)
  <2>1. /\ RequestsFit'
        /\ \A v \in Workers :
             /\ pc'[v] = "idle" => req'[v] = NoReq
             /\ pc'[v] = "check" => req'[v].next <= Len(req'[v].lines)
             /\ pc'[v] \in {"set", "receive"} => req'[v].ret \in Ids(ret')
    BY <1>1, <1>3, DoneOK DEF TypeOK
  <2> QED BY <1>1, <1>3, <2>1, DoneOK DEF TypeOK
<1>4. CASE req[w].next < Len(req[w].lines) /\ req' = [req EXCEPT ![w].next = @ + 1] /\ UNCHANGED pc
  <2> DEFINE new == [req[w] EXCEPT !.next = @ + 1]
  <2>1. /\ new \in CreateRequest /\ new.lines = req[w].lines /\ new.next <= Len(new.lines)
    <3>1. Len(req[w].lines) \in Nat /\ req[w].next \in Nat \ {0}
      BY <1>2 DEF CreateRequest, Lines
    <3> QED BY <1>2, <1>4, <3>1 DEF CreateRequest
  <2>2. req' = [req EXCEPT ![w] = new]
    BY <1>4
  <2> HIDE DEF new, CreateRequest
  <2>3. req' \in [Workers -> {NoReq} \cup CreateRequest \cup StatusRequest]
    BY <2>1, <2>2 DEF TypeOK
  <2>4. ASSUME NEW v \in Workers
        PROVE  /\ RequestFits(v)'
               /\ pc'[v] = "idle" => req'[v] = NoReq
               /\ pc'[v] = "check" => req'[v].next <= Len(req'[v].lines)
               /\ pc'[v] \in {"set", "receive"} => req'[v].ret \in Ids(ret')
    <3>1. CASE v = w
      <4>1. req'[v] = new /\ pc'[v] = "check"
        BY <1>1, <1>4, <2>2, <3>1 DEF TypeOK
      <4> QED BY <1>2, <2>1, <4>1 DEF RequestFits
    <3>2. CASE v # w
      <4>1. req'[v] = req[v] /\ pc'[v] = pc[v]
        BY <1>4, <2>2, <3>2 DEF TypeOK
      <4> QED BY <1>1, <4>1 DEF RequestFits, RequestsFit, TypeOK
    <3> QED BY <3>1, <3>2
  <2> QED BY <1>1, <1>4, <2>3, <2>4 DEF TypeOK, RequestsFit
<1>5. CASE Goto(w, "insert") /\ UNCHANGED req
  <2>1. pc' = [pc EXCEPT ![w] = "insert"]
    BY <1>5 DEF Goto
  <2>2. ASSUME NEW v \in Workers
        PROVE  /\ RequestFits(v)'
               /\ pc'[v] = "idle" => req'[v] = NoReq
               /\ pc'[v] = "check" => req'[v].next <= Len(req'[v].lines)
               /\ pc'[v] \in {"set", "receive"} => req'[v].ret \in Ids(ret')
    BY <1>1, <1>2, <1>5, <2>1 DEF RequestFits, RequestsFit, TypeOK
  <2> QED BY <1>1, <1>5, <2>1, <2>2 DEF TypeOK, RequestsFit
<1> QED BY <1>3, <1>4, <1>5 DEF CheckLine

\* An answered request whose table changed in place.
LEMMA StatusOK ==
  ASSUME ReturnsAssumption, TypeOK, RequestsFit, NEW w \in Workers, SetStatus(w) \/ ReceiveReturn(w)
  PROVE  TypeOK' /\ RequestsFit'
<1>1. /\ req[w] \in StatusRequest /\ req[w].ret \in Ids(ret)
      /\ SetReturnStatus(req[w]) /\ Done(w) /\ started' = started
  BY DEF SetStatus, ReceiveReturn, RequestsFit, RequestFits, TypeOK
<1>2. ret' \in Seq(ReturnRow) /\ Ids(ret') = Ids(ret)
  BY <1>1, SetRow DEF TypeOK
<1>3. /\ credit' \in Seq([ret : Ids(ret'), amount : Int])
      /\ onHand' \in [Items -> Int]
      /\ \A i \in Items \ Tracked : onHand'[i] = 0
  <2>1. CASE SetStatus(w)
    BY <1>2, <2>1 DEF SetStatus, TypeOK
  <2>2. CASE ReceiveReturn(w)
    <3> DEFINE lines == ret[req[w].ret].lines
    <3>1. lines \in Lines
      BY <1>1, TableFacts DEF TypeOK
    <3> HIDE DEF lines
    <3>2. CreditTotal(lines) \in Int /\ \A i \in Items : Asked(i, lines) \in Int
      BY <3>1, CreditTotalInt, AskedInt
    <3>3. /\ onHand' = [i \in Items |-> onHand[i] + Restock(i, lines)]
          /\ credit' = Append(credit, [ret |-> req[w].ret, amount |-> CreditTotal(lines)])
      BY <2>2 DEF ReceiveReturn, lines
    <3>4. credit' \in Seq([ret : Ids(ret'), amount : Int])
      BY <1>1, <1>2, <3>2, <3>3 DEF TypeOK
    <3>5. \A i \in Items : Restock(i, lines) \in Int /\ (i \notin Tracked => Restock(i, lines) = 0)
      BY <3>2 DEF Restock
    <3>6. \A i \in Items : onHand[i] \in Int /\ (i \notin Tracked => onHand[i] = 0)
      BY DEF TypeOK
    <3>7. /\ \A i \in Items : onHand[i] + Restock(i, lines) \in Int
          /\ \A i \in Items \ Tracked : onHand[i] + Restock(i, lines) = 0
      BY <3>5, <3>6
    <3> QED BY <3>3, <3>4, <3>7
  <2> QED BY <2>1, <2>2
<1>4. ASSUME NEW v \in Workers
      PROVE  /\ pc'[v] = "idle" => req'[v] = NoReq
             /\ pc'[v] = "check" => req'[v].next <= Len(req'[v].lines)
             /\ pc'[v] \in {"set", "receive"} => req'[v].ret \in Ids(ret')
  BY <1>1, <1>2, DoneOK DEF TypeOK
<1> QED BY <1>1, <1>2, <1>3, <1>4, DoneOK DEF TypeOK

LEMMA InsertOK ==
  ASSUME TypeOK, RequestsFit, NEW w \in Workers, InsertReturn(w)
  PROVE  TypeOK' /\ RequestsFit'
<1> HIDE DEF StatusRequest, ReturnRow
<1>1. /\ req[w] \in CreateRequest
      /\ credit' = credit /\ onHand' = onHand /\ started' = started
      /\ pc' = [pc EXCEPT ![w] = "idle"]
  BY DEF InsertReturn, RequestsFit, RequestFits, Goto
<1>2. ret' \in Seq(ReturnRow) /\ Ids(ret) \subseteq Ids(ret')
  BY <1>1, NewRow DEF TypeOK
<1>3. credit' \in Seq([ret : Ids(ret'), amount : Int])
  <2>1. [ret : Ids(ret), amount : Int] \subseteq [ret : Ids(ret'), amount : Int]
    BY <1>2
  <2> QED BY <1>1, <2>1, SeqMonotonic DEF TypeOK
<1>4. ASSUME NEW v \in Workers
      PROVE  /\ req'[v] \in {NoReq} \cup CreateRequest \cup StatusRequest
             /\ RequestFits(v)'
             /\ pc'[v] = "idle" => req'[v] = NoReq
             /\ pc'[v] = "check" => req'[v].next <= Len(req'[v].lines)
             /\ pc'[v] \in {"set", "receive"} => req'[v].ret \in Ids(ret')
  <2>1. CASE v = w
    <3>1. req'[v] = NoReq /\ pc'[v] = "idle"
      BY <1>1, <2>1 DEF InsertReturn, TypeOK
    <3> QED BY <3>1 DEF RequestFits
  <2>2. CASE v # w
    <3>1. pc'[v] = pc[v] /\ req'[v] = IF req[v].kind = "create" THEN [req[v] EXCEPT !.overlapped = TRUE]
                                      ELSE req[v]
      BY <1>1, <2>2 DEF InsertReturn, TypeOK
    <3>2. /\ RequestFits(v) /\ req[v] \in {NoReq} \cup CreateRequest \cup StatusRequest
          /\ pc[v] = "idle" => req[v] = NoReq
          /\ pc[v] = "check" => req[v].next <= Len(req[v].lines)
          /\ pc[v] \in {"set", "receive"} => req[v].ret \in Ids(ret)
      BY DEF TypeOK, RequestsFit
    <3>3. CASE req[v].kind = "create"
      <4>1. req[v] \in CreateRequest
        BY <3>2, <3>3 DEF NoReq, StatusRequest
      <4>2. req'[v] = [req[v] EXCEPT !.overlapped = TRUE]
        BY <3>1, <3>3
      <4>3. /\ req'[v] \in CreateRequest /\ req'[v].lines = req[v].lines
            /\ req'[v].next = req[v].next
        BY <4>1, <4>2 DEF CreateRequest
      <4>4. pc[v] \notin {"idle", "set", "receive"}
        BY <3>2, <3>3 DEF RequestFits, StatusRequest, NoReq
      <4> QED BY <3>1, <3>2, <4>3, <4>4 DEF RequestFits
    <3>4. CASE req[v].kind # "create"
      BY <1>2, <3>1, <3>2, <3>4 DEF RequestFits
    <3> QED BY <3>3, <3>4
  <2> QED BY <2>1, <2>2
<1>5. req' \in [Workers -> {NoReq} \cup CreateRequest \cup StatusRequest]
  <2>1. req' = [x \in Workers |-> req'[x]]
    BY DEF InsertReturn
  <2> HIDE DEF CreateRequest
  <2> QED BY <1>4, <2>1
<1> QED BY <1>1, <1>2, <1>3, <1>4, <1>5 DEF TypeOK, RequestsFit

LEMMA NextOK ==
  ASSUME ReturnsAssumption, TypeOK, RequestsFit, [Next]_vars
  PROVE  TypeOK' /\ RequestsFit'
<1>1. ASSUME NEW w \in Workers, Fail(w) PROVE TypeOK' /\ RequestsFit'
  BY <1>1, DoneOK DEF TypeOK, Fail, tables
<1>2. CASE UNCHANGED vars
  BY <1>2 DEF vars, tables, TypeOK, RequestsFit, RequestFits
<1> QED BY <1>1, <1>2, AskReturnOK, LoadReturnOK, CheckLineOK, StatusOK, InsertOK
        DEF Next, Receive, Serve, Rest

-----------------------------------------------------------------------------
(* Status, stock and credits agree.                                        *)

CreditsAgree == CreditedIffReceived /\ CreditedOnceUnlessRaced

(* A status change that overwrites nothing unseen, and credits exactly     *)
(* when it receives.                                                       *)
LEMMA StatusAgrees ==
  ASSUME TypeOK, RequestsFit, CreditsAgree, NEW w \in Workers, SetStatus(w) \/ ReceiveReturn(w)
  PROVE  CreditsAgree'
<1> DEFINE m == req[w].ret
<1>1. /\ req[w] \in StatusRequest /\ m \in Ids(ret) /\ SetReturnStatus(req[w])
  BY DEF SetStatus, ReceiveReturn, RequestsFit, RequestFits, TypeOK
<1>2. /\ Ids(ret') = Ids(ret)
      /\ \A n \in Ids(ret) : /\ n # m => ret'[n] = ret[n]
                             /\ n = m => /\ ret'[n].status = req[w].to
                                         /\ ret'[n].raced = (ret[n].raced \/ ret[n].status # req[w].from)
  BY <1>1, SetRow DEF TypeOK
<1>3. CASE SetStatus(w)
  <2>1. req[w].from = "requested" /\ req[w].to # "received" /\ credit' = credit
    BY <1>3 DEF SetStatus, RequestsFit, RequestFits
  <2>2. \A n \in Ids(ret) : CreditsOf(n)' = CreditsOf(n)
    BY <2>1 DEF CreditsOf, Ids
  <2>3. ASSUME NEW n \in Ids(ret), ~ret'[n].raced
        PROVE  ~ret[n].raced /\ (ret'[n].status = "received" <=> ret[n].status = "received")
    BY <1>2, <2>1, <2>3
  <2>4. CreditedIffReceived'
    BY <1>2, <2>2, <2>3 DEF CreditsAgree, CreditedIffReceived
  <2>5. CreditedOnceUnlessRaced'
    BY <1>2, <2>2, <2>3 DEF CreditsAgree, CreditedOnceUnlessRaced
  <2> QED BY <2>4, <2>5 DEF CreditsAgree
<1>4. CASE ReceiveReturn(w)
  <2> DEFINE c == [ret |-> m, amount |-> CreditTotal(ret[m].lines)]
             k == Len(credit) + 1
  <2>1. req[w].from = "approved" /\ req[w].to = "received" /\ credit' = Append(credit, c)
    BY <1>4 DEF ReceiveReturn, RequestsFit, RequestFits
  <2>2. /\ Len(credit) \in Nat /\ Ids(credit') = Ids(credit) \cup {k} /\ k \notin Ids(credit)
        /\ (\A j \in Ids(credit) : credit'[j] = credit[j]) /\ credit'[k].ret = m
    <3>1. credit \in Seq([ret : Ids(ret), amount : Int])
      BY DEF TypeOK
    <3>2. Len(credit) \in Nat /\ Len(credit') = k /\ credit'[k] = c
          /\ \A j \in 1..Len(credit) : credit'[j] = credit[j]
      BY <2>1, <3>1
    <3> QED BY <3>2 DEF Ids
  <2> HIDE DEF k, c
  <2>3. \A n \in Ids(ret) : CreditsOf(n)' = IF n = m THEN CreditsOf(n) \cup {k} ELSE CreditsOf(n)
    BY <2>2 DEF CreditsOf
  <2>4. ~ret'[m].raced => CreditsOf(m) = {}
    <3>1. ~ret'[m].raced => ~ret[m].raced /\ ret[m].status # "received"
      BY <1>1, <1>2, <2>1
    <3> QED BY <1>1, <3>1 DEF CreditsAgree, CreditedIffReceived
  <2>5. ASSUME NEW n \in Ids(ret)
        PROVE  /\ ~ret'[n].raced => (ret'[n].status = "received" <=> CreditsOf(n)' # {})
               /\ \A x, y \in CreditsOf(n)' : x # y => ret'[n].raced
    <3>1. CASE n = m
      BY <1>1, <1>2, <2>1, <2>3, <2>4, <3>1
    <3>2. CASE n # m
      BY <1>2, <2>3, <3>2 DEF CreditsAgree, CreditedIffReceived, CreditedOnceUnlessRaced
    <3> QED BY <3>1, <3>2
  <2> QED BY <1>2, <2>5 DEF CreditsAgree, CreditedIffReceived, CreditedOnceUnlessRaced
<1> QED BY <1>3, <1>4

LEMMA CreditFacts ==
  ASSUME TypeOK
  PROVE  /\ Len(credit) \in Nat /\ IsFiniteSet(Ids(credit))
         /\ \A c \in Ids(credit) : credit[c].ret \in Ids(ret) /\ credit[c].amount \in Int
<1> DEFINE R == [ret : Ids(ret), amount : Int]
<1>1. credit \in Seq(R)
  BY DEF TypeOK
<1>2. Len(credit) \in Nat /\ \A c \in Ids(credit) : credit[c] \in R
  <2> HIDE DEF R
  <2> QED BY <1>1, ElementOfSeq DEF Ids
<1>3. IsFiniteSet(Ids(credit))
  BY <1>2, FS_Interval DEF Ids
<1> QED BY <1>2, <1>3

LEMMA InsertAgrees ==
  ASSUME TypeOK, RequestsFit, CreditsAgree, NEW w \in Workers, InsertReturn(w)
  PROVE  CreditsAgree'
<1> DEFINE k == Len(ret')
<1>1. req[w] \in CreateRequest /\ credit' = credit
  BY DEF InsertReturn, RequestsFit, RequestFits
<1>2. /\ Ids(ret') = Ids(ret) \cup {k} /\ k \notin Ids(ret)
      /\ \A n \in Ids(ret) : ret'[n] = ret[n]
      /\ ret'[k].status = "requested" /\ ret'[k].raced = FALSE
  <2> DEFINE r == [status |-> "requested", lines |-> req[w].lines,
                   overlapped |-> req[w].overlapped, raced |-> FALSE]
  <2>1. /\ Ids(ret') = Ids(ret) \cup {k} /\ k \notin Ids(ret)
        /\ \A n \in Ids(ret) : ret'[n] = ret[n]
        /\ ret'[k] = r
    BY <1>1, NewRow DEF TypeOK
  <2>2. r.status = "requested" /\ r.raced = FALSE
    OBVIOUS
  <2> HIDE DEF r, k
  <2> QED BY <2>1, <2>2
<1> HIDE DEF k
<1>3. \A n : CreditsOf(n)' = CreditsOf(n)
  BY <1>1 DEF CreditsOf, Ids
<1>4. CreditsOf(k) = {}
  <2>1. \A c \in Ids(credit) : credit[c].ret \in Ids(ret)
    BY CreditFacts
  <2> QED BY <1>2, <2>1 DEF CreditsOf
<1> QED BY <1>2, <1>3, <1>4 DEF CreditsAgree, CreditedIffReceived, CreditedOnceUnlessRaced

LEMMA NextAgrees ==
  ASSUME TypeOK, RequestsFit, CreditsAgree, [Next]_vars
  PROVE  CreditsAgree'
<1>1. ASSUME UNCHANGED <<ret, credit>> PROVE CreditsAgree'
  BY <1>1 DEF CreditsAgree, CreditedIffReceived, CreditedOnceUnlessRaced, CreditsOf, Ids
<1>2. ASSUME NEW w \in Workers, Receive(w) \/ CheckLine(w) \/ Fail(w) PROVE CreditsAgree'
  <2>1. UNCHANGED <<ret, credit>>
    BY <1>2 DEF Receive, AskReturn, LoadReturn, Arrive, CheckLine, Fail, tables
  <2> QED BY <1>1, <2>1
<1>3. CASE UNCHANGED vars
  BY <1>1, <1>3 DEF vars, tables
<1> QED BY <1>2, <1>3, StatusAgrees, InsertAgrees DEF Next, Serve, Rest

-----------------------------------------------------------------------------
(* The cap on what is returned.                                            *)

LEMMA OrderedInt ==
  ReturnsAssumption => \A i \in Items : /\ Ordered[i] \in Int /\ UnitPrice[i] \in Int
                                        /\ AtLeastZero(Ordered[i]) \in Nat
                                        /\ Ordered[i] <= AtLeastZero(Ordered[i])
BY DEF ReturnsAssumption, AtLeastZero

\* What the check reads is the table's open returns.
LEMMA ReturnedIsOpen == \A i : Returned(i) = SumOf(OpenRow(ret, i))
<1> SUFFICES ASSUME NEW i PROVE Returned(i) = SumOf(OpenRow(ret, i))
  OBVIOUS
<1>1. [n \in Ids(ret) |-> IF Counts(ret[n]) THEN Asked(i, ret[n].lines) ELSE 0] = OpenRow(ret, i)
  BY DEF OpenRow, OpenAsked, Counts
<1> QED BY <1>1 DEF Returned

\* A step that leaves the table alone, and lets no line count as checked
\* that was not, keeps the cap.
LEMMA CapKept ==
  ASSUME ReturnsAssumption, TypeOK, TypeOK', RequestsFit', CapInv,
         \A i \in Items : Taken(ret', i) <= Taken(ret, i),
         \A w \in Workers : pc'[w] \in {"check", "insert"} /\ ~req'[w].overlapped =>
           \A k \in Ids(req'[w].lines) : Checked(w, k)' =>
             /\ pc[w] \in {"check", "insert"} /\ ~req[w].overlapped
             /\ req'[w].lines = req[w].lines /\ Checked(w, k)
  PROVE  CapInv'
<1>0. \A i : Taken(ret, i) \in Int /\ Taken(ret', i) \in Int
  BY RowType DEF TypeOK
<1>1. ASSUME NEW i \in Items PROVE Taken(ret', i) <= AtLeastZero(Ordered[i])
  <2>1. /\ Taken(ret', i) <= Taken(ret, i) /\ Taken(ret, i) <= AtLeastZero(Ordered[i])
        /\ AtLeastZero(Ordered[i]) \in Int
    BY OrderedInt DEF CapInv
  <2> QED BY <1>0, <2>1
<1>2. ASSUME NEW w \in Workers, pc'[w] \in {"check", "insert"}, ~req'[w].overlapped,
             NEW k \in Ids(req'[w].lines), Checked(w, k)'
      PROVE  req'[w].lines[k].qty + Taken(ret', req'[w].lines[k].item)
               <= Ordered[req'[w].lines[k].item]
  <2> DEFINE q == req[w].lines[k].qty
             i == req[w].lines[k].item
  <2>1. /\ pc[w] \in {"check", "insert"} /\ ~req[w].overlapped
        /\ req'[w].lines = req[w].lines /\ k \in Ids(req[w].lines) /\ Checked(w, k)
    BY <1>2
  <2>2. req[w].lines \in Lines
    <3>1. req'[w] \in CreateRequest
      BY <1>2 DEF RequestsFit, RequestFits
    <3> QED BY <2>1, <3>1 DEF CreateRequest
  <2>3. q \in Int /\ i \in Items /\ Ordered[i] \in Int
    BY <2>1, <2>2, LineFacts
  <2>4. q + Taken(ret, i) <= Ordered[i]
    BY <2>1 DEF CapInv, LinesFit
  <2> HIDE DEF q, i
  <2>5. q + Taken(ret', i) <= Ordered[i]
    BY <1>0, <2>3, <2>4
  <2> QED BY <2>1, <2>5 DEF q, i
<1> QED BY <1>1, <1>2 DEF CapInv, LinesFit

\* Steps that create and check nothing.
LEMMA ReceiveCaps ==
  ASSUME ReturnsAssumption, TypeOK, TypeOK', RequestsFit, RequestsFit', CapInv,
         NEW w \in Workers, Receive(w) \/ Fail(w)
  PROVE  CapInv'
<1>1. ret' = ret
  BY DEF Receive, AskReturn, LoadReturn, Arrive, Fail, tables
<1>2. \A i \in Items : Taken(ret', i) <= Taken(ret, i)
  BY <1>1, RowType DEF TypeOK
<1>3. ASSUME NEW v \in Workers, pc'[v] \in {"check", "insert"}, ~req'[v].overlapped,
             NEW k \in Ids(req'[v].lines), Checked(v, k)'
      PROVE  /\ pc[v] \in {"check", "insert"} /\ ~req[v].overlapped
             /\ req'[v].lines = req[v].lines /\ Checked(v, k)
  <2>1. CASE v # w
    <3>1. pc'[v] = pc[v] /\ req'[v] = req[v]
      BY <2>1 DEF TypeOK, Receive, AskReturn, LoadReturn, Arrive, Fail, Done, Goto
    <3> QED BY <1>3, <3>1 DEF Checked
  <2>2. CASE v = w
    <3>1. CASE Fail(w)
      BY <1>3, <2>2, <3>1 DEF TypeOK, Fail, Done, Goto
    <3>2. CASE LoadReturn(w)
      BY <1>3, <2>2, <3>2 DEF TypeOK, LoadReturn, Arrive, Goto
    <3>3. CASE AskReturn(w)
      <4>1. pc'[w] = "check" /\ req'[w].next = 1
        BY <3>3 DEF TypeOK, AskReturn, Arrive, Goto
      <4>2. k >= 1
        <5>1. req'[w].lines \in Lines
          BY <4>1 DEF RequestsFit, RequestFits, CreateRequest
        <5> QED BY <1>3, <2>2, <5>1 DEF Ids, Lines
      <4> QED BY <1>3, <2>2, <4>1, <4>2 DEF Checked, Ids
    <3> QED BY <3>1, <3>2, <3>3 DEF Receive
  <2> QED BY <2>1, <2>2
<1> QED BY <1>2, <1>3, CapKept

\* The line that passes the check fits beside what is open, so beside what
\* returns take.
LEMMA CheckCaps ==
  ASSUME ReturnsAssumption, TypeOK, TypeOK', RequestsFit, RequestsFit', CapInv,
         NEW w \in Workers, CheckLine(w)
  PROVE  CapInv'
<1> DEFINE r == req[w]
           q == r.lines[r.next].qty
           i == r.lines[r.next].item
<1>1. ret' = ret /\ pc[w] = "check"
  BY DEF CheckLine, tables
<1>2. /\ r \in CreateRequest /\ r.lines \in Lines /\ r.next \in Ids(r.lines)
      /\ \A k \in Ids(r.lines) : k \in Nat
  <2>1. r \in CreateRequest /\ r.next <= Len(r.lines)
    BY <1>1 DEF RequestsFit, RequestFits, TypeOK
  <2>2. r.lines \in Lines /\ r.next \in Nat \ {0}
    BY <2>1 DEF CreateRequest
  <2>3. Len(r.lines) \in Nat
    BY <2>2 DEF Lines
  <2> HIDE DEF r
  <2> QED BY <2>1, <2>2, <2>3 DEF Ids
<1>3. q \in Int /\ i \in Items /\ Ordered[i] \in Int
  BY <1>2, LineFacts
<1>8. ASSUME ~ (q > Remaining(i)) PROVE q + Taken(ret, i) <= Ordered[i]
  <2>1. /\ Remaining(i) = Ordered[i] - SumOf(OpenRow(ret, i))
        /\ Taken(ret, i) <= SumOf(OpenRow(ret, i))
        /\ Taken(ret, i) \in Int /\ SumOf(OpenRow(ret, i)) \in Int
    BY ReturnedIsOpen, RowType DEF Remaining, TypeOK
  <2> HIDE DEF q, i
  <2> QED BY <1>3, <1>8, <2>1
<1>4. CASE Done(w)
  <2>1. ASSUME NEW v \in Workers, pc'[v] \in {"check", "insert"}
        PROVE  v # w /\ pc'[v] = pc[v] /\ req'[v] = req[v]
    BY <1>4, <2>1, DoneOK
  <2>2. \A j \in Items : Taken(ret', j) <= Taken(ret, j)
    BY <1>1, RowType DEF TypeOK
  <2>3. ASSUME NEW v \in Workers, pc'[v] \in {"check", "insert"}, ~req'[v].overlapped,
               NEW k \in Ids(req'[v].lines), Checked(v, k)'
        PROVE  /\ pc[v] \in {"check", "insert"} /\ ~req[v].overlapped
               /\ req'[v].lines = req[v].lines /\ Checked(v, k)
    BY <2>1, <2>3 DEF Checked
  <2> QED BY <2>2, <2>3, CapKept
<1>5. CASE ~ (q > Remaining(i)) /\ UNCHANGED req /\ Goto(w, "insert") /\ r.next = Len(r.lines)
  <2>1. q + Taken(ret, i) <= Ordered[i]
    BY <1>8, <1>5
  <2>2. ASSUME NEW v \in Workers PROVE LinesFit(v)'
    <3>1. CASE v # w
      <4>1. pc'[v] = pc[v] /\ req'[v] = req[v]
        BY <1>5, <3>1 DEF Goto, TypeOK
      <4> QED BY <1>1, <4>1 DEF CapInv, LinesFit, Checked
    <3>2. CASE v = w
      <4>1. ASSUME NEW k \in Ids(r.lines), ~r.overlapped
            PROVE  r.lines[k].qty + Taken(ret, r.lines[k].item) <= Ordered[r.lines[k].item]
        <5>1. CASE k = r.next
          BY <2>1, <5>1
        <5>2. CASE k # r.next
          <6>1. k < r.next
            <7>1. k \in Nat /\ k <= r.next
              BY <1>2, <1>5 DEF Ids, Lines
            <7>2. r.next \in Nat
              BY <1>2
            <7> HIDE DEF r
            <7> QED BY <5>2, <7>1, <7>2
          <6> QED BY <1>1, <4>1, <6>1 DEF CapInv, LinesFit, Checked
        <5> QED BY <5>1, <5>2
      <4> QED BY <1>1, <1>5, <3>2, <4>1 DEF LinesFit
    <3> QED BY <3>1, <3>2
  <2> QED BY <1>1, <2>2 DEF CapInv
<1>6. CASE /\ ~ (q > Remaining(i)) /\ UNCHANGED pc
           /\ req' = [req EXCEPT ![w].next = @ + 1]
  <2>1. q + Taken(ret, i) <= Ordered[i]
    BY <1>8, <1>6
  <2>2. ASSUME NEW v \in Workers PROVE LinesFit(v)'
    <3>1. CASE v # w
      <4>1. pc'[v] = pc[v] /\ req'[v] = req[v]
        BY <1>6, <3>1 DEF TypeOK
      <4> QED BY <1>1, <4>1 DEF CapInv, LinesFit, Checked
    <3>2. CASE v = w
      <4>0. req'[w].lines = r.lines /\ req'[w].overlapped = r.overlapped /\ req'[w].next = r.next + 1
        BY <1>2, <1>6 DEF TypeOK, CreateRequest
      <4>1. ASSUME NEW k \in Ids(r.lines), ~r.overlapped, k < r.next + 1
            PROVE  r.lines[k].qty + Taken(ret, r.lines[k].item) <= Ordered[r.lines[k].item]
        <5>1. CASE k = r.next
          BY <2>1, <5>1
        <5>2. CASE k # r.next
          <6>1. k < r.next
            BY <1>2, <4>1, <5>2
          <6> QED BY <1>1, <4>1, <6>1 DEF CapInv, LinesFit, Checked
        <5> QED BY <5>1, <5>2
      <4> QED BY <1>1, <1>6, <3>2, <4>0, <4>1 DEF LinesFit, Checked
    <3> QED BY <3>1, <3>2
  <2> QED BY <1>1, <2>2 DEF CapInv
<1>7. r.next < Len(r.lines) \/ r.next = Len(r.lines)
  BY <1>2 DEF Ids, Lines
<1> QED BY <1>4, <1>5, <1>6, <1>7 DEF CheckLine

\* A status change lets no return take more than it did.
LEMMA StatusCaps ==
  ASSUME ReturnsAssumption, TypeOK, TypeOK', RequestsFit, RequestsFit', CapInv,
         NEW w \in Workers, SetStatus(w) \/ ReceiveReturn(w)
  PROVE  CapInv'
<1>1. /\ req[w] \in StatusRequest /\ req[w].ret \in Ids(ret)
      /\ SetReturnStatus(req[w]) /\ Done(w) /\ req[w].from # "rejected"
  BY DEF SetStatus, ReceiveReturn, RequestsFit, RequestFits, TypeOK
<1>2. /\ Ids(ret') = Ids(ret)
      /\ \A n \in Ids(ret) : /\ ret'[n].lines = ret[n].lines
                             /\ ret'[n].overlapped = ret[n].overlapped
                             /\ n # req[w].ret => ret'[n] = ret[n]
                             /\ n = req[w].ret => ret'[n].raced = (ret[n].raced \/ ret[n].status # req[w].from)
  BY <1>1, SetRow DEF TypeOK
<1>3. ASSUME NEW i \in Items, NEW n \in Ids(ret) PROVE Takes(ret'[n], i) <= Takes(ret[n], i)
  <2>0. Asked(i, ret[n].lines) \in Int /\ ret'[n].lines = ret[n].lines
    BY <1>2, TableFacts DEF TypeOK
  <2>1. CASE n = req[w].ret /\ Clean(ret'[n], i)
    <3>1. ~ret[n].raced /\ ret[n].status = req[w].from /\ ~ret[n].overlapped
      BY <1>2, <2>1 DEF Clean
    <3>2. Twice(ret'[n], i) <=> Twice(ret[n], i)
      BY <1>2 DEF Twice
    <3>3. Clean(ret[n], i) /\ ret[n].status # "rejected"
      BY <1>1, <2>1, <3>1, <3>2 DEF Clean
    <3> QED BY <2>0, <3>3 DEF Takes
  <2>2. CASE n = req[w].ret /\ ~Clean(ret'[n], i)
    BY <2>0, <2>2 DEF Takes
  <2>3. CASE n # req[w].ret
    BY <1>2, <2>0, <2>3 DEF Takes
  <2> QED BY <2>1, <2>2, <2>3
<1>4. \A i \in Items : Taken(ret', i) <= Taken(ret, i)
  BY <1>2, <1>3, TakenFalls DEF TypeOK
<1>5. ASSUME NEW v \in Workers, pc'[v] \in {"check", "insert"}
      PROVE  v # w /\ pc'[v] = pc[v] /\ req'[v] = req[v]
  BY <1>1, <1>5, DoneOK
<1>6. ASSUME NEW v \in Workers, pc'[v] \in {"check", "insert"}, ~req'[v].overlapped,
             NEW k \in Ids(req'[v].lines), Checked(v, k)'
      PROVE  /\ pc[v] \in {"check", "insert"} /\ ~req[v].overlapped
             /\ req'[v].lines = req[v].lines /\ Checked(v, k)
  BY <1>5, <1>6 DEF Checked
<1> QED BY <1>4, <1>6, CapKept

\* A new return that takes anything asks for one line at most of an item, and
\* that line was checked.
LEMMA InsertCaps ==
  ASSUME ReturnsAssumption, TypeOK, TypeOK', RequestsFit, RequestsFit', CapInv,
         NEW w \in Workers, InsertReturn(w)
  PROVE  CapInv'
<1> DEFINE r == [status |-> "requested", lines |-> req[w].lines,
                 overlapped |-> req[w].overlapped, raced |-> FALSE]
<1>1. pc[w] = "insert" /\ req[w] \in CreateRequest /\ req[w].lines \in Lines
  BY DEF InsertReturn, RequestsFit, RequestFits, CreateRequest
<1>2. r \in ReturnRow /\ ret' = Append(ret, r)
  BY <1>1, NewRow DEF TypeOK
<1>3. ASSUME NEW i \in Items PROVE Taken(ret', i) <= AtLeastZero(Ordered[i])
  <2>1. Taken(ret', i) = Taken(ret, i) + Takes(r, i)
    <3> HIDE DEF r
    <3> QED BY <1>2, TakenAppend DEF TypeOK
  <2>2. /\ Taken(ret, i) \in Int /\ Taken(ret, i) <= AtLeastZero(Ordered[i])
        /\ Ordered[i] \in Int /\ AtLeastZero(Ordered[i]) \in Int
        /\ Ordered[i] <= AtLeastZero(Ordered[i])
    BY RowType, OrderedInt DEF TypeOK, CapInv
  <2>3. CASE Takes(r, i) <= 0
    <3>1. Takes(r, i) \in Int
      BY <1>1, AskedInt DEF Takes
    <3> HIDE DEF r
    <3> QED BY <2>1, <2>2, <2>3, <3>1
  <2>4. CASE ~ (Takes(r, i) <= 0)
    <3>0. Asked(i, req[w].lines) \in Int
      BY <1>1, AskedInt
    <3>1. /\ ~req[w].overlapped /\ ~Twice(r, i) /\ Takes(r, i) = Asked(i, req[w].lines)
          /\ Asked(i, req[w].lines) # 0
      BY <2>4, <3>0 DEF Takes, Clean
    <3>2. \A j, k \in Ids(req[w].lines) :
            req[w].lines[j].item = i /\ req[w].lines[k].item = i => j = k
      BY <3>1 DEF Twice
    <3>3. PICK k \in Ids(req[w].lines) : req[w].lines[k].item = i /\ Asked(i, req[w].lines) = req[w].lines[k].qty
      BY <1>1, <3>1, <3>2, AskedOnce
    <3>4. req[w].lines[k].qty + Taken(ret, i) <= Ordered[i] /\ req[w].lines[k].qty \in Int
      BY <1>1, <3>1, <3>3, LineFacts DEF CapInv, LinesFit, Checked
    <3> HIDE DEF r
    <3> QED BY <2>1, <2>2, <3>1, <3>3, <3>4
  <2> QED BY <2>3, <2>4
<1>4. ASSUME NEW v \in Workers PROVE LinesFit(v)'
  <2>1. CASE v = w
    BY <2>1 DEF InsertReturn, Goto, TypeOK, LinesFit
  <2>2. CASE v # w
    <3>1. pc'[v] = pc[v] /\ req'[v] = IF req[v].kind = "create" THEN [req[v] EXCEPT !.overlapped = TRUE]
                                      ELSE req[v]
      BY <2>2 DEF InsertReturn, Goto, TypeOK
    <3>2. SUFFICES ASSUME pc[v] \in {"check", "insert"} PROVE req'[v].overlapped
      BY <3>1 DEF LinesFit
    <3>3. req[v] \in CreateRequest
      BY <3>2 DEF RequestsFit, RequestFits
    <3>4. req'[v] = [req[v] EXCEPT !.overlapped = TRUE]
      BY <3>1, <3>3 DEF CreateRequest
    <3> QED BY <3>3, <3>4 DEF CreateRequest
  <2> QED BY <2>1, <2>2
<1> QED BY <1>3, <1>4 DEF CapInv

LEMMA NextCaps ==
  ASSUME ReturnsAssumption, TypeOK, TypeOK', RequestsFit, RequestsFit', CapInv, [Next]_vars
  PROVE  CapInv'
<1>1. CASE UNCHANGED vars
  BY <1>1 DEF vars, tables, CapInv, LinesFit, Checked
<1> QED BY <1>1, ReceiveCaps, CheckCaps, StatusCaps, InsertCaps DEF Next, Serve, Rest

-----------------------------------------------------------------------------
(* The sum of the credits.                                                 *)

LEMMA WorthType ==
  ASSUME ReturnsAssumption, NEW t \in Seq(ReturnRow)
  PROVE  WorthRow(t) \in [Ids(t) -> Int] /\ \A r \in ReturnRow : Worth(r) \in Int
<1>1. \A r \in ReturnRow : Worth(r) \in Int
  BY CreditTotalInt DEF Worth, ReturnRow
<1> QED BY <1>1, TableFacts DEF WorthRow

LEMMA AmountType ==
  ASSUME NEW S, NEW c \in Seq([ret : S, amount : Int])
  PROVE  AmountRow(c) \in [Ids(c) -> Int]
<1> DEFINE R == [ret : S, amount : Int]
<1>0. c \in Seq(R)
  OBVIOUS
<1>1. \A k \in Ids(c) : c[k] \in R
  <2> HIDE DEF R
  <2> QED BY <1>0, ElementOfSeq DEF Ids
<1> QED BY <1>1 DEF AmountRow

LEMMA StatusAmounts ==
  ASSUME ReturnsAssumption, TypeOK, TypeOK', RequestsFit, AmountInv,
         NEW w \in Workers, SetStatus(w) \/ ReceiveReturn(w)
  PROVE  AmountInv'
<1> DEFINE m == req[w].ret
           f == WorthRow(ret)
           g == WorthRow(ret')
<1>1. /\ req[w] \in StatusRequest /\ m \in Ids(ret) /\ SetReturnStatus(req[w])
  BY DEF SetStatus, ReceiveReturn, RequestsFit, RequestFits, TypeOK
<1>2. /\ Ids(ret') = Ids(ret)
      /\ \A n \in Ids(ret) : /\ ret'[n].lines = ret[n].lines
                             /\ n # m => ret'[n] = ret[n]
                             /\ n = m => /\ ret'[n].status = req[w].to
                                         /\ ret'[n].raced = (ret[n].raced \/ ret[n].status # req[w].from)
  BY <1>1, SetRow DEF TypeOK
<1>3. SUFFICES ASSUME \A n \in Ids(ret) : ~ret'[n].raced
               PROVE  SumOf(AmountRow(credit')) = SumOf(g)
  BY <1>2 DEF AmountInv
<1>4. (\A n \in Ids(ret) : ~ret[n].raced) /\ ret[m].status = req[w].from
  BY <1>1, <1>2, <1>3
<1>5. SumOf(AmountRow(credit)) = SumOf(f)
  BY <1>4 DEF AmountInv
<1>6. f \in [Ids(ret) -> Int] /\ g \in [Ids(ret) -> Int] /\ IsFiniteSet(Ids(ret))
  BY <1>2, WorthType, TableFacts DEF TypeOK
<1>7. /\ \A n \in Ids(ret) \ {m} : g[n] = f[n]
      /\ f[m] = Worth(ret[m]) /\ g[m] = Worth(ret'[m])
  BY <1>1, <1>2 DEF WorthRow
<1>8. SumOf(g) = SumOf(f) - f[m] + g[m]
  <2> HIDE DEF f, g, m
  <2> QED BY <1>1, <1>6, <1>7, SumChange DEF m
<1>9. SumOf(f) \in Int
  <2> HIDE DEF f
  <2> QED BY <1>6, SumInt
<1>10. CASE SetStatus(w)
  <2>1. req[w].from = "requested" /\ req[w].to # "received" /\ credit' = credit
    BY <1>10 DEF SetStatus, RequestsFit, RequestFits
  <2>2. f[m] = 0 /\ g[m] = 0
    BY <1>1, <1>2, <1>4, <1>7, <2>1 DEF Worth
  <2> HIDE DEF f, g
  <2> QED BY <1>5, <1>8, <1>9, <2>1, <2>2
<1>11. CASE ReceiveReturn(w)
  <2> DEFINE a == CreditTotal(ret[m].lines)
             c == [ret |-> m, amount |-> a]
             u == AmountRow(credit)
             v == AmountRow(credit')
             k == Len(credit)
  <2>1. req[w].from = "approved" /\ req[w].to = "received" /\ credit' = Append(credit, c)
    BY <1>11 DEF ReceiveReturn, RequestsFit, RequestFits
  <2>2. f[m] = 0 /\ g[m] = a
    BY <1>1, <1>2, <1>4, <1>7, <2>1 DEF Worth
  <2>3. /\ k \in Nat /\ Len(credit') = k + 1 /\ credit'[k + 1] = c
        /\ \A j \in 1..k : credit'[j] = credit[j]
    <3>1. credit \in Seq([ret : Ids(ret), amount : Int])
      BY DEF TypeOK
    <3> QED BY <2>1, <3>1
  <2>4. u \in [1..k -> Int] /\ v \in [1..(k + 1) -> Int]
    <3>1. u \in [Ids(credit) -> Int] /\ v \in [Ids(credit') -> Int]
      BY AmountType DEF TypeOK
    <3>2. Ids(credit) = 1..k /\ Ids(credit') = 1..(k + 1)
      BY <2>3 DEF Ids
    <3> HIDE DEF u, v, k
    <3> QED BY <3>1, <3>2
  <2>5. (\A j \in 1..k : v[j] = u[j]) /\ v[k + 1] = a
    <3>1. \A j \in 1..(k + 1) : v[j] = credit'[j].amount
      BY <2>3 DEF AmountRow, Ids
    <3>2. \A j \in 1..k : u[j] = credit[j].amount /\ j \in 1..(k + 1)
      BY <2>3 DEF AmountRow, Ids
    <3>3. c.amount = a /\ k + 1 \in 1..(k + 1)
      BY <2>3
    <3> HIDE DEF u, v, k, c, a
    <3> QED BY <2>3, <3>1, <3>2, <3>3
  <2>6. SumOf(v) = SumOf(u) + a
    <3> HIDE DEF u, v, k, a
    <3> QED BY <2>3, <2>4, <2>5, SumLonger
  <2>7. a \in Int
    BY <1>1, TableFacts, CreditTotalInt DEF TypeOK
  <2> HIDE DEF f, g, a, u, v
  <2>8. SumOf(v) = SumOf(g)
    BY <1>5, <1>8, <1>9, <2>2, <2>6, <2>7 DEF u
  <2> QED BY <2>8 DEF v
<1> QED BY <1>10, <1>11

LEMMA InsertAmounts ==
  ASSUME ReturnsAssumption, TypeOK, TypeOK', RequestsFit, AmountInv,
         NEW w \in Workers, InsertReturn(w)
  PROVE  AmountInv'
<1> DEFINE r == [status |-> "requested", lines |-> req[w].lines,
                 overlapped |-> req[w].overlapped, raced |-> FALSE]
           k == Len(ret)
           f == WorthRow(ret)
           g == WorthRow(ret')
<1>1. req[w] \in CreateRequest /\ credit' = credit
  BY DEF InsertReturn, RequestsFit, RequestFits
<1>2. /\ k \in Nat /\ Len(ret') = k + 1 /\ Ids(ret) \subseteq Ids(ret')
      /\ (\A n \in Ids(ret) : ret'[n] = ret[n]) /\ ret'[k + 1] = r
  BY <1>1, NewRow DEF TypeOK
<1>3. Ids(ret) = 1..k /\ Ids(ret') = 1..(k + 1) /\ k + 1 \in 1..(k + 1)
  BY <1>2 DEF Ids
<1>4. f \in [1..k -> Int] /\ g \in [1..(k + 1) -> Int]
  <2>1. f \in [Ids(ret) -> Int] /\ g \in [Ids(ret') -> Int]
    BY WorthType DEF TypeOK
  <2> HIDE DEF f, g, k
  <2> QED BY <1>3, <2>1
<1>5. r.status = "requested"
  OBVIOUS
<1>6. (\A n \in 1..k : g[n] = f[n]) /\ g[k + 1] = 0
  <2> HIDE DEF r, k
  <2> QED BY <1>2, <1>3, <1>5 DEF WorthRow, Worth
<1>7. SumOf(g) = SumOf(f) + 0 /\ SumOf(f) \in Int
  <2>1. IsFiniteSet(1..k)
    BY <1>3, TableFacts DEF TypeOK
  <2>2. k \in Nat /\ f \in [1..k -> Int] /\ g \in [1..(k + 1) -> Int]
    BY <1>2, <1>4
  <2> HIDE DEF f, g, k
  <2>3. SumOf(g) = SumOf(f) + g[k + 1]
    BY <1>6, <2>2, SumLonger
  <2>4. SumOf(f) \in Int
    BY <2>1, <2>2, SumInt
  <2> QED BY <1>6, <2>3, <2>4
<1>8. SumOf(g) = SumOf(f)
  <2> HIDE DEF f, g
  <2> QED BY <1>7
<1> QED BY <1>1, <1>2, <1>8 DEF AmountInv

LEMMA NextAmounts ==
  ASSUME ReturnsAssumption, TypeOK, TypeOK', RequestsFit, AmountInv, [Next]_vars
  PROVE  AmountInv'
<1>1. ASSUME UNCHANGED <<ret, credit>> PROVE AmountInv'
  BY <1>1 DEF AmountInv
<1>2. ASSUME NEW w \in Workers, Receive(w) \/ CheckLine(w) \/ Fail(w) PROVE AmountInv'
  <2>1. UNCHANGED <<ret, credit>>
    BY <1>2 DEF Receive, AskReturn, LoadReturn, Arrive, CheckLine, Fail, tables
  <2> QED BY <1>1, <2>1
<1>3. CASE UNCHANGED vars
  BY <1>1, <1>3 DEF vars, tables
<1> QED BY <1>2, <1>3, StatusAmounts, InsertAmounts DEF Next, Serve, Rest

-----------------------------------------------------------------------------
(* What the invariant says of what is on return, and of what is credited.  *)

LEMMA CapShown ==
  ASSUME CapInv
  PROVE  OverReturnOnlyByOverlap
BY DEF CapInv, OverReturnOnlyByOverlap, Taken, TakesRow

\* A credit of one return, spread over the items, and what one return gave.
Share(r, i) == IF r.status = "received" THEN UnitPrice[i] * Asked(i, r.lines) ELSE 0
Gave(r, i)  == IF r.status = "received" \/ Asked(i, r.lines) >= 0 THEN 0 ELSE 0 - Asked(i, r.lines)

LEMMA ShareFacts ==
  ASSUME ReturnsAssumption, NEW r \in ReturnRow
  PROVE  /\ [i \in Items |-> Share(r, i)] \in [Items -> Int]
         /\ SumOf([i \in Items |-> Share(r, i)]) = Worth(r)
<1>1. r.lines \in Lines
  BY DEF ReturnRow
<1>2. ASSUME NEW i \in Items PROVE Share(r, i) \in Int
  <2>1. UnitPrice[i] \in Int /\ Asked(i, r.lines) \in Int
    BY <1>1, OrderedInt, AskedInt
  <2>2. \A a, b \in Int : a * b \in Int
    OBVIOUS
  <2> QED BY <2>1, <2>2 DEF Share
<1>3. CASE r.status = "received"
  <2>1. [i \in Items |-> Share(r, i)] = [i \in Items |-> UnitPrice[i] * Asked(i, r.lines)]
    BY <1>3 DEF Share
  <2> QED BY <1>1, <1>2, <1>3, <2>1, CreditByItem DEF Worth
<1>4. CASE r.status # "received"
  <2> DEFINE f == [i \in Items |-> Share(r, i)]
  <2>1. IsFiniteSet(Items) /\ f \in [Items -> Int] /\ \A i \in Items : f[i] = 0
    BY <1>4 DEF ReturnsAssumption, Share
  <2>2. SumOf(f) = 0
    <3> HIDE DEF f
    <3> QED BY <2>1, SumZero
  <2> QED BY <1>2, <1>4, <2>2 DEF Worth
<1> QED BY <1>3, <1>4

\* What is given is what is not taken up by the returns received.
LEMMA GivenFacts ==
  ASSUME ReturnsAssumption, TypeOK, NEW i \in Items
  PROVE  /\ [n \in Ids(ret) |-> Gave(ret[n], i)] \in [Ids(ret) -> Int]
         /\ Given(i) = SumOf([n \in Ids(ret) |-> Gave(ret[n], i)]) /\ Given(i) \in Int
<1> DEFINE f == [n \in Ids(ret) |-> Gave(ret[n], i)]
<1>0. ret \in Seq(ReturnRow)
  BY DEF TypeOK
<1>1. f \in [Ids(ret) -> Int] /\ IsFiniteSet(Ids(ret))
  <2>1. IsFiniteSet(Ids(ret)) /\ \A n \in Ids(ret) : Asked(i, ret[n].lines) \in Int
    BY <1>0, TableFacts
  <2>2. \A n \in Ids(ret) : Gave(ret[n], i) \in Int
    BY <2>1 DEF Gave
  <2> QED BY <2>1, <2>2
<1>2. Given(i) = SumOf(f)
  BY DEF Given, Gave
<1>3. SumOf(f) \in Int
  <2> HIDE DEF f
  <2> QED BY <1>1, SumInt
<1> QED BY <1>1, <1>2, <1>3

\* No item's share of the credits is worth more than was ordered and given of it.
LEMMA ItemShare ==
  ASSUME ReturnsAssumption, TypeOK, CapInv, NEW i \in Items, UnitPrice[i] >= 0,
         \A n \in Ids(ret) : Clean(ret[n], i)
  PROVE  SumOf([n \in Ids(ret) |-> Share(ret[n], i)])
           <= UnitPrice[i] * (AtLeastZero(Ordered[i]) + Given(i))
<1> DEFINE S == Ids(ret)
           c == UnitPrice[i]
           o == AtLeastZero(Ordered[i])
           v == Given(i)
           f == [n \in S |-> Share(ret[n], i)]
           t == TakesRow(ret, i)
           q == [n \in S |-> Gave(ret[n], i)]
           g == [n \in S |-> t[n] + q[n]]
           h == [n \in S |-> c * g[n]]
<1>0. ret \in Seq(ReturnRow)
  BY DEF TypeOK
<1>1. /\ IsFiniteSet(S) /\ t \in [S -> Int] /\ q \in [S -> Int]
      /\ c \in Nat /\ o \in Int /\ v \in Int /\ v = SumOf(q)
  <2>1. IsFiniteSet(S) /\ t \in [S -> Int]
    BY <1>0, RowType, TableFacts
  <2>2. c \in Nat /\ o \in Int
    BY OrderedInt
  <2>3. q \in [S -> Int] /\ v \in Int /\ v = SumOf(q)
    BY GivenFacts
  <2> HIDE DEF S, t, c, o, q, v
  <2> QED BY <2>1, <2>2, <2>3
<1>2. \A n \in S : Asked(i, ret[n].lines) \in Int
  BY TableFacts DEF TypeOK
<1>3. \A a, b \in Int : a * b \in Int
  OBVIOUS
<1>4. f \in [S -> Int] /\ g \in [S -> Int] /\ h \in [S -> Int]
  <2>1. \A n \in S : Share(ret[n], i) \in Int
    BY <1>1, <1>2, <1>3 DEF Share
  <2>2. \A n \in S : t[n] + q[n] \in Int
    <3> HIDE DEF t, q, S
    <3> QED BY <1>1
  <2>3. \A n \in S : c * g[n] \in Int
    <3>1. \A n \in S : g[n] \in Int
      BY <2>2
    <3> HIDE DEF g, c, S
    <3> QED BY <1>1, <1>3, <3>1
  <2> QED BY <2>1, <2>2, <2>3
<1>5. ASSUME NEW n \in S PROVE f[n] <= h[n]
  <2>1. CASE ret[n].status = "received"
    <3>1. t[n] = Asked(i, ret[n].lines) /\ q[n] = 0
      BY <2>1 DEF TakesRow, Takes, Gave
    <3>2. f[n] = c * Asked(i, ret[n].lines) /\ h[n] = c * (t[n] + q[n])
      BY <2>1 DEF Share
    <3>3. h[n] \in Int
      BY <1>4
    <3>4. t[n] + q[n] = Asked(i, ret[n].lines)
      BY <1>2, <3>1
    <3> HIDE DEF f, t, q, h, c
    <3> QED BY <3>2, <3>3, <3>4
  <2>2. CASE ret[n].status # "received"
    <3>1. f[n] = 0
      BY <2>2 DEF Share
    <3>2. t[n] + q[n] >= 0
      BY <1>2, <2>2 DEF TakesRow, Takes, Gave
    <3>3. t[n] + q[n] \in Nat
      <4>1. t[n] \in Int /\ q[n] \in Int
        BY <1>1
      <4> HIDE DEF t, q
      <4> QED BY <3>2, <4>1
    <3>4. h[n] = c * (t[n] + q[n])
      OBVIOUS
    <3>5. \A a, b \in Nat : a * b \in Nat
      OBVIOUS
    <3> HIDE DEF f, t, q, h, c
    <3> QED BY <1>1, <3>1, <3>3, <3>4, <3>5
  <2> QED BY <2>1, <2>2
<1>6. SumOf(f) <= SumOf(h)
  <2> HIDE DEF S, f, h
  <2> QED BY <1>1, <1>4, <1>5, SumMonotone
<1>7. SumOf(h) = c * SumOf(g)
  <2>1. c \in Int
    BY <1>1
  <2>2. \A n \in S : h[n] = c * g[n]
    OBVIOUS
  <2> HIDE DEF S, g, h, c
  <2> QED BY <1>1, <1>4, <2>1, <2>2, SumScale
<1>8. SumOf(g) = SumOf(t) + SumOf(q)
  <2>1. \A n \in S : g[n] = t[n] + q[n]
    OBVIOUS
  <2>2. g \in [S -> Int] /\ t \in [S -> Int] /\ q \in [S -> Int] /\ IsFiniteSet(S)
    BY <1>1, <1>4
  <2> HIDE DEF S, g, t, q
  <2> QED BY <2>1, <2>2, SumPlus
<1>9. SumOf(t) \in Int /\ SumOf(t) <= o
  BY RowType DEF CapInv, TypeOK, Taken
<1>10. c * SumOf(g) <= c * (o + v)
  <2>1. SumOf(g) \in Int /\ o + v \in Int /\ SumOf(g) <= o + v
    <3> HIDE DEF t, q, g, o, v
    <3> QED BY <1>1, <1>8, <1>9
  <2>2. \A a \in Nat : \A b, d \in Int : b <= d => a * b <= a * d
    <3> SUFFICES ASSUME NEW a \in Nat, NEW b \in Int, NEW d \in Int, b <= d PROVE a * b <= a * d
      OBVIOUS
    <3>1. a * d = a * b + a * (d - b) /\ d - b \in Nat /\ a * b \in Int
      BY <1>3
    <3>2. a * (d - b) \in Nat
      <4>1. \A x, y \in Nat : x * y \in Nat
        OBVIOUS
      <4> QED BY <3>1, <4>1
    <3> QED BY <3>1, <3>2
  <2> HIDE DEF g, c, o, v
  <2> QED BY <1>1, <2>1, <2>2
<1>11. SumOf(f) \in Int /\ SumOf(h) \in Int
  <2> HIDE DEF S, f, h
  <2> QED BY <1>1, <1>4, SumInt
<1>12. c * (o + v) \in Int
  <2> HIDE DEF c, o, v
  <2> QED BY <1>1, <1>3
<1> HIDE DEF S, f, g, h, c, o, v
<1>13. SumOf(f) <= c * (o + v)
  BY <1>6, <1>7, <1>10, <1>11, <1>12
<1> QED BY <1>13 DEF f, c, o, v, S

LEMMA CreditShown ==
  ASSUME ReturnsAssumption, TypeOK, CapInv, AmountInv
  PROVE  CreditWithinOrder
<1> SUFFICES ASSUME \A n \in Ids(ret) : /\ ~ret[n].overlapped /\ ~ret[n].raced
                                        /\ \A i \in Items : ~Twice(ret[n], i),
                    \A i \in Items : UnitPrice[i] >= 0
             PROVE  SumOf(AmountRow(credit))
                      <= SumOf([i \in Items |-> UnitPrice[i] * (AtLeastZero(Ordered[i]) + Given(i))])
  BY DEF CreditWithinOrder, AmountRow
<1> DEFINE S == Ids(ret)
           F == [n \in S |-> [i \in Items |-> Share(ret[n], i)]]
           row == [n \in S |-> SumOf(F[n])]
           col == [i \in Items |-> SumOf([n \in S |-> F[n][i]])]
           cap == [i \in Items |-> UnitPrice[i] * (AtLeastZero(Ordered[i]) + Given(i))]
<1>1. IsFiniteSet(S) /\ IsFiniteSet(Items) /\ \A n \in S : ret[n] \in ReturnRow
  BY TableFacts DEF TypeOK, ReturnsAssumption
<1>2. F \in [S -> [Items -> Int]]
  <2>1. \A n \in S : [i \in Items |-> Share(ret[n], i)] \in [Items -> Int]
    <3> SUFFICES ASSUME NEW n \in S PROVE [i \in Items |-> Share(ret[n], i)] \in [Items -> Int]
      OBVIOUS
    <3>1. [i \in Items |-> Share(ret[n], i)] \in [Items -> Int]
      BY <1>1, ShareFacts
    <3> QED BY <3>1
  <2> QED BY <2>1
<1>3. SumOf(row) = SumOf(col)
  <2> HIDE DEF S, F
  <2> QED BY <1>1, <1>2, SumSwap
<1>4. row = WorthRow(ret)
  <2>1. \A n \in S : SumOf(F[n]) = Worth(ret[n])
    BY <1>1, ShareFacts
  <2> HIDE DEF F
  <2> QED BY <2>1 DEF WorthRow
<1>5. SumOf(AmountRow(credit)) = SumOf(row)
  BY <1>4 DEF AmountInv
<1>6. ASSUME NEW i \in Items PROVE col[i] <= cap[i]
  <2>1. [n \in S |-> F[n][i]] = [n \in S |-> Share(ret[n], i)]
    OBVIOUS
  <2>2. SumOf([n \in S |-> Share(ret[n], i)])
          <= UnitPrice[i] * (AtLeastZero(Ordered[i]) + Given(i))
    <3>1. \A n \in Ids(ret) : Clean(ret[n], i)
      BY DEF Clean
    <3> QED BY <3>1, ItemShare
  <2> QED BY <2>1, <2>2
<1>7. col \in [Items -> Int] /\ cap \in [Items -> Int]
  <2>1. ASSUME NEW i \in Items PROVE SumOf([n \in S |-> F[n][i]]) \in Int
    <3> DEFINE g == [n \in S |-> F[n][i]]
    <3>1. g \in [S -> Int]
      BY <1>2
    <3>2. SumOf(g) \in Int
      <4> HIDE DEF g, S
      <4> QED BY <1>1, <3>1, SumInt
    <3> QED BY <3>2
  <2>2. ASSUME NEW i \in Items PROVE UnitPrice[i] * (AtLeastZero(Ordered[i]) + Given(i)) \in Int
    <3> DEFINE c == UnitPrice[i]
               o == AtLeastZero(Ordered[i])
               v == Given(i)
    <3>1. c \in Int /\ o \in Int /\ v \in Int
      <4>1. v \in Int
        BY GivenFacts
      <4> HIDE DEF v
      <4> QED BY <4>1, OrderedInt
    <3>2. \A a, b \in Int : a * b \in Int
      OBVIOUS
    <3> HIDE DEF c, o, v
    <3>3. c * (o + v) \in Int
      BY <3>1, <3>2
    <3> QED BY <3>3 DEF c, o, v
  <2> HIDE DEF F
  <2> QED BY <2>1, <2>2
<1>8. SumOf(col) <= SumOf(cap)
  <2> HIDE DEF col, cap
  <2> QED BY <1>1, <1>6, <1>7, SumMonotone
<1> HIDE DEF row, col, cap
<1>9. SumOf(AmountRow(credit)) <= SumOf(cap)
  BY <1>3, <1>5, <1>8
<1> QED BY <1>9 DEF cap

-----------------------------------------------------------------------------
(* The inductive invariant of every behaviour.                             *)
LEMMA InvInductive == ReturnsAssumption => (Init => Inv) /\ (Inv /\ [Next]_vars => Inv')
<1> SUFFICES ASSUME ReturnsAssumption PROVE (Init => Inv) /\ (Inv /\ [Next]_vars => Inv')
  OBVIOUS
<1>1. ASSUME Init PROVE Inv
  <2>1. TypeOK /\ RequestsFit
    BY <1>1, InitOK
  <2>2. Ids(ret) = {} /\ Ids(credit) = {}
    BY <1>1 DEF Init, Ids
  <2>3. CreditedIffReceived /\ CreditedOnceUnlessRaced
    BY <2>2 DEF CreditedIffReceived, CreditedOnceUnlessRaced
  <2>4. AmountInv
    <3>1. SumOf(AmountRow(credit)) = 0 /\ SumOf(WorthRow(ret)) = 0
      BY <2>2, SumEmpty DEF AmountRow, WorthRow
    <3> QED BY <3>1 DEF AmountInv
  <2>5. CapInv
    <3>1. \A i \in Items : Taken(ret, i) = 0 /\ AtLeastZero(Ordered[i]) \in Nat
      BY <2>2, SumEmpty, OrderedInt DEF Taken, TakesRow
    <3>2. \A w \in Workers : pc[w] = "idle"
      BY <1>1 DEF Init
    <3> QED BY <3>1, <3>2 DEF CapInv, LinesFit
  <2> QED BY <2>1, <2>3, <2>4, <2>5 DEF Inv
<1>2. ASSUME Inv, [Next]_vars PROVE Inv'
  <2>1. TypeOK' /\ RequestsFit'
    BY <1>2, NextOK DEF Inv
  <2>2. CreditsAgree'
    BY <1>2, NextAgrees DEF Inv, CreditsAgree
  <2>3. CapInv'
    BY <1>2, <2>1, NextCaps DEF Inv
  <2>4. AmountInv'
    BY <1>2, <2>1, NextAmounts DEF Inv
  <2> QED BY <2>1, <2>2, <2>3, <2>4 DEF Inv, CreditsAgree
<1> QED BY <1>1, <1>2

(* Status, stock and credit note of a return agree, and only status        *)
(* changes that overlap part them (receiveReturn, rejectReturn).           *)
THEOREM CreditsFollowReceiptsAlways == Spec => []CreditsFollowReceipts
<1>1. Init => Inv
  BY ReturnsAssumption, InvInductive
<1>2. Inv /\ [Next]_vars => Inv'
  BY ReturnsAssumption, InvInductive
<1>3. Inv => CreditsFollowReceipts
  BY DEF Inv, CreditsFollowReceipts
<1> QED BY <1>1, <1>2, <1>3, PTL DEF Spec

(* Nobody returns, or is credited for, more than was bought, but for what  *)
(* negative returns gave and for requests that overlap or repeat a line    *)
(* (validateAndCreateReturn).                                              *)
THEOREM ReturnedWasBoughtAlways == Spec => []ReturnedWasBought
<1>1. Init => Inv
  BY ReturnsAssumption, InvInductive
<1>2. Inv /\ [Next]_vars => Inv'
  BY ReturnsAssumption, InvInductive
<1>3. Inv => ReturnedWasBought
  BY ReturnsAssumption, CapShown, CreditShown DEF Inv, ReturnedWasBought
<1> QED BY <1>1, <1>2, <1>3, PTL DEF Spec

-----------------------------------------------------------------------------
(***************************************************************************)
(* Recurring orders and metering.                                          *)

Stages == {"idle", "assign", "edit", "flush"} \cup InGate \cup AtWork

Abouts == {Nothing} \cup [code : Codes] \cup [code : Codes, edit : Edits, row : PlanRow]
          \cup [sub : Subs] \cup [sub : Subs, to : SubStatuses]
          \cup [sub : Subs, terms : Terms] \cup [terms : Terms, start : Days]

Kinds == {"none", "assign", "edit", "checkout", "run", "skip", "status", "update", "create"}

CallRow == [kind : Kinds, gated : BOOLEAN, metered : BOOLEAN, about : Abouts,
            ent : PlanRow \cup {NoPlan}, version : Nat, raced : BOOLEAN]

\* What a request of a kind says.
Says(kind, about) ==
  /\ kind = "assign" => about.code \in Codes
  /\ kind = "edit" => about.code \in Codes /\ about.edit \in Edits /\ about.row \in PlanRow
  /\ kind \in {"run", "skip", "status", "update"} => about.sub \in Subs
  /\ kind = "status" => about.to \in SubStatuses
  /\ kind \in {"update", "create"} => about.terms \in Terms
  /\ kind = "create" => about.start \in Days

\* A thread at l with the request r and the work k.
ThreadFits(l, r, k) ==
  /\ Says(r.kind, r.about)
  /\ r.kind = "checkout" => r.metered
  /\ l = "idle" => r = NoCall
  /\ l \in AtWork <=> k.todo # <<>>
  /\ l \in {"price", "write"} => k.by # "none"
  /\ l \in {"quota", "record"} => r.metered
  /\ l \in {"assign", "edit", "update"} => r.kind = l
  /\ l = "update" => Head(k.todo).id = r.about.sub

ThreadsFit ==
  /\ stage \in [Threads -> Stages] /\ call \in [Threads -> CallRow] /\ work \in [Threads -> WorkRow]
  /\ \A w \in Threads : ThreadFits(stage[w], call[w], work[w])

TablesFit ==
  /\ BillingType
  /\ sub \in [Subs -> {NoSub} \cup SubRow]
  /\ order \in Seq(OrderRow) /\ runs \in Seq(RunRow)

Fits == ThreadsFit /\ TablesFit

-----------------------------------------------------------------------------
(* Constants and rows.                                                     *)

LEMMA Settings ==
  ASSUME BillingAssumption, SubscriptionsAssumption
  PROVE  /\ FirstDay \in Days /\ Days \subseteq Nat
         /\ \A d \in Days : PeriodKey(d) \in Months
         /\ \A w \in Threads : Node[w] \in Nodes
         /\ NoCall \in CallRow /\ Says("none", Nothing) /\ NoCall.kind = "none"
         /\ NoCall.about = Nothing
         /\ NoWork \in WorkRow /\ NoWork.todo = <<>> /\ NoWork.by = "none"
         /\ NoSub \notin SubRow
<1>1. FirstDay \in Days /\ Days \subseteq Nat
  BY DEF BillingAssumption, Days
<1>2. NoCall \in CallRow /\ NoCall.kind = "none" /\ NoCall.about = Nothing
  BY DEF NoCall, CallRow, Abouts, Kinds
<1>3. <<>> \in Seq(Copies)
  BY EmptySeq
<1>4. NoWork \in WorkRow /\ NoWork.todo = <<>> /\ NoWork.by = "none"
  BY <1>1, <1>3 DEF NoWork, Holding, WorkRow
<1>5. NoSub \notin SubRow
  <2>1. \A r \in SubRow : r.status \in {"active", "paused", "cancelled"}
    BY DEF SubRow, SubStatuses
  <2>2. NoSub.status = "none"
    BY DEF NoSub
  <2> QED BY <2>1, <2>2
<1> QED BY <1>1, <1>2, <1>4, <1>5 DEF Months, Nodes, Says

\* One thread moves.
LEMMA OneThread ==
  ASSUME ThreadsFit, NEW w \in Threads, NEW l \in Stages, NEW r \in CallRow, NEW k \in WorkRow,
         ThreadFits(l, r, k),
         stage' = [stage EXCEPT ![w] = l], call' = [call EXCEPT ![w] = r],
         work' = [work EXCEPT ![w] = k]
  PROVE  ThreadsFit'
<1>1. stage' \in [Threads -> Stages] /\ call' \in [Threads -> CallRow] /\ work' \in [Threads -> WorkRow]
  BY DEF ThreadsFit
<1>2. ASSUME NEW x \in Threads PROVE ThreadFits(stage'[x], call'[x], work'[x])
  <2>1. CASE x = w
    <3>1. stage'[x] = l /\ call'[x] = r /\ work'[x] = k
      BY <2>1 DEF ThreadsFit
    <3> QED BY <3>1
  <2>2. CASE x # w
    <3>1. stage'[x] = stage[x] /\ call'[x] = call[x] /\ work'[x] = work[x]
      BY <2>2 DEF ThreadsFit
    <3>2. ThreadFits(stage[x], call[x], work[x])
      BY DEF ThreadsFit
    <3> QED BY <3>1, <3>2
  <2> QED BY <2>1, <2>2
<1> QED BY <1>1, <1>2 DEF ThreadsFit

\* One thread moves and holds what it held.
LEMMA OneCalls ==
  ASSUME ThreadsFit, NEW w \in Threads, NEW l \in Stages, NEW r \in CallRow,
         ThreadFits(l, r, work[w]),
         stage' = [stage EXCEPT ![w] = l], call' = [call EXCEPT ![w] = r], work' = work
  PROVE  ThreadsFit'
<1>1. work[w] \in WorkRow /\ work' = [work EXCEPT ![w] = work[w]]
  BY DEF ThreadsFit
<1> QED BY <1>1, OneThread

\* One thread moves on with its request.
LEMMA OneWorks ==
  ASSUME ThreadsFit, NEW w \in Threads, NEW l \in Stages, NEW k \in WorkRow,
         ThreadFits(l, call[w], k),
         stage' = [stage EXCEPT ![w] = l], call' = call, work' = [work EXCEPT ![w] = k]
  PROVE  ThreadsFit'
<1>1. call[w] \in CallRow /\ call' = [call EXCEPT ![w] = call[w]]
  BY DEF ThreadsFit
<1> QED BY <1>1, OneThread

LEMMA OneMoves ==
  ASSUME ThreadsFit, NEW w \in Threads, NEW l \in Stages,
         ThreadFits(l, call[w], work[w]), stage' = [stage EXCEPT ![w] = l], call' = call, work' = work
  PROVE  ThreadsFit'
<1>1. call[w] \in CallRow /\ call' = [call EXCEPT ![w] = call[w]]
  BY DEF ThreadsFit
<1> QED BY <1>1, OneCalls

\* A thread leaves.
LEMMA FinishFits ==
  ASSUME BillingAssumption, SubscriptionsAssumption, ThreadsFit, NEW w \in Threads, Finish(w)
  PROVE  ThreadsFit'
<1>1. ThreadFits("idle", NoCall, NoWork) /\ "idle" \in Stages
  BY Settings DEF ThreadFits, Stages, AtWork
<1>2. /\ stage' = [stage EXCEPT ![w] = "idle"] /\ call' = [call EXCEPT ![w] = NoCall]
      /\ work' = [work EXCEPT ![w] = NoWork]
  BY DEF Finish, Leave, MoveTo
<1> QED BY <1>1, <1>2, Settings, OneThread

LEMMA LeaveFits ==
  ASSUME BillingAssumption, SubscriptionsAssumption, ThreadsFit, NEW w \in Threads, Leave(w),
         work' = work, stage[w] \notin AtWork
  PROVE  ThreadsFit'
<1>1. work[w].todo = <<>>
  BY DEF ThreadsFit, ThreadFits
<1>2. ThreadFits("idle", NoCall, work[w]) /\ "idle" \in Stages
  BY <1>1, Settings DEF ThreadFits, Stages, AtWork
<1>3. stage' = [stage EXCEPT ![w] = "idle"] /\ call' = [call EXCEPT ![w] = NoCall]
  BY DEF Leave, MoveTo
<1> QED BY <1>2, <1>3, Settings, OneCalls

-----------------------------------------------------------------------------
(* The gate.                                                               *)

LEMMA BeginFits ==
  ASSUME BillingAssumption, Fits, NEW w \in Threads, NEW l \in {"gate", "assign", "edit"}, NEW r \in CallRow,
         Begin(w, l, r), Says(r.kind, r.about), l \in {"assign", "edit"} => r.kind = l,
         r.kind = "checkout" => r.metered,
         UNCHANGED <<billing, day, sub, book, work>>
  PROVE  Fits'
<1>1. l \in Stages /\ l \notin AtWork /\ stage[w] = "idle"
  BY DEF Stages, InGate, AtWork, Begin
<1>2. work[w].todo = <<>>
  BY <1>1 DEF Fits, ThreadsFit, ThreadFits, AtWork
<1>3. ThreadFits(l, r, work[w])
  BY <1>1, <1>2 DEF ThreadFits, AtWork
<1>4. stage' = [stage EXCEPT ![w] = l] /\ call' = [call EXCEPT ![w] = r] /\ work' = work
  BY DEF Begin, MoveTo
<1>5. ThreadsFit'
  BY <1>1, <1>3, <1>4, OneCalls DEF Fits
<1>6. asked' = asked + 1 /\ asked < mix.requests /\ mix' = mix /\ failed' = failed
  BY DEF Begin
<1>7. TablesFit'
  <2>1. mix.requests \in Nat
    BY DEF Fits, TablesFit, BillingType, BillingAssumption
  <2>2. asked' \in 0..mix.requests
    BY <1>6, <2>1 DEF Fits, TablesFit, BillingType
  <2>3. BillingType'
    BY <1>6, <2>2 DEF Fits, TablesFit, BillingType, billing, accounts
  <2> QED BY <2>3 DEF Fits, TablesFit, book, RunRow
<1> QED BY <1>5, <1>7 DEF Fits

LEMMA CallForFits ==
  ASSUME BillingAssumption, SubscriptionsAssumption, NEW kind \in Kinds, NEW about \in Abouts
  PROVE  /\ CallFor(kind, about) \in CallRow /\ Gated(kind, about) \in CallRow
         /\ [CallFor(kind, about) EXCEPT !.metered = TRUE] \in CallRow
         /\ CallFor(kind, about).kind = kind /\ CallFor(kind, about).about = about
         /\ Gated(kind, about).kind = kind /\ Gated(kind, about).about = about
         /\ [CallFor(kind, about) EXCEPT !.metered = TRUE].kind = kind
         /\ [CallFor(kind, about) EXCEPT !.metered = TRUE].about = about
         /\ [CallFor(kind, about) EXCEPT !.metered = TRUE].metered
BY Settings DEF CallFor, Gated, CallRow, NoCall

LEMMA AskingFits ==
  ASSUME BillingAssumption, SubscriptionsAssumption, Fits, NEW w \in Threads, Request(w)
  PROVE  Fits'
<1>0. UNCHANGED <<billing, day, sub, book, work>>
  BY DEF Request, Others
<1>4. ASSUME NEW kind \in {"assign", "edit"}, NEW about \in Abouts, Says(kind, about),
             Begin(w, kind, CallFor(kind, about))
      PROVE  Fits'
  <2> DEFINE r == CallFor(kind, about)
  <2>1. kind \in Kinds
    BY DEF Kinds
  <2>2. r \in CallRow /\ r.kind = kind /\ r.about = about
    BY <2>1, Settings DEF CallFor, CallRow, NoCall
  <2>3. Begin(w, kind, r)
    BY <1>4
  <2> HIDE DEF r
  <2>4. Says(r.kind, r.about)
    BY <1>4, <2>2
  <2> QED BY <1>0, <2>2, <2>3, <2>4, BeginFits
<1>1. CASE AskAssign(w)
  <2>1. PICK code \in Codes : Begin(w, "assign", CallFor("assign", [code |-> code]))
    BY <1>1 DEF AskAssign
  <2> DEFINE a == [code |-> code]
  <2>2. a \in Abouts /\ Says("assign", a)
    BY DEF Abouts, Says
  <2>3. Begin(w, "assign", CallFor("assign", a))
    BY <2>1
  <2> HIDE DEF a
  <2> QED BY <1>4, <2>2, <2>3
<1>2. CASE AskEdit(w)
  <2>1. PICK code \in Codes, edit \in Edits :
          Begin(w, "edit", CallFor("edit", [code |-> code, edit |-> edit, row |-> plans[code]]))
    BY <1>2 DEF AskEdit
  <2>2. plans[code] \in PlanRow
    BY DEF Fits, TablesFit, BillingType
  <2> DEFINE a == [code |-> code, edit |-> edit, row |-> plans[code]]
  <2>3. a \in Abouts /\ Says("edit", a)
    BY <2>2 DEF Abouts, Says
  <2>4. Begin(w, "edit", CallFor("edit", a))
    BY <2>1
  <2> HIDE DEF a
  <2> QED BY <1>4, <2>3, <2>4
<1>3. CASE Ask(w)
  <2>1. CASE Begin(w, "gate", [CallFor("checkout", Nothing) EXCEPT !.metered = TRUE])
    <3>1. Nothing \in Abouts /\ "checkout" \in Kinds /\ Says("checkout", Nothing)
      BY DEF Abouts, Kinds, Says
    <3> DEFINE r == [CallFor("checkout", Nothing) EXCEPT !.metered = TRUE]
    <3>2. r \in CallRow /\ Says(r.kind, r.about) /\ r.metered
      BY <3>1, CallForFits
    <3>3. Begin(w, "gate", r)
      BY <2>1
    <3> HIDE DEF r
    <3> QED BY <1>0, <3>2, <3>3, BeginFits
  <2>2. ASSUME NEW kind \in Kinds \ {"checkout"}, NEW about \in Abouts, Says(kind, about),
               Begin(w, "gate", Gated(kind, about))
        PROVE  Fits'
    <3> DEFINE r == Gated(kind, about)
    <3>1. kind \in Kinds
      OBVIOUS
    <3>2. r \in CallRow /\ r.kind = kind /\ r.about = about
      BY <3>1, Settings DEF Gated, CallFor, CallRow, NoCall
    <3>3. Begin(w, "gate", r)
      BY <2>2
    <3> HIDE DEF r
    <3>4. Says(r.kind, r.about)
      BY <2>2, <3>2
    <3> QED BY <1>0, <3>2, <3>3, <3>4, BeginFits
  <2>3. CASE \E s \in Subs, kind \in {"run", "skip"} : Begin(w, "gate", Gated(kind, [sub |-> s]))
    <3>1. PICK s \in Subs, kind \in {"run", "skip"} : Begin(w, "gate", Gated(kind, [sub |-> s]))
      BY <2>3
    <3>2. [sub |-> s] \in Abouts /\ kind \in Kinds \ {"checkout"} /\ Says(kind, [sub |-> s])
      BY DEF Abouts, Kinds, Says
    <3> QED BY <2>2, <3>1, <3>2
  <2>4. CASE \E s \in Subs, to \in SubStatuses :
               Begin(w, "gate", Gated("status", [sub |-> s, to |-> to]))
    <3>1. PICK s \in Subs, to \in SubStatuses :
            Begin(w, "gate", Gated("status", [sub |-> s, to |-> to]))
      BY <2>4
    <3> DEFINE a == [sub |-> s, to |-> to]
    <3>2. a \in Abouts /\ "status" \in Kinds \ {"checkout"} /\ Says("status", a)
      BY DEF Abouts, Kinds, Says
    <3> QED BY <2>2, <3>1, <3>2
  <2>5. CASE \E s \in Subs, t \in Terms : Begin(w, "gate", Gated("update", [sub |-> s, terms |-> t]))
    <3>1. PICK s \in Subs, t \in Terms : Begin(w, "gate", Gated("update", [sub |-> s, terms |-> t]))
      BY <2>5
    <3> DEFINE a == [sub |-> s, terms |-> t]
    <3>2. a \in Abouts /\ "update" \in Kinds \ {"checkout"} /\ Says("update", a)
      BY DEF Abouts, Kinds, Says
    <3> QED BY <2>2, <3>1, <3>2
  <2>6. CASE \E t \in Terms, start \in Days :
               Begin(w, "gate", Gated("create", [terms |-> t, start |-> start]))
    <3>1. PICK t \in Terms, start \in Days :
            Begin(w, "gate", Gated("create", [terms |-> t, start |-> start]))
      BY <2>6
    <3> DEFINE a == [terms |-> t, start |-> start]
    <3>2. a \in Abouts /\ "create" \in Kinds \ {"checkout"} /\ Says("create", a)
      BY DEF Abouts, Kinds, Says
    <3> QED BY <2>2, <3>1, <3>2
  <2> QED BY <1>3, <2>1, <2>3, <2>4, <2>5, <2>6 DEF Ask
<1> QED BY <1>1, <1>2, <1>3 DEF Request

LEMMA FailedFits ==
  ASSUME BillingAssumption, TablesFit, Works \/ Breaks
  PROVE  failed' \in 0..mix.failures
<1>1. mix.failures \in Nat /\ failed \in 0..mix.failures
  BY DEF TablesFit, BillingType, BillingAssumption
<1> QED BY <1>1 DEF Works, Breaks

LEMMA TablesStay ==
  ASSUME TablesFit, UNCHANGED <<day, billing, sub, book, mix, asked>>, failed' \in 0..mix.failures
  PROVE  TablesFit'
BY DEF TablesFit, BillingType, billing, accounts, book, RunRow

\* A thread in the gate holds no work.
LEMMA HandsFree ==
  ASSUME ThreadsFit, NEW w \in Threads, stage[w] \notin AtWork
  PROVE  work[w].todo = <<>>
BY DEF ThreadsFit, ThreadFits

LEMMA CallTypes ==
  ASSUME ThreadsFit, NEW w \in Threads
  PROVE  /\ call[w] \in CallRow /\ work[w] \in WorkRow /\ stage[w] \in Stages
         /\ ThreadFits(stage[w], call[w], work[w])
         /\ call[w].ent \in PlanRow \cup {NoPlan} /\ call[w].version \in Nat
         /\ call[w].raced \in BOOLEAN /\ call[w].metered \in BOOLEAN /\ call[w].gated \in BOOLEAN
         /\ Says(call[w].kind, call[w].about)
BY DEF ThreadsFit, ThreadFits, CallRow

LEMMA AdmitFits ==
  ASSUME BillingAssumption, SubscriptionsAssumption, ThreadsFit, NEW w \in Threads,
         NEW ent \in PlanRow \cup {NoPlan}, Admit(w, ent), work' = work, stage[w] \notin AtWork
  PROVE  ThreadsFit'
<1>1. CASE call[w].gated /\ ~ Allows(ent)
  BY <1>1, LeaveFits DEF Admit
<1>2. CASE ~ (call[w].gated /\ ~ Allows(ent))
  <2> DEFINE l == IF call[w].metered THEN "quota" ELSE "handle"
             r == [call[w] EXCEPT !.ent = ent]
  <2>1. l \in Stages /\ l \notin AtWork /\ l \notin {"idle", "assign", "edit", "record"}
        /\ (l = "quota" => call[w].metered)
    BY DEF Stages, InGate, AtWork
  <2>2. r \in CallRow /\ r.kind = call[w].kind /\ r.about = call[w].about /\ r.metered = call[w].metered
    BY CallTypes DEF CallRow
  <2>3. stage' = [stage EXCEPT ![w] = l] /\ call' = [call EXCEPT ![w] = r]
    BY <1>2 DEF Admit, MoveTo
  <2> HIDE DEF l, r
  <2>4. ThreadFits(l, r, work[w])
    BY <2>1, <2>2, HandsFree, CallTypes DEF ThreadFits, AtWork
  <2> QED BY <2>1, <2>2, <2>3, <2>4, OneCalls
<1> QED BY <1>1, <1>2

LEMMA LookupFits ==
  ASSUME BillingAssumption, SubscriptionsAssumption, Fits, NEW w \in Threads, Lookup(w), Others
  PROVE  Fits'
<1>1. stage[w] = "gate" /\ UNCHANGED <<billing, counts, day, sub, book, work>>
  BY DEF Lookup, Others
<1>2. stage[w] \notin AtWork /\ Node[w] \in Nodes
  BY <1>1, Settings DEF AtWork
<1>3. ThreadsFit'
  <2>1. CASE cache[Node[w]] = NoEntry
    <3>1. stage' = [stage EXCEPT ![w] = "fetch"] /\ call' = call /\ work' = work
      BY <2>1, <1>1 DEF Lookup, MoveTo
    <3>2. ThreadFits("fetch", call[w], work[w]) /\ "fetch" \in Stages
      BY <1>2, HandsFree, CallTypes DEF Fits, ThreadFits, AtWork, Stages, InGate
    <3> QED BY <3>1, <3>2, OneMoves DEF Fits
  <2>2. CASE cache[Node[w]] # NoEntry
    <3>1. cache[Node[w]] \in Entry
      BY <1>2, <2>2 DEF Fits, TablesFit, BillingType
    <3>2. cache[Node[w]].ent \in PlanRow \cup {NoPlan} /\ Admit(w, cache[Node[w]].ent) /\ work' = work
      BY <1>1, <2>2, <3>1 DEF Lookup, Entry
    <3> DEFINE e == cache[Node[w]].ent
    <3>3. e \in PlanRow \cup {NoPlan} /\ Admit(w, e)
      BY <3>2
    <3> HIDE DEF e
    <3> QED BY <1>2, <3>2, <3>3, AdmitFits DEF Fits
  <2> QED BY <2>1, <2>2
<1>4. TablesFit'
  BY <1>1 DEF Fits, TablesFit, BillingType, billing, accounts, book, RunRow, counts
<1> QED BY <1>3, <1>4 DEF Fits

LEMMA EntitlementsType ==
  ASSUME TablesFit
  PROVE  Entitlements \in PlanRow \cup {NoPlan}
BY DEF TablesFit, BillingType, Entitlements

LEMMA FetchFits ==
  ASSUME BillingAssumption, SubscriptionsAssumption, Fits, NEW w \in Threads, Fetch(w), Others
  PROVE  Fits'
<1>1. stage[w] = "fetch" /\ stage' = [stage EXCEPT ![w] = "store"]
      /\ UNCHANGED <<day, billing, sub, book, mix, asked>> /\ work' = work
  BY DEF Fetch, Others, MoveTo
<1>2. PICK ent \in {Entitlements, NoPlan} :
        /\ call' = [call EXCEPT ![w].ent = ent, ![w].version = version, ![w].raced = FALSE]
        /\ IF ent = Entitlements THEN Works ELSE Breaks
  BY DEF Fetch
<1>3. ent \in PlanRow \cup {NoPlan} /\ version \in Nat
  BY EntitlementsType DEF Fits, TablesFit, BillingType
<1> DEFINE r == [call[w] EXCEPT !.ent = ent, !.version = version, !.raced = FALSE]
<1>4. r \in CallRow /\ r.kind = call[w].kind /\ r.about = call[w].about /\ r.metered = call[w].metered
  BY <1>3, CallTypes DEF CallRow, Fits
<1>5. call' = [call EXCEPT ![w] = r]
  BY <1>2
<1>6. "store" \in Stages /\ stage[w] \notin AtWork
  BY <1>1 DEF Stages, InGate, AtWork
<1> HIDE DEF r
<1>7. ThreadFits("store", r, work[w])
  BY <1>4, <1>6, HandsFree, CallTypes DEF Fits, ThreadFits, AtWork
<1>8. ThreadsFit'
  BY <1>1, <1>4, <1>5, <1>6, <1>7, OneCalls DEF Fits
<1>9. TablesFit'
  BY <1>1, <1>2, FailedFits, TablesStay DEF Fits
<1> QED BY <1>8, <1>9 DEF Fits

LEMMA StoreFits ==
  ASSUME BillingAssumption, SubscriptionsAssumption, Fits, NEW w \in Threads, Store(w), Others
  PROVE  Fits'
<1>1. /\ stage[w] = "store" /\ Admit(w, call[w].ent) /\ work' = work
      /\ cache' = [cache EXCEPT ![Node[w]] = Filled(call[w].ent, call[w].version, call[w].raced)]
      /\ UNCHANGED <<accounts, usage, told, counts, day, sub, book>>
  BY DEF Store, Others
<1>2. stage[w] \notin AtWork
  BY <1>1 DEF AtWork
<1>3. ThreadsFit'
  <2> DEFINE e == call[w].ent
  <2>1. e \in PlanRow \cup {NoPlan} /\ Admit(w, e)
    BY <1>1, CallTypes DEF Fits
  <2> HIDE DEF e
  <2> QED BY <1>1, <1>2, <2>1, AdmitFits DEF Fits
<1>4. Filled(call[w].ent, call[w].version, call[w].raced) \in Entry
  BY CallTypes DEF Fits, Filled, Entry
<1>5. cache' \in [Nodes -> {NoEntry} \cup Entry]
  BY <1>1, <1>4 DEF Fits, TablesFit, BillingType
<1>6. TablesFit'
  BY <1>1, <1>5 DEF Fits, TablesFit, BillingType, accounts, book, RunRow, counts
<1> QED BY <1>3, <1>6 DEF Fits

LEMMA QuotaFits ==
  ASSUME BillingAssumption, SubscriptionsAssumption, Fits, NEW w \in Threads, Quota(w), Others
  PROVE  Fits'
<1>1. stage[w] = "quota" /\ UNCHANGED <<day, billing, sub, book, mix, asked>> /\ work' = work
  BY DEF Quota, Others
<1>2. PICK current \in {usage[PeriodKey(day)], 0} :
        /\ IF Over(call[w].ent, current) THEN Leave(w) ELSE MoveTo(w, "handle") /\ UNCHANGED call
        /\ IF current = usage[PeriodKey(day)] THEN Works ELSE Breaks
  BY DEF Quota
<1>3. stage[w] \notin AtWork /\ "handle" \in Stages
  BY <1>1 DEF AtWork, Stages, InGate
<1>4. ThreadsFit'
  <2>1. CASE Leave(w)
    BY <1>1, <1>3, <2>1, LeaveFits DEF Fits
  <2>2. CASE MoveTo(w, "handle") /\ UNCHANGED call
    <3>1. ThreadFits("handle", call[w], work[w])
      BY <1>3, HandsFree, CallTypes DEF Fits, ThreadFits, AtWork
    <3> QED BY <1>1, <1>3, <2>2, <3>1, OneMoves DEF Fits, MoveTo
  <2> QED BY <1>2, <2>1, <2>2
<1>5. TablesFit'
  BY <1>1, <1>2, FailedFits, TablesStay DEF Fits
<1> QED BY <1>4, <1>5 DEF Fits

LEMMA RecordFits ==
  ASSUME BillingAssumption, SubscriptionsAssumption, Fits, NEW w \in Threads, Record(w), Others
  PROVE  Fits'
<1>1. /\ stage[w] = "record" /\ Leave(w) /\ work' = work
      /\ UNCHANGED <<accounts, cache, told, mix, asked, day, sub, book>>
      /\ \/ Works /\ usage' = [usage EXCEPT ![PeriodKey(day)] = Increment(@)]
         \/ Breaks /\ usage' = usage
  BY DEF Record, Others
<1>2. stage[w] \notin AtWork
  BY <1>1 DEF AtWork
<1>3. ThreadsFit'
  BY <1>1, <1>2, LeaveFits DEF Fits
<1>4. usage \in [Months -> Nat] /\ PeriodKey(day) \in Months
  BY Settings DEF Fits, TablesFit, BillingType
<1>5. usage' \in [Months -> Nat]
  <2>1. usage[PeriodKey(day)] \in Nat
    BY <1>4
  <2>2. Increment(usage[PeriodKey(day)]) \in Nat
    BY <2>1 DEF Increment
  <2>3. CASE usage' = usage
    BY <1>4, <2>3
  <2>4. CASE usage' = [usage EXCEPT ![PeriodKey(day)] = Increment(@)]
    BY <1>4, <2>2, <2>4
  <2> QED BY <1>1, <2>3, <2>4
<1>6. failed' \in 0..mix.failures
  BY <1>1, FailedFits DEF Fits
<1>7. TablesFit'
  BY <1>1, <1>5, <1>6 DEF Fits, TablesFit, BillingType, accounts, book, RunRow
<1> QED BY <1>3, <1>7 DEF Fits

LEMMA ExpireFits ==
  ASSUME Fits, Expire, Others
  PROVE  Fits'
<1>1. UNCHANGED <<accounts, usage, told, stage, call, counts, day, sub, book, work>>
  BY DEF Expire, Others
<1>2. ThreadsFit'
  BY <1>1 DEF Fits, ThreadsFit
<1>3. PICK n \in Nodes : cache' = [cache EXCEPT ![n] = NoEntry]
  BY DEF Expire
<1>4. cache' \in [Nodes -> {NoEntry} \cup Entry]
  BY <1>3 DEF Fits, TablesFit, BillingType
<1>5. TablesFit'
  BY <1>1, <1>4 DEF Fits, TablesFit, BillingType, accounts, book, RunRow, counts
<1> QED BY <1>2, <1>5 DEF Fits

\* A thread that has written waits to invalidate.
LEMMA ToFlush ==
  ASSUME BillingAssumption, ThreadsFit, NEW w \in Threads, stage[w] \notin AtWork, version' \in Nat,
         call' = [call EXCEPT ![w].version = version'], MoveTo(w, "flush"), work' = work
  PROVE  ThreadsFit'
<1> DEFINE r == [call[w] EXCEPT !.version = version']
<1>1. r \in CallRow /\ r.kind = call[w].kind /\ r.about = call[w].about /\ r.metered = call[w].metered
  BY CallTypes DEF CallRow
<1>2. stage' = [stage EXCEPT ![w] = "flush"] /\ call' = [call EXCEPT ![w] = r]
  BY DEF MoveTo
<1>3. "flush" \in Stages
  BY DEF Stages
<1> HIDE DEF r
<1>4. ThreadFits("flush", r, work[w])
  BY <1>1, HandsFree, CallTypes DEF ThreadFits, AtWork
<1> QED BY <1>1, <1>2, <1>3, <1>4, OneCalls

\* More changes have been written: the marks are still of written ones.
LEMMA VersionGrows ==
  ASSUME TablesFit, version' = version + 1
  PROVE  version' \in Nat /\ told \in [Nodes -> 0..version']
<1>1. version \in Nat /\ told \in [Nodes -> 0..version]
  BY DEF TablesFit, BillingType
<1>2. version' \in Nat /\ 0..version \subseteq 0..version'
  BY <1>1
<1> QED BY <1>1, <1>2

LEMMA SetOrgPlanFits ==
  ASSUME BillingAssumption, SubscriptionsAssumption, Fits, NEW w \in Threads, SetOrgPlan(w), Others
  PROVE  Fits'
<1>1. /\ stage[w] = "assign" /\ assigned' = call[w].about.code /\ version' = version + 1
      /\ UNCHANGED <<plans, cache, usage, told, counts, day, sub, book, work>>
  BY DEF SetOrgPlan, Others
<1>2. call[w].kind = "assign" /\ call[w].about.code \in Codes /\ stage[w] \notin AtWork
  BY <1>1, CallTypes DEF Fits, ThreadFits, Says, AtWork
<1>3. version' \in Nat /\ told \in [Nodes -> 0..version']
  BY <1>1, VersionGrows DEF Fits
<1>4. ThreadsFit'
  <2>1. call' = [call EXCEPT ![w].version = version'] /\ MoveTo(w, "flush") /\ work' = work
    BY <1>1 DEF SetOrgPlan
  <2> QED BY <1>2, <1>3, <2>1, ToFlush DEF Fits
<1>5. TablesFit'
  BY <1>1, <1>2, <1>3 DEF Fits, TablesFit, BillingType, book, RunRow, counts
<1> QED BY <1>4, <1>5 DEF Fits

LEMMA OverlayType ==
  ASSUME BillingAssumption, NEW row \in PlanRow, NEW edit \in Edits
  PROVE  Overlay(row, edit) \in PlanRow
<1>1. CASE edit.field = "feature" /\ edit.value \in BOOLEAN
  BY <1>1 DEF Overlay, PlanRow
<1>2. CASE edit.field = "limits" /\ edit.value \in SUBSET Nat
  BY <1>2 DEF Overlay, PlanRow
<1> QED BY <1>1, <1>2 DEF BillingAssumption

LEMMA UpdatePlanFits ==
  ASSUME BillingAssumption, SubscriptionsAssumption, Fits, NEW w \in Threads, UpdatePlan(w), Others
  PROVE  Fits'
<1> DEFINE about == call[w].about
<1>1. /\ stage[w] = "edit" /\ version' = version + 1
      /\ plans' = [plans EXCEPT ![about.code] = Overlay(about.row, about.edit)]
      /\ UNCHANGED <<assigned, cache, usage, told, counts, day, sub, book, work>>
  BY DEF UpdatePlan, Others
<1>2. call[w].kind = "edit" /\ stage[w] \notin AtWork
  BY <1>1, CallTypes DEF Fits, ThreadFits, AtWork
<1>3. about.code \in Codes /\ about.row \in PlanRow /\ about.edit \in Edits
  BY <1>2, CallTypes DEF Fits, Says
<1>4. version' \in Nat /\ told \in [Nodes -> 0..version']
  BY <1>1, VersionGrows DEF Fits
<1>5. ThreadsFit'
  <2>1. call' = [call EXCEPT ![w].version = version'] /\ MoveTo(w, "flush") /\ work' = work
    BY <1>1 DEF UpdatePlan
  <2> QED BY <1>2, <1>4, <2>1, ToFlush DEF Fits
<1>6. plans' \in [Codes -> PlanRow]
  <2> DEFINE row == Overlay(about.row, about.edit)
  <2>1. row \in PlanRow
    BY <1>3, OverlayType
  <2>2. plans' = [plans EXCEPT ![about.code] = row] /\ plans \in [Codes -> PlanRow]
    BY <1>1 DEF Fits, TablesFit, BillingType
  <2> HIDE DEF row, about
  <2> QED BY <2>1, <2>2
<1>7. TablesFit'
  <2> HIDE DEF about
  <2> QED BY <1>1, <1>4, <1>6 DEF Fits, TablesFit, BillingType, book, RunRow, counts
<1> QED BY <1>5, <1>7 DEF Fits

\* What Flush makes of the threads' requests.
Marked(w) == [x \in Threads |-> IF x = w THEN NoCall
                ELSE IF stage[x] = "store" /\ Node[x] = Node[w] THEN [call[x] EXCEPT !.raced = TRUE]
                ELSE call[x]]

LEMMA FlushFits ==
  ASSUME BillingAssumption, SubscriptionsAssumption, Fits, NEW w \in Threads, Flush(w), Others,
         call[w].version <= version
  PROVE  Fits'
<1> DEFINE n == Node[w]
<1>1. /\ stage[w] = "flush" /\ stage' = [stage EXCEPT ![w] = "idle"] /\ call' = Marked(w)
      /\ cache' = [cache EXCEPT ![n] = NoEntry]
      /\ told' = [told EXCEPT ![n] = IF call[w].version > told[n] THEN call[w].version ELSE told[n]]
      /\ UNCHANGED <<accounts, usage, counts, day, sub, book, work>>
  BY DEF Flush, Others, MoveTo, Dropped, Marked
<1>2. n \in Nodes /\ stage[w] \notin AtWork
  BY <1>1, Settings DEF AtWork
<1>3. ASSUME NEW x \in Threads
      PROVE  call'[x] \in CallRow /\ ThreadFits(stage'[x], call'[x], work[x])
  <2>1. call'[x] = IF x = w THEN NoCall
                   ELSE IF stage[x] = "store" /\ Node[x] = Node[w]
                   THEN [call[x] EXCEPT !.raced = TRUE] ELSE call[x]
    BY <1>1 DEF Marked
  <2>2. CASE x = w
    <3>1. stage'[x] = "idle" /\ call'[x] = NoCall /\ work[x].todo = <<>>
      BY <1>1, <1>2, <2>1, <2>2, HandsFree DEF Fits, ThreadsFit
    <3> QED BY <3>1, Settings DEF ThreadFits, AtWork
  <2>3. CASE x # w /\ stage[x] = "store" /\ Node[x] = Node[w]
    <3> DEFINE r == [call[x] EXCEPT !.raced = TRUE]
    <3>1. r \in CallRow /\ r.kind = call[x].kind /\ r.about = call[x].about /\ r.metered = call[x].metered
      BY CallTypes DEF CallRow, Fits
    <3>2. stage'[x] = stage[x] /\ call'[x] = r
      BY <1>1, <2>1, <2>3 DEF Fits, ThreadsFit
    <3> HIDE DEF r
    <3>3. ThreadFits(stage[x], r, work[x])
      BY <2>3, <3>1, CallTypes DEF Fits, ThreadFits, AtWork
    <3> QED BY <3>1, <3>2, <3>3
  <2>4. CASE x # w /\ ~ (stage[x] = "store" /\ Node[x] = Node[w])
    <3>1. stage'[x] = stage[x] /\ call'[x] = call[x]
      BY <1>1, <2>1, <2>4 DEF Fits, ThreadsFit
    <3> QED BY <3>1, CallTypes DEF Fits
  <2> QED BY <2>2, <2>3, <2>4
<1>4. ThreadsFit'
  <2>1. stage' \in [Threads -> Stages]
    BY <1>1 DEF Fits, ThreadsFit, Stages
  <2>2. call' \in [Threads -> CallRow]
    BY <1>1, <1>3 DEF Marked
  <2> QED BY <1>1, <1>3, <2>1, <2>2 DEF ThreadsFit, Fits
<1>5. told' \in [Nodes -> 0..version]
  <2>1. told \in [Nodes -> 0..version] /\ version \in Nat /\ call[w].version \in 0..version
    BY CallTypes DEF Fits, TablesFit, BillingType
  <2> QED BY <1>1, <1>2, <2>1
<1>6. cache' \in [Nodes -> {NoEntry} \cup Entry]
  BY <1>1 DEF Fits, TablesFit, BillingType
<1>7. TablesFit'
  <2> HIDE DEF n
  <2> QED BY <1>1, <1>5, <1>6 DEF Fits, TablesFit, BillingType, accounts, book, RunRow, counts
<1> QED BY <1>4, <1>7 DEF Fits

\* The copy a thread is at.
Cur(w) == Head(work[w].todo)

LEMMA CopyTypes ==
  ASSUME SubscriptionsAssumption, ThreadsFit, NEW w \in Threads, stage[w] \in AtWork
  PROVE  /\ work[w].todo \in Seq(Copies) /\ work[w].todo # <<>> /\ Len(work[w].todo) \in Nat \ {0}
         /\ Cur(w) = work[w].todo[1] /\ 1 \in RowsOf(work[w].todo)
         /\ Cur(w) \in Copies /\ Cur(w).id \in Subs /\ Cur(w).row \in SubRow
         /\ Cur(w).row.next \in Nat /\ Cur(w).row.moves \in Nat
         /\ Cadences[Cur(w).row.cadence] \in Nat \ {0}
         /\ work[w].today \in Days /\ work[w].discounted \in BOOLEAN
         /\ work[w].by \in {"none", "sweep", "run"}
<1>1. work[w] \in WorkRow /\ work[w].todo # <<>>
  BY DEF ThreadsFit, ThreadFits
<1>2. work[w].todo \in Seq(Copies) /\ work[w].today \in Days /\ work[w].discounted \in BOOLEAN
      /\ work[w].by \in {"none", "sweep", "run"}
  BY <1>1 DEF WorkRow
<1> DEFINE t == work[w].todo
<1>3. t \in Seq(Copies) /\ t # <<>>
  BY <1>1, <1>2
<1>4. Len(t) \in Nat \ {0} /\ Head(t) = t[1] /\ t[1] \in Copies
  <2> HIDE DEF t
  <2>1. Len(t) \in Nat /\ Len(t) # 0
    BY <1>3, EmptySeq, LenProperties
  <2>2. Head(t) = t[1] /\ t[1] \in Copies
    BY <1>3, <2>1, ElementOfSeq, HeadTailProperties
  <2> QED BY <2>1, <2>2
<1>5. Cur(w) \in Copies /\ Cur(w) = t[1] /\ 1 \in RowsOf(t)
  BY <1>4 DEF Cur, RowsOf
<1>6. Cur(w).id \in Subs /\ Cur(w).row \in SubRow
  BY <1>5 DEF Copies
<1>7. Cur(w).row.next \in Nat /\ Cur(w).row.moves \in Nat /\ Cur(w).row.cadence \in DOMAIN Cadences
  BY <1>6 DEF SubRow
<1> QED BY <1>1, <1>2, <1>4, <1>5, <1>6, <1>7 DEF SubscriptionsAssumption

LEMMA RowTypes ==
  ASSUME TablesFit, NEW s \in Subs, sub[s] # NoSub
  PROVE  /\ sub[s] \in SubRow /\ sub[s].next \in Nat /\ sub[s].moves \in Nat
         /\ sub[s].basket \in {t.basket : t \in Terms}
         /\ CopyOf(s) \in Copies /\ CopyOf(s).id = s /\ CopyOf(s).row = sub[s]
<1>1. sub[s] \in SubRow
  BY DEF TablesFit
<1> QED BY <1>1 DEF SubRow, CopyOf, Copies

\* A date is set and the change counted.
LEMMA DateMoves ==
  ASSUME BillingAssumption, SubscriptionsAssumption, TablesFit, NEW s \in Subs, sub[s] # NoSub, NEW v \in Nat,
         sub' = [sub EXCEPT ![s].next = v, ![s].moves = @ + 1]
  PROVE  /\ sub' \in [Subs -> {NoSub} \cup SubRow]
         /\ \A x \in Subs \ {s} : sub'[x] = sub[x]
         /\ sub'[s] # NoSub /\ sub'[s].next = v /\ sub'[s].moves = sub[s].moves + 1
         /\ sub'[s].basket = sub[s].basket
<1>1. sub[s] \in SubRow /\ sub \in [Subs -> {NoSub} \cup SubRow] /\ sub[s].moves \in Nat
  BY RowTypes DEF TablesFit
<1> DEFINE r == [sub[s] EXCEPT !.next = v, !.moves = sub[s].moves + 1]
<1>2. r \in SubRow /\ r.next = v /\ r.moves = sub[s].moves + 1 /\ r.basket = sub[s].basket
  BY <1>1 DEF SubRow
<1>3. sub' = [sub EXCEPT ![s] = r]
  BY <1>1
<1> HIDE DEF r
<1>4. sub'[s] = r /\ \A x \in Subs \ {s} : sub'[x] = sub[x]
  BY <1>1, <1>3
<1>5. sub' \in [Subs -> {NoSub} \cup SubRow]
  BY <1>1, <1>2, <1>3
<1>6. r # NoSub
  BY <1>2, Settings
<1> QED BY <1>2, <1>4, <1>5, <1>6

\* What AdvanceRow does.
LEMMA AdvanceMoves ==
  ASSUME BillingAssumption, SubscriptionsAssumption, Fits, NEW w \in Threads, stage[w] \in AtWork,
         sub[Cur(w).id] # NoSub, AdvanceRow(w)
  PROVE  /\ Cur(w).id \in Subs
         /\ sub' \in [Subs -> {NoSub} \cup SubRow]
         /\ \A x \in Subs \ {Cur(w).id} : sub'[x] = sub[x]
         /\ sub'[Cur(w).id] # NoSub
         /\ sub'[Cur(w).id].next > work[w].today
         /\ sub'[Cur(w).id].moves = sub[Cur(w).id].moves + 1
<1> DEFINE id == Cur(w).id
           v == Advance(Cur(w), work[w].today)
<1>1. id \in Subs /\ sub[id] # NoSub /\ work[w].today \in Nat /\ Cadences[Cur(w).row.cadence] \in Nat \ {0}
  BY CopyTypes, Settings DEF Fits
<1>2. v \in Nat /\ v > work[w].today
  BY <1>1 DEF Advance
<1>3. sub' = [sub EXCEPT ![id].next = v, ![id].moves = @ + 1]
  BY DEF AdvanceRow, Cur
<1> HIDE DEF id, v
<1>4. /\ sub' \in [Subs -> {NoSub} \cup SubRow]
      /\ \A x \in Subs \ {id} : sub'[x] = sub[x]
      /\ sub'[id] # NoSub /\ sub'[id].next = v /\ sub'[id].moves = sub[id].moves + 1
  BY <1>1, <1>2, <1>3, DateMoves DEF Fits
<1>5. sub'[id].next > work[w].today
  BY <1>2, <1>4
<1> QED BY <1>1, <1>4, <1>5 DEF id

LEMMA TailFacts ==
  ASSUME NEW S, NEW q \in Seq(S), q # <<>>, Len(q) # 1
  PROVE  /\ Tail(q) \in Seq(S) /\ Tail(q) # <<>>
         /\ \A k \in 1..Len(Tail(q)) : k + 1 \in 1..Len(q) /\ Tail(q)[k] = q[k + 1]
<1>1. Len(q) \in Nat /\ Len(q) # 0
  BY EmptySeq, LenProperties
<1>2. Tail(q) \in Seq(S) /\ Len(Tail(q)) = Len(q) - 1
  BY HeadTailProperties
<1>3. \A k \in 1..Len(Tail(q)) : k + 1 \in 1..Len(q) /\ Tail(q)[k] = q[k + 1]
  BY <1>1, <1>2, HeadTailProperties
<1>4. Tail(q) # <<>>
  <2> DEFINE t == Tail(q)
  <2>1. t \in Seq(S) /\ Len(t) # 0
    BY <1>1, <1>2
  <2> HIDE DEF t
  <2>2. t # <<>>
    BY <2>1, EmptySeq
  <2> QED BY <2>2 DEF t
<1> QED BY <1>2, <1>3, <1>4

LEMMA NextCopyFits ==
  ASSUME BillingAssumption, SubscriptionsAssumption, ThreadsFit, NEW w \in Threads,
         stage[w] \in {"price", "write"}, NextCopy(w)
  PROVE  ThreadsFit'
<1>1. CASE Len(work[w].todo) = 1
  BY <1>1, FinishFits DEF NextCopy
<1>2. CASE Len(work[w].todo) # 1
  <2> DEFINE k == [work[w] EXCEPT !.todo = Tail(work[w].todo)]
  <2>1. work[w] \in WorkRow /\ work[w].todo \in Seq(Copies) /\ work[w].todo # <<>> /\ work[w].by # "none"
    BY CopyTypes, CallTypes DEF AtWork, ThreadFits
  <2>2. Tail(work[w].todo) \in Seq(Copies) /\ Tail(work[w].todo) # <<>>
    BY <1>2, <2>1, TailFacts
  <2>3. k \in WorkRow /\ k.todo # <<>> /\ k.by # "none"
    BY <2>1, <2>2 DEF WorkRow
  <2>4. stage' = [stage EXCEPT ![w] = "price"] /\ call' = call /\ work' = [work EXCEPT ![w] = k]
    BY <1>2 DEF NextCopy, MoveTo
  <2>5. "price" \in Stages
    BY DEF Stages, AtWork
  <2> HIDE DEF k
  <2>6. ThreadFits("price", call[w], k)
    BY <2>3, CallTypes DEF ThreadFits, AtWork
  <2> QED BY <2>3, <2>4, <2>5, <2>6, OneWorks
<1> QED BY <1>1, <1>2

\* The run that is noted.
LEMMA RunOfType ==
  ASSUME BillingAssumption, SubscriptionsAssumption, Fits, NEW w \in Threads,
         stage[w] = "write", NEW n \in 0..Len(order'), Len(order') \in Nat, Len(order) <= Len(order'),
         NoteRun(w, n)
  PROVE  runs' \in Seq(RunRow')
<1> DEFINE r == RunOf(w, n)
<1>1. stage[w] \in AtWork
  BY DEF AtWork
<1>2. Cur(w).id \in Subs /\ work[w].today \in Days /\ work[w].by \in {"sweep", "run"}
  BY <1>1, CopyTypes, CallTypes DEF Fits, ThreadFits
<1>3. r \in RunRow'
  BY <1>2 DEF RunOf, RunRow, Cur
<1>4. order \in Seq(OrderRow) /\ runs \in Seq(RunRow)
  BY DEF Fits, TablesFit
<1>5. Len(order) \in Nat
  BY <1>4, LenProperties
<1>6. RunRow \subseteq RunRow'
  BY <1>5 DEF RunRow
<1>7. runs \in Seq(RunRow')
  <2>1. Len(runs) \in Nat /\ \A i \in 1..Len(runs) : runs[i] \in RunRow
    BY <1>4, ElementOfSeq, LenProperties
  <2>2. runs = [i \in 1..Len(runs) |-> runs[i]]
    BY <1>4, LenProperties
  <2> DEFINE S == RunRow'
  <2>3. \A i \in 1..Len(runs) : runs[i] \in S
    BY <1>6, <2>1
  <2> HIDE DEF S
  <2>4. runs \in Seq(S)
    BY <2>1, <2>2, <2>3, SeqDef
  <2> QED BY <2>4 DEF S
<1>8. runs' = Append(runs, r)
  BY DEF NoteRun
<1> HIDE DEF r
<1> QED BY <1>3, <1>7, <1>8, AppendProperties

LEMMA PriceFits ==
  ASSUME BillingAssumption, SubscriptionsAssumption, Fits, NEW w \in Threads, Price(w),
         sub[Cur(w).id] # NoSub
  PROVE  Fits'
<1>1. /\ stage[w] = "price" /\ stage' = [stage EXCEPT ![w] = "write"]
      /\ UNCHANGED <<day, billing, sub, book, call, counts>>
      /\ work' = [work EXCEPT ![w].basket = sub[Cur(w).id].basket,
                              ![w].discounted = redeemed < MaxRedemptions]
  BY DEF Price, MoveTo, Cur
<1>2. stage[w] \in AtWork /\ "write" \in Stages
  BY <1>1 DEF AtWork, Stages
<1>3. sub[Cur(w).id].basket \in {t.basket : t \in Terms} /\ (redeemed < MaxRedemptions) \in BOOLEAN
  <2> DEFINE s == Cur(w).id
  <2>1. s \in Subs /\ sub[s] # NoSub
    BY <1>2, CopyTypes DEF Fits
  <2> HIDE DEF s
  <2>2. sub[s].basket \in {t.basket : t \in Terms}
    BY <2>1, RowTypes DEF Fits
  <2> QED BY <2>2 DEF s
<1> DEFINE b == sub[Cur(w).id].basket
           d == redeemed < MaxRedemptions
           k == [work[w] EXCEPT !.basket = b, !.discounted = d]
<1>4. work' = [work EXCEPT ![w] = k]
  BY <1>1
<1>5. work[w].todo # <<>> /\ work[w] \in WorkRow /\ work[w].by # "none"
  BY <1>1, CallTypes DEF Fits, ThreadFits, AtWork
<1>6. k \in WorkRow /\ k.todo # <<>> /\ k.by # "none"
  <2>1. b \in {t.basket : t \in Terms} /\ d \in BOOLEAN
    BY <1>3
  <2> HIDE DEF b, d
  <2> QED BY <1>5, <2>1 DEF WorkRow
<1> HIDE DEF k
<1>7. ThreadFits("write", call[w], k)
  BY <1>6, CallTypes DEF Fits, ThreadFits, AtWork
<1>8. ThreadsFit'
  BY <1>1, <1>2, <1>4, <1>6, <1>7, OneWorks DEF Fits
<1>9. TablesFit'
  BY <1>1 DEF Fits, TablesFit, BillingType, billing, accounts, book, RunRow, counts
<1> QED BY <1>8, <1>9 DEF Fits

LEMMA RunFailedFits ==
  ASSUME BillingAssumption, SubscriptionsAssumption, Fits, NEW w \in Threads, RunFailed(w),
         sub[Cur(w).id] # NoSub
  PROVE  Fits'
<1>1. /\ stage[w] = "write" /\ NoteRun(w, 0) /\ AdvanceRow(w) /\ NextCopy(w)
      /\ UNCHANGED <<day, billing, order, redeemed, counts>>
  BY DEF RunFailed
<1>2. stage[w] \in AtWork
  BY <1>1 DEF AtWork
<1>3. ThreadsFit'
  BY <1>1, NextCopyFits DEF Fits
<1>4. sub' \in [Subs -> {NoSub} \cup SubRow]
  BY <1>1, <1>2, AdvanceMoves
<1>5. order \in Seq(OrderRow) /\ Len(order) \in Nat /\ order' = order
  BY <1>1, LenProperties DEF Fits, TablesFit
<1>6. runs' \in Seq(RunRow')
  <2>1. 0 \in 0..Len(order') /\ Len(order') \in Nat /\ Len(order) <= Len(order')
    BY <1>5
  <2> QED BY <1>1, <2>1, RunOfType
<1>7. TablesFit'
  BY <1>1, <1>4, <1>5, <1>6 DEF Fits, TablesFit, BillingType, billing, accounts, counts
<1> QED BY <1>3, <1>7 DEF Fits

LEMMA RunOrdersFits ==
  ASSUME BillingAssumption, SubscriptionsAssumption, Fits, NEW w \in Threads, RunOrders(w),
         sub[Cur(w).id] # NoSub
  PROVE  Fits' /\ Len(order') = Len(order) + 1 /\ Len(order) \in Nat
<1> DEFINE o == [by |-> work[w].by, discounted |-> work[w].discounted]
<1>1. /\ stage[w] = "write" /\ NoteRun(w, Len(order')) /\ AdvanceRow(w) /\ NextCopy(w)
      /\ order' = Append(order, o)
      /\ UNCHANGED <<day, billing, counts>>
  BY DEF RunOrders
<1>2. stage[w] \in AtWork
  BY <1>1 DEF AtWork
<1>3. ThreadsFit'
  BY <1>1, NextCopyFits DEF Fits
<1>4. sub' \in [Subs -> {NoSub} \cup SubRow]
  BY <1>1, <1>2, AdvanceMoves
<1>5. o \in OrderRow
  BY <1>1, <1>2, CopyTypes, CallTypes DEF Fits, ThreadFits, OrderRow
<1>6. order \in Seq(OrderRow)
  BY DEF Fits, TablesFit
<1>7. order' \in Seq(OrderRow) /\ Len(order') = Len(order) + 1 /\ Len(order) \in Nat
  <2> HIDE DEF o
  <2> QED BY <1>1, <1>5, <1>6, AppendProperties, LenProperties
<1>8. runs' \in Seq(RunRow')
  <2>1. Len(order') \in 0..Len(order') /\ Len(order') \in Nat /\ Len(order) <= Len(order')
    BY <1>7
  <2> QED BY <1>1, <2>1, RunOfType
<1>9. TablesFit'
  BY <1>1, <1>4, <1>7, <1>8 DEF Fits, TablesFit, BillingType, billing, accounts, counts
<1> QED BY <1>3, <1>7, <1>9 DEF Fits

LEMMA RunBreaksFits ==
  ASSUME BillingAssumption, SubscriptionsAssumption, Fits, NEW w \in Threads, RunBreaks(w)
  PROVE  Fits'
<1>1. ThreadsFit'
  BY NextCopyFits DEF Fits, RunBreaks
<1>2. TablesFit'
  <2>1. failed' \in 0..mix.failures
    BY FailedFits DEF Fits, RunBreaks
  <2> QED BY <2>1, TablesStay DEF Fits, RunBreaks
<1> QED BY <1>1, <1>2 DEF Fits

LEMMA PlaceOrderFits ==
  ASSUME BillingAssumption, SubscriptionsAssumption, Fits, NEW w \in Threads, PlaceOrder(w)
  PROVE  Fits' /\ Len(order') = Len(order) + 1 /\ Len(order) \in Nat
<1> DEFINE o == [by |-> "checkout", discounted |-> FALSE]
<1>1. /\ stage[w] = "handle" /\ call[w].kind = "checkout"
      /\ order' = Append(order, o) /\ stage' = [stage EXCEPT ![w] = "record"]
      /\ UNCHANGED <<day, billing, sub, runs, redeemed, call, work, counts>>
  BY DEF PlaceOrder, Handles, MoveTo
<1>2. stage[w] \notin AtWork /\ "record" \in Stages
  BY <1>1 DEF AtWork, Stages, InGate
<1>3. ThreadFits("record", call[w], work[w])
  BY <1>1, <1>2, HandsFree, CallTypes DEF Fits, ThreadFits, AtWork
<1>4. ThreadsFit'
  BY <1>1, <1>2, <1>3, OneMoves DEF Fits
<1>5. o \in OrderRow
  BY DEF OrderRow
<1>6. order \in Seq(OrderRow) /\ runs \in Seq(RunRow)
  BY DEF Fits, TablesFit
<1>7. order' \in Seq(OrderRow) /\ Len(order') = Len(order) + 1 /\ Len(order) \in Nat
  <2> HIDE DEF o
  <2> QED BY <1>1, <1>5, <1>6, AppendProperties, LenProperties
<1>8. runs \in Seq(RunRow')
  <2>1. RunRow \subseteq RunRow'
    BY <1>1, <1>7 DEF RunRow
  <2>2. Len(runs) \in Nat /\ \A i \in 1..Len(runs) : runs[i] \in RunRow
    BY <1>6, ElementOfSeq, LenProperties
  <2>3. runs = [i \in 1..Len(runs) |-> runs[i]]
    BY <1>6, LenProperties
  <2> DEFINE S == RunRow'
  <2>4. \A i \in 1..Len(runs) : runs[i] \in S
    BY <2>1, <2>2
  <2> HIDE DEF S
  <2>5. runs \in Seq(S)
    BY <2>2, <2>3, <2>4, SeqDef
  <2> QED BY <2>5 DEF S
<1>9. TablesFit'
  BY <1>1, <1>7, <1>8 DEF Fits, TablesFit, BillingType, billing, accounts, counts
<1> QED BY <1>4, <1>7, <1>9 DEF Fits

LEMMA FunctionIsSeq ==
  ASSUME NEW S, NEW n \in Nat, NEW f \in [1..n -> S]
  PROVE  f \in Seq(S) /\ Len(f) = n /\ DOMAIN f = 1..n /\ (f # <<>> <=> n # 0)
<1>1. f \in Seq(S)
  BY SeqDef
<1>2. Len(f) = n /\ DOMAIN f = 1..n
  BY <1>1, LenProperties
<1> QED BY <1>1, <1>2, EmptySeq

\* What a job that starts a sweep holds.
LEMMA SweepHolds ==
  ASSUME BillingAssumption, SubscriptionsAssumption, Fits, NEW w \in Threads, StartSweep(w)
  PROVE  \E todo \in Seq(Copies) :
           /\ todo # <<>>
           /\ work' = [work EXCEPT ![w] = Holding("sweep", day, todo)]
           /\ \A i \in RowsOf(todo) : \E s \in Subs :
                todo[i] = CopyOf(s) /\ sub[s] # NoSub /\ Listed(s)
<1> DEFINE due == {s \in Subs : sub[s] # NoSub /\ Listed(s)}
           n == Cardinality(due)
<1>1. PICK list \in [1..n -> due] :
        /\ list # <<>>
        /\ work' = [work EXCEPT ![w] = Holding("sweep", day, [i \in DOMAIN list |-> CopyOf(list[i])])]
  BY DEF StartSweep
<1> DEFINE todo == [i \in DOMAIN list |-> CopyOf(list[i])]
<1>2. due \in SUBSET Subs /\ \A s \in due : s \in Subs /\ sub[s] # NoSub /\ Listed(s)
  OBVIOUS
<1>3. n \in Nat
  <2> HIDE DEF due
  <2> QED BY <1>2, FS_Subset, FS_CardinalityType DEF SubscriptionsAssumption
<1> HIDE DEF due, n
<1>4. DOMAIN list = 1..n /\ n # 0
  BY <1>1, <1>3, FunctionIsSeq
<1>5. \A i \in 1..n : list[i] \in due /\ CopyOf(list[i]) \in Copies
  BY <1>2, RowTypes DEF Fits
<1>6. todo \in [1..n -> Copies] /\ \A i \in 1..n : todo[i] = CopyOf(list[i])
  BY <1>4, <1>5
<1>7. work' = [work EXCEPT ![w] = Holding("sweep", day, todo)]
  BY <1>1
<1> HIDE DEF todo
<1>8. todo \in Seq(Copies) /\ Len(todo) = n /\ todo # <<>>
  BY <1>3, <1>4, <1>6, FunctionIsSeq
<1>9. \A i \in RowsOf(todo) : \E s \in Subs : todo[i] = CopyOf(s) /\ sub[s] # NoSub /\ Listed(s)
  BY <1>2, <1>5, <1>6, <1>8 DEF RowsOf
<1> QED BY <1>7, <1>8, <1>9

LEMMA HoldingType ==
  ASSUME NEW by \in {"none", "sweep", "run"}, NEW today \in Days, NEW todo \in Seq(Copies)
  PROVE  /\ Holding(by, today, todo) \in WorkRow
         /\ Holding(by, today, todo).todo = todo /\ Holding(by, today, todo).by = by
         /\ Holding(by, today, todo).today = today
BY DEF Holding, WorkRow

LEMMA StartSweepFits ==
  ASSUME BillingAssumption, SubscriptionsAssumption, Fits, NEW w \in Threads, StartSweep(w)
  PROVE  Fits'
<1>1. /\ stage[w] = "idle" /\ stage' = [stage EXCEPT ![w] = "price"]
      /\ UNCHANGED <<day, billing, sub, book, call, counts>>
  BY DEF StartSweep, MoveTo
<1>2. PICK todo \in Seq(Copies) :
        todo # <<>> /\ work' = [work EXCEPT ![w] = Holding("sweep", day, todo)]
  BY SweepHolds
<1> DEFINE k == Holding("sweep", day, todo)
<1>3. day \in Days
  BY DEF Fits, TablesFit, BillingType
<1>4. k \in WorkRow /\ k.todo # <<>> /\ k.by = "sweep" /\ work' = [work EXCEPT ![w] = k]
  BY <1>2, <1>3, HoldingType
<1> HIDE DEF k
<1>5. ThreadFits("price", call[w], k) /\ "price" \in Stages
  BY <1>4, CallTypes DEF Fits, ThreadFits, AtWork, Stages
<1>6. ThreadsFit'
  BY <1>1, <1>4, <1>5, OneWorks DEF Fits
<1>7. TablesFit'
  BY <1>1 DEF Fits, TablesFit, BillingType, billing, accounts, book, RunRow, counts
<1> QED BY <1>6, <1>7 DEF Fits

LEMMA OneCopy ==
  ASSUME NEW c \in Copies
  PROVE  /\ <<c>> \in Seq(Copies) /\ <<c>> # <<>> /\ Len(<<c>>) = 1
         /\ Head(<<c>>) = c /\ \A i \in RowsOf(<<c>>) : <<c>>[i] = c
<1> DEFINE q == <<c>>
<1>1. q \in Seq(Copies) /\ Len(q) = 1 /\ q[1] = c
  OBVIOUS
<1>2. Head(q) = c
  OBVIOUS
<1>3. \A i \in RowsOf(q) : q[i] = c
  BY <1>1 DEF RowsOf
<1> HIDE DEF q
<1>4. q # <<>>
  BY <1>1, EmptySeq
<1> QED BY <1>1, <1>2, <1>3, <1>4 DEF q

LEMMA RunNowFits ==
  ASSUME BillingAssumption, SubscriptionsAssumption, Fits, NEW w \in Threads, RunNow(w)
  PROVE  Fits'
<1>1. /\ stage[w] = "handle" /\ call[w].kind = "run" /\ Exists(w)
      /\ UNCHANGED <<day, billing, sub, book, counts>>
  BY DEF RunNow, Handles
<1>2. Target(w) \in Subs /\ sub[Target(w)] # NoSub
  BY <1>1, CallTypes DEF Fits, Says, Target, Exists
<1>3. TablesFit'
  BY <1>1 DEF Fits, TablesFit, BillingType, billing, accounts, book, RunRow, counts
<1>4. CASE sub[Target(w)].status = "active"
  <2> DEFINE c == CopyOf(Target(w))
             q == <<c>>
             k == Holding("run", day, q)
  <2>1. c \in Copies /\ day \in Days
    <3>1. CopyOf(Target(w)) \in Copies
      BY <1>2, RowTypes DEF Fits
    <3> QED BY <3>1 DEF Fits, TablesFit, BillingType
  <2>2. stage' = [stage EXCEPT ![w] = "price"] /\ call' = [call EXCEPT ![w] = NoCall]
        /\ work' = [work EXCEPT ![w] = k]
    BY <1>4 DEF RunNow, MoveTo
  <2> HIDE DEF c
  <2>6. q \in Seq(Copies) /\ q # <<>>
    BY <2>1, OneCopy
  <2> HIDE DEF q
  <2>3. k \in WorkRow /\ k.todo # <<>> /\ k.by = "run"
    BY <2>1, <2>6, HoldingType
  <2> HIDE DEF k
  <2>4. ThreadFits("price", NoCall, k) /\ "price" \in Stages /\ NoCall \in CallRow
    BY <2>3, Settings DEF ThreadFits, AtWork, Stages
  <2>5. ThreadsFit'
    BY <2>2, <2>3, <2>4, OneThread DEF Fits
  <2> QED BY <1>3, <2>5 DEF Fits
<1>5. CASE sub[Target(w)].status # "active"
  <2>1. Finish(w)
    BY <1>5 DEF RunNow
  <2> QED BY <1>3, <2>1, FinishFits DEF Fits
<1> QED BY <1>4, <1>5

LEMMA AdminSetStatusFits ==
  ASSUME BillingAssumption, SubscriptionsAssumption, Fits, NEW w \in Threads, AdminSetStatus(w)
  PROVE  /\ Fits'
         /\ \A s \in Subs : sub[s] # NoSub =>
              sub'[s] # NoSub /\ sub'[s].next = sub[s].next /\ sub'[s].moves = sub[s].moves
<1> DEFINE s == Target(w)
           to == call[w].about.to
<1>1. /\ stage[w] = "handle" /\ call[w].kind = "status" /\ Exists(w) /\ Finish(w)
      /\ sub' = [sub EXCEPT ![s].status = to]
      /\ UNCHANGED <<day, billing, book, counts>>
  BY DEF AdminSetStatus, Handles
<1>2. s \in Subs /\ sub[s] # NoSub /\ to \in SubStatuses
  BY <1>1, CallTypes DEF Fits, Says, Target, Exists
<1> HIDE DEF s, to
<1>3. sub \in [Subs -> {NoSub} \cup SubRow] /\ sub[s] \in SubRow
  BY <1>2 DEF Fits, TablesFit
<1> DEFINE r == [sub[s] EXCEPT !.status = to]
<1>4. r \in SubRow /\ r.next = sub[s].next /\ r.moves = sub[s].moves
  BY <1>2, <1>3 DEF SubRow
<1>5. sub' = [sub EXCEPT ![s] = r]
  BY <1>1, <1>3
<1> HIDE DEF r
<1>6. sub' \in [Subs -> {NoSub} \cup SubRow]
  BY <1>3, <1>4, <1>5
<1>7. TablesFit'
  BY <1>1, <1>6 DEF Fits, TablesFit, BillingType, billing, accounts, book, RunRow, counts
<1>8. ASSUME NEW x \in Subs, sub[x] # NoSub
      PROVE  sub'[x] # NoSub /\ sub'[x].next = sub[x].next /\ sub'[x].moves = sub[x].moves
  <2>1. r # NoSub
    BY <1>4, Settings
  <2> QED BY <1>2, <1>3, <1>4, <1>5, <1>8, <2>1
<1> QED BY <1>1, <1>7, <1>8, FinishFits DEF Fits

LEMMA LoadSubFits ==
  ASSUME BillingAssumption, SubscriptionsAssumption, Fits, NEW w \in Threads, LoadSub(w)
  PROVE  Fits'
<1>1. /\ stage[w] = "handle" /\ call[w].kind \in {"update", "skip"} /\ Exists(w)
      /\ UNCHANGED <<day, billing, sub, book, counts>>
  BY DEF LoadSub
<1>2. Target(w) \in Subs /\ sub[Target(w)] # NoSub
  BY <1>1, CallTypes DEF Fits, Says, Target, Exists
<1>3. TablesFit'
  BY <1>1 DEF Fits, TablesFit, BillingType, billing, accounts, book, RunRow, counts
<1>4. CASE ~ Finish(w)
  <2> DEFINE c == CopyOf(Target(w))
             q == <<c>>
             k == Holding("none", day, q)
             l == call[w].kind
  <2>1. c \in Copies /\ day \in Days /\ c.id = call[w].about.sub
    <3>1. CopyOf(Target(w)) \in Copies /\ CopyOf(Target(w)).id = Target(w)
      BY <1>2, RowTypes DEF Fits
    <3> QED BY <3>1 DEF Fits, TablesFit, BillingType, Target
  <2>2. stage' = [stage EXCEPT ![w] = l] /\ call' = call /\ work' = [work EXCEPT ![w] = k]
    BY <1>4 DEF LoadSub, MoveTo
  <2> HIDE DEF c
  <2>7. q \in Seq(Copies) /\ q # <<>> /\ Head(q) = c
    BY <2>1, OneCopy
  <2> HIDE DEF q
  <2>3. k \in WorkRow /\ k.todo # <<>> /\ Head(k.todo) = c
    BY <2>1, <2>7, HoldingType
  <2> HIDE DEF k
  <2>4. l \in {"update", "skip"} /\ l \in Stages /\ l \in AtWork
    BY <1>1 DEF AtWork, Stages
  <2>5. ThreadFits(l, call[w], k)
    BY <2>1, <2>3, <2>4, CallTypes DEF Fits, ThreadFits, AtWork
  <2> HIDE DEF l
  <2>6. ThreadsFit'
    BY <2>2, <2>3, <2>4, <2>5, OneWorks DEF Fits
  <2> QED BY <1>3, <2>6 DEF Fits
<1>5. CASE Finish(w)
  BY <1>3, <1>5, FinishFits DEF Fits
<1> QED BY <1>4, <1>5

LEMMA UpdateSubscriptionFits ==
  ASSUME BillingAssumption, SubscriptionsAssumption, Fits, NEW w \in Threads, UpdateSubscription(w),
         sub[Cur(w).id] # NoSub
  PROVE  /\ Fits'
         /\ \A s \in Subs : sub[s] # NoSub =>
              sub'[s] # NoSub /\ sub'[s].next = sub[s].next /\ sub'[s].moves = sub[s].moves
<1> DEFINE s == Target(w)
           t == call[w].about.terms
<1>1. /\ stage[w] = "update" /\ Finish(w)
      /\ sub' = [sub EXCEPT ![s].cadence = t.cadence, ![s].basket = t.basket]
      /\ UNCHANGED <<day, billing, book, counts>>
  BY DEF UpdateSubscription
<1>2. call[w].kind = "update" /\ Cur(w).id = s
  BY <1>1, CallTypes DEF Fits, ThreadFits, Target, Cur
<1>3. s \in Subs /\ sub[s] # NoSub /\ t \in Terms
  BY <1>2, CallTypes DEF Fits, Says, Target
<1>4. t.cadence \in DOMAIN Cadences /\ t.basket \in {u.basket : u \in Terms}
  BY <1>3 DEF SubscriptionsAssumption
<1> HIDE DEF s, t
<1>5. sub \in [Subs -> {NoSub} \cup SubRow] /\ sub[s] \in SubRow
  BY <1>3 DEF Fits, TablesFit
<1> DEFINE r == [sub[s] EXCEPT !.cadence = t.cadence, !.basket = t.basket]
<1>6. r \in SubRow /\ r.next = sub[s].next /\ r.moves = sub[s].moves
  BY <1>4, <1>5 DEF SubRow
<1>7. sub' = [sub EXCEPT ![s] = r]
  BY <1>1, <1>5
<1> HIDE DEF r
<1>8. sub' \in [Subs -> {NoSub} \cup SubRow]
  BY <1>5, <1>6, <1>7
<1>9. TablesFit'
  BY <1>1, <1>8 DEF Fits, TablesFit, BillingType, billing, accounts, book, RunRow, counts
<1>10. ASSUME NEW x \in Subs, sub[x] # NoSub
       PROVE  sub'[x] # NoSub /\ sub'[x].next = sub[x].next /\ sub'[x].moves = sub[x].moves
  <2>1. r # NoSub
    BY <1>6, Settings
  <2> QED BY <1>3, <1>5, <1>6, <1>7, <1>10, <2>1
<1> QED BY <1>1, <1>9, <1>10, FinishFits DEF Fits

\* What a skip does to the date.
LEMMA SkipMoves ==
  ASSUME BillingAssumption, SubscriptionsAssumption, Fits, NEW w \in Threads, Skip(w),
         sub[Cur(w).id] # NoSub
  PROVE  /\ stage[w] = "skip" /\ stage[w] \in AtWork /\ Cur(w).id \in Subs
         /\ sub' \in [Subs -> {NoSub} \cup SubRow]
         /\ \A x \in Subs \ {Cur(w).id} : sub'[x] = sub[x]
         /\ sub'[Cur(w).id] # NoSub
         /\ sub'[Cur(w).id].next > day /\ sub'[Cur(w).id].next > Cur(w).row.next
         /\ sub'[Cur(w).id].moves = sub[Cur(w).id].moves + 1
<1> DEFINE id == Cur(w).id
           v == Advance(Cur(w), Later(day, Cur(w).row.next))
<1>1. stage[w] = "skip" /\ stage[w] \in AtWork
  BY DEF Skip, AtWork
<1>2. id \in Subs /\ sub[id] # NoSub /\ Cur(w).row.next \in Nat /\ Cadences[Cur(w).row.cadence] \in Nat \ {0}
  BY <1>1, CopyTypes DEF Fits
<1>3. day \in Nat
  BY Settings DEF Fits, TablesFit, BillingType
<1>4. v \in Nat /\ v > day /\ v > Cur(w).row.next
  BY <1>2, <1>3 DEF Advance, Later
<1>5. sub' = [sub EXCEPT ![id].next = v, ![id].moves = @ + 1]
  BY DEF Skip, Cur
<1> HIDE DEF id, v
<1>6. /\ sub' \in [Subs -> {NoSub} \cup SubRow]
      /\ \A x \in Subs \ {id} : sub'[x] = sub[x]
      /\ sub'[id] # NoSub /\ sub'[id].next = v /\ sub'[id].moves = sub[id].moves + 1
  BY <1>2, <1>4, <1>5, DateMoves DEF Fits
<1>7. sub'[id].next > day /\ sub'[id].next > Cur(w).row.next
  BY <1>4, <1>6
<1> QED BY <1>1, <1>2, <1>6, <1>7 DEF id

LEMMA SkipFits ==
  ASSUME BillingAssumption, SubscriptionsAssumption, Fits, NEW w \in Threads, Skip(w),
         sub[Cur(w).id] # NoSub
  PROVE  Fits'
<1>1. Finish(w) /\ UNCHANGED <<day, billing, book, counts>>
  BY DEF Skip
<1>2. sub' \in [Subs -> {NoSub} \cup SubRow]
  BY SkipMoves
<1>3. TablesFit'
  BY <1>1, <1>2 DEF Fits, TablesFit, BillingType, billing, accounts, book, RunRow, counts
<1> QED BY <1>1, <1>3, FinishFits DEF Fits

LEMMA CreateFits ==
  ASSUME BillingAssumption, SubscriptionsAssumption, Fits, NEW w \in Threads, Create(w)
  PROVE  /\ Fits'
         /\ \A s \in Subs : sub[s] # NoSub => sub'[s] = sub[s]
<1>1. /\ stage[w] = "handle" /\ call[w].kind = "create" /\ Finish(w)
      /\ UNCHANGED <<day, billing, book, counts>>
  BY DEF Create, Handles
<1> DEFINE about == call[w].about
           r == [status |-> "active", cadence |-> about.terms.cadence,
                 basket |-> about.terms.basket, next |-> about.start, moves |-> 0]
<1>2. PICK s \in Subs : sub[s] = NoSub /\ sub' = [sub EXCEPT ![s] = r]
  BY DEF Create
<1>3. r \in SubRow
  <2>1. about.terms \in Terms /\ about.start \in Days
    BY <1>1, CallTypes DEF Fits, Says
  <2>2. about.terms.cadence \in DOMAIN Cadences /\ about.terms.basket \in {u.basket : u \in Terms}
    BY <2>1 DEF SubscriptionsAssumption
  <2>3. about.start \in Nat
    BY <2>1, Settings
  <2> HIDE DEF about
  <2> QED BY <2>2, <2>3 DEF SubRow, SubStatuses
<1> HIDE DEF r
<1>4. sub \in [Subs -> {NoSub} \cup SubRow]
  BY DEF Fits, TablesFit
<1>5. sub' \in [Subs -> {NoSub} \cup SubRow] /\ \A x \in Subs : sub[x] # NoSub => sub'[x] = sub[x]
  BY <1>2, <1>3, <1>4
<1>6. TablesFit'
  BY <1>1, <1>5 DEF Fits, TablesFit, BillingType, billing, accounts, book, RunRow, counts
<1> QED BY <1>1, <1>5, <1>6, FinishFits DEF Fits

LEMMA NotFoundFits ==
  ASSUME BillingAssumption, SubscriptionsAssumption, Fits, NEW w \in Threads, NotFound(w)
  PROVE  Fits'
<1>1. Finish(w) /\ UNCHANGED <<day, billing, sub, book, counts>>
  BY DEF NotFound
<1>2. TablesFit'
  BY <1>1 DEF Fits, TablesFit, BillingType, billing, accounts, book, RunRow, counts
<1> QED BY <1>1, <1>2, FinishFits DEF Fits

LEMMA HandlerFailsFits ==
  ASSUME BillingAssumption, SubscriptionsAssumption, Fits, NEW w \in Threads, HandlerFails(w)
  PROVE  Fits'
<1>1. Finish(w) /\ Breaks /\ UNCHANGED <<day, billing, sub, book, mix, asked>>
  BY DEF HandlerFails
<1>2. TablesFit'
  BY <1>1, FailedFits, TablesStay DEF Fits
<1> QED BY <1>1, <1>2, FinishFits DEF Fits

LEMMA TomorrowFits ==
  ASSUME BillingAssumption, SubscriptionsAssumption, Fits, Tomorrow
  PROVE  Fits'
<1>1. day < LastDay /\ day' = day + 1 /\ UNCHANGED <<billing, sub, book, stage, call, work, counts>>
  BY DEF Tomorrow
<1>2. day' \in Days
  BY <1>1 DEF Fits, TablesFit, BillingType, Days, BillingAssumption
<1>3. ThreadsFit'
  BY <1>1 DEF Fits, ThreadsFit
<1>4. TablesFit'
  BY <1>1, <1>2 DEF Fits, TablesFit, BillingType, billing, accounts, book, RunRow, counts
<1> QED BY <1>3, <1>4 DEF Fits

LEMMA StutterFits ==
  ASSUME Fits, UNCHANGED subVars
  PROVE  Fits'
BY DEF Fits, ThreadsFit, TablesFit, BillingType, subVars, billing, accounts, book, RunRow, counts

LEMMA InitFits ==
  ASSUME BillingAssumption, SubscriptionsAssumption, SubInit
  PROVE  Fits
<1>1. ThreadsFit
  <2>1. "idle" \in Stages /\ ThreadFits("idle", NoCall, NoWork)
    BY Settings DEF Stages, ThreadFits, AtWork
  <2> QED BY <2>1, Settings DEF SubInit, BillingInit, ThreadsFit
<1>2. BillingType
  <2>1. day \in Days /\ plans \in [Codes -> PlanRow] /\ assigned \in Codes
    BY Settings DEF SubInit, BillingInit, BillingAssumption
  <2>2. Filled(plans[assigned], 0, FALSE) \in Entry
    BY <2>1 DEF Filled, Entry
  <2>3. cache \in [Nodes -> {NoEntry} \cup Entry]
    BY <2>2 DEF SubInit, BillingInit
  <2>4. usage \in [Months -> Nat] /\ version \in Nat /\ told \in [Nodes -> 0..version]
    BY DEF SubInit, BillingInit
  <2>5. mix \in Mixes /\ asked \in 0..mix.requests /\ failed \in 0..mix.failures
    BY DEF SubInit, BillingInit, BillingAssumption
  <2> QED BY <2>1, <2>3, <2>4, <2>5 DEF BillingType
<1>3. sub \in [Subs -> {NoSub} \cup SubRow]
  BY DEF SubInit, BillingInit, SubscriptionsAssumption
<1>4. order \in Seq(OrderRow) /\ runs \in Seq(RunRow)
  BY EmptySeq DEF SubInit
<1> QED BY <1>1, <1>2, <1>3, <1>4 DEF Fits, TablesFit

-----------------------------------------------------------------------------
(* Dates.                                                                  *)

\* A copy is of a row that is there; while the row's date has not moved since,
\* the copy's date is the row's and no run of the row is of a later day than
\* the copy; and the sweep holds what was due.
CopyHolds(w, c) ==
  /\ sub[c.id] # NoSub
  /\ c.row.moves <= sub[c.id].moves
  /\ c.row.moves = sub[c.id].moves =>
       /\ c.row.next = sub[c.id].next
       /\ \A i \in RowsOf(runs) : runs[i].sub = c.id => runs[i].day <= work[w].today
  /\ work[w].by = "sweep" => c.row.next <= work[w].today

CopiesHold ==
  \A w \in Threads :
    /\ work[w].today <= day
    /\ \A k \in RowsOf(work[w].todo) : CopyHolds(w, work[w].todo[k])

\* A subscription none of whose runs was stale is due later than they were.
DueLater(s) ==
  (\A k \in RowsOf(runs) : runs[k].sub = s => ~ runs[k].stale)
  => \A i \in RowsOf(runs) : runs[i].sub = s => runs[i].day < sub[s].next

RunsHold ==
  /\ \A i \in RowsOf(runs) : sub[runs[i].sub] # NoSub /\ runs[i].day <= day
  /\ \A s \in Subs : DueLater(s)

DatesHold == CopiesHold /\ RunsHold /\ OncePerDayUnlessStale

LEMMA RunTypes ==
  ASSUME BillingAssumption, SubscriptionsAssumption, TablesFit
  PROVE  /\ Len(runs) \in Nat
         /\ \A i \in RowsOf(runs) : runs[i].sub \in Subs /\ runs[i].day \in Nat /\ runs[i].stale \in BOOLEAN
<1>1. runs \in Seq(RunRow)
  BY DEF TablesFit
<1>2. Len(runs) \in Nat /\ \A i \in RowsOf(runs) : runs[i] \in RunRow
  BY <1>1, ElementOfSeq, LenProperties DEF RowsOf
<1> QED BY <1>2, Settings DEF RunRow

LEMMA HeldTypes ==
  ASSUME BillingAssumption, SubscriptionsAssumption, ThreadsFit, NEW w \in Threads
  PROVE  /\ work[w].today \in Nat
         /\ Len(work[w].todo) \in Nat
         /\ \A k \in RowsOf(work[w].todo) :
              LET c == work[w].todo[k]
              IN  c.id \in Subs /\ c.row.moves \in Nat /\ c.row.next \in Nat
<1> DEFINE t == work[w].todo
<1>1. t \in Seq(Copies) /\ work[w].today \in Days
  BY CallTypes DEF WorkRow
<1>2. \A c \in Copies : c.id \in Subs /\ c.row.moves \in Nat /\ c.row.next \in Nat
  BY DEF Copies, SubRow
<1>3. Len(t) \in Nat /\ \A k \in RowsOf(t) : t[k] \in Copies
  <2> HIDE DEF t
  <2> QED BY <1>1, ElementOfSeq, LenProperties DEF RowsOf
<1> QED BY <1>1, <1>2, <1>3, Settings

SubGrows ==
  \A s \in Subs : sub[s] # NoSub =>
    /\ sub'[s] # NoSub /\ sub'[s].moves \in Nat /\ sub[s].moves <= sub'[s].moves
    /\ sub'[s].moves = sub[s].moves => sub'[s].next = sub[s].next

RunsGrow ==
  \A i \in RowsOf(runs') :
    \/ i \in RowsOf(runs) /\ runs'[i] = runs[i]
    \/ runs'[i].sub \in Subs /\ sub'[runs'[i].sub].moves = sub[runs'[i].sub].moves + 1

\* The k-th copy of a thread is one it held.
FromHeld(x, k) ==
  /\ work'[x].by = work[x].by /\ work'[x].today = work[x].today
  /\ \E j \in RowsOf(work[x].todo) : work'[x].todo[k] = work[x].todo[j]

WorkFrom ==
  \A x \in Threads :
    /\ work'[x].today <= day'
    /\ \A k \in RowsOf(work'[x].todo) : FromHeld(x, k) \/ CopyHolds(x, work[x].todo[k])'

LEMMA CopiesKept ==
  ASSUME BillingAssumption, SubscriptionsAssumption, Fits, CopiesHold, SubGrows, RunsGrow, WorkFrom
  PROVE  CopiesHold'
<1> SUFFICES ASSUME NEW x \in Threads, NEW k \in RowsOf(work'[x].todo), FromHeld(x, k)
             PROVE  CopyHolds(x, work[x].todo[k])'
  BY DEF CopiesHold, WorkFrom
<1>1. PICK j \in RowsOf(work[x].todo) : work'[x].todo[k] = work[x].todo[j]
  BY DEF FromHeld
<1> DEFINE c == work[x].todo[j]
<1>2. CopyHolds(x, c) /\ c.id \in Subs /\ c.row.moves \in Nat /\ c.row.next \in Nat
  BY HeldTypes DEF CopiesHold, Fits
<1>3. PICK d : d = c
  OBVIOUS
<1>4. work'[x].todo[k] = d /\ work'[x].by = work[x].by /\ work'[x].today = work[x].today
  BY <1>1, <1>3 DEF FromHeld
<1> HIDE DEF c
<1>5. sub[d.id] # NoSub /\ sub[d.id].moves \in Nat
  BY <1>2, <1>3, RowTypes DEF CopyHolds, Fits
<1>6. /\ sub'[d.id] # NoSub /\ sub'[d.id].moves \in Nat /\ sub[d.id].moves <= sub'[d.id].moves
      /\ sub'[d.id].moves = sub[d.id].moves => sub'[d.id].next = sub[d.id].next
  BY <1>2, <1>3, <1>5 DEF SubGrows
<1>7. d.row.moves <= sub[d.id].moves
  BY <1>2, <1>3 DEF CopyHolds
<1>8. d.row.moves <= sub'[d.id].moves
  BY <1>2, <1>3, <1>5, <1>6, <1>7
<1>9. ASSUME d.row.moves = sub'[d.id].moves
      PROVE  /\ d.row.next = sub'[d.id].next
             /\ \A i \in RowsOf(runs') : runs'[i].sub = d.id => runs'[i].day <= work'[x].today
  <2>1. d.row.moves = sub[d.id].moves /\ sub'[d.id].moves = sub[d.id].moves
    BY <1>2, <1>3, <1>5, <1>6, <1>7, <1>9
  <2>2. /\ d.row.next = sub[d.id].next
        /\ \A i \in RowsOf(runs) : runs[i].sub = d.id => runs[i].day <= work[x].today
    BY <1>2, <1>3, <2>1 DEF CopyHolds
  <2>3. ASSUME NEW i \in RowsOf(runs'), runs'[i].sub = d.id PROVE runs'[i].day <= work'[x].today
    <3>1. ~ (sub'[runs'[i].sub].moves = sub[runs'[i].sub].moves + 1)
      BY <1>5, <2>1, <2>3
    <3>2. i \in RowsOf(runs) /\ runs'[i] = runs[i]
      BY <3>1 DEF RunsGrow
    <3> QED BY <1>4, <2>2, <2>3, <3>2
  <2> QED BY <1>6, <2>1, <2>2, <2>3
<1>10. work'[x].by = "sweep" => d.row.next <= work'[x].today
  BY <1>2, <1>3, <1>4 DEF CopyHolds
<1> QED BY <1>4, <1>6, <1>8, <1>9, <1>10 DEF CopyHolds

\* Threads that hold what they held, or less.
Shrinks ==
  \A x \in Threads :
    \/ work'[x].todo = <<>> /\ work'[x].today = FirstDay
    \/ /\ work'[x].today = work[x].today
       /\ \A k \in RowsOf(work'[x].todo) : FromHeld(x, k)

LEMMA ShrinksHolds ==
  ASSUME BillingAssumption, SubscriptionsAssumption, Fits, CopiesHold, Shrinks, day' \in Days, day <= day'
  PROVE  WorkFrom
<1> SUFFICES ASSUME NEW x \in Threads
             PROVE  work'[x].today <= day' /\ \A k \in RowsOf(work'[x].todo) : FromHeld(x, k)
  BY DEF WorkFrom
<1>1. CASE work'[x].todo = <<>> /\ work'[x].today = FirstDay
  <2>1. RowsOf(work'[x].todo) = {}
    BY <1>1 DEF RowsOf
  <2>2. FirstDay <= day'
    BY DEF Days, BillingAssumption
  <2> QED BY <1>1, <2>1, <2>2
<1>2. CASE work'[x].today = work[x].today /\ \A k \in RowsOf(work'[x].todo) : FromHeld(x, k)
  <2>1. work[x].today <= day /\ work[x].today \in Nat
    BY HeldTypes DEF Fits, CopiesHold
  <2>2. day \in Nat /\ day' \in Nat
    BY Settings DEF Fits, TablesFit, BillingType
  <2> QED BY <1>2, <2>1, <2>2
<1> QED BY <1>1, <1>2 DEF Shrinks

LEMMA SameShrinks ==
  ASSUME BillingAssumption, SubscriptionsAssumption, work' = work
  PROVE  Shrinks
BY DEF Shrinks, FromHeld

\* One thread holds what it held, or less.
LEMMA OneShrinks ==
  ASSUME ThreadsFit, NEW w \in Threads, NEW k, work' = [work EXCEPT ![w] = k],
         \/ k.todo = <<>> /\ k.today = FirstDay
         \/ /\ k.by = work[w].by /\ k.today = work[w].today
            /\ \A i \in RowsOf(k.todo) : \E j \in RowsOf(work[w].todo) : k.todo[i] = work[w].todo[j]
  PROVE  Shrinks
<1> SUFFICES ASSUME NEW x \in Threads
             PROVE  \/ work'[x].todo = <<>> /\ work'[x].today = FirstDay
                    \/ /\ work'[x].today = work[x].today
                       /\ \A i \in RowsOf(work'[x].todo) : FromHeld(x, i)
  BY DEF Shrinks
<1>1. CASE x # w
  <2>1. work'[x] = work[x]
    BY <1>1 DEF ThreadsFit
  <2> QED BY <2>1 DEF FromHeld
<1>2. CASE x = w
  <2>1. work'[x] = k
    BY <1>2 DEF ThreadsFit
  <2> QED BY <1>2, <2>1 DEF FromHeld
<1> QED BY <1>1, <1>2

LEMMA FinishShrinks ==
  ASSUME BillingAssumption, SubscriptionsAssumption, ThreadsFit, NEW w \in Threads, Finish(w)
  PROVE  Shrinks
<1>1. NoWork.todo = <<>> /\ NoWork.today = FirstDay
  BY DEF NoWork, Holding
<1> QED BY <1>1, OneShrinks DEF Finish

LEMMA NextCopyShrinks ==
  ASSUME BillingAssumption, SubscriptionsAssumption, ThreadsFit, NEW w \in Threads,
         stage[w] \in {"price", "write"}, NextCopy(w)
  PROVE  Shrinks
<1>1. CASE Len(work[w].todo) = 1
  BY <1>1, FinishShrinks DEF NextCopy
<1>2. CASE Len(work[w].todo) # 1
  <2> DEFINE q == work[w].todo
             k == [work[w] EXCEPT !.todo = Tail(q)]
  <2>1. stage[w] \in AtWork
    BY DEF AtWork
  <2>2. q \in Seq(Copies) /\ q # <<>> /\ work[w] \in WorkRow
    BY <2>1, CopyTypes, CallTypes
  <2>3. \A i \in 1..Len(Tail(q)) : i + 1 \in 1..Len(q) /\ Tail(q)[i] = q[i + 1]
    <3> HIDE DEF q
    <3>1. Len(q) # 1
      BY <1>2 DEF q
    <3> QED BY <2>2, <3>1, TailFacts
  <2>4. k.by = work[w].by /\ k.today = work[w].today /\ k.todo = Tail(q)
    BY <2>2 DEF WorkRow
  <2>5. work' = [work EXCEPT ![w] = k]
    BY <1>2 DEF NextCopy
  <2> HIDE DEF k
  <2>6. \A i \in RowsOf(k.todo) : \E j \in RowsOf(work[w].todo) : k.todo[i] = work[w].todo[j]
    BY <2>3, <2>4 DEF RowsOf
  <2> QED BY <2>4, <2>5, <2>6, OneShrinks
<1> QED BY <1>1, <1>2

LEMMA PriceShrinks ==
  ASSUME ThreadsFit, NEW w \in Threads, Price(w)
  PROVE  Shrinks
<1> DEFINE b == sub[Head(work[w].todo).id].basket
           d == redeemed < MaxRedemptions
           k == [work[w] EXCEPT !.basket = b, !.discounted = d]
<1>1. work' = [work EXCEPT ![w] = k]
  BY DEF Price
<1>2. k.by = work[w].by /\ k.today = work[w].today /\ k.todo = work[w].todo
  <2>1. work[w] \in WorkRow
    BY CallTypes
  <2> HIDE DEF b, d
  <2> QED BY <2>1 DEF WorkRow
<1> HIDE DEF k
<1> QED BY <1>1, <1>2, OneShrinks

DateStays == \A s \in Subs : sub[s] # NoSub =>
  /\ sub'[s] # NoSub /\ sub'[s].next \in Nat
  /\ sub'[s].next >= sub[s].next \/ sub'[s].next > day

LEMMA RunsKept ==
  ASSUME BillingAssumption, SubscriptionsAssumption, Fits, RunsHold, OncePerDayUnlessStale,
         runs' = runs, day' \in Days, day <= day', DateStays
  PROVE  RunsHold' /\ OncePerDayUnlessStale'
<1>1. OncePerDayUnlessStale'
  BY DEF OncePerDayUnlessStale
<1>2. day \in Nat /\ day' \in Nat
  BY Settings DEF Fits, TablesFit, BillingType
<1>3. ASSUME NEW i \in RowsOf(runs)
      PROVE  sub'[runs[i].sub] # NoSub /\ runs[i].day <= day'
  <2>1. runs[i].sub \in Subs /\ runs[i].day \in Nat /\ runs[i].day <= day /\ sub[runs[i].sub] # NoSub
    BY RunTypes DEF Fits, RunsHold
  <2> QED BY <1>2, <2>1 DEF DateStays
<1>4. ASSUME NEW s \in Subs, DueLater(s), \A k \in RowsOf(runs) : runs[k].sub = s => ~ runs[k].stale,
             NEW i \in RowsOf(runs), runs[i].sub = s
      PROVE  runs[i].day < sub'[s].next
  <2>1. runs[i].day < sub[s].next
    BY <1>4 DEF DueLater
  <2>2. sub[s] # NoSub /\ runs[i].day <= day /\ runs[i].day \in Nat
    BY <1>4, RunTypes DEF RunsHold, Fits
  <2>3. sub[s].next \in Nat /\ sub'[s].next \in Nat
        /\ (sub'[s].next >= sub[s].next \/ sub'[s].next > day)
    BY <2>2, RowTypes DEF DateStays, Fits
  <2> QED BY <1>2, <2>1, <2>2, <2>3
<1>5. RunsHold'
  BY <1>3, <1>4 DEF RunsHold, DueLater
<1> QED BY <1>1, <1>5

\* Nothing but the threads' work changes, or the day.
LEMMA SubStays ==
  ASSUME BillingAssumption, SubscriptionsAssumption, Fits, sub' = sub, runs' = runs
  PROVE  SubGrows /\ RunsGrow /\ DateStays
<1>1. \A s \in Subs : sub[s] # NoSub => sub[s].moves \in Nat /\ sub[s].next \in Nat
  BY RowTypes DEF Fits
<1>2. SubGrows
  <2>1. \A m \in Nat : m <= m
    OBVIOUS
  <2>2. ASSUME NEW s \in Subs, sub[s] # NoSub
        PROVE  sub'[s] # NoSub /\ sub'[s].moves \in Nat /\ sub[s].moves <= sub'[s].moves
               /\ sub'[s].next = sub[s].next
    BY <1>1, <2>1, <2>2
  <2> QED BY <2>2 DEF SubGrows
<1>3. DateStays
  BY <1>1 DEF DateStays
<1> QED BY <1>2, <1>3 DEF RunsGrow

LEMMA DatesKept ==
  ASSUME BillingAssumption, SubscriptionsAssumption, Fits, DatesHold,
         sub' = sub, runs' = runs, day' \in Days, day <= day', WorkFrom
  PROVE  DatesHold'
BY SubStays, CopiesKept, RunsKept DEF DatesHold

LEMMA DatesShrink ==
  ASSUME BillingAssumption, SubscriptionsAssumption, Fits, DatesHold,
         sub' = sub, runs' = runs, day' = day, Shrinks
  PROVE  DatesHold'
<1>1. day' \in Days /\ day <= day'
  BY Settings DEF Fits, TablesFit, BillingType
<1> QED BY <1>1, ShrinksHolds, DatesKept DEF DatesHold

\* A row's other fields change.
LEMMA DatesRows ==
  ASSUME BillingAssumption, SubscriptionsAssumption, Fits, DatesHold,
         runs' = runs, day' = day, Shrinks,
         \A s \in Subs : sub[s] # NoSub =>
           sub'[s] # NoSub /\ sub'[s].next = sub[s].next /\ sub'[s].moves = sub[s].moves
  PROVE  DatesHold'
<1>1. day' \in Days /\ day <= day'
  BY Settings DEF Fits, TablesFit, BillingType
<1>2. \A s \in Subs : sub[s] # NoSub => sub[s].moves \in Nat /\ sub[s].next \in Nat
  BY RowTypes DEF Fits
<1>3. ASSUME NEW s \in Subs, sub[s] # NoSub
      PROVE  /\ sub'[s] # NoSub /\ sub'[s].moves \in Nat /\ sub[s].moves <= sub'[s].moves
             /\ sub'[s].next = sub[s].next /\ sub'[s].next \in Nat /\ sub'[s].next >= sub[s].next
  <2>1. \A k \in Nat : k <= k /\ k >= k
    OBVIOUS
  <2>2. sub[s].moves \in Nat /\ sub[s].next \in Nat
    BY <1>2, <1>3
  <2>3. sub'[s] # NoSub /\ sub'[s].next = sub[s].next /\ sub'[s].moves = sub[s].moves
    BY <1>3
  <2> QED BY <2>1, <2>2, <2>3
<1>8. SubGrows
  BY <1>3 DEF SubGrows
<1>4. DateStays
  BY <1>3 DEF DateStays
<1>5. RunsGrow
  BY DEF RunsGrow
<1>6. CopiesHold'
  BY <1>1, <1>8, <1>5, ShrinksHolds, CopiesKept DEF DatesHold
<1>7. RunsHold' /\ OncePerDayUnlessStale'
  BY <1>1, <1>4, RunsKept DEF DatesHold
<1> QED BY <1>6, <1>7 DEF DatesHold

\* A copy just taken.
LEMMA FreshHolds ==
  ASSUME BillingAssumption, SubscriptionsAssumption, Fits, DatesHold, UNCHANGED <<sub, runs, day>>,
         NEW x \in Threads, NEW s \in Subs, sub[s] # NoSub, NEW c, c = CopyOf(s),
         work'[x].today = day, work'[x].by = "sweep" => Listed(s)
  PROVE  /\ sub'[c.id] # NoSub
         /\ c.row.moves <= sub'[c.id].moves
         /\ c.row.moves = sub'[c.id].moves =>
              /\ c.row.next = sub'[c.id].next
              /\ \A i \in RowsOf(runs') : runs'[i].sub = c.id => runs'[i].day <= work'[x].today
         /\ work'[x].by = "sweep" => c.row.next <= work'[x].today
<1>1. c.id = s /\ c.row = sub[s] /\ sub[s].moves \in Nat
  BY RowTypes DEF Fits
<1>2. \A i \in RowsOf(runs) : runs[i].day <= day
  BY DEF DatesHold, RunsHold
<1> QED BY <1>1, <1>2 DEF Listed

\* One thread takes copies.
LEMMA TakesCopies ==
  ASSUME BillingAssumption, SubscriptionsAssumption, Fits, DatesHold, UNCHANGED <<sub, runs, day>>,
         NEW w \in Threads, NEW by \in {"none", "sweep", "run"}, NEW todo \in Seq(Copies),
         work' = [work EXCEPT ![w] = Holding(by, day, todo)],
         \A k \in RowsOf(todo) : \E s \in Subs :
           todo[k] = CopyOf(s) /\ sub[s] # NoSub /\ (by = "sweep" => Listed(s))
  PROVE  DatesHold'
<1>0. day \in Days /\ day' \in Days /\ day <= day'
  BY Settings DEF Fits, TablesFit, BillingType
<1>1. work'[w].today = day /\ work'[w].todo = todo /\ work'[w].by = by
  BY <1>0, HoldingType DEF Fits, ThreadsFit
<1>2. ASSUME NEW x \in Threads
      PROVE  /\ work'[x].today <= day'
             /\ \A k \in RowsOf(work'[x].todo) : FromHeld(x, k) \/ CopyHolds(x, work[x].todo[k])'
  <2>1. CASE x # w
    <3>1. work'[x] = work[x]
      BY <2>1 DEF Fits, ThreadsFit
    <3>2. work[x].today <= day
      BY DEF DatesHold, CopiesHold
    <3> QED BY <3>1, <3>2 DEF FromHeld
  <2>2. CASE x = w
    <3>1. ASSUME NEW k \in RowsOf(todo) PROVE CopyHolds(x, work[x].todo[k])'
      <4>1. PICK s \in Subs : todo[k] = CopyOf(s) /\ sub[s] # NoSub /\ (by = "sweep" => Listed(s))
        OBVIOUS
      <4>2. PICK c : c = todo[k]
        OBVIOUS
      <4>3. /\ sub'[c.id] # NoSub
            /\ c.row.moves <= sub'[c.id].moves
            /\ c.row.moves = sub'[c.id].moves =>
                 /\ c.row.next = sub'[c.id].next
                 /\ \A i \in RowsOf(runs') : runs'[i].sub = c.id => runs'[i].day <= work'[x].today
            /\ work'[x].by = "sweep" => c.row.next <= work'[x].today
        BY <1>1, <2>2, <4>1, <4>2, FreshHolds
      <4>4. work'[x].todo[k] = c
        BY <1>1, <2>2, <4>2
      <4> QED BY <4>3, <4>4 DEF CopyHolds
    <3>2. work'[x].today <= day'
      BY <1>0, <1>1, <2>2, Settings
    <3> QED BY <1>1, <2>2, <3>1, <3>2
  <2> QED BY <2>1, <2>2
<1>3. WorkFrom
  BY <1>2 DEF WorkFrom
<1> QED BY <1>0, <1>3, DatesKept

LEMMA StartSweepDates ==
  ASSUME BillingAssumption, SubscriptionsAssumption, Fits, DatesHold, NEW w \in Threads, StartSweep(w)
  PROVE  DatesHold'
<1>1. UNCHANGED <<sub, runs, day>>
  BY DEF StartSweep, book
<1>2. PICK todo \in Seq(Copies) :
        /\ work' = [work EXCEPT ![w] = Holding("sweep", day, todo)]
        /\ \A i \in RowsOf(todo) : \E s \in Subs : todo[i] = CopyOf(s) /\ sub[s] # NoSub /\ Listed(s)
  BY SweepHolds
<1> QED BY <1>1, <1>2, TakesCopies

LEMMA RunNowDates ==
  ASSUME BillingAssumption, SubscriptionsAssumption, Fits, DatesHold, NEW w \in Threads, RunNow(w)
  PROVE  DatesHold'
<1>1. /\ call[w].kind = "run" /\ Exists(w) /\ UNCHANGED <<sub, runs, day>>
  BY DEF RunNow, Handles, book
<1>2. Target(w) \in Subs /\ sub[Target(w)] # NoSub
  BY <1>1, CallTypes DEF Fits, Says, Target, Exists
<1>3. CASE sub[Target(w)].status = "active"
  <2> DEFINE c == CopyOf(Target(w))
             q == <<c>>
  <2>1. c \in Copies
    BY <1>2, RowTypes DEF Fits
  <2>2. work' = [work EXCEPT ![w] = Holding("run", day, q)]
    BY <1>3 DEF RunNow
  <2>3. c = CopyOf(Target(w))
    OBVIOUS
  <2> HIDE DEF c
  <2>4. q \in Seq(Copies) /\ \A k \in RowsOf(q) : q[k] = c
    BY <2>1, OneCopy
  <2> HIDE DEF q
  <2>5. \A k \in RowsOf(q) : \E s \in Subs : q[k] = CopyOf(s) /\ sub[s] # NoSub
    BY <1>2, <2>3, <2>4
  <2> QED BY <1>1, <2>2, <2>4, <2>5, TakesCopies
<1>4. CASE sub[Target(w)].status # "active"
  <2>1. Shrinks
    BY <1>4, FinishShrinks DEF RunNow, Fits
  <2> QED BY <1>1, <2>1, DatesShrink
<1> QED BY <1>3, <1>4

LEMMA LoadSubDates ==
  ASSUME BillingAssumption, SubscriptionsAssumption, Fits, DatesHold, NEW w \in Threads, LoadSub(w)
  PROVE  DatesHold'
<1>1. call[w].kind \in {"update", "skip"} /\ Exists(w) /\ UNCHANGED <<sub, runs, day>>
  BY DEF LoadSub, book
<1>2. Target(w) \in Subs /\ sub[Target(w)] # NoSub
  BY <1>1, CallTypes DEF Fits, Says, Target, Exists
<1>3. CASE ~ Finish(w)
  <2> DEFINE c == CopyOf(Target(w))
             q == <<c>>
  <2>1. c \in Copies
    BY <1>2, RowTypes DEF Fits
  <2>2. work' = [work EXCEPT ![w] = Holding("none", day, q)]
    BY <1>3 DEF LoadSub
  <2>3. c = CopyOf(Target(w))
    OBVIOUS
  <2> HIDE DEF c
  <2>4. q \in Seq(Copies) /\ \A k \in RowsOf(q) : q[k] = c
    BY <2>1, OneCopy
  <2> HIDE DEF q
  <2>5. \A k \in RowsOf(q) : \E s \in Subs : q[k] = CopyOf(s) /\ sub[s] # NoSub
    BY <1>2, <2>3, <2>4
  <2> QED BY <1>1, <2>2, <2>4, <2>5, TakesCopies
<1>4. CASE Finish(w)
  <2>1. Shrinks
    BY <1>4, FinishShrinks DEF Fits
  <2> QED BY <1>1, <2>1, DatesShrink
<1> QED BY <1>3, <1>4

\* What a thread works on is a row that is there.
LEMMA CurHolds ==
  ASSUME BillingAssumption, SubscriptionsAssumption, Fits, DatesHold, NEW w \in Threads, stage[w] \in AtWork
  PROVE  CopyHolds(w, Cur(w)) /\ sub[Cur(w).id] # NoSub /\ work[w].today <= day
<1>1. Cur(w) = work[w].todo[1] /\ 1 \in RowsOf(work[w].todo)
  BY CopyTypes DEF Fits
<1>2. CopyHolds(w, work[w].todo[1]) /\ work[w].today <= day
  BY <1>1 DEF DatesHold, CopiesHold
<1> QED BY <1>1, <1>2 DEF CopyHolds

\* One row's date moves.
LEMMA OneRowGrows ==
  ASSUME BillingAssumption, SubscriptionsAssumption, Fits, NEW id \in Subs,
         sub[id] # NoSub, sub'[id] # NoSub, sub'[id].moves = sub[id].moves + 1,
         \A x \in Subs \ {id} : sub'[x] = sub[x]
  PROVE  SubGrows
<1>1. \A s \in Subs : sub[s] # NoSub => sub[s].moves \in Nat
  BY RowTypes DEF Fits
<1>2. ASSUME NEW s \in Subs, sub[s] # NoSub
      PROVE  /\ sub'[s] # NoSub /\ sub'[s].moves \in Nat /\ sub[s].moves <= sub'[s].moves
             /\ sub'[s].moves = sub[s].moves => sub'[s].next = sub[s].next
  <2>1. CASE s = id
    BY <1>1, <2>1
  <2>2. CASE s # id
    BY <1>1, <1>2, <2>2
  <2> QED BY <2>1, <2>2
<1> QED BY <1>2 DEF SubGrows

LEMMA SkipDates ==
  ASSUME BillingAssumption, SubscriptionsAssumption, Fits, DatesHold, NEW w \in Threads, Skip(w)
  PROVE  DatesHold'
<1>1. UNCHANGED <<runs, day>> /\ Finish(w) /\ stage[w] \in AtWork
  BY DEF Skip, book, AtWork
<1>2. sub[Cur(w).id] # NoSub
  BY <1>1, CurHolds
<1> DEFINE id == Cur(w).id
<1>3. /\ id \in Subs /\ sub[id] # NoSub
      /\ sub' \in [Subs -> {NoSub} \cup SubRow]
      /\ \A x \in Subs \ {id} : sub'[x] = sub[x]
      /\ sub'[id] # NoSub /\ sub'[id].next > day /\ sub'[id].moves = sub[id].moves + 1
  BY <1>2, SkipMoves
<1> HIDE DEF id
<1>4. SubGrows
  BY <1>3, OneRowGrows
<1>5. RunsGrow
  BY <1>1 DEF RunsGrow
<1>6. DateStays
  <2>1. \A r \in SubRow : r.next \in Nat
    BY DEF SubRow
  <2>2. \A s \in Subs : sub[s] # NoSub => sub[s].next \in Nat
    BY RowTypes DEF Fits
  <2>3. sub'[id].next \in Nat
    BY <1>3, <2>1
  <2>4. ASSUME NEW s \in Subs, sub[s] # NoSub
        PROVE  sub'[s] # NoSub /\ sub'[s].next \in Nat /\ (sub'[s].next >= sub[s].next \/ sub'[s].next > day)
    <3>1. CASE s = id
      BY <1>3, <2>3, <3>1
    <3>2. CASE s # id
      BY <1>3, <2>2, <2>4, <3>2
    <3> QED BY <3>1, <3>2
  <2> QED BY <2>4 DEF DateStays
<1>7. day' \in Days /\ day <= day'
  BY <1>1, Settings DEF Fits, TablesFit, BillingType
<1>8. Shrinks
  BY <1>1, FinishShrinks DEF Fits
<1>9. CopiesHold'
  BY <1>4, <1>5, <1>7, <1>8, ShrinksHolds, CopiesKept DEF DatesHold
<1>10. RunsHold' /\ OncePerDayUnlessStale'
  BY <1>1, <1>6, <1>7, RunsKept DEF DatesHold
<1> QED BY <1>9, <1>10 DEF DatesHold

\* A run is noted and its subscription's date set.
LEMMA RunNoted ==
  ASSUME BillingAssumption, SubscriptionsAssumption, Fits, DatesHold, NEW w \in Threads, NEW n,
         stage[w] = "write", NoteRun(w, n), AdvanceRow(w), NextCopy(w), day' = day
  PROVE  DatesHold'
<1> DEFINE id == Cur(w).id
           r == RunOf(w, n)
<1>1. stage[w] \in AtWork
  BY DEF AtWork
<1>2. CopyHolds(w, Cur(w)) /\ sub[id] # NoSub /\ work[w].today <= day
  BY <1>1, CurHolds
<1>3. work[w].today \in Nat /\ day \in Nat /\ day \in Days
  BY HeldTypes, Settings DEF Fits, TablesFit, BillingType
<1>4. /\ r.sub = id /\ r.day = work[w].today /\ r.by = work[w].by
      /\ r.stale = (sub[id].moves # Cur(w).row.moves)
  BY DEF RunOf, Cur
<1>5. /\ id \in Subs
      /\ sub' \in [Subs -> {NoSub} \cup SubRow]
      /\ \A x \in Subs \ {id} : sub'[x] = sub[x]
      /\ sub'[id] # NoSub /\ sub'[id].next > work[w].today /\ sub'[id].moves = sub[id].moves + 1
  BY <1>1, <1>2, AdvanceMoves
<1>6. /\ Cur(w).row.moves = sub[id].moves => Cur(w).row.next = sub[id].next
      /\ Cur(w).row.moves = sub[id].moves =>
           \A i \in RowsOf(runs) : runs[i].sub = id => runs[i].day <= work[w].today
      /\ work[w].by = "sweep" => Cur(w).row.next <= work[w].today
  BY <1>2 DEF CopyHolds
<1>7. sub[id].next \in Nat /\ sub'[id].next \in Nat
  <2>1. \A s \in Subs : sub[s] # NoSub => sub[s].next \in Nat
    BY RowTypes DEF Fits
  <2>2. \A x \in SubRow : x.next \in Nat
    BY DEF SubRow
  <2> HIDE DEF id
  <2> QED BY <1>2, <1>5, <2>1, <2>2
<1>8. runs' = Append(runs, r) /\ runs \in Seq(RunRow)
  BY DEF NoteRun, Fits, TablesFit
<1> DEFINE N == Len(runs)
<1> HIDE DEF id, r
<1>9. /\ N \in Nat /\ Len(runs') = N + 1 /\ runs'[N + 1] = r
      /\ \A i \in 1..N : runs'[i] = runs[i]
  <2>1. N \in Nat
    BY RunTypes DEF Fits
  <2>2. Len(runs') = N + 1
    BY <1>8, <2>1, LenProperties
  <2>3. runs'[N + 1] = r /\ \A i \in 1..N : runs'[i] = runs[i]
    BY <1>8, <2>1
  <2> QED BY <2>1, <2>2, <2>3
<1> HIDE DEF N
<1>10. RowsOf(runs) = 1..N /\ RowsOf(runs') = 1..(N + 1)
  BY <1>9 DEF RowsOf, N
<1>11. \A i \in 1..(N + 1) : i \in 1..N \/ i = N + 1
  BY <1>9
<1>12. SubGrows
  BY <1>2, <1>5, OneRowGrows
<1>13. RunsGrow
  BY <1>4, <1>5, <1>9, <1>10, <1>11 DEF RunsGrow
<1>14. CopiesHold'
  <2>1. Shrinks
    BY NextCopyShrinks DEF Fits
  <2>2. day' \in Days /\ day <= day'
    BY <1>3
  <2> QED BY <1>12, <1>13, <2>1, <2>2, ShrinksHolds, CopiesKept DEF DatesHold
<1>15. \A i \in 1..N : /\ runs[i].sub \in Subs /\ sub[runs[i].sub] # NoSub
                       /\ runs[i].day \in Nat /\ runs[i].day <= day
  BY <1>10, RunTypes DEF Fits, DatesHold, RunsHold
<1>16. \A i \in 1..(N + 1) : sub'[runs'[i].sub] # NoSub /\ runs'[i].day <= day'
  <2>1. \A i \in 1..N : sub'[runs[i].sub] # NoSub
    BY <1>5, <1>15
  <2> QED BY <1>2, <1>4, <1>5, <1>9, <1>11, <1>15, <2>1
<1>17. ASSUME NEW s \in Subs, \A k \in 1..(N + 1) : runs'[k].sub = s => ~ runs'[k].stale,
              NEW i \in 1..(N + 1), runs'[i].sub = s
       PROVE  runs'[i].day < sub'[s].next
  <2>1. \A k \in 1..N : k \in 1..(N + 1) /\ runs'[k] = runs[k]
    BY <1>9
  <2>2. \A k \in 1..N : runs[k].sub = s => ~ runs[k].stale
    BY <1>17, <2>1
  <2>3. CASE s # id
    <3>1. i \in 1..N /\ runs'[i] = runs[i]
      BY <1>4, <1>9, <1>11, <1>17, <2>3
    <3>2. runs[i].day < sub[s].next
      BY <1>10, <1>17, <2>2, <3>1 DEF DatesHold, RunsHold, DueLater
    <3> QED BY <1>5, <2>3, <3>1, <3>2
  <2>4. CASE s = id
    <3>1. ~ r.stale
      BY <1>4, <1>9, <1>17, <2>4
    <3>2. Cur(w).row.moves = sub[id].moves
      BY <1>4, <3>1
    <3>3. runs'[i].day <= work[w].today /\ runs'[i].day \in Nat
      <4>1. CASE i \in 1..N
        <5>1. runs[i].sub = id /\ runs[i].day \in Nat /\ runs'[i].day = runs[i].day
          BY <1>15, <1>17, <2>1, <2>4, <4>1
        <5>2. runs[i].day <= work[w].today
          BY <1>6, <1>10, <3>2, <4>1, <5>1
        <5> QED BY <5>1, <5>2
      <4>2. CASE i = N + 1
        BY <1>3, <1>4, <1>9, <4>2
      <4> QED BY <1>11, <4>1, <4>2
    <3> QED BY <1>3, <1>5, <1>7, <2>4, <3>3
  <2> QED BY <2>3, <2>4
<1>18. RunsHold'
  BY <1>10, <1>16, <1>17 DEF RunsHold, DueLater
<1>19. ASSUME NEW i \in 1..(N + 1), NEW j \in 1..(N + 1), i < j,
              runs'[i].sub = runs'[j].sub, runs'[i].day = runs'[j].day,
              runs'[i].by = "sweep", runs'[j].by = "sweep"
       PROVE  \E k \in 1..(N + 1) : runs'[k].sub = runs'[i].sub /\ runs'[k].stale
  <2>1. \A k \in 1..N : k \in 1..(N + 1) /\ runs'[k] = runs[k]
    BY <1>9
  <2>2. i \in 1..N /\ runs'[i] = runs[i]
    BY <1>9, <1>11, <1>19
  <2>3. CASE j \in 1..N
    <3>1. \E k \in 1..N : runs[k].sub = runs[i].sub /\ runs[k].stale
      BY <1>10, <1>19, <2>1, <2>2, <2>3 DEF DatesHold, OncePerDayUnlessStale
    <3> QED BY <2>1, <2>2, <3>1
  <2>4. CASE j = N + 1
    <3>1. runs[i].sub = id /\ runs[i].day = work[w].today /\ work[w].by = "sweep"
      BY <1>4, <1>9, <1>19, <2>2, <2>4
    <3>2. CASE r.stale
      BY <1>4, <1>9, <1>19, <2>4, <3>2
    <3>3. CASE \E k \in 1..N : runs[k].sub = id /\ runs[k].stale
      BY <2>1, <2>2, <3>1, <3>3
    <3>4. CASE ~ r.stale /\ \A k \in 1..N : runs[k].sub = id => ~ runs[k].stale
      <4>1. Cur(w).row.moves = sub[id].moves
        BY <1>4, <3>4
      <4>2. runs[i].day < sub[id].next
        BY <1>5, <1>10, <2>2, <3>1, <3>4 DEF DatesHold, RunsHold, DueLater
      <4>3. sub[id].next <= work[w].today
        BY <1>6, <3>1, <4>1
      <4> QED BY <1>3, <1>7, <3>1, <4>2, <4>3
    <3> QED BY <3>2, <3>3, <3>4
  <2> QED BY <1>11, <2>3, <2>4
<1>20. OncePerDayUnlessStale'
  BY <1>10, <1>19 DEF OncePerDayUnlessStale
<1> QED BY <1>14, <1>18, <1>20 DEF DatesHold

\* What the step of a gate or a handler leaves alone.
LEMMA DatesSame ==
  ASSUME BillingAssumption, SubscriptionsAssumption, Fits, DatesHold, UNCHANGED <<sub, runs, day, work>>
  PROVE  DatesHold'
BY SameShrinks, DatesShrink

LEMMA HandleDates ==
  ASSUME BillingAssumption, SubscriptionsAssumption, Fits, DatesHold, NEW w \in Threads, Handle(w)
  PROVE  Fits' /\ DatesHold'
<1>1. CASE PlaceOrder(w)
  BY <1>1, PlaceOrderFits, DatesSame DEF PlaceOrder
<1>2. CASE RunNow(w)
  BY <1>2, RunNowFits, RunNowDates
<1>3. CASE AdminSetStatus(w)
  <2>1. runs' = runs /\ day' = day /\ Shrinks
    BY <1>3, FinishShrinks DEF AdminSetStatus, book, Fits
  <2> QED BY <1>3, <2>1, AdminSetStatusFits, DatesRows
<1>4. CASE LoadSub(w)
  BY <1>4, LoadSubFits, LoadSubDates
<1>5. CASE UpdateSubscription(w)
  <2>1. runs' = runs /\ day' = day /\ Shrinks /\ stage[w] \in AtWork
    BY <1>5, FinishShrinks DEF UpdateSubscription, book, Fits, AtWork
  <2>2. sub[Cur(w).id] # NoSub
    BY <2>1, CurHolds
  <2> QED BY <1>5, <2>1, <2>2, UpdateSubscriptionFits, DatesRows
<1>6. CASE Skip(w)
  <2>1. sub[Cur(w).id] # NoSub
    BY <1>6, CurHolds DEF Skip, AtWork
  <2> QED BY <1>6, <2>1, SkipFits, SkipDates
<1>7. CASE Create(w)
  <2>1. runs' = runs /\ day' = day /\ Shrinks
    BY <1>7, FinishShrinks DEF Create, book, Fits
  <2>2. Fits' /\ \A s \in Subs : sub[s] # NoSub => sub'[s] = sub[s]
    BY <1>7, CreateFits
  <2>3. \A s \in Subs : sub[s] # NoSub =>
          sub'[s] # NoSub /\ sub'[s].next = sub[s].next /\ sub'[s].moves = sub[s].moves
    BY <2>2
  <2> QED BY <2>1, <2>2, <2>3, DatesRows
<1>8. CASE NotFound(w)
  <2>1. sub' = sub /\ runs' = runs /\ day' = day /\ Shrinks
    BY <1>8, FinishShrinks DEF NotFound, book, Fits
  <2> QED BY <1>8, <2>1, NotFoundFits, DatesShrink
<1> QED BY <1>1, <1>2, <1>3, <1>4, <1>5, <1>6, <1>7, <1>8 DEF Handle

LEMMA RunDates ==
  ASSUME BillingAssumption, SubscriptionsAssumption, Fits, DatesHold, NEW w \in Threads, Run(w)
  PROVE  Fits' /\ DatesHold'
<1>1. stage[w] \in AtWork
  BY DEF Run, Price, RunFailed, RunOrders, AtWork
<1>2. sub[Cur(w).id] # NoSub
  BY <1>1, CurHolds
<1>3. CASE Price(w)
  <2>1. sub' = sub /\ runs' = runs /\ day' = day /\ Shrinks
    BY <1>3, PriceShrinks DEF Price, book, Fits
  <2> QED BY <1>2, <1>3, <2>1, PriceFits, DatesShrink
<1>4. CASE RunFailed(w)
  <2>1. stage[w] = "write" /\ NoteRun(w, 0) /\ AdvanceRow(w) /\ NextCopy(w) /\ day' = day
    BY <1>4 DEF RunFailed
  <2> QED BY <1>2, <1>4, <2>1, RunFailedFits, RunNoted
<1>5. CASE RunOrders(w)
  <2>1. stage[w] = "write" /\ NoteRun(w, Len(order')) /\ AdvanceRow(w) /\ NextCopy(w) /\ day' = day
    BY <1>5 DEF RunOrders
  <2> QED BY <1>2, <1>5, <2>1, RunOrdersFits, RunNoted
<1> QED BY <1>3, <1>4, <1>5 DEF Run

\* Nothing has invalidated for a change that is not written.
Written == \A w \in Threads : call[w].version <= version

LEMMA GateDates ==
  ASSUME BillingAssumption, SubscriptionsAssumption, Fits, DatesHold, Written, NEW w \in Threads,
         PassGate(w) \/ Operate(w), Others
  PROVE  Fits' /\ DatesHold'
<1>1. DatesHold'
  BY DatesSame DEF Others, book
<1>2. CASE PassGate(w)
  BY <1>1, <1>2, LookupFits, FetchFits, StoreFits, QuotaFits, RecordFits DEF PassGate
<1>3. CASE Operate(w)
  BY <1>1, <1>3, SetOrgPlanFits, UpdatePlanFits, FlushFits DEF Operate, Written
<1> QED BY <1>1, <1>2, <1>3

LEMMA StepDates ==
  ASSUME BillingAssumption, SubscriptionsAssumption, Fits, DatesHold, Written, [SubNext]_subVars
  PROVE  Fits' /\ DatesHold'
<1>1. ASSUME NEW w \in Threads, Request(w) PROVE Fits' /\ DatesHold'
  BY <1>1, AskingFits, DatesSame DEF Request, Others, book
<1>2. ASSUME NEW w \in Threads, StartSweep(w) PROVE Fits' /\ DatesHold'
  BY <1>2, StartSweepFits, StartSweepDates
<1>3. ASSUME NEW w \in Threads, Proceed(w) PROVE Fits' /\ DatesHold'
  BY <1>3, GateDates, HandleDates, RunDates DEF Proceed
<1>4. ASSUME NEW w \in Threads, RunBreaks(w) PROVE Fits' /\ DatesHold'
  <2>1. sub' = sub /\ runs' = runs /\ day' = day /\ Shrinks
    BY <1>4, NextCopyShrinks DEF RunBreaks, book, Fits
  <2> QED BY <1>4, <2>1, RunBreaksFits, DatesShrink
<1>5. ASSUME NEW w \in Threads, HandlerFails(w) PROVE Fits' /\ DatesHold'
  <2>1. sub' = sub /\ runs' = runs /\ day' = day /\ Shrinks
    BY <1>5, FinishShrinks DEF HandlerFails, book, Fits
  <2> QED BY <1>5, <2>1, HandlerFailsFits, DatesShrink
<1>6. CASE Expire /\ Others
  BY <1>6, ExpireFits, DatesSame DEF Others, book
<1>7. CASE Tomorrow
  <2>1. sub' = sub /\ runs' = runs /\ work' = work
    BY <1>7 DEF Tomorrow, book
  <2>2. Fits'
    BY <1>7, TomorrowFits
  <2>3. day' \in Days /\ day <= day'
    BY <1>7, <2>2, Settings DEF Tomorrow, Fits, TablesFit, BillingType
  <2> QED BY <2>1, <2>2, <2>3, SameShrinks, ShrinksHolds, DatesKept DEF DatesHold
<1>8. CASE UNCHANGED subVars
  BY <1>8, StutterFits, DatesSame DEF subVars, book
<1> QED BY <1>1, <1>2, <1>3, <1>4, <1>5, <1>6, <1>7, <1>8 DEF SubNext, Quiet

LEMMA InitDates ==
  ASSUME BillingAssumption, SubscriptionsAssumption, SubInit
  PROVE  DatesHold
<1>1. RowsOf(runs) = {} /\ \A w \in Threads : work[w].today = FirstDay /\ RowsOf(work[w].todo) = {}
  BY DEF SubInit, RowsOf, NoWork, Holding
<1>2. FirstDay <= day
  BY DEF SubInit, BillingInit, BillingAssumption
<1> QED BY <1>1, <1>2 DEF DatesHold, CopiesHold, RunsHold, DueLater, OncePerDayUnlessStale

-----------------------------------------------------------------------------
(* What brings a date forward.                                             *)

EarlierFor(s) ==
  sub[s] # NoSub /\ sub'[s].next < sub[s].next =>
    \E w \in Threads :
      /\ Writer(w)
      /\ work[w].by = "run" \/ Head(work[w].todo).row.moves # sub[s].moves

LEMMA StaysNotEarlier ==
  ASSUME BillingAssumption, SubscriptionsAssumption, Fits, NEW s \in Subs, sub[s] # NoSub => sub'[s].next = sub[s].next
  PROVE  EarlierFor(s)
<1>1. sub[s] # NoSub => sub[s].next \in Nat
  BY RowTypes DEF Fits
<1>2. \A n \in Nat : ~ (n < n)
  OBVIOUS
<1> QED BY <1>1, <1>2 DEF EarlierFor

LEMMA AdvanceEarlier ==
  ASSUME BillingAssumption, SubscriptionsAssumption, Fits, DatesHold, NEW w \in Threads, NEW s \in Subs,
         stage[w] = "write", AdvanceRow(w), NextCopy(w)
  PROVE  EarlierFor(s)
<1>1. stage[w] \in AtWork
  BY DEF AtWork
<1>2. CopyHolds(w, Cur(w)) /\ sub[Cur(w).id] # NoSub
  BY <1>1, CurHolds
<1>3. /\ Cur(w).id \in Subs
      /\ sub' \in [Subs -> {NoSub} \cup SubRow]
      /\ \A x \in Subs \ {Cur(w).id} : sub'[x] = sub[x]
      /\ sub'[Cur(w).id] # NoSub /\ sub'[Cur(w).id].next > work[w].today
  BY <1>1, <1>2, AdvanceMoves
<1>4. Writer(w)
  BY DEF Writer, NextCopy, Finish, Leave, MoveTo, Fits, ThreadsFit
<1>5. CASE s # Cur(w).id
  BY <1>3, <1>5, StaysNotEarlier
<1>6. CASE s = Cur(w).id
  <2>1. work[w].by \in {"sweep", "run"}
    BY CallTypes, CopyTypes, <1>1 DEF Fits, ThreadFits
  <2>2. CASE work[w].by = "run" \/ Cur(w).row.moves # sub[s].moves
    BY <1>4, <2>2 DEF EarlierFor, Cur
  <2>3. CASE work[w].by = "sweep" /\ Cur(w).row.moves = sub[s].moves
    <3>1. sub[s].next <= work[w].today
      BY <1>2, <1>6, <2>3 DEF CopyHolds
    <3>2. sub'[s].next > work[w].today
      BY <1>3, <1>6
    <3>3. work[w].today \in Nat /\ sub[s].next \in Nat
      BY <1>2, <1>6, HeldTypes, RowTypes DEF Fits
    <3>4. sub'[s].next \in Nat
      <4>1. \A x \in SubRow : x.next \in Nat
        BY DEF SubRow
      <4> QED BY <1>3, <1>6, <4>1
    <3>5. ~ (sub'[s].next < sub[s].next)
      BY <3>1, <3>2, <3>3, <3>4
    <3> QED BY <3>5 DEF EarlierFor
  <2> QED BY <2>1, <2>2, <2>3
<1> QED BY <1>5, <1>6

LEMMA SkipEarlier ==
  ASSUME BillingAssumption, SubscriptionsAssumption, Fits, DatesHold, NEW w \in Threads, NEW s \in Subs, Skip(w)
  PROVE  EarlierFor(s)
<1>1. stage[w] = "skip" /\ stage[w] \in AtWork /\ Finish(w)
  BY DEF AtWork, Skip
<1>2. CopyHolds(w, Cur(w)) /\ sub[Cur(w).id] # NoSub
  BY <1>1, CurHolds
<1>3. /\ Cur(w).id \in Subs
      /\ sub' \in [Subs -> {NoSub} \cup SubRow]
      /\ \A x \in Subs \ {Cur(w).id} : sub'[x] = sub[x]
      /\ sub'[Cur(w).id] # NoSub /\ sub'[Cur(w).id].next > Cur(w).row.next
  BY <1>2, SkipMoves
<1>4. Writer(w)
  BY <1>1 DEF Writer, Finish, Leave, MoveTo, Fits, ThreadsFit
<1>5. CASE s # Cur(w).id
  BY <1>3, <1>5, StaysNotEarlier
<1>6. CASE s = Cur(w).id
  <2>1. CASE Cur(w).row.moves # sub[s].moves
    BY <1>4, <2>1 DEF EarlierFor, Cur
  <2>2. CASE Cur(w).row.moves = sub[s].moves
    <3>1. sub[s].next = Cur(w).row.next
      BY <1>2, <1>6, <2>2 DEF CopyHolds
    <3>2. sub[s].next \in Nat
      BY <1>2, <1>6, RowTypes DEF Fits
    <3>3. sub'[s].next \in Nat
      <4>1. \A x \in SubRow : x.next \in Nat
        BY DEF SubRow
      <4> QED BY <1>3, <1>6, <4>1
    <3>4. ~ (sub'[s].next < sub[s].next)
      BY <1>3, <1>6, <3>1, <3>2, <3>3
    <3> QED BY <3>4 DEF EarlierFor
  <2> QED BY <2>1, <2>2
<1> QED BY <1>5, <1>6

LEMMA StepEarlier ==
  ASSUME BillingAssumption, SubscriptionsAssumption, Fits, DatesHold, [SubNext]_subVars, NEW s \in Subs
  PROVE  EarlierFor(s)
<1>1. CASE sub' = sub
  BY <1>1, StaysNotEarlier
<1>2. ASSUME NEW w \in Threads, Handle(w), sub' # sub PROVE EarlierFor(s)
  <2>1. CASE AdminSetStatus(w)
    BY <2>1, AdminSetStatusFits, StaysNotEarlier
  <2>2. CASE UpdateSubscription(w)
    <3>1. sub[Cur(w).id] # NoSub
      BY <2>2, CurHolds DEF UpdateSubscription, AtWork
    <3> QED BY <2>2, <3>1, UpdateSubscriptionFits, StaysNotEarlier
  <2>3. CASE Skip(w)
    BY <2>3, SkipEarlier
  <2>4. CASE Create(w)
    <3>1. sub[s] # NoSub => sub'[s] = sub[s]
      BY <2>4, CreateFits
    <3>2. sub[s] # NoSub => sub'[s].next = sub[s].next
      BY <3>1
    <3> QED BY <3>2, StaysNotEarlier
  <2> QED BY <1>2, <2>1, <2>2, <2>3, <2>4 DEF Handle, PlaceOrder, RunNow, LoadSub, NotFound
<1>3. ASSUME NEW w \in Threads, Run(w), sub' # sub PROVE EarlierFor(s)
  <2>1. stage[w] = "write" /\ AdvanceRow(w) /\ NextCopy(w)
    BY <1>3 DEF Run, Price, RunFailed, RunOrders
  <2> QED BY <2>1, AdvanceEarlier
<1>4. ASSUME NEW w \in Threads, Proceed(w), sub' # sub PROVE EarlierFor(s)
  BY <1>2, <1>3, <1>4 DEF Proceed, Others
<1>5. CASE sub' # sub
  <2>1. \E w \in Threads : Proceed(w)
    BY <1>5 DEF SubNext, Request, Others, StartSweep, RunBreaks, HandlerFails, Tomorrow, Quiet, subVars
  <2> QED BY <1>4, <1>5, <2>1
<1> QED BY <1>1, <1>5

-----------------------------------------------------------------------------
(* What the gate holds.                                                    *)

\* A metered request past the quota and not recorded yet.
Metering(l, r) == l \in {"handle", "record"} /\ r.metered
Metered == {w \in Threads : Metering(stage[w], call[w])}

\* A thread goes on and the gate holds nothing new for it.
Onward(l, r, l2, r2) ==
  /\ r2.version \in {0, r.version}
  /\ l2 \in {"store", "quota"} => l2 = l /\ r2 = r
  /\ Metering(l2, r2) => Metering(l, r)

AllOnward == \A x \in Threads : Onward(stage[x], call[x], stage'[x], call'[x])

LEMMA OneOnward ==
  ASSUME ThreadsFit, NEW w \in Threads, NEW l, NEW r, Onward(stage[w], call[w], l, r),
         stage' = [stage EXCEPT ![w] = l], call' = [call EXCEPT ![w] = r]
  PROVE  /\ AllOnward
         /\ l # "record" /\ stage[w] # "record" => Recording' = Recording
<1>1. stage'[w] = l /\ call'[w] = r
  BY DEF ThreadsFit
<1>2. \A x \in Threads \ {w} : stage'[x] = stage[x] /\ call'[x] = call[x]
  BY DEF ThreadsFit
<1>3. ASSUME NEW x \in Threads PROVE Onward(stage[x], call[x], stage'[x], call'[x])
  <2>1. CASE x = w
    BY <1>1, <2>1
  <2>2. CASE x # w
    <3>1. stage'[x] = stage[x] /\ call'[x] = call[x]
      BY <1>2, <2>2
    <3> QED BY <3>1 DEF Onward
  <2> QED BY <2>1, <2>2
<1>4. ASSUME l # "record", stage[w] # "record" PROVE Recording' = Recording
  BY <1>1, <1>2, <1>4 DEF Recording
<1> QED BY <1>3, <1>4 DEF AllOnward

LEMMA OneMovesOn ==
  ASSUME ThreadsFit, NEW w \in Threads, NEW l, l \notin {"store", "quota", "handle", "record"},
         stage' = [stage EXCEPT ![w] = l], call' = call
  PROVE  AllOnward /\ (stage[w] # "record" => Recording' = Recording)
<1>1. call' = [call EXCEPT ![w] = call[w]]
  BY DEF ThreadsFit
<1>2. Onward(stage[w], call[w], l, call[w])
  BY DEF Onward, Metering
<1> QED BY <1>1, <1>2, OneOnward

LEMMA LeaveOnward ==
  ASSUME ThreadsFit, NEW w \in Threads, NEW l, l \in {"idle", "price"},
         stage' = [stage EXCEPT ![w] = l], call' = [call EXCEPT ![w] = NoCall]
  PROVE  AllOnward /\ (stage[w] # "record" => Recording' = Recording)
<1>1. Onward(stage[w], call[w], l, NoCall)
  BY DEF Onward, Metering, NoCall
<1> QED BY <1>1, OneOnward

LEMMA FinishOnward ==
  ASSUME ThreadsFit, NEW w \in Threads, Finish(w), stage[w] # "record"
  PROVE  AllOnward /\ Recording' = Recording
BY LeaveOnward DEF Finish, Leave, MoveTo

LEMMA NextCopyOnward ==
  ASSUME ThreadsFit, NEW w \in Threads, stage[w] \in {"price", "write"}, NextCopy(w)
  PROVE  AllOnward /\ Recording' = Recording
<1>1. CASE Finish(w)
  BY <1>1, FinishOnward
<1>2. CASE stage' = [stage EXCEPT ![w] = "price"] /\ call' = call
  BY <1>2, OneMovesOn
<1> QED BY <1>1, <1>2 DEF NextCopy, MoveTo

LEMMA RequestOnward ==
  ASSUME ThreadsFit, NEW w \in Threads, Request(w)
  PROVE  AllOnward /\ Recording' = Recording /\ failed' = failed
<1>1. ASSUME NEW l, l \in {"gate", "assign", "edit"}, NEW r, r.version = 0, Begin(w, l, r)
      PROVE  AllOnward /\ Recording' = Recording /\ failed' = failed
  <2>1. stage[w] = "idle" /\ stage' = [stage EXCEPT ![w] = l] /\ call' = [call EXCEPT ![w] = r]
        /\ failed' = failed
    BY <1>1 DEF Begin, MoveTo
  <2>2. Onward(stage[w], call[w], l, r)
    BY <1>1 DEF Onward, Metering
  <2> QED BY <1>1, <2>1, <2>2, OneOnward
<1>2. \A kind, about : CallFor(kind, about).version = 0 /\ Gated(kind, about).version = 0
  BY DEF CallFor, Gated, NoCall
<1>3. [CallFor("checkout", Nothing) EXCEPT !.metered = TRUE].version = 0
  BY DEF CallFor, NoCall
<1>4. CASE AskAssign(w)
  BY <1>1, <1>2, <1>4 DEF AskAssign
<1>5. CASE AskEdit(w)
  BY <1>1, <1>2, <1>5 DEF AskEdit
<1>6. CASE Ask(w)
  <2>1. CASE Begin(w, "gate", [CallFor("checkout", Nothing) EXCEPT !.metered = TRUE])
    BY <1>1, <1>3, <2>1
  <2>2. CASE \E kind, about : Begin(w, "gate", Gated(kind, about))
    BY <1>1, <1>2, <2>2
  <2> QED BY <1>6, <2>1, <2>2 DEF Ask
<1> QED BY <1>4, <1>5, <1>6 DEF Request

LEMMA HandleOnward ==
  ASSUME ThreadsFit, NEW w \in Threads, Handle(w)
  PROVE  /\ AllOnward /\ failed' = failed
         /\ Recording' = Recording \/ PlaceOrder(w)
<1>1. failed' = failed /\ stage[w] # "record"
  BY DEF Handle, PlaceOrder, RunNow, AdminSetStatus, LoadSub, UpdateSubscription, Skip, Create,
         NotFound, Handles, counts
<1>2. CASE Finish(w)
  BY <1>1, <1>2, FinishOnward
<1>3. CASE PlaceOrder(w)
  <2>1. stage[w] = "handle" /\ stage' = [stage EXCEPT ![w] = "record"] /\ call' = call
    BY <1>3 DEF PlaceOrder, Handles, MoveTo
  <2>2. call' = [call EXCEPT ![w] = call[w]]
    BY <2>1 DEF ThreadsFit
  <2>3. Onward(stage[w], call[w], "record", call[w])
    BY <2>1 DEF Onward, Metering
  <2> QED BY <1>1, <1>3, <2>1, <2>2, <2>3, OneOnward
<1>4. CASE RunNow(w)
  <2>1. CASE stage' = [stage EXCEPT ![w] = "price"] /\ call' = [call EXCEPT ![w] = NoCall]
    BY <1>1, <2>1, LeaveOnward
  <2> QED BY <1>2, <1>4, <2>1 DEF RunNow, MoveTo
<1>5. CASE LoadSub(w)
  <2>1. CASE stage' = [stage EXCEPT ![w] = call[w].kind] /\ call' = call
    <3>1. call[w].kind \notin {"store", "quota", "handle", "record"}
      BY <1>5 DEF LoadSub
    <3> QED BY <1>1, <2>1, <3>1, OneMovesOn
  <2> QED BY <1>2, <1>5, <2>1 DEF LoadSub, MoveTo
<1>6. CASE ~ (PlaceOrder(w) \/ RunNow(w) \/ LoadSub(w))
  <2>1. Finish(w)
    BY <1>6 DEF Handle, AdminSetStatus, UpdateSubscription, Skip, Create, NotFound
  <2> QED BY <1>2, <2>1
<1> QED BY <1>3, <1>4, <1>5, <1>6

LEMMA RunOnward ==
  ASSUME ThreadsFit, NEW w \in Threads, Run(w)
  PROVE  AllOnward /\ Recording' = Recording /\ failed' = failed
<1>1. failed' = failed
  BY DEF Run, Price, RunFailed, RunOrders, counts
<1>2. CASE Price(w)
  <2>1. stage[w] = "price" /\ stage' = [stage EXCEPT ![w] = "write"] /\ call' = call
    BY <1>2 DEF Price, MoveTo
  <2> QED BY <1>1, <2>1, OneMovesOn
<1>3. CASE RunFailed(w) \/ RunOrders(w)
  <2>1. stage[w] \in {"price", "write"} /\ NextCopy(w)
    BY <1>3 DEF RunFailed, RunOrders
  <2> QED BY <1>1, <2>1, NextCopyOnward
<1> QED BY <1>2, <1>3 DEF Run

\* What is done outside the gate.
Outside(w) == Request(w) \/ StartSweep(w) \/ Handle(w) \/ Run(w) \/ RunBreaks(w) \/ HandlerFails(w)

LEMMA OutsideOnward ==
  ASSUME BillingAssumption, Fits, NEW w \in Threads, Outside(w)
  PROVE  /\ AllOnward /\ UNCHANGED <<billing, day>> /\ failed <= failed'
         /\ Recording' = Recording \/ PlaceOrder(w)
<1>1. ThreadsFit /\ failed \in Nat
  BY DEF Fits, TablesFit, BillingType, BillingAssumption
<1>2. UNCHANGED <<billing, day>>
  <2>1. CASE Request(w) \/ StartSweep(w) \/ Run(w)
    BY <2>1 DEF Request, Others, StartSweep, Run, Price, RunFailed, RunOrders
  <2>2. CASE Handle(w)
    BY <2>2 DEF Handle, PlaceOrder, RunNow, AdminSetStatus, LoadSub, UpdateSubscription, Skip, Create, NotFound
  <2>3. CASE RunBreaks(w) \/ HandlerFails(w)
    BY <2>3 DEF RunBreaks, HandlerFails
  <2> QED BY <2>1, <2>2, <2>3 DEF Outside
<1>3. failed' = failed => failed <= failed'
  BY <1>1
<1>4. CASE Request(w) \/ Handle(w) \/ Run(w)
  BY <1>1, <1>2, <1>3, <1>4, RequestOnward, HandleOnward, RunOnward
<1>5. CASE StartSweep(w)
  <2>1. stage[w] = "idle" /\ stage' = [stage EXCEPT ![w] = "price"] /\ call' = call /\ failed' = failed
    BY <1>5 DEF StartSweep, MoveTo, counts
  <2> QED BY <1>1, <1>2, <1>3, <2>1, OneMovesOn
<1>6. CASE RunBreaks(w) \/ HandlerFails(w)
  <2>1. failed <= failed'
    BY <1>1, <1>6 DEF RunBreaks, HandlerFails, Breaks
  <2>2. AllOnward /\ Recording' = Recording
    BY <1>1, <1>6, NextCopyOnward, FinishOnward DEF RunBreaks, HandlerFails
  <2> QED BY <1>2, <2>1, <2>2
<1> QED BY <1>4, <1>5, <1>6 DEF Outside

\* A fill that has read before an invalidation and not stored yet is marked.
FillsMarked ==
  \A w \in Threads : stage[w] = "store" /\ call[w].version < told[Node[w]] => call[w].raced

NodesFresh == Written /\ FillsMarked /\ AnsweredNodeIsFresh

LEMMA VersionTypes ==
  ASSUME BillingAssumption, SubscriptionsAssumption, Fits
  PROVE  /\ version \in Nat
         /\ \A n \in Nodes : told[n] \in Nat /\ told[n] <= version
         /\ \A w \in Threads : call[w].version \in Nat /\ Node[w] \in Nodes
<1>1. version \in Nat /\ told \in [Nodes -> 0..version]
  BY DEF Fits, TablesFit, BillingType
<1> QED BY <1>1, CallTypes, Settings DEF Fits

\* No change is written or told of, and no fill begins.
LEMMA FreshOnward ==
  ASSUME BillingAssumption, SubscriptionsAssumption, Fits, NodesFresh,
         \A x \in Threads :
           /\ call'[x].version \in {0, call[x].version}
           /\ stage'[x] = "store" => stage[x] = "store" /\ call'[x] = call[x],
         version' = version, told' = told,
         \A n \in Nodes : cache'[n] # NoEntry /\ cache'[n].version < told'[n] => cache'[n].raced
  PROVE  NodesFresh'
<1>1. Written'
  <2>1. ASSUME NEW x \in Threads PROVE call'[x].version <= version'
    <3>1. call[x].version <= version /\ version \in Nat
      BY VersionTypes DEF NodesFresh, Written
    <3> QED BY <3>1
  <2> QED BY <2>1 DEF Written
<1>2. FillsMarked'
  BY DEF NodesFresh, FillsMarked
<1>3. AnsweredNodeIsFresh'
  BY DEF AnsweredNodeIsFresh
<1> QED BY <1>1, <1>2, <1>3 DEF NodesFresh

LEMMA OutsideFresh ==
  ASSUME BillingAssumption, SubscriptionsAssumption, Fits, NodesFresh, AllOnward, UNCHANGED billing
  PROVE  NodesFresh'
<1>1. \A x \in Threads :
        /\ call'[x].version \in {0, call[x].version}
        /\ stage'[x] = "store" => stage[x] = "store" /\ call'[x] = call[x]
  BY DEF AllOnward, Onward
<1>2. version' = version /\ told' = told /\ cache' = cache
  BY DEF billing, accounts
<1> QED BY <1>1, <1>2, FreshOnward DEF NodesFresh, AnsweredNodeIsFresh

\* What Admit makes of a thread's request.
LEMMA AdmitSays ==
  ASSUME ThreadsFit, NEW w \in Threads, NEW ent, Admit(w, ent)
  PROVE  /\ call'[w].version \in {0, call[w].version} /\ stage'[w] \in {"idle", "quota", "handle"}
         /\ stage'[w] # "idle" => call'[w].ent = ent
         /\ Metering(stage'[w], call'[w]) => FALSE
         /\ \A x \in Threads \ {w} : stage'[x] = stage[x] /\ call'[x] = call[x]
<1>1. call[w] \in CallRow
  BY DEF ThreadsFit
<1>2. CASE Leave(w)
  BY <1>2 DEF Leave, MoveTo, ThreadsFit, NoCall, Metering
<1>3. CASE ~ Leave(w)
  <2> DEFINE r == [call[w] EXCEPT !.ent = ent]
             l == IF call[w].metered THEN "quota" ELSE "handle"
  <2>1. r.version = call[w].version /\ r.ent = ent /\ r.metered = call[w].metered
    BY <1>1 DEF CallRow
  <2>2. stage' = [stage EXCEPT ![w] = l] /\ call' = [call EXCEPT ![w] = r]
    BY <1>3 DEF Admit, MoveTo
  <2>3. stage'[w] = l /\ call'[w] = r
    BY <2>2 DEF ThreadsFit
  <2>4. \A x \in Threads \ {w} : stage'[x] = stage[x] /\ call'[x] = call[x]
    BY <2>2 DEF ThreadsFit
  <2> QED BY <2>1, <2>3, <2>4 DEF Metering
<1> QED BY <1>2, <1>3

LEMMA LookupFresh ==
  ASSUME BillingAssumption, SubscriptionsAssumption, Fits, NodesFresh, NEW w \in Threads, Lookup(w)
  PROVE  NodesFresh'
<1>1. stage[w] = "gate" /\ UNCHANGED billing
  BY DEF Lookup
<1>2. version' = version /\ told' = told /\ cache' = cache
  BY <1>1 DEF billing, accounts
<1>3. CASE Admit(w, cache[Node[w]].ent)
  <2>1. \A x \in Threads :
          /\ call'[x].version \in {0, call[x].version}
          /\ stage'[x] = "store" => stage[x] = "store" /\ call'[x] = call[x]
    BY <1>3, AdmitSays DEF Fits
  <2> QED BY <1>2, <2>1, FreshOnward DEF NodesFresh, AnsweredNodeIsFresh
<1>4. CASE MoveTo(w, "fetch") /\ UNCHANGED call
  <2>1. AllOnward
    BY <1>4, OneMovesOn DEF MoveTo, Fits
  <2> QED BY <1>1, <2>1, OutsideFresh
<1> QED BY <1>3, <1>4 DEF Lookup

LEMMA FetchFresh ==
  ASSUME BillingAssumption, SubscriptionsAssumption, Fits, NodesFresh, NEW w \in Threads, Fetch(w)
  PROVE  NodesFresh'
<1>1. UNCHANGED billing
  BY DEF Fetch
<1>2. version' = version /\ told' = told /\ cache' = cache
  BY <1>1 DEF billing, accounts
<1>3. call'[w].version = version /\ \A x \in Threads \ {w} : stage'[x] = stage[x] /\ call'[x] = call[x]
  <2>1. PICK ent \in {Entitlements, NoPlan} :
          call' = [call EXCEPT ![w].ent = ent, ![w].version = version, ![w].raced = FALSE]
    BY DEF Fetch
  <2>2. call[w] \in CallRow /\ call'[w] = [call[w] EXCEPT !.ent = ent, !.version = version, !.raced = FALSE]
    BY <2>1 DEF Fits, ThreadsFit
  <2>3. call'[w].version = version
    BY <2>2 DEF CallRow
  <2>4. \A x \in Threads \ {w} : call'[x] = call[x]
    BY <2>1 DEF Fits, ThreadsFit
  <2> QED BY <2>3, <2>4 DEF Fetch, MoveTo, Fits, ThreadsFit
<1>4. \A n \in Nat : n <= n /\ \A m \in Nat : m <= n => ~ (n < m)
  OBVIOUS
<1>5. Written'
  BY <1>2, <1>3, <1>4, VersionTypes DEF NodesFresh, Written
<1>6. FillsMarked'
  <2>1. ASSUME NEW x \in Threads, stage'[x] = "store", call'[x].version < told'[Node[x]]
        PROVE  call'[x].raced
    <3>1. x # w
      BY <1>2, <1>3, <1>4, <2>1, VersionTypes
    <3> QED BY <1>2, <1>3, <2>1, <3>1 DEF NodesFresh, FillsMarked
  <2> QED BY <2>1 DEF FillsMarked
<1> QED BY <1>2, <1>5, <1>6 DEF NodesFresh, AnsweredNodeIsFresh

LEMMA StoreFresh ==
  ASSUME BillingAssumption, SubscriptionsAssumption, Fits, NodesFresh, NEW w \in Threads, Store(w)
  PROVE  NodesFresh'
<1>1. /\ stage[w] = "store" /\ Admit(w, call[w].ent) /\ version' = version /\ told' = told
      /\ cache' = [cache EXCEPT ![Node[w]] = Filled(call[w].ent, call[w].version, call[w].raced)]
  BY DEF Store, accounts
<1>2. \A x \in Threads :
        /\ call'[x].version \in {0, call[x].version}
        /\ stage'[x] = "store" => stage[x] = "store" /\ call'[x] = call[x]
  BY <1>1, AdmitSays DEF Fits
<1>3. ASSUME NEW n \in Nodes, cache'[n] # NoEntry, cache'[n].version < told'[n] PROVE cache'[n].raced
  <2>1. CASE n = Node[w]
    <3>1. cache'[n] = Filled(call[w].ent, call[w].version, call[w].raced)
      BY <1>1, <2>1 DEF Fits, TablesFit, BillingType
    <3>2. cache'[n].version = call[w].version /\ cache'[n].raced = call[w].raced
      BY <3>1 DEF Filled
    <3> QED BY <1>1, <1>3, <2>1, <3>2 DEF NodesFresh, FillsMarked
  <2>2. CASE n # Node[w]
    <3>1. cache'[n] = cache[n]
      BY <1>1, <2>2 DEF Fits, TablesFit, BillingType
    <3> QED BY <1>1, <1>3, <3>1 DEF NodesFresh, AnsweredNodeIsFresh
  <2> QED BY <2>1, <2>2
<1> QED BY <1>1, <1>2, <1>3, FreshOnward

LEMMA QuotaFresh ==
  ASSUME BillingAssumption, SubscriptionsAssumption, Fits, NodesFresh, NEW w \in Threads, Quota(w)
  PROVE  NodesFresh'
<1>1. version' = version /\ told' = told /\ cache' = cache
  BY DEF Quota, billing, accounts
<1>2. \A x \in Threads :
        /\ call'[x].version \in {0, call[x].version}
        /\ stage'[x] = "store" => stage[x] = "store" /\ call'[x] = call[x]
  <2>1. CASE Leave(w)
    BY <2>1 DEF Leave, MoveTo, NoCall, Fits, ThreadsFit
  <2>2. CASE MoveTo(w, "handle") /\ call' = call
    BY <2>2 DEF MoveTo, Fits, ThreadsFit
  <2> QED BY <2>1, <2>2 DEF Quota
<1> QED BY <1>1, <1>2, FreshOnward DEF NodesFresh, AnsweredNodeIsFresh

LEMMA RecordFresh ==
  ASSUME BillingAssumption, SubscriptionsAssumption, Fits, NodesFresh, NEW w \in Threads, Record(w)
  PROVE  NodesFresh'
<1>1. version' = version /\ told' = told /\ cache' = cache
  BY DEF Record, accounts
<1>2. \A x \in Threads :
        /\ call'[x].version \in {0, call[x].version}
        /\ stage'[x] = "store" => stage[x] = "store" /\ call'[x] = call[x]
  BY DEF Record, Leave, MoveTo, NoCall, Fits, ThreadsFit
<1> QED BY <1>1, <1>2, FreshOnward DEF NodesFresh, AnsweredNodeIsFresh

LEMMA ExpireFresh ==
  ASSUME BillingAssumption, SubscriptionsAssumption, Fits, NodesFresh, Expire
  PROVE  NodesFresh'
<1>1. version' = version /\ told' = told /\ stage' = stage /\ call' = call
  BY DEF Expire, accounts
<1>2. PICK n \in Nodes : cache' = [cache EXCEPT ![n] = NoEntry]
  BY DEF Expire
<1>3. \A k \in Nodes : cache'[k] # NoEntry => cache'[k] = cache[k]
  BY <1>2 DEF Fits, TablesFit, BillingType
<1> QED BY <1>1, <1>3, FreshOnward DEF NodesFresh, AnsweredNodeIsFresh

\* A change is written: every mark is of an earlier one.
LEMMA WrittenFresh ==
  ASSUME BillingAssumption, SubscriptionsAssumption, Fits, NodesFresh, NEW w \in Threads,
         version' = version + 1, told' = told, cache' = cache,
         call' = [call EXCEPT ![w].version = version'], MoveTo(w, "flush")
  PROVE  NodesFresh'
<1>1. call'[w].version = version + 1 /\ stage'[w] = "flush"
  BY DEF MoveTo, Fits, ThreadsFit, CallRow
<1>2. \A x \in Threads \ {w} : stage'[x] = stage[x] /\ call'[x] = call[x]
  BY DEF MoveTo, Fits, ThreadsFit
<1>3. Written'
  <2>1. ASSUME NEW x \in Threads PROVE call'[x].version <= version'
    <3>1. version \in Nat /\ call[x].version \in Nat /\ call[x].version <= version
      BY VersionTypes DEF NodesFresh, Written
    <3> QED BY <1>1, <1>2, <3>1
  <2> QED BY <2>1 DEF Written
<1>4. FillsMarked'
  BY <1>1, <1>2 DEF NodesFresh, FillsMarked
<1> QED BY <1>3, <1>4 DEF NodesFresh, AnsweredNodeIsFresh

LEMMA FlushFresh ==
  ASSUME BillingAssumption, SubscriptionsAssumption, Fits, NodesFresh, NEW w \in Threads, Flush(w)
  PROVE  NodesFresh'
<1> DEFINE n == Node[w]
<1>1. /\ stage[w] = "flush" /\ stage' = [stage EXCEPT ![w] = "idle"] /\ call' = Marked(w)
      /\ cache' = [cache EXCEPT ![n] = NoEntry]
      /\ told' = [told EXCEPT ![n] = IF call[w].version > told[n] THEN call[w].version ELSE told[n]]
      /\ version' = version
  BY DEF Flush, MoveTo, Dropped, Marked, accounts
<1>2. n \in Nodes
  BY Settings
<1>3. \A k \in Nodes \ {n} : cache'[k] = cache[k] /\ told'[k] = told[k]
  BY <1>1 DEF Fits, TablesFit, BillingType
<1>4. ASSUME NEW x \in Threads
      PROVE  /\ call'[x].version \in {0, call[x].version}
             /\ stage'[x] = "store" =>
                  stage[x] = "store" /\ call'[x].version = call[x].version
                  /\ IF Node[x] = n THEN call'[x].raced ELSE call'[x].raced = call[x].raced
  <2>1. call'[x] = IF x = w THEN NoCall
                   ELSE IF stage[x] = "store" /\ Node[x] = n
                   THEN [call[x] EXCEPT !.raced = TRUE] ELSE call[x]
    BY <1>1 DEF Marked
  <2>2. stage'[x] = IF x = w THEN "idle" ELSE stage[x]
    BY <1>1 DEF Fits, ThreadsFit
  <2>3. call[x] \in CallRow /\ NoCall.version = 0
    BY DEF Fits, ThreadsFit, NoCall
  <2>4. [call[x] EXCEPT !.raced = TRUE].version = call[x].version /\ [call[x] EXCEPT !.raced = TRUE].raced
    BY <2>3 DEF CallRow
  <2> HIDE DEF n
  <2> QED BY <2>1, <2>2, <2>3, <2>4
<1>5. Written'
  <2>1. ASSUME NEW x \in Threads PROVE call'[x].version <= version'
    <3>1. call[x].version <= version /\ version \in Nat /\ call[x].version \in Nat
      BY VersionTypes DEF NodesFresh, Written
    <3>2. call'[x].version \in {0, call[x].version}
      BY <1>4
    <3> QED BY <1>1, <3>1, <3>2
  <2> QED BY <2>1 DEF Written
<1>6. FillsMarked'
  <2>1. ASSUME NEW x \in Threads, stage'[x] = "store", call'[x].version < told'[Node[x]]
        PROVE  call'[x].raced
    <3>1. CASE Node[x] = n
      BY <1>4, <2>1, <3>1
    <3>2. CASE Node[x] # n
      <4>1. told'[Node[x]] = told[Node[x]]
        BY <1>3, <3>2, Settings
      <4> QED BY <1>4, <2>1, <3>2, <4>1 DEF NodesFresh, FillsMarked
    <3> QED BY <3>1, <3>2
  <2> QED BY <2>1 DEF FillsMarked
<1>7. AnsweredNodeIsFresh'
  <2>1. ASSUME NEW k \in Nodes, cache'[k] # NoEntry, cache'[k].version < told'[k] PROVE cache'[k].raced
    <3>1. k # n
      BY <1>1, <2>1 DEF Fits, TablesFit, BillingType
    <3> QED BY <1>3, <2>1, <3>1 DEF NodesFresh, AnsweredNodeIsFresh
  <2> QED BY <2>1 DEF AnsweredNodeIsFresh
<1> QED BY <1>5, <1>6, <1>7 DEF NodesFresh

\* A gate's or an operator's step, the cache's and the calendar's.
Inside(w) == PassGate(w) \/ Operate(w)

LEMMA InsideFresh ==
  ASSUME BillingAssumption, SubscriptionsAssumption, Fits, NodesFresh, NEW w \in Threads, Inside(w)
  PROVE  NodesFresh'
<1>1. CASE PassGate(w)
  BY <1>1, LookupFresh, FetchFresh, StoreFresh, QuotaFresh, RecordFresh DEF PassGate
<1>2. CASE SetOrgPlan(w)
  BY <1>2, WrittenFresh DEF SetOrgPlan
<1>3. CASE UpdatePlan(w)
  BY <1>3, WrittenFresh DEF UpdatePlan
<1>4. CASE Flush(w)
  BY <1>4, FlushFresh
<1> QED BY <1>1, <1>2, <1>3, <1>4 DEF Inside, Operate

LEMMA SubNextCases ==
  ASSUME [SubNext]_subVars
  PROVE  \/ \E w \in Threads : Outside(w)
         \/ \E w \in Threads : Inside(w) /\ Others
         \/ Expire /\ Others
         \/ Tomorrow
         \/ UNCHANGED subVars
BY DEF SubNext, Outside, Inside, Proceed, Quiet

LEMMA StepFresh ==
  ASSUME BillingAssumption, SubscriptionsAssumption, Fits, NodesFresh, [SubNext]_subVars
  PROVE  NodesFresh'
<1>1. ASSUME NEW w \in Threads, Outside(w) PROVE NodesFresh'
  BY <1>1, OutsideOnward, OutsideFresh
<1>2. CASE Tomorrow \/ UNCHANGED subVars
  <2>1. UNCHANGED billing /\ stage' = stage /\ call' = call
    BY <1>2 DEF Tomorrow, subVars
  <2>2. AllOnward
    BY <2>1 DEF AllOnward, Onward
  <2> QED BY <2>1, <2>2, OutsideFresh
<1> QED BY <1>1, <1>2, InsideFresh, ExpireFresh, SubNextCases

LEMMA InitFresh ==
  ASSUME BillingAssumption, SubscriptionsAssumption, SubInit
  PROVE  NodesFresh
<1>1. version = 0 /\ (\A n \in Nodes : told[n] = 0) /\ \A w \in Threads : call[w] = NoCall /\ stage[w] = "idle"
  BY DEF SubInit, BillingInit
<1>2. NoCall.version = 0
  BY DEF NoCall
<1>3. \A n \in Nodes : cache[n] \in {NoEntry, Filled(plans[assigned], 0, FALSE)}
  BY DEF SubInit, BillingInit
<1>4. Filled(plans[assigned], 0, FALSE).version = 0
  BY DEF Filled
<1>5. AnsweredNodeIsFresh
  <2>1. ASSUME NEW n \in Nodes, cache[n] # NoEntry PROVE ~ (cache[n].version < told[n])
    <3>1. cache[n].version = 0 /\ told[n] = 0
      BY <1>1, <1>3, <1>4, <2>1
    <3> QED BY <3>1
  <2> QED BY <2>1 DEF AnsweredNodeIsFresh
<1> QED BY <1>1, <1>2, <1>5 DEF NodesFresh, Written, FillsMarked

-----------------------------------------------------------------------------
(* The overrun of a period.                                                *)

\* No plan has changed and no statement has failed.
Calm == version = 0 /\ failed = 0

\* What is held of the organization's plan is its plan.
PlanHeld ==
  Calm =>
    /\ \A n \in Nodes : cache[n] # NoEntry => cache[n].ent = plans[assigned]
    /\ \A w \in Threads : stage[w] \in {"store", "quota"} => call[w].ent = plans[assigned]

\* A period counts what is recorded and what is past the quota.
UsageHolds ==
  /\ \A m \in Months : m > PeriodKey(day) => usage[m] = 0
  /\ Calm => \A cap \in plans[assigned].limits :
       /\ Metered # {} => cap >= 1
       /\ \A m \in Months : usage[m] < cap + Cardinality(Threads)
       /\ usage[PeriodKey(day)] + Cardinality(Metered) < cap + Cardinality(Threads)

GateHolds == PlanHeld /\ UsageHolds

LEMMA PeriodsFollow ==
  ASSUME BillingAssumption, NEW d \in Nat
  PROVE  PeriodKey(d) \in Nat /\ PeriodKey(d) <= PeriodKey(d + 1)
<1>1. MonthLength \in Nat \ {0}
  BY DEF BillingAssumption
<1> DEFINE q == d \div MonthLength
           p == (d + 1) \div MonthLength
<1>2. q \in Nat /\ MonthLength * q <= d /\ d < MonthLength * (q + 1)
  BY <1>1
<1>3. p \in Nat /\ MonthLength * p <= d + 1 /\ d + 1 < MonthLength * (p + 1)
  BY <1>1
<1> HIDE DEF q, p
<1>4. ASSUME p < q PROVE FALSE
  <2>1. p + 1 <= q
    BY <1>2, <1>3, <1>4
  <2>2. \A a, b, c \in Nat : a <= b => c * a <= c * b
    OBVIOUS
  <2>3. MonthLength * (p + 1) <= MonthLength * q
    BY <1>1, <1>2, <1>3, <2>1, <2>2
  <2>4. MonthLength * (p + 1) \in Nat /\ MonthLength * q \in Nat
    BY <1>1, <1>2, <1>3
  <2> QED BY <1>2, <1>3, <2>3, <2>4
<1> QED BY <1>2, <1>3, <1>4 DEF q, p, PeriodKey

LEMMA UsageTypes ==
  ASSUME BillingAssumption, SubscriptionsAssumption, Fits
  PROVE  /\ PeriodKey(day) \in Months /\ Months \subseteq Nat
         /\ \A m \in Months : usage[m] \in Nat
         /\ Cardinality(Threads) \in Nat \ {0}
         /\ IsFiniteSet(Metered) /\ Cardinality(Metered) \in Nat
         /\ Cardinality(Metered) <= Cardinality(Threads)
         /\ Metered = {} => Cardinality(Metered) = 0
         /\ plans[assigned] \in PlanRow /\ plans[assigned].limits \subseteq Nat
         /\ assigned # NoPlan /\ plans[assigned] # NoPlan
         /\ version \in Nat /\ failed \in Nat
<1>1. Months \subseteq Nat
  BY PeriodsFollow, Settings DEF Months
<1>2. IsFiniteSet(Threads) /\ Threads # {}
  BY DEF BillingAssumption
<1>3. Cardinality(Threads) \in Nat \ {0}
  BY <1>2, FS_CardinalityType, FS_EmptySet
<1>4. Metered \subseteq Threads
  BY DEF Metered
<1>5. IsFiniteSet(Metered) /\ Cardinality(Metered) \in Nat /\ Cardinality(Metered) <= Cardinality(Threads)
  BY <1>2, <1>4, FS_Subset, FS_CardinalityType
<1>6. Metered = {} => Cardinality(Metered) = 0
  BY FS_EmptySet
<1>7. plans[assigned] \in PlanRow /\ assigned \in Codes /\ version \in Nat /\ failed \in Nat
  BY DEF Fits, TablesFit, BillingType, BillingAssumption
<1>8. plans[assigned].limits \subseteq Nat /\ assigned # NoPlan /\ plans[assigned] # NoPlan
  BY <1>7 DEF PlanRow, BillingAssumption
<1> QED BY <1>1, <1>3, <1>5, <1>6, <1>7, <1>8, Settings DEF Fits, TablesFit, BillingType

\* Fewer are past the quota, and the plan and the counters are what they were.
LEMMA UsageStays ==
  ASSUME BillingAssumption, SubscriptionsAssumption, Fits, UsageHolds, Metered' \subseteq Metered,
         UNCHANGED <<plans, assigned, usage, day>>, Calm' => Calm
  PROVE  UsageHolds'
<1>1. \A m \in Months : m > PeriodKey(day)' => usage'[m] = 0
  BY DEF UsageHolds, PeriodKey
<1>2. ASSUME Calm', NEW cap \in plans'[assigned'].limits
      PROVE  /\ Metered' # {} => cap >= 1
             /\ \A m \in Months : usage'[m] < cap + Cardinality(Threads)
             /\ usage'[PeriodKey(day')] + Cardinality(Metered') < cap + Cardinality(Threads)
  <2>1. /\ Metered # {} => cap >= 1
        /\ \A m \in Months : usage[m] < cap + Cardinality(Threads)
        /\ usage[PeriodKey(day)] + Cardinality(Metered) < cap + Cardinality(Threads)
    BY <1>2 DEF UsageHolds
  <2>2. Cardinality(Metered') \in Nat /\ Cardinality(Metered') <= Cardinality(Metered)
    BY UsageTypes, FS_Subset, FS_CardinalityType
  <2>3. cap \in Nat /\ usage[PeriodKey(day)] \in Nat
    BY <1>2, UsageTypes
  <2>4. usage[PeriodKey(day)] + Cardinality(Metered') < cap + Cardinality(Threads)
    BY <2>1, <2>2, <2>3, UsageTypes
  <2>5. usage' = usage /\ day' = day
    OBVIOUS
  <2> QED BY <2>1, <2>4, <2>5
<1> QED BY <1>1, <1>2 DEF UsageHolds, PeriodKey

LEMMA OutsideHolds ==
  ASSUME BillingAssumption, SubscriptionsAssumption, Fits, GateHolds, AllOnward,
         UNCHANGED <<billing, day>>, failed <= failed', failed' \in Nat
  PROVE  GateHolds'
<1>1. UNCHANGED <<plans, assigned, usage, day, cache, version>>
  BY DEF billing, accounts
<1>2. Calm' => Calm
  BY <1>1, UsageTypes DEF Calm
<1>3. Metered' \subseteq Metered
  BY DEF AllOnward, Onward, Metered
<1>4. PlanHeld'
  <2>1. \A w \in Threads : stage'[w] \in {"store", "quota"} =>
          stage[w] \in {"store", "quota"} /\ call'[w] = call[w]
    BY DEF AllOnward, Onward
  <2> QED BY <1>1, <1>2, <2>1 DEF GateHolds, PlanHeld
<1> QED BY <1>1, <1>2, <1>3, <1>4, UsageStays DEF GateHolds

\* A thread is let past the cached or the fetched entry, or goes to fetch it.
LEMMA AdmitHolds ==
  ASSUME BillingAssumption, SubscriptionsAssumption, Fits, GateHolds, NEW w \in Threads,
         NEW ent, Admit(w, ent), Calm => ent = plans[assigned],
         UNCHANGED <<plans, assigned, usage, day, version, failed>>,
         \A n \in Nodes : cache'[n] = cache[n] \/ (Calm => cache'[n].ent = plans[assigned])
  PROVE  GateHolds'
<1>1. Calm' => Calm
  BY DEF Calm
<1>2. /\ stage'[w] \in {"idle", "quota", "handle"}
      /\ stage'[w] # "idle" => call'[w].ent = ent
      /\ Metering(stage'[w], call'[w]) => FALSE
      /\ \A x \in Threads \ {w} : stage'[x] = stage[x] /\ call'[x] = call[x]
  BY AdmitSays DEF Fits
<1>3. Metered' \subseteq Metered
  BY <1>2 DEF Metered
<1>4. PlanHeld'
  <2>1. ASSUME Calm', NEW x \in Threads, stage'[x] \in {"store", "quota"}
        PROVE  call'[x].ent = plans'[assigned']
    <3>1. CASE x = w
      BY <1>1, <1>2, <2>1, <3>1
    <3>2. CASE x # w
      BY <1>1, <1>2, <2>1, <3>2 DEF GateHolds, PlanHeld
    <3> QED BY <3>1, <3>2
  <2>2. ASSUME Calm', NEW n \in Nodes, cache'[n] # NoEntry PROVE cache'[n].ent = plans'[assigned']
    BY <1>1, <2>2 DEF GateHolds, PlanHeld
  <2> QED BY <2>1, <2>2 DEF PlanHeld
<1> QED BY <1>1, <1>3, <1>4, UsageStays DEF GateHolds

LEMMA LookupHolds ==
  ASSUME BillingAssumption, SubscriptionsAssumption, Fits, GateHolds, NEW w \in Threads, Lookup(w), Others
  PROVE  GateHolds'
<1>1. UNCHANGED <<billing, counts, day>> /\ failed' = failed
  BY DEF Lookup, Others, counts
<1>2. UNCHANGED <<plans, assigned, usage, day, version, failed, cache>>
  BY <1>1 DEF billing, accounts
<1>3. CASE cache[Node[w]] # NoEntry
  <2> DEFINE e == cache[Node[w]].ent
  <2>1. Calm => e = plans[assigned]
    BY <1>3, Settings DEF GateHolds, PlanHeld
  <2>2. Admit(w, e)
    BY <1>3 DEF Lookup
  <2> HIDE DEF e
  <2> QED BY <1>2, <2>1, <2>2, AdmitHolds
<1>4. CASE cache[Node[w]] = NoEntry
  <2>1. AllOnward
    BY <1>4, OneMovesOn DEF Lookup, MoveTo, Fits
  <2>2. failed <= failed' /\ failed' \in Nat
    BY <1>1, UsageTypes
  <2> QED BY <1>1, <2>1, <2>2, OutsideHolds
<1> QED BY <1>3, <1>4

LEMMA FetchHolds ==
  ASSUME BillingAssumption, SubscriptionsAssumption, Fits, GateHolds, NEW w \in Threads, Fetch(w), Others
  PROVE  GateHolds'
<1>1. UNCHANGED <<plans, assigned, usage, day, version, cache>> /\ stage' = [stage EXCEPT ![w] = "store"]
  BY DEF Fetch, Others, billing, accounts, MoveTo
<1>2. PICK ent \in {Entitlements, NoPlan} :
        /\ call' = [call EXCEPT ![w].ent = ent, ![w].version = version, ![w].raced = FALSE]
        /\ IF ent = Entitlements THEN Works ELSE Breaks
  BY DEF Fetch
<1>3. failed' \in Nat /\ failed <= failed' /\ (ent # Entitlements => failed' # 0)
  BY <1>2, UsageTypes DEF Works, Breaks
<1>4. Calm' => Calm /\ ent = plans[assigned]
  BY <1>1, <1>3, UsageTypes DEF Calm, Entitlements
<1>5. /\ call'[w].ent = ent /\ stage'[w] = "store"
      /\ \A x \in Threads \ {w} : stage'[x] = stage[x] /\ call'[x] = call[x]
  <2>1. call[w] \in CallRow /\ call'[w] = [call[w] EXCEPT !.ent = ent, !.version = version, !.raced = FALSE]
    BY <1>2 DEF Fits, ThreadsFit
  <2>2. call'[w].ent = ent
    BY <2>1 DEF CallRow
  <2> QED BY <1>1, <1>2, <2>2 DEF Fits, ThreadsFit
<1>6. Metered' \subseteq Metered
  BY <1>5 DEF Metered, Metering
<1>7. PlanHeld'
  BY <1>1, <1>4, <1>5 DEF GateHolds, PlanHeld
<1> QED BY <1>1, <1>4, <1>6, <1>7, UsageStays DEF GateHolds

LEMMA StoreHolds ==
  ASSUME BillingAssumption, SubscriptionsAssumption, Fits, GateHolds, NEW w \in Threads, Store(w), Others
  PROVE  GateHolds'
<1> DEFINE e == call[w].ent
<1>1. /\ stage[w] = "store" /\ Admit(w, e)
      /\ cache' = [cache EXCEPT ![Node[w]] = Filled(e, call[w].version, call[w].raced)]
      /\ UNCHANGED <<plans, assigned, usage, day, version, failed>>
  BY DEF Store, Others, accounts, counts
<1>2. Calm => e = plans[assigned]
  BY <1>1 DEF GateHolds, PlanHeld
<1>3. \A n \in Nodes : cache'[n] = cache[n] \/ cache'[n].ent = e
  BY <1>1 DEF Fits, TablesFit, BillingType, Filled
<1> HIDE DEF e
<1> QED BY <1>1, <1>2, <1>3, AdmitHolds

LEMMA QuotaHolds ==
  ASSUME BillingAssumption, SubscriptionsAssumption, Fits, GateHolds, NEW w \in Threads, Quota(w), Others
  PROVE  GateHolds'
<1>1. /\ stage[w] = "quota" /\ UNCHANGED <<billing, day>>
      /\ UNCHANGED <<plans, assigned, usage, day, version, cache>>
  BY DEF Quota, Others, billing, accounts
<1>2. PICK current \in {usage[PeriodKey(day)], 0} :
        /\ IF Over(call[w].ent, current) THEN Leave(w) ELSE MoveTo(w, "handle") /\ UNCHANGED call
        /\ IF current = usage[PeriodKey(day)] THEN Works ELSE Breaks
  BY DEF Quota
<1>3. failed' \in Nat /\ failed <= failed' /\ (current # usage[PeriodKey(day)] => failed' # 0)
  BY <1>2, UsageTypes DEF Works, Breaks
<1>4. CASE Over(call[w].ent, current)
  <2>1. AllOnward
    BY <1>2, <1>4, LeaveOnward DEF Leave, MoveTo, Fits
  <2> QED BY <1>1, <1>3, <2>1, OutsideHolds
<1>5. CASE ~ Over(call[w].ent, current)
  <2>1. stage' = [stage EXCEPT ![w] = "handle"] /\ call' = call
    BY <1>2, <1>5 DEF MoveTo
  <2>2. Calm' => Calm
    BY <1>1, <1>3, UsageTypes DEF Calm
  <2>3. PlanHeld'
    <3>1. \A x \in Threads : stage'[x] \in {"store", "quota"} => stage'[x] = stage[x] /\ call'[x] = call[x]
      BY <2>1 DEF Fits, ThreadsFit
    <3> QED BY <1>1, <2>2, <3>1 DEF GateHolds, PlanHeld
  <2>4. \A m \in Months : m > PeriodKey(day)' => usage'[m] = 0
    BY <1>1 DEF GateHolds, UsageHolds, PeriodKey
  <2>5. ASSUME Calm', NEW cap \in plans'[assigned'].limits
        PROVE  /\ Metered' # {} => cap >= 1
               /\ \A m \in Months : usage'[m] < cap + Cardinality(Threads)
               /\ usage'[PeriodKey(day')] + Cardinality(Metered') < cap + Cardinality(Threads)
    <3>1. Calm /\ cap \in plans[assigned].limits /\ current = usage[PeriodKey(day)]
      BY <1>1, <1>3, <2>2, <2>5 DEF Calm
    <3>2. call[w].ent = plans[assigned]
      BY <1>1, <3>1 DEF GateHolds, PlanHeld
    <3>3. ~ (current + 1 > cap)
      BY <1>5, <3>1, <3>2, UsageTypes DEF Over
    <3>4. cap \in Nat /\ usage[PeriodKey(day)] \in Nat /\ Cardinality(Threads) \in Nat
      BY <3>1, UsageTypes
    <3>5. usage[PeriodKey(day)] + 1 <= cap /\ cap >= 1
      BY <3>1, <3>3, <3>4
    <3>6. Metered' \subseteq Threads
      BY DEF Metered
    <3>7. Cardinality(Metered') \in Nat /\ Cardinality(Metered') <= Cardinality(Threads)
      BY <3>6, FS_Subset, FS_CardinalityType DEF BillingAssumption
    <3>8. usage[PeriodKey(day)] + Cardinality(Metered') < cap + Cardinality(Threads)
      BY <3>4, <3>5, <3>7
    <3>9. \A m \in Months : usage[m] < cap + Cardinality(Threads)
      BY <3>1 DEF GateHolds, UsageHolds
    <3> QED BY <1>1, <3>5, <3>8, <3>9
  <2> QED BY <2>3, <2>4, <2>5 DEF GateHolds, UsageHolds, PeriodKey
<1> QED BY <1>4, <1>5

LEMMA RecordHolds ==
  ASSUME BillingAssumption, SubscriptionsAssumption, Fits, GateHolds, NEW w \in Threads, Record(w), Others
  PROVE  GateHolds'
<1>1. /\ stage[w] = "record" /\ UNCHANGED <<plans, assigned, day, version, cache>>
      /\ \/ Works /\ usage' = [usage EXCEPT ![PeriodKey(day)] = Increment(@)]
         \/ Breaks /\ usage' = usage
      /\ stage' = [stage EXCEPT ![w] = "idle"] /\ call' = [call EXCEPT ![w] = NoCall]
  BY DEF Record, Others, accounts, Leave, MoveTo
<1>2. AllOnward
  BY <1>1, LeaveOnward DEF Fits
<1>3. failed' \in Nat /\ failed <= failed'
  BY <1>1, UsageTypes DEF Works, Breaks
<1>4. Calm' => Calm
  BY <1>1, <1>3, UsageTypes DEF Calm
<1>5. PlanHeld'
  <2>1. \A x \in Threads : stage'[x] \in {"store", "quota"} =>
          stage[x] \in {"store", "quota"} /\ call'[x] = call[x]
    BY <1>2 DEF AllOnward, Onward
  <2> QED BY <1>1, <1>4, <2>1 DEF GateHolds, PlanHeld
<1>6. w \in Metered /\ Metered' = Metered \ {w}
  <2>1. call[w].metered
    BY <1>1, CallTypes DEF Fits, ThreadFits
  <2>2. stage'[w] = "idle" /\ \A x \in Threads \ {w} : stage'[x] = stage[x] /\ call'[x] = call[x]
    BY <1>1 DEF Fits, ThreadsFit
  <2> QED BY <1>1, <2>1, <2>2 DEF Metered, Metering
<1>7. CASE usage' = usage
  <2>1. Metered' \subseteq Metered /\ UNCHANGED <<plans, assigned, usage, day>>
    BY <1>1, <1>6, <1>7
  <2> QED BY <1>4, <1>5, <2>1, UsageStays DEF GateHolds
<1>8. CASE usage' = [usage EXCEPT ![PeriodKey(day)] = Increment(@)]
  <2> DEFINE p == PeriodKey(day)
  <2>1. p \in Months /\ p \in Nat /\ usage[p] \in Nat
    BY UsageTypes
  <2>2. usage'[p] = usage[p] + 1 /\ \A m \in Months \ {p} : usage'[m] = usage[m]
    BY <1>8, <2>1 DEF Increment, Fits, TablesFit, BillingType
  <2>3. day' = day /\ plans' = plans /\ assigned' = assigned
    BY <1>1
  <2>4. \A m \in Months : m > p => usage'[m] = 0
    BY <2>1, <2>2 DEF GateHolds, UsageHolds
  <2>5. ASSUME Calm', NEW cap \in plans'[assigned'].limits
        PROVE  /\ Metered' # {} => cap >= 1
               /\ \A m \in Months : usage'[m] < cap + Cardinality(Threads)
               /\ usage'[p] + Cardinality(Metered') < cap + Cardinality(Threads)
    <3>1. cap \in plans[assigned].limits
      BY <2>3, <2>5
    <3>2. /\ cap >= 1 /\ \A m \in Months : usage[m] < cap + Cardinality(Threads)
          /\ usage[p] + Cardinality(Metered) < cap + Cardinality(Threads)
      BY <1>4, <1>6, <2>5, <3>1 DEF GateHolds, UsageHolds
    <3>3. Cardinality(Metered') = Cardinality(Metered) - 1 /\ Cardinality(Metered) \in Nat
      BY <1>6, UsageTypes, FS_RemoveElement
    <3>4. Cardinality(Metered') \in Nat
      BY <1>6, UsageTypes, FS_Subset, FS_CardinalityType
    <3>5. cap \in Nat /\ Cardinality(Threads) \in Nat
      BY <3>1, UsageTypes
    <3>6. usage'[p] + Cardinality(Metered') < cap + Cardinality(Threads)
      BY <2>1, <2>2, <3>2, <3>3, <3>5
    <3>7. usage'[p] < cap + Cardinality(Threads)
      BY <2>1, <2>2, <3>4, <3>5, <3>6
    <3> QED BY <2>2, <3>2, <3>6, <3>7
  <2>6. PeriodKey(day)' = p
    BY <2>3 DEF PeriodKey
  <2> HIDE DEF p
  <2> QED BY <1>5, <2>4, <2>5, <2>6 DEF GateHolds, UsageHolds
<1> QED BY <1>1, <1>7, <1>8

\* A change ends the calm.
LEMMA OperateHolds ==
  ASSUME BillingAssumption, SubscriptionsAssumption, Fits, GateHolds, NEW w \in Threads,
         SetOrgPlan(w) \/ UpdatePlan(w), Others
  PROVE  GateHolds'
<1>1. version' = version + 1 /\ usage' = usage /\ day' = day
  BY DEF SetOrgPlan, UpdatePlan, Others
<1>2. ~ Calm'
  BY <1>1, UsageTypes DEF Calm
<1> QED BY <1>1, <1>2 DEF GateHolds, PlanHeld, UsageHolds, PeriodKey

LEMMA FlushHolds ==
  ASSUME BillingAssumption, SubscriptionsAssumption, Fits, GateHolds, NEW w \in Threads, Flush(w), Others
  PROVE  GateHolds'
<1>1. /\ stage[w] = "flush" /\ stage' = [stage EXCEPT ![w] = "idle"] /\ call' = Marked(w)
      /\ cache' = [cache EXCEPT ![Node[w]] = NoEntry]
      /\ UNCHANGED <<plans, assigned, version, usage, failed, day>>
  BY DEF Flush, MoveTo, Dropped, Marked, accounts, counts, Others
<1>2. ASSUME NEW x \in Threads
      PROVE  stage'[x] # "idle" =>
               stage'[x] = stage[x] /\ call'[x].ent = call[x].ent /\ call'[x].metered = call[x].metered
  <2>1. call'[x] = IF x = w THEN NoCall
                   ELSE IF stage[x] = "store" /\ Node[x] = Node[w]
                   THEN [call[x] EXCEPT !.raced = TRUE] ELSE call[x]
    BY <1>1 DEF Marked
  <2>2. stage'[x] = IF x = w THEN "idle" ELSE stage[x]
    BY <1>1 DEF Fits, ThreadsFit
  <2>3. call[x] \in CallRow
    BY DEF Fits, ThreadsFit
  <2>4. [call[x] EXCEPT !.raced = TRUE].ent = call[x].ent /\ [call[x] EXCEPT !.raced = TRUE].metered = call[x].metered
    BY <2>3 DEF CallRow
  <2> QED BY <2>1, <2>2, <2>4
<1>3. Metered' \subseteq Metered
  BY <1>2 DEF Metered, Metering
<1>4. Calm' => Calm
  BY <1>1 DEF Calm
<1>5. PlanHeld'
  <2>1. \A n \in Nodes : cache'[n] # NoEntry => cache'[n] = cache[n]
    BY <1>1 DEF Fits, TablesFit, BillingType
  <2>2. \A x \in Threads : stage'[x] \in {"store", "quota"} =>
          stage[x] \in {"store", "quota"} /\ call'[x].ent = call[x].ent
    BY <1>2
  <2> QED BY <1>1, <1>4, <2>1, <2>2 DEF GateHolds, PlanHeld
<1> QED BY <1>1, <1>3, <1>4, <1>5, UsageStays DEF GateHolds

LEMMA ExpireHolds ==
  ASSUME BillingAssumption, SubscriptionsAssumption, Fits, GateHolds, Expire, Others
  PROVE  GateHolds'
<1>1. UNCHANGED <<plans, assigned, version, usage, failed, day, stage, call>>
  BY DEF Expire, Others, accounts, counts
<1>2. PICK n \in Nodes : cache' = [cache EXCEPT ![n] = NoEntry]
  BY DEF Expire
<1>3. \A k \in Nodes : cache'[k] # NoEntry => cache'[k] = cache[k]
  BY <1>2 DEF Fits, TablesFit, BillingType
<1>4. PlanHeld'
  BY <1>1, <1>3 DEF GateHolds, PlanHeld, Calm
<1>5. Metered' \subseteq Metered
  BY <1>1 DEF Metered
<1> QED BY <1>1, <1>4, <1>5, UsageStays DEF GateHolds, Calm

LEMMA TomorrowHolds ==
  ASSUME BillingAssumption, SubscriptionsAssumption, Fits, GateHolds, Tomorrow
  PROVE  GateHolds'
<1>1. day' = day + 1 /\ UNCHANGED <<plans, assigned, version, usage, cache, failed, stage, call>>
  BY DEF Tomorrow, billing, accounts, counts
<1> DEFINE p == PeriodKey(day)
           p2 == PeriodKey(day')
<1>2. day \in Nat /\ day' \in Days
  BY TomorrowFits, Settings DEF Fits, TablesFit, BillingType
<1>3. p \in Nat /\ p2 \in Nat /\ p <= p2 /\ p2 \in Months
  BY <1>1, <1>2, PeriodsFollow, Settings
<1>4. PlanHeld'
  BY <1>1 DEF GateHolds, PlanHeld, Calm
<1>5. Metered' = Metered
  BY <1>1 DEF Metered
<1>6. \A m \in Months : m > p => usage[m] = 0
  BY DEF GateHolds, UsageHolds
<1>7. ASSUME Calm', NEW cap \in plans'[assigned'].limits
      PROVE  /\ Metered' # {} => cap >= 1
             /\ \A m \in Months : usage'[m] < cap + Cardinality(Threads)
             /\ usage'[p2] + Cardinality(Metered') < cap + Cardinality(Threads)
  <2>1. Calm /\ cap \in plans[assigned].limits
    BY <1>1, <1>7 DEF Calm
  <2>2. /\ Metered # {} => cap >= 1
        /\ \A m \in Months : usage[m] < cap + Cardinality(Threads)
        /\ usage[p] + Cardinality(Metered) < cap + Cardinality(Threads)
    BY <2>1 DEF GateHolds, UsageHolds
  <2>3. cap \in Nat /\ Cardinality(Threads) \in Nat \ {0} /\ Cardinality(Metered) \in Nat
        /\ Cardinality(Metered) <= Cardinality(Threads) /\ (Metered = {} => Cardinality(Metered) = 0)
    BY <2>1, UsageTypes
  <2>4. usage[p2] + Cardinality(Metered) < cap + Cardinality(Threads)
    <3>1. CASE p2 = p
      BY <2>2, <3>1
    <3>2. CASE p2 # p
      <4>1. usage[p2] = 0
        BY <1>3, <1>6, <3>2
      <4> QED BY <2>2, <2>3, <4>1
    <3> QED BY <3>1, <3>2
  <2> QED BY <1>1, <1>5, <2>2, <2>4
<1>8. \A m \in Months : m > p2 => usage'[m] = 0
  BY <1>1, <1>3, <1>6, UsageTypes
<1>9. PeriodKey(day)' = p2
  BY DEF PeriodKey
<1> HIDE DEF p, p2
<1> QED BY <1>4, <1>7, <1>8, <1>9 DEF GateHolds, UsageHolds, p2

LEMMA StepHolds ==
  ASSUME BillingAssumption, SubscriptionsAssumption, Fits, Fits', GateHolds, [SubNext]_subVars
  PROVE  GateHolds'
<1>0. failed' \in Nat
  BY DEF Fits, TablesFit, BillingType, BillingAssumption
<1>1. ASSUME NEW w \in Threads, Outside(w) PROVE GateHolds'
  BY <1>0, <1>1, OutsideOnward, OutsideHolds
<1>2. ASSUME NEW w \in Threads, Inside(w), Others PROVE GateHolds'
  <2>1. CASE PassGate(w)
    BY <1>2, <2>1, LookupHolds, FetchHolds, StoreHolds, QuotaHolds, RecordHolds DEF PassGate
  <2>2. CASE Operate(w)
    BY <1>2, <2>2, OperateHolds, FlushHolds DEF Operate
  <2> QED BY <1>2, <2>1, <2>2 DEF Inside
<1>3. CASE UNCHANGED subVars
  <2>1. UNCHANGED <<billing, day>> /\ stage' = stage /\ call' = call /\ failed' = failed
    BY <1>3 DEF subVars, counts
  <2>2. AllOnward
    BY <2>1 DEF AllOnward, Onward
  <2>3. failed <= failed'
    BY <2>1, UsageTypes
  <2> QED BY <1>0, <2>1, <2>2, <2>3, OutsideHolds
<1> QED BY <1>1, <1>2, <1>3, ExpireHolds, TomorrowHolds, SubNextCases

LEMMA InitHolds ==
  ASSUME BillingAssumption, SubscriptionsAssumption, SubInit
  PROVE  GateHolds
<1>1. PlanHeld
  <2>1. \A n \in Nodes : cache[n] # NoEntry => cache[n].ent = plans[assigned]
    BY DEF SubInit, BillingInit, Filled
  <2>2. \A w \in Threads : stage[w] = "idle"
    BY DEF SubInit, BillingInit
  <2> QED BY <2>1, <2>2 DEF PlanHeld
<1>2. Metered = {}
  BY DEF SubInit, BillingInit, Metered, Metering
<1>3. \A m \in Months : usage[m] = 0
  BY DEF SubInit, BillingInit
<1>4. UsageHolds
  <2>1. ASSUME NEW cap \in plans[assigned].limits
        PROVE  /\ \A m \in Months : usage[m] < cap + Cardinality(Threads)
               /\ usage[PeriodKey(day)] + Cardinality(Metered) < cap + Cardinality(Threads)
    <3>1. cap \in Nat /\ Cardinality(Threads) \in Nat \ {0} /\ Cardinality(Metered) = 0
          /\ PeriodKey(day) \in Months
      BY <1>2, InitFits, UsageTypes
    <3> QED BY <1>3, <3>1
  <2> QED BY <1>2, <1>3, <2>1 DEF UsageHolds
<1> QED BY <1>1, <1>4 DEF GateHolds

LEMMA BoundFollows ==
  ASSUME GateHolds
  PROVE  OverrunBounded
BY DEF GateHolds, UsageHolds, OverrunBounded, Calm

-----------------------------------------------------------------------------
(* Orders, runs and the meter.                                             *)

\* The rows of a table that are of some kind.
OfKind(q, K) == {i \in RowsOf(q) : q[i] \in K}

LEMMA RowsAfter ==
  ASSUME NEW S, NEW q \in Seq(S), NEW e \in S, NEW K
  PROVE  /\ Cardinality(OfKind(q, K)) \in Nat
         /\ e \in K => Cardinality(OfKind(Append(q, e), K)) = Cardinality(OfKind(q, K)) + 1
         /\ e \notin K => Cardinality(OfKind(Append(q, e), K)) = Cardinality(OfKind(q, K))
<1> DEFINE n == Len(q)
           r == Append(q, e)
           A == OfKind(q, K)
           B == OfKind(r, K)
<1>1. n \in Nat
  BY LenProperties
<1>2. Len(r) = n + 1 /\ r[n + 1] = e /\ \A i \in 1..n : r[i] = q[i]
  BY <1>1, AppendProperties
<1>3. IsFiniteSet(A) /\ Cardinality(A) \in Nat /\ n + 1 \notin A
  <2>1. IsFiniteSet(1..n) /\ A \subseteq 1..n
    BY <1>1, FS_Interval DEF OfKind, RowsOf
  <2> HIDE DEF A
  <2>2. IsFiniteSet(A) /\ Cardinality(A) \in Nat
    BY <2>1, FS_Subset, FS_CardinalityType
  <2> QED BY <1>1, <2>1, <2>2
<1>4. B = IF e \in K THEN A \cup {n + 1} ELSE A
  <2>1. B = {i \in 1..(n + 1) : r[i] \in K} /\ A = {i \in 1..n : q[i] \in K}
    BY <1>2 DEF OfKind, RowsOf
  <2> HIDE DEF A, B, n, r
  <2>2. 1..(n + 1) = 1..n \cup {n + 1}
    BY <1>1
  <2> QED BY <1>1, <1>2, <2>1, <2>2
<1> HIDE DEF A, B, n, r
<1>5. /\ e \in K => Cardinality(B) = Cardinality(A) + 1
      /\ e \notin K => Cardinality(B) = Cardinality(A)
  <2>1. CASE e \in K
    BY <1>3, <1>4, <2>1, FS_AddElement
  <2>2. CASE e \notin K
    BY <1>3, <1>4, <2>2
  <2> QED BY <2>1, <2>2
<1> QED BY <1>3, <1>5 DEF A, B, r

Redeemed == {n \in RowsOf(order) : order[n].discounted}
Telling(n) == {i \in RowsOf(runs) : runs[i].order = n}

Redeeming == redeemed = Cardinality(Redeemed)

\* Orders and runs agree, as do orders and the meter.
Accounts == Redeeming /\ RunsTellOrders /\ PlacedAreMetered

LEMMA MeterTypes ==
  ASSUME BillingAssumption, SubscriptionsAssumption, Fits
  PROVE  /\ IsFiniteSet(Months) /\ usage \in [Months -> Int] /\ Total \in Nat
         /\ IsFiniteSet(Placed) /\ Cardinality(Placed) \in Nat
         /\ IsFiniteSet(Recording) /\ Cardinality(Recording) \in Nat
         /\ failed \in Nat
<1>1. IsFiniteSet(Months)
  <2>1. IsFiniteSet(Days)
    <3>1. FirstDay \in Int /\ LastDay \in Int
      BY DEF BillingAssumption
    <3> QED BY <3>1, FS_Interval DEF Days
  <2> DEFINE f == [d \in Days |-> PeriodKey(d)]
  <2>2. f \in Surjection(Days, Months)
    BY DEF Months, Surjection
  <2> QED BY <2>1, <2>2, FS_Surjection
<1>2. usage \in [Months -> Nat] /\ failed \in Nat
  BY UsageTypes DEF Fits, TablesFit, BillingType
<1>3. Total \in Nat
  BY <1>1, <1>2, SumNat DEF Total
<1>4. IsFiniteSet(Placed) /\ Cardinality(Placed) \in Nat
  <2>1. Len(order) \in Nat
    BY LenProperties DEF Fits, TablesFit
  <2>2. IsFiniteSet(1..Len(order)) /\ Placed \subseteq 1..Len(order)
    BY <2>1, FS_Interval DEF Placed, RowsOf
  <2> QED BY <2>2, FS_Subset, FS_CardinalityType
<1>5. IsFiniteSet(Recording) /\ Cardinality(Recording) \in Nat
  <2>1. Recording \subseteq Threads /\ IsFiniteSet(Threads)
    BY DEF Recording, BillingAssumption
  <2> QED BY <2>1, FS_Subset, FS_CardinalityType
<1> QED BY <1>1, <1>2, <1>3, <1>4, <1>5

\* An order is placed.
LEMMA OrderAdded ==
  ASSUME BillingAssumption, SubscriptionsAssumption, Fits, NEW o \in OrderRow, order' = Append(order, o)
  PROVE  /\ Len(order) \in Nat /\ Len(order') = Len(order) + 1 /\ order'[Len(order) + 1] = o
         /\ \A n \in RowsOf(order) : order'[n] = order[n]
         /\ Cardinality(Redeemed) \in Nat
         /\ o.discounted => Cardinality(Redeemed') = Cardinality(Redeemed) + 1
         /\ ~ o.discounted => Cardinality(Redeemed') = Cardinality(Redeemed)
         /\ o.by = "checkout" => Cardinality(Placed') = Cardinality(Placed) + 1
         /\ o.by # "checkout" => Cardinality(Placed') = Cardinality(Placed)
<1>1. order \in Seq(OrderRow)
  BY DEF Fits, TablesFit
<1>2. Len(order) \in Nat /\ Len(order') = Len(order) + 1 /\ order'[Len(order) + 1] = o
      /\ \A n \in RowsOf(order) : order'[n] = order[n]
  BY <1>1, LenProperties, AppendProperties DEF RowsOf
<1>3. order' \in Seq(OrderRow)
  BY <1>1, AppendProperties
<1>4. /\ \A n \in RowsOf(order) : order[n] \in OrderRow
      /\ \A n \in RowsOf(order') : order'[n] \in OrderRow
  BY <1>1, <1>3, ElementOfSeq DEF RowsOf
<1> DEFINE D == {r \in OrderRow : r.discounted}
           C == {r \in OrderRow : r.by = "checkout"}
<1>5. Redeemed = OfKind(order, D) /\ Redeemed' = OfKind(order', D)
  BY <1>4 DEF Redeemed, OfKind
<1>6. Placed = OfKind(order, C) /\ Placed' = OfKind(order', C)
  BY <1>4 DEF Placed, OfKind
<1>7. (o \in D <=> o.discounted) /\ (o \in C <=> o.by = "checkout")
  OBVIOUS
<1> HIDE DEF D, C
<1>8. /\ Cardinality(Redeemed) \in Nat
      /\ o \in D => Cardinality(Redeemed') = Cardinality(Redeemed) + 1
      /\ o \notin D => Cardinality(Redeemed') = Cardinality(Redeemed)
  BY <1>1, <1>5, RowsAfter
<1>9. /\ o \in C => Cardinality(Placed') = Cardinality(Placed) + 1
      /\ o \notin C => Cardinality(Placed') = Cardinality(Placed)
  BY <1>1, <1>6, RowsAfter
<1> QED BY <1>2, <1>7, <1>8, <1>9

\* A run is noted.
LEMMA RunAdded ==
  ASSUME BillingAssumption, SubscriptionsAssumption, Fits, NEW r, runs' = Append(runs, r), NEW n
  PROVE  /\ Cardinality(Telling(n)) \in Nat
         /\ r.order = n => Cardinality(Telling(n)') = Cardinality(Telling(n)) + 1
         /\ r.order # n => Cardinality(Telling(n)') = Cardinality(Telling(n))
<1> DEFINE S == RunRow \cup {r}
           K == {x \in S : x.order = n}
<1>1. runs \in Seq(S)
  BY SeqMonotonic DEF Fits, TablesFit
<1>2. r \in S /\ (r \in K <=> r.order = n)
  OBVIOUS
<1> HIDE DEF S
<1>3. runs' \in Seq(S)
  BY <1>1, <1>2, AppendProperties
<1>4. (\A i \in RowsOf(runs) : runs[i] \in S) /\ \A i \in RowsOf(runs') : runs'[i] \in S
  BY <1>1, <1>3, ElementOfSeq DEF RowsOf
<1>5. Telling(n) = OfKind(runs, K) /\ Telling(n)' = OfKind(runs', K)
  BY <1>4 DEF Telling, OfKind
<1> HIDE DEF K
<1>6. /\ Cardinality(Telling(n)) \in Nat
      /\ r \in K => Cardinality(Telling(n)') = Cardinality(Telling(n)) + 1
      /\ r \notin K => Cardinality(Telling(n)') = Cardinality(Telling(n))
  BY <1>1, <1>2, <1>5, RowsAfter
<1> QED BY <1>2, <1>6

LEMMA MeterStays ==
  ASSUME BillingAssumption, SubscriptionsAssumption, Fits, PlacedAreMetered,
         Cardinality(Placed') = Cardinality(Placed), Recording' = Recording, usage' = usage,
         failed' \in Nat, failed <= failed'
  PROVE  PlacedAreMetered'
<1>1. Cardinality(Placed) - Cardinality(Recording) - Total \in 0..failed
  BY DEF PlacedAreMetered
<1>2. Total' = Total
  BY DEF Total
<1>3. Cardinality(Placed) \in Nat /\ Cardinality(Recording) \in Nat /\ Total \in Nat /\ failed \in Nat
  BY MeterTypes
<1>4. Cardinality(Placed) - Cardinality(Recording) - Total \in 0..failed'
  BY <1>1, <1>3
<1>5. Cardinality(Placed') - Cardinality(Recording') - Total' \in 0..failed'
  BY <1>2, <1>4
<1> QED BY <1>5 DEF PlacedAreMetered

\* The books stay as they are.
LEMMA AccountsStay ==
  ASSUME BillingAssumption, SubscriptionsAssumption, Fits, Accounts, UNCHANGED book,
         Recording' = Recording, usage' = usage, failed' \in Nat, failed <= failed'
  PROVE  Accounts'
<1>1. order' = order /\ runs' = runs /\ redeemed' = redeemed
  BY DEF book
<1>2. Placed' = Placed /\ Redeemed' = Redeemed
  BY <1>1 DEF Placed, Redeemed
<1>3. RunsTellOrders'
  BY <1>1 DEF Accounts, RunsTellOrders
<1>4. PlacedAreMetered'
  BY <1>2, MeterStays DEF Accounts
<1> QED BY <1>1, <1>2, <1>3, <1>4 DEF Accounts, Redeeming

LEMMA PlaceOrderAccounts ==
  ASSUME BillingAssumption, SubscriptionsAssumption, Fits, Accounts, NEW w \in Threads, PlaceOrder(w)
  PROVE  Accounts'
<1> DEFINE o == [by |-> "checkout", discounted |-> FALSE]
<1>1. /\ stage[w] = "handle" /\ order' = Append(order, o)
      /\ stage' = [stage EXCEPT ![w] = "record"]
      /\ UNCHANGED <<usage, runs, redeemed, failed>>
  BY DEF PlaceOrder, Handles, MoveTo, billing, counts
<1>2. o \in OrderRow /\ o.by = "checkout" /\ ~ o.discounted
  BY DEF OrderRow
<1> HIDE DEF o
<1>3. /\ Len(order) \in Nat /\ Len(order') = Len(order) + 1 /\ order'[Len(order) + 1] = o
      /\ \A n \in RowsOf(order) : order'[n] = order[n]
      /\ Cardinality(Redeemed') = Cardinality(Redeemed)
      /\ Cardinality(Placed') = Cardinality(Placed) + 1
  BY <1>1, <1>2, OrderAdded
<1>4. Redeeming'
  BY <1>1, <1>3 DEF Accounts, Redeeming
<1>5. RunsTellOrders'
  <2>1. ASSUME NEW n \in RowsOf(order')
        PROVE  Cardinality({i \in RowsOf(runs') : runs'[i].order = n}) =
                 IF order'[n].by = "checkout" THEN 0 ELSE 1
    <3>1. runs' = runs
      BY <1>1
    <3>2. CASE n \in RowsOf(order)
      BY <1>3, <3>1, <3>2 DEF Accounts, RunsTellOrders
    <3>3. CASE n \notin RowsOf(order)
      <4>1. n = Len(order) + 1
        BY <1>3, <3>3 DEF RowsOf
      <4>2. ASSUME NEW i \in RowsOf(runs) PROVE runs[i].order # n
        <5>1. runs[i] \in RunRow
          BY ElementOfSeq DEF Fits, TablesFit, RowsOf
        <5>2. runs[i].order \in 0..Len(order)
          BY <5>1 DEF RunRow
        <5> QED BY <1>3, <4>1, <5>2
      <4>3. {i \in RowsOf(runs) : runs[i].order = n} = {}
        BY <4>2
      <4> QED BY <1>2, <1>3, <3>1, <4>1, <4>3, FS_EmptySet
    <3> QED BY <3>2, <3>3
  <2> QED BY <2>1 DEF RunsTellOrders
<1>6. PlacedAreMetered'
  <2>1. Recording' = Recording \cup {w} /\ w \notin Recording
    BY <1>1 DEF Recording, Fits, ThreadsFit
  <2>2. Cardinality(Recording') = Cardinality(Recording) + 1
    BY <2>1, MeterTypes, FS_AddElement
  <2>3. Total' = Total /\ failed' = failed
    BY <1>1 DEF Total
  <2>4. Cardinality(Placed) - Cardinality(Recording) - Total \in 0..failed
    BY DEF Accounts, PlacedAreMetered
  <2>5. Cardinality(Placed') - Cardinality(Recording') - Total' \in 0..failed'
    BY <1>3, <2>2, <2>3, <2>4, MeterTypes
  <2> QED BY <2>5 DEF PlacedAreMetered
<1> QED BY <1>4, <1>5, <1>6 DEF Accounts

LEMMA RunFailedAccounts ==
  ASSUME BillingAssumption, SubscriptionsAssumption, Fits, Accounts, NEW w \in Threads, RunFailed(w)
  PROVE  Accounts'
<1> DEFINE r == RunOf(w, 0)
<1>1. runs' = Append(runs, r) /\ UNCHANGED <<order, redeemed, usage, failed>>
  BY DEF RunFailed, NoteRun, billing, counts
<1>2. r.order = 0
  BY DEF RunOf
<1>3. Recording' = Recording
  BY RunOnward DEF Run, Fits
<1> HIDE DEF r
<1>4. ASSUME NEW n \in RowsOf(order) PROVE Cardinality(Telling(n)') = Cardinality(Telling(n))
  <2>1. n # 0
    BY LenProperties DEF Fits, TablesFit, RowsOf
  <2> QED BY <1>1, <1>2, <2>1, RunAdded
<1>5. RunsTellOrders'
  BY <1>1, <1>4 DEF Accounts, RunsTellOrders, Telling
<1>6. PlacedAreMetered'
  <2>1. Placed' = Placed
    BY <1>1 DEF Placed
  <2>2. failed' \in Nat /\ failed <= failed'
    BY <1>1, MeterTypes
  <2> QED BY <1>1, <1>3, <2>1, <2>2, MeterStays DEF Accounts
<1>7. Redeeming'
  BY <1>1 DEF Accounts, Redeeming, Redeemed
<1> QED BY <1>5, <1>6, <1>7 DEF Accounts

LEMMA RunOrdersAccounts ==
  ASSUME BillingAssumption, SubscriptionsAssumption, Fits, Accounts, NEW w \in Threads, RunOrders(w)
  PROVE  Accounts'
<1> DEFINE o == [by |-> work[w].by, discounted |-> work[w].discounted]
           r == RunOf(w, Len(order'))
<1>1. /\ stage[w] = "write" /\ order' = Append(order, o) /\ runs' = Append(runs, r)
      /\ redeemed' = redeemed + (IF work[w].discounted THEN 1 ELSE 0)
      /\ UNCHANGED <<usage, failed>>
  BY DEF RunOrders, NoteRun, billing, counts
<1>2. stage[w] \in AtWork
  BY <1>1 DEF AtWork
<1>3. o \in OrderRow /\ o.by # "checkout" /\ o.discounted = work[w].discounted /\ o.discounted \in BOOLEAN
  BY <1>1, <1>2, CopyTypes, CallTypes DEF Fits, ThreadFits, OrderRow
<1>4. r.order = Len(order')
  BY DEF RunOf
<1>5. Recording' = Recording
  BY RunOnward DEF Run, Fits
<1> HIDE DEF o, r
<1>6. /\ Len(order) \in Nat /\ Len(order') = Len(order) + 1 /\ order'[Len(order) + 1] = o
      /\ \A n \in RowsOf(order) : order'[n] = order[n]
      /\ Cardinality(Redeemed) \in Nat
      /\ o.discounted => Cardinality(Redeemed') = Cardinality(Redeemed) + 1
      /\ ~ o.discounted => Cardinality(Redeemed') = Cardinality(Redeemed)
      /\ Cardinality(Placed') = Cardinality(Placed)
  BY <1>1, <1>3, OrderAdded
<1>7. Redeeming'
  BY <1>1, <1>3, <1>6 DEF Accounts, Redeeming
<1>8. RunsTellOrders'
  <2>1. ASSUME NEW n \in RowsOf(order')
        PROVE  Cardinality(Telling(n)') = IF order'[n].by = "checkout" THEN 0 ELSE 1
    <3>1. CASE n \in RowsOf(order)
      <4>1. r.order # n
        BY <1>4, <1>6, <3>1 DEF RowsOf
      <4>2. Cardinality(Telling(n)') = Cardinality(Telling(n))
        BY <1>1, <4>1, RunAdded
      <4>3. order'[n] = order[n]
        BY <1>6, <3>1
      <4>4. Cardinality(Telling(n)) = IF order[n].by = "checkout" THEN 0 ELSE 1
        BY <3>1 DEF Accounts, RunsTellOrders, Telling
      <4> QED BY <4>2, <4>3, <4>4
    <3>2. CASE n \notin RowsOf(order)
      <4>1. n = Len(order) + 1 /\ r.order = n
        BY <1>4, <1>6, <3>2 DEF RowsOf
      <4>2. ASSUME NEW i \in RowsOf(runs) PROVE runs[i].order # n
        <5>1. runs[i] \in RunRow
          BY ElementOfSeq DEF Fits, TablesFit, RowsOf
        <5>2. runs[i].order \in 0..Len(order)
          BY <5>1 DEF RunRow
        <5> QED BY <1>6, <4>1, <5>2
      <4>3. Telling(n) = {}
        BY <4>2 DEF Telling
      <4>4. Cardinality(Telling(n)) = 0
        BY <4>3, FS_EmptySet
      <4>5. Cardinality(Telling(n)') = Cardinality(Telling(n)) + 1
        BY <1>1, <4>1, RunAdded
      <4>6. order'[n].by # "checkout"
        BY <1>3, <1>6, <4>1
      <4> QED BY <4>4, <4>5, <4>6
    <3> QED BY <3>1, <3>2
  <2> QED BY <2>1 DEF RunsTellOrders, Telling
<1>9. PlacedAreMetered'
  <2>1. failed' \in Nat /\ failed <= failed'
    BY <1>1, MeterTypes
  <2> QED BY <1>1, <1>5, <1>6, <2>1, MeterStays DEF Accounts
<1> QED BY <1>7, <1>8, <1>9 DEF Accounts

LEMMA RecordAccounts ==
  ASSUME BillingAssumption, SubscriptionsAssumption, Fits, Accounts, NEW w \in Threads, Record(w), Others
  PROVE  Accounts'
<1>1. /\ stage[w] = "record" /\ UNCHANGED <<day, book>>
      /\ \/ failed' = failed /\ usage' = [usage EXCEPT ![PeriodKey(day)] = Increment(@)]
         \/ failed' = failed + 1 /\ usage' = usage
      /\ stage' = [stage EXCEPT ![w] = "idle"]
  BY DEF Record, Others, Leave, MoveTo, Works, Breaks
<1>2. order' = order /\ runs' = runs /\ redeemed' = redeemed
  BY <1>1 DEF book
<1>3. Redeeming' /\ RunsTellOrders' /\ Placed' = Placed
  BY <1>2 DEF Accounts, Redeeming, Redeemed, RunsTellOrders, Placed
<1>4. Recording' = Recording \ {w} /\ w \in Recording
  BY <1>1 DEF Recording, Fits, ThreadsFit
<1>5. Cardinality(Recording') = Cardinality(Recording) - 1
  BY <1>4, MeterTypes, FS_RemoveElement
<1>6. Cardinality(Placed) - Cardinality(Recording) - Total \in 0..failed
  BY DEF Accounts, PlacedAreMetered
<1>7. CASE failed' = failed + 1 /\ usage' = usage
  <2>1. Total' = Total
    BY <1>7 DEF Total
  <2>2. Cardinality(Placed') - Cardinality(Recording') - Total' \in 0..failed'
    BY <1>3, <1>5, <1>6, <1>7, <2>1, MeterTypes
  <2> QED BY <1>3, <2>2 DEF Accounts, PlacedAreMetered
<1>8. CASE failed' = failed /\ usage' = [usage EXCEPT ![PeriodKey(day)] = Increment(@)]
  <2> DEFINE p == PeriodKey(day)
  <2>1. p \in Months /\ usage[p] \in Nat /\ usage \in [Months -> Int] /\ IsFiniteSet(Months)
    BY UsageTypes, MeterTypes
  <2>2. usage' \in [Months -> Int] /\ usage'[p] = usage[p] + 1 /\ \A m \in Months \ {p} : usage'[m] = usage[m]
    BY <1>8, <2>1 DEF Increment
  <2> HIDE DEF p
  <2>3. SumOf(usage') = SumOf(usage) - usage[p] + usage'[p]
    BY <2>1, <2>2, SumChange
  <2>4. Total' = Total + 1
    BY <2>1, <2>2, <2>3, MeterTypes DEF Total
  <2>5. Cardinality(Placed') - Cardinality(Recording') - Total' \in 0..failed'
    BY <1>3, <1>5, <1>6, <1>8, <2>4, MeterTypes
  <2> QED BY <1>3, <2>5 DEF Accounts, PlacedAreMetered
<1> QED BY <1>1, <1>7, <1>8

\* The rest of what is done outside the gate.
LEMMA OutsideAccounts ==
  ASSUME BillingAssumption, SubscriptionsAssumption, Fits, failed' \in Nat, Accounts,
         NEW w \in Threads, Outside(w)
  PROVE  Accounts'
<1>1. CASE PlaceOrder(w)
  BY <1>1, PlaceOrderAccounts
<1>2. CASE RunFailed(w)
  BY <1>2, RunFailedAccounts
<1>3. CASE RunOrders(w)
  BY <1>3, RunOrdersAccounts
<1>4. CASE ~ (PlaceOrder(w) \/ RunFailed(w) \/ RunOrders(w))
  <2>1. Recording' = Recording /\ UNCHANGED billing /\ failed <= failed'
    BY <1>4, OutsideOnward
  <2>2. UNCHANGED book
    <3>1. CASE Request(w) \/ StartSweep(w) \/ RunBreaks(w) \/ HandlerFails(w)
      BY <3>1 DEF Request, Others, StartSweep, RunBreaks, HandlerFails
    <3>2. CASE Handle(w)
      BY <1>4, <3>2 DEF Handle, RunNow, AdminSetStatus, LoadSub, UpdateSubscription, Skip, Create, NotFound
    <3>3. CASE Run(w)
      BY <1>4, <3>3 DEF Run, Price
    <3> QED BY <3>1, <3>2, <3>3 DEF Outside
  <2>3. usage' = usage
    BY <2>1 DEF billing
  <2> QED BY <2>1, <2>2, <2>3, AccountsStay
<1> QED BY <1>1, <1>2, <1>3, <1>4

\* A gate's step other than the last.
LEMMA InsideRecording ==
  ASSUME BillingAssumption, SubscriptionsAssumption, Fits, NEW w \in Threads,
         Inside(w), ~ Record(w)
  PROVE  Recording' = Recording /\ usage' = usage /\ failed <= failed'
<1>1. stage[w] # "record"
  BY DEF Inside, PassGate, Operate, Lookup, Fetch, Store, Quota, SetOrgPlan, UpdatePlan, Flush
<1>2. failed \in Nat
  BY MeterTypes
<1>3. stage'[w] # "record" /\ \A x \in Threads \ {w} : stage'[x] = stage[x]
  <2>1. ASSUME NEW l, l # "record", MoveTo(w, l)
        PROVE  stage'[w] # "record" /\ \A x \in Threads \ {w} : stage'[x] = stage[x]
    BY <2>1 DEF MoveTo, Fits, ThreadsFit
  <2>2. ASSUME NEW ent, Admit(w, ent)
        PROVE  stage'[w] # "record" /\ \A x \in Threads \ {w} : stage'[x] = stage[x]
    BY <2>2, AdmitSays DEF Fits
  <2>3. CASE Lookup(w)
    BY <2>1, <2>2, <2>3 DEF Lookup
  <2>4. CASE Fetch(w)
    BY <2>1, <2>4 DEF Fetch
  <2>5. CASE Store(w)
    BY <2>2, <2>5 DEF Store
  <2>6. CASE Quota(w)
    BY <2>1, <2>6 DEF Quota, Leave
  <2>7. CASE Operate(w)
    BY <2>1, <2>7 DEF Operate, SetOrgPlan, UpdatePlan, Flush
  <2> QED BY <2>3, <2>4, <2>5, <2>6, <2>7 DEF Inside, PassGate
<1>4. Recording' = Recording
  BY <1>1, <1>3 DEF Recording
<1>5. usage' = usage
  BY DEF Inside, PassGate, Operate, Lookup, Fetch, Store, Quota, SetOrgPlan, UpdatePlan, Flush, billing
<1>6. failed <= failed'
  <2>1. Works \/ Breaks
    <3>1. CASE Fetch(w) \/ Quota(w)
      BY <3>1 DEF Fetch, Quota
    <3>2. CASE Lookup(w) \/ Store(w) \/ Operate(w)
      BY <3>2 DEF Lookup, Store, Operate, SetOrgPlan, UpdatePlan, Flush, counts, Works
    <3> QED BY <3>1, <3>2 DEF Inside, PassGate
  <2> QED BY <1>2, <2>1 DEF Works, Breaks
<1> QED BY <1>4, <1>5, <1>6

LEMMA StepAccounts ==
  ASSUME BillingAssumption, SubscriptionsAssumption, Fits, Fits', Accounts, [SubNext]_subVars
  PROVE  Accounts'
<1>0. failed' \in Nat /\ failed \in Nat
  BY MeterTypes DEF Fits, TablesFit, BillingType, BillingAssumption
<1>1. ASSUME NEW w \in Threads, Outside(w) PROVE Accounts'
  BY <1>0, <1>1, OutsideAccounts
<1>2. ASSUME NEW w \in Threads, Inside(w), Others PROVE Accounts'
  <2>1. CASE Record(w)
    BY <1>2, <2>1, RecordAccounts
  <2>2. CASE ~ Record(w)
    BY <1>0, <1>2, <2>2, InsideRecording, AccountsStay DEF Others
  <2> QED BY <2>1, <2>2
<1>3. CASE (Expire /\ Others) \/ Tomorrow \/ UNCHANGED subVars
  <2>1. UNCHANGED book /\ usage' = usage /\ stage' = stage /\ failed' = failed
    BY <1>3 DEF Expire, Others, Tomorrow, subVars, billing, counts
  <2>2. Recording' = Recording /\ failed <= failed'
    BY <1>0, <2>1 DEF Recording
  <2> QED BY <1>0, <2>1, <2>2, AccountsStay
<1> QED BY <1>1, <1>2, <1>3, SubNextCases

LEMMA InitAccounts ==
  ASSUME BillingAssumption, SubscriptionsAssumption, SubInit
  PROVE  Accounts
<1>1. RowsOf(order) = {} /\ redeemed = 0 /\ failed = 0
  BY DEF SubInit, BillingInit, RowsOf
<1>2. Redeemed = {} /\ Placed = {} /\ Recording = {}
  BY <1>1 DEF Redeemed, Placed, Recording, SubInit, BillingInit
<1>3. Total = 0
  <2>1. IsFiniteSet(Months) /\ usage \in [Months -> Int]
    BY InitFits, MeterTypes
  <2>2. \A m \in Months : usage[m] = 0
    BY DEF SubInit, BillingInit
  <2> QED BY <2>1, <2>2, SumZero DEF Total
<1>4. Cardinality({}) = 0
  BY FS_EmptySet
<1>5. PlacedAreMetered
  BY <1>1, <1>2, <1>3, <1>4 DEF PlacedAreMetered
<1> QED BY <1>1, <1>2, <1>4, <1>5 DEF Accounts, Redeeming, RunsTellOrders

-----------------------------------------------------------------------------
(* The theorems.                                                           *)

SubscriptionsInv == Fits /\ DatesHold /\ NodesFresh /\ GateHolds /\ Accounts

LEMMA SubscriptionsInitial ==
  ASSUME BillingAssumption, SubscriptionsAssumption, SubInit
  PROVE  SubscriptionsInv
BY InitFits, InitDates, InitFresh, InitHolds, InitAccounts DEF SubscriptionsInv

LEMMA SubscriptionsStep ==
  ASSUME BillingAssumption, SubscriptionsAssumption, SubscriptionsInv, [SubNext]_subVars
  PROVE  SubscriptionsInv'
<1>1. Fits' /\ DatesHold'
  BY StepDates DEF SubscriptionsInv, NodesFresh
<1> QED BY <1>1, StepFresh, StepHolds, StepAccounts DEF SubscriptionsInv

LEMMA SubscriptionsAlways == SubSpec => []SubscriptionsInv
<1>1. SubInit => SubscriptionsInv
  BY SubscriptionsInitial, BillingAssumption, SubscriptionsAssumption
<1>2. SubscriptionsInv /\ [SubNext]_subVars => SubscriptionsInv'
  BY SubscriptionsStep, BillingAssumption, SubscriptionsAssumption
<1> QED BY <1>1, <1>2, PTL DEF SubSpec

LEMMA TypesFollow ==
  ASSUME SubscriptionsInv
  PROVE  SubscriptionsType
<1>1. stage \in [Threads -> {"idle", "assign", "edit", "flush"} \cup InGate \cup AtWork]
  BY DEF SubscriptionsInv, Fits, ThreadsFit, Stages
<1>2. ASSUME NEW w \in Threads
      PROVE  /\ stage[w] = "idle" => call[w] = NoCall
             /\ stage[w] \in AtWork <=> work[w].todo # <<>>
             /\ stage[w] \in {"price", "write"} => work[w].by # "none"
             /\ stage[w] \in {"quota", "record"} => call[w].metered
  BY DEF SubscriptionsInv, Fits, ThreadsFit, ThreadFits
<1>3. redeemed = Cardinality({n \in RowsOf(order) : order[n].discounted})
  BY DEF SubscriptionsInv, Accounts, Redeeming, Redeemed
<1> QED BY <1>1, <1>2, <1>3 DEF SubscriptionsType, SubscriptionsInv, Fits, TablesFit, ThreadsFit

(* The shape of the tables, a subscription's order in exactly one          *)
(* successful run, and every order a buyer placed metered once or lost     *)
(* with the statement that recorded it, whatever threads interleave        *)
(* (runOne, Gate).                                                         *)
THEOREM OrdersAlwaysAccounted == SubSpec => []OrdersAreAccounted
<1>1. SubscriptionsInv => OrdersAreAccounted
  BY TypesFollow DEF OrdersAreAccounted, SubscriptionsInv, Accounts
<1> QED BY <1>1, SubscriptionsAlways, PTL

(* A node that answered an operator serves by his change or a later one,   *)
(* but for an entry whose fill had read before (Invalidate).               *)
THEOREM NodesAlwaysFresh == SubSpec => []AnsweredNodeIsFresh
<1>1. SubscriptionsInv => AnsweredNodeIsFresh
  BY DEF SubscriptionsInv, NodesFresh
<1> QED BY <1>1, SubscriptionsAlways, PTL

(* Usage exceeds the plan's cap by less than the number of threads while   *)
(* no plan changes and no statement fails (Gate).                          *)
THEOREM OverrunAlwaysBounded == SubSpec => []OverrunBounded
<1>1. SubscriptionsInv => OverrunBounded
  BY BoundFollows DEF SubscriptionsInv
<1> QED BY <1>1, SubscriptionsAlways, PTL

(* The sweep runs a subscription twice in a day only after some run worked *)
(* on a copy that another had overtaken (MaterializeDue).                  *)
THEOREM SweepOncePerDay == SubSpec => []OncePerDayUnlessStale
<1>1. SubscriptionsInv => OncePerDayUnlessStale
  BY DEF SubscriptionsInv, DatesHold
<1> QED BY <1>1, SubscriptionsAlways, PTL

(* Only run-now, or one who works on a copy that another has overtaken,    *)
(* brings a date forward (mySkip, AdvanceSubscription).                    *)
THEOREM DatesOnlyByOverlap == SubSpec => EarlierOnlyByOverlap
<1> DEFINE Step == \A s \in Subs : sub[s] # NoSub /\ sub'[s].next < sub[s].next =>
                     \E w \in Threads :
                       /\ Writer(w)
                       /\ work[w].by = "run" \/ Head(work[w].todo).row.moves # sub[s].moves
<1>1. SubscriptionsInv /\ [SubNext]_subVars => Step
  BY StepEarlier, BillingAssumption, SubscriptionsAssumption DEF SubscriptionsInv, EarlierFor
<1>2. SubSpec => [][Step]_subVars
  <2> HIDE DEF Step
  <2> QED BY <1>1, SubscriptionsAlways, PTL DEF SubSpec
<1> QED BY <1>2 DEF EarlierOnlyByOverlap

=============================================================================
