------------------------------ MODULE SyncProofs ------------------------------
(***************************************************************************)
(* Proofs about the two synchronisations: FieldSync, for any devices,      *)
(* changes, page size and number of requests; ErpOutbound with Automation, *)
(* for any documents, rules and actions, any number of threads, failures,  *)
(* deaths and switches of rules and connection.                            *)
(***************************************************************************)
EXTENDS FieldSync, ErpOutbound, SumTheorems, SequenceTheorems

-----------------------------------------------------------------------------
(* Finite sets of ids.                                                     *)

LEMMA IdSet ==
  ASSUME NEW n \in Nat, NEW T, T \subseteq 0..n
  PROVE  IsFiniteSet(T) /\ Cardinality(T) \in Nat
<1>1. IsFiniteSet(0..n)
  BY FS_Interval
<1> QED BY <1>1, FS_Subset, FS_CardinalityType

LEMMA MaxOf ==
  ASSUME NEW n \in Nat, NEW T, T \subseteq 0..n, T # {}
  PROVE  Max(T) \in T /\ \A y \in T : y <= Max(T)
<1> DEFINE D == {n - x : x \in T}
<1>0. \A x \in T : x \in Nat /\ x <= n /\ n - x \in Nat
  OBVIOUS
<1>1. D \subseteq Nat /\ D # {}
  BY <1>0
<1>2. PICK m \in D : \A y \in D : m <= y
  <2> HIDE DEF D
  <2> QED BY <1>1, LeastOf
<1>3. PICK x \in T : m = n - x
  BY <1>2
<1>4. \A y \in T : y <= x
  <2>1. \A y \in T : n - x <= n - y
    BY <1>2, <1>3
  <2> QED BY <1>0, <1>3, <2>1
<1>5. \A y \in T : x >= y
  BY <1>4
<1>6. \E z \in T : \A y \in T : z >= y
  BY <1>5
<1>7. Max(T) \in T /\ \A y \in T : Max(T) >= y
  BY <1>6, Zenon DEF Max
<1> QED BY <1>7

\* The first page: what comes before a member of it belongs to it.
LEMMA FirstIsLow ==
  ASSUME NEW n \in Nat, NEW T, T \subseteq 0..n, NEW k \in Nat
  PROVE  /\ FirstOf(T, k) \subseteq T
         /\ \A x \in FirstOf(T, k) : \A y \in T : y < x => y \in FirstOf(T, k)
<1> DEFINE Less(x) == {j \in T : j < x}
<1>1. \A x \in T : IsFiniteSet(Less(x)) /\ Cardinality(Less(x)) \in Nat
  BY IdSet
<1>2. ASSUME NEW x \in FirstOf(T, k), NEW y \in T, y < x
      PROVE  y \in FirstOf(T, k)
  <2>1. x \in T /\ Cardinality(Less(x)) < k
    BY DEF FirstOf
  <2>2. Less(y) \subseteq Less(x)
    <3>1. \A j \in T : j \in Nat
      OBVIOUS
    <3>2. \A j \in T : j < y => j < x
      BY <1>2, <2>1, <3>1
    <3> QED BY <3>2
  <2>3. Cardinality(Less(y)) <= Cardinality(Less(x))
    BY <1>1, <2>1, <2>2, FS_Subset
  <2>4. Cardinality(Less(y)) < k
    BY <1>1, <2>1, <2>3
  <2> QED BY <2>4 DEF FirstOf
<1> QED BY <1>2 DEF FirstOf

\* A page that is not full is all there is, and none is more than full.
LEMMA FirstIsPage ==
  ASSUME NEW n \in Nat, NEW T, T \subseteq 0..n, NEW k \in Nat
  PROVE  /\ Cardinality(FirstOf(T, k)) < k => FirstOf(T, k) = T
         /\ Cardinality(FirstOf(T, k)) <= k
<1> DEFINE Less(x) == {j \in T : j < x}
           P == FirstOf(T, k)
<1>0. /\ P \subseteq T /\ T \subseteq Nat
      /\ \A x \in P : \A y \in T : y < x => y \in P
      /\ \A x \in T : x \in P <=> Cardinality(Less(x)) < k
  <2>1. P \subseteq T /\ \A x \in P : \A y \in T : y < x => y \in P
    BY FirstIsLow
  <2>2. \A x \in T : x \in P <=> Cardinality(Less(x)) < k
    BY DEF FirstOf
  <2> QED BY <2>1, <2>2
<1> HIDE DEF P
<1>1. /\ IsFiniteSet(P) /\ Cardinality(P) \in Nat
      /\ \A x \in T : IsFiniteSet(Less(x)) /\ Cardinality(Less(x)) \in Nat
  BY <1>0, IdSet
<1>2. ASSUME Cardinality(P) < k, P # T PROVE FALSE
  <2>1. PICK m \in T \ P : \A y \in T \ P : m <= y
    BY <1>0, <1>2, LeastOf
  <2>2. Less(m) \subseteq P
    <3>1. \A j \in T : j \notin P => ~ (j < m)
      BY <1>0, <2>1
    <3> QED BY <3>1
  <2>3. Cardinality(Less(m)) <= Cardinality(P)
    BY <1>1, <2>1, <2>2, FS_Subset
  <2> QED BY <1>0, <1>1, <1>2, <2>1, <2>3
<1>3. Cardinality(P) <= k
  <2>1. CASE P = {}
    BY <2>1, FS_EmptySet
  <2>2. CASE P # {}
    <3>1. P \subseteq 0..n
      BY <1>0
    <3>2. Max(P) \in P /\ \A y \in P : y <= Max(P)
      BY <2>2, <3>1, MaxOf
    <3> DEFINE x == Max(P)
    <3> HIDE DEF x
    <3>3. x \in P /\ \A y \in P : y <= x
      BY <3>2 DEF x
    <3>4. P \ {x} \subseteq Less(x)
      BY <1>0, <3>3
    <3>5. IsFiniteSet(Less(x)) /\ Cardinality(Less(x)) \in Nat /\ Cardinality(Less(x)) < k
      BY <1>0, <1>1, <3>3
    <3>6. Cardinality(P \ {x}) = Cardinality(P) - 1
      BY <1>1, <3>3, FS_RemoveElement
    <3>7. Cardinality(P \ {x}) <= Cardinality(Less(x))
      BY <3>4, <3>5, FS_Subset
    <3> QED BY <1>1, <3>5, <3>6, <3>7
  <2> QED BY <2>1, <2>2
<1> QED BY <1>2, <1>3 DEF P

\* A finite set of ids has its increasing sequence.
Increasing(s) == \A i, j \in DOMAIN s : i < j => s[i] < s[j]
Lists(s, T) == s \in [1..Cardinality(T) -> T] /\ Increasing(s) /\ T = {s[i] : i \in DOMAIN s}

LEMMA OrderExists ==
  ASSUME NEW n \in Nat, NEW T, T \subseteq 0..n
  PROVE  \E s : Lists(s, T)
<1> DEFINE C == {m \in Nat : \A U \in SUBSET (0..n) : Cardinality(U) = m => \E s : Lists(s, U)}
<1>0. \A U \in SUBSET (0..n) : IsFiniteSet(U) /\ Cardinality(U) \in Nat
  BY IdSet
<1>1. 0 \in C
  <2> SUFFICES ASSUME NEW U \in SUBSET (0..n), Cardinality(U) = 0 PROVE \E s : Lists(s, U)
    OBVIOUS
  <2>1. U = {} /\ 1..Cardinality(U) = {}
    BY <1>0, FS_EmptySet
  <2>2. Lists(<<>>, U)
    BY <2>1 DEF Lists, Increasing
  <2> QED BY <2>2
<1>2. ASSUME NEW m \in Nat, m \in C PROVE m + 1 \in C
  <2> SUFFICES ASSUME NEW U \in SUBSET (0..n), Cardinality(U) = m + 1
               PROVE  \E s : Lists(s, U)
    OBVIOUS
  <2>1. /\ U # {} /\ IsFiniteSet(U)
        /\ \A x \in U : IsFiniteSet(U \ {x}) /\ Cardinality(U \ {x}) = m
    BY <1>0, OneLess
  <2>2. Max(U) \in U /\ \A y \in U : y <= Max(U)
    BY <2>1, MaxOf
  <2> DEFINE x == Max(U)
             R == U \ {x}
  <2>3. x \in U /\ (\A y \in R : y < x) /\ R \in SUBSET (0..n) /\ Cardinality(R) = m
    <3>1. \A y \in U : y \in Nat
      OBVIOUS
    <3>2. \A y \in R : y < x
      <4>1. x \in Nat /\ \A y \in U : y <= x
        BY <2>2, <3>1
      <4> HIDE DEF x
      <4> QED BY <3>1, <4>1
    <3> QED BY <2>1, <2>2, <3>2
  <2>4. PICK s : Lists(s, R)
    BY <1>2, <2>3
  <2> HIDE DEF x
  <2> DEFINE t == [i \in 1..(m + 1) |-> IF i = m + 1 THEN x ELSE s[i]]
  <2>5. s \in [1..m -> R] /\ R = {s[i] : i \in 1..m}
    BY <2>3, <2>4 DEF Lists
  <2>6. t \in [1..(m + 1) -> U]
    BY <2>3, <2>5
  <2>7. U = {t[i] : i \in 1..(m + 1)}
    <3>1. ASSUME NEW y \in U PROVE \E i \in 1..(m + 1) : y = t[i]
      <4>1. CASE y = x
        BY <4>1
      <4>2. CASE y # x
        <5>1. PICK i \in 1..m : y = s[i]
          BY <2>5, <4>2
        <5> QED BY <5>1
      <4> QED BY <4>1, <4>2
    <3> QED BY <2>6, <3>1
  <2>8. Increasing(t)
    <3> SUFFICES ASSUME NEW i \in 1..(m + 1), NEW j \in 1..(m + 1), i < j PROVE t[i] < t[j]
      BY DEF Increasing
    <3>1. i \in 1..m /\ t[i] = s[i] /\ s[i] \in R
      BY <2>5
    <3>2. CASE j = m + 1
      BY <2>3, <3>1, <3>2
    <3>3. CASE j \in 1..m
      <4>1. DOMAIN s = 1..m /\ t[j] = s[j]
        BY <2>5, <3>3
      <4> QED BY <2>4, <3>1, <3>3, <4>1 DEF Lists, Increasing
    <3> QED BY <3>2, <3>3
  <2>9. Lists(t, U)
    <3> HIDE DEF t
    <3> QED BY <2>6, <2>7, <2>8 DEF Lists
  <2> QED BY <2>9
<1>3. Nat \subseteq C
  <2> HIDE DEF C
  <2> QED BY <1>1, <1>2, NatSet
<1>4. Cardinality(T) \in C
  BY <1>0, <1>3
<1> QED BY <1>4

\* An increasing sequence of as many members as T has lists all of T.
LEMMA InOrderLists ==
  ASSUME NEW n \in Nat, NEW T, T \subseteq 0..n
  PROVE  /\ InOrder(T) \in Seq(T) /\ Len(InOrder(T)) = Cardinality(T)
         /\ Increasing(InOrder(T))
         /\ T = {InOrder(T)[i] : i \in DOMAIN InOrder(T)}
<1> DEFINE s == InOrder(T)
           c == Cardinality(T)
<1>0. IsFiniteSet(T) /\ c \in Nat
  BY IdSet
<1>1. \E r \in [1..c -> T] : \A i, j \in DOMAIN r : i < j => r[i] < r[j]
  BY OrderExists DEF Lists, Increasing
<1>2. s \in [1..c -> T] /\ \A i, j \in DOMAIN s : i < j => s[i] < s[j]
  BY <1>1, Zenon DEF InOrder
<1> HIDE DEF s
<1>3. Increasing(s)
  BY <1>2 DEF Increasing
<1>4. s \in Seq(T) /\ Len(s) = c /\ DOMAIN s = 1..c
  BY <1>0, <1>2
<1>5. T = {s[i] : i \in 1..c}
  <2>1. s \in Injection(1..c, T)
    <3>1. \A i, j \in 1..c : s[i] = s[j] => i = j
      <4>1. \A i \in 1..c : s[i] \in T
        BY <1>2
      <4>2. \A x \in T : x \in Nat
        OBVIOUS
      <4>3. \A i \in 1..c : s[i] \in Nat
        BY <4>1, <4>2
      <4> QED BY <1>0, <1>2, <1>4, <4>3
    <3> QED BY <1>2, <3>1 DEF Injection, IsInjective
  <2>2. IsFiniteSet(1..c) /\ Cardinality(1..c) = c
    BY <1>0, FS_Interval
  <2>3. s \in Surjection(1..c, T)
    BY <1>0, <2>1, <2>2, FS_PigeonHole, FS_Injection
  <2> QED BY <2>3 DEF Surjection
<1> QED BY <1>3, <1>4, <1>5 DEF s

-----------------------------------------------------------------------------
(* The shape of the state.                                                 *)

Stages == {"idle", "number", "publish", "rows", "high", "store", "answer", "seen",
           "dispatch", "update", "log", "reply"}
Requests == {NoReq} \cup WriteRequest \cup PullRequest \cup PushRequest

\* TypeOK apart from the workers.
Tables ==
  /\ nextId \in Nat \ {0}
  /\ changes \subseteq ChangeRow /\ \A c \in changes : c.id < nextId
  /\ raced \subseteq {c.id : c \in changes}
  /\ cursor \in [Devices -> Ids] /\ stored \in [Devices -> Ids]
  /\ got \in [Devices -> Seq(Ids)]
  /\ pushLog \in [Pushes -> Statuses]
  /\ applied \in [Pushes -> Nat]
  /\ answers \in [Pushes -> SUBSET (Statuses \ {"none"})]
  /\ exposed \subseteq Pushes
  /\ version \in [Reps -> Nat]
  /\ stale \subseteq [push : Pushes, overlap : BOOLEAN]
  /\ started \in Nat

Handlers ==
  /\ pc \in [Workers -> Stages]
  /\ req \in [Workers -> Requests]
  /\ \A w \in Workers : RequestFits(pc[w], req[w])

LEMMA TypeParts == TypeOK <=> Tables /\ Handlers
BY DEF TypeOK, Tables, Handlers, Stages, Requests

\* The state that a request's shape depends on only grows.
LEMMA Grows ==
  ASSUME TypeOK, nextId' \in {nextId, nextId + 1}
  PROVE  /\ Ids \subseteq Ids' /\ WriteRequest \subseteq WriteRequest'
         /\ PullRequest \subseteq PullRequest' /\ PushRequest \subseteq PushRequest'
         /\ Requests \subseteq Requests' /\ Seq(Ids) \subseteq Seq(Ids')
<1>1. Ids \subseteq Ids'
  <2>1. nextId \in Nat \ {0}
    BY DEF TypeOK
  <2>2. nextId - 1 \in Int /\ nextId' - 1 \in Int /\ nextId - 1 <= nextId' - 1
    <3>1. CASE nextId' = nextId
      BY <2>1, <3>1
    <3>2. CASE nextId' = nextId + 1
      BY <2>1, <3>2
    <3> QED BY <3>1, <3>2
  <2>3. \A x \in Ids : x \in 0..(nextId' - 1)
    BY <2>2 DEF Ids
  <2> QED BY <2>3 DEF Ids
<1>2. WriteRequest \subseteq WriteRequest'
  BY <1>1 DEF WriteRequest
<1>3. PullRequest \subseteq PullRequest'
  BY <1>1 DEF PullRequest
<1>4. PushRequest \subseteq PushRequest'
  BY <1>1 DEF PushRequest
<1>5. Seq(Ids) \subseteq Seq(Ids')
  <2>1. PICK I, J : I = Ids /\ J = Ids'
    OBVIOUS
  <2>2. I \subseteq J
    BY <1>1, <2>1
  <2>3. Seq(I) \subseteq Seq(J)
    BY <2>2
  <2> QED BY <2>1, <2>3
<1> QED BY <1>1, <1>2, <1>3, <1>4, <1>5 DEF Requests

\* One worker moves to another stage with another request.
LEMMA WorkerMoves ==
  ASSUME TypeOK, nextId' \in {nextId, nextId + 1},
         NEW w \in Workers, NEW stage \in Stages, NEW r \in Requests',
         pc' = [pc EXCEPT ![w] = stage], req' = [req EXCEPT ![w] = r],
         RequestFits(stage, r)'
  PROVE  Handlers'
<1>1. pc \in [Workers -> Stages] /\ req \in [Workers -> Requests]
  BY DEF TypeOK, Stages, Requests
<1>2. pc'[w] = stage /\ req'[w] = r
  BY <1>1
<1>3. ASSUME NEW v \in Workers PROVE RequestFits(pc[v], req[v])'
  <2>1. CASE v = w
    BY <1>2, <2>1
  <2>2. CASE v # w
    <3>1. pc'[v] = pc[v] /\ req'[v] = req[v] /\ RequestFits(pc[v], req[v])
      BY <1>1, <2>2 DEF TypeOK
    <3> QED BY <3>1, Grows DEF RequestFits
  <2> QED BY <2>1, <2>2
<1>4. pc' \in [Workers -> Stages]
  BY <1>1
<1>5. req' \in [Workers -> Requests']
  BY <1>1, Grows
<1> QED BY <1>3, <1>4, <1>5 DEF Handlers

LEMMA GoesIdle ==
  ASSUME TypeOK, nextId' \in {nextId, nextId + 1}, NEW w \in Workers, Done(w)
  PROVE  Handlers'
<1>1. RequestFits("idle", NoReq)' /\ "idle" \in Stages /\ NoReq \in Requests'
  BY DEF RequestFits, Stages, Requests
<1>2. pc' = [pc EXCEPT ![w] = "idle"] /\ req' = [req EXCEPT ![w] = NoReq]
  BY DEF Done, Goto
<1> QED BY <1>1, <1>2, WorkerMoves

\* A worker that keeps its request.
LEMMA KeepsRequest ==
  ASSUME TypeOK, nextId' \in {nextId, nextId + 1},
         NEW w \in Workers, NEW stage \in Stages, Goto(w, stage), UNCHANGED req,
         RequestFits(stage, req[w])
  PROVE  Handlers'
<1>1. req[w] \in Requests /\ req' = [req EXCEPT ![w] = req[w]]
  BY DEF TypeOK, Requests
<1>2. PICK r : r = req[w]
  OBVIOUS
<1>3. r \in Requests' /\ RequestFits(stage, r)'
  BY <1>1, <1>2, Grows DEF RequestFits
<1>4. pc' = [pc EXCEPT ![w] = stage] /\ req' = [req EXCEPT ![w] = r]
  BY <1>1, <1>2 DEF Goto
<1> QED BY <1>3, <1>4, WorkerMoves

LEMMA InitTypes == Init => TypeOK
<1> SUFFICES ASSUME Init PROVE TypeOK
  OBVIOUS
<1>1. Ids = {0}
  BY DEF Init, Ids
<1>2. Tables
  BY <1>1 DEF Init, Tables, Statuses
<1>3. Handlers
  BY DEF Init, Handlers, Stages, Requests, RequestFits
<1> QED BY <1>2, <1>3, TypeParts

\* A request arrives with nothing of the feed or the devices changed.
LEMMA ArriveTypes ==
  ASSUME TypeOK, NEW w \in Workers, NEW label \in Stages, NEW r, Arrive(w, label, r),
         r \in Requests, RequestFits(label, r), exposed' \subseteq Pushes,
         UNCHANGED <<pushLog, applied, answers, version, stale>>
  PROVE  TypeOK'
<1>1. /\ UNCHANGED <<nextId, changes, raced, cursor, stored, got>>
      /\ started' = started + 1
      /\ pc' = [pc EXCEPT ![w] = label] /\ req' = [req EXCEPT ![w] = r]
  BY DEF Arrive, Goto, feedVars, devVars
<1>2. Ids' = Ids
  BY <1>1 DEF Ids
<1>3. Tables'
  BY <1>1, <1>2 DEF TypeOK, Tables
<1>4. RequestFits(label, r)' /\ r \in Requests'
  BY <1>1, Grows DEF RequestFits
<1>5. Handlers'
  BY <1>1, <1>4, WorkerMoves
<1> QED BY <1>3, <1>5, TypeParts, PTL

LEMMA ReceiveTypes ==
  ASSUME TypeOK, NEW w \in Workers, Receive(w)
  PROVE  TypeOK'
<1>0. /\ 0 \in Ids /\ \A d \in Devices : cursor[d] \in Ids /\ cursor[d] \in Nat
      /\ Batch \in Nat \ {0} /\ Writes \subseteq Reps \cup {Global}
      /\ \A p \in Pushes : p.device \in Devices
      /\ \A d \in Devices : Rep[d] \in Reps
  BY FieldSyncAssumption DEF TypeOK, Ids
<1>1. CASE Write(w)
  <2>1. PICK s \in Writes : Arrive(w, "number", [kind |-> "write", scope |-> s, id |-> 0])
    BY <1>1 DEF Write
  <2>2. UNCHANGED <<pushLog, applied, answers, exposed, version, stale>>
    BY <1>1 DEF Write, pushVars
  <2>3. PICK r : r = [kind |-> "write", scope |-> s, id |-> 0]
    OBVIOUS
  <2>4. r \in WriteRequest
    BY <1>0, <2>3 DEF WriteRequest
  <2>5. r \in Requests /\ RequestFits("number", r) /\ "number" \in Stages /\ exposed' \subseteq Pushes
    BY <2>2, <2>4 DEF Requests, RequestFits, Stages, TypeOK
  <2> QED BY <2>1, <2>2, <2>3, <2>5, ArriveTypes
<1>2. CASE StartPull(w)
  <2>1. PICK d \in Devices :
          Arrive(w, "rows", [kind |-> "pull", device |-> d, since |-> cursor[d],
                             rows |-> {}, to |-> cursor[d]])
    BY <1>2 DEF StartPull
  <2>2. UNCHANGED <<pushLog, applied, answers, exposed, version, stale>>
    BY <1>2 DEF StartPull, pushVars
  <2>3. PICK r : r = [kind |-> "pull", device |-> d, since |-> cursor[d],
                      rows |-> {}, to |-> cursor[d]]
    OBVIOUS
  <2>4. r \in PullRequest /\ r.to >= r.since /\ r.rows = {}
    BY <1>0, <2>3 DEF PullRequest
  <2>5. Cardinality(r.rows) <= Batch
    BY <1>0, <2>4, FS_EmptySet
  <2>6. r \in Requests /\ RequestFits("rows", r) /\ "rows" \in Stages /\ exposed' \subseteq Pushes
    BY <2>2, <2>4, <2>5 DEF Requests, RequestFits, Stages, TypeOK
  <2> QED BY <2>1, <2>2, <2>3, <2>6, ArriveTypes
<1>3. CASE StartPush(w)
  <2>1. PICK p \in Pushes :
          Arrive(w, "seen", [kind |-> "push", push |-> p, status |-> "none", read |-> 0,
                             scope |-> Rep[p.device], id |-> 0])
            /\ exposed' \in {exposed, exposed \cup {p}}
    BY <1>3 DEF StartPush
  <2>2. UNCHANGED <<pushLog, applied, answers, version, stale>>
    BY <1>3 DEF StartPush
  <2>3. PICK r : r = [kind |-> "push", push |-> p, status |-> "none", read |-> 0,
                      scope |-> Rep[p.device], id |-> 0]
    OBVIOUS
  <2>4. r \in PushRequest
    BY <1>0, <2>3 DEF PushRequest, Statuses
  <2>5. r \in Requests /\ RequestFits("seen", r) /\ "seen" \in Stages /\ exposed' \subseteq Pushes
    BY <2>1, <2>4 DEF Requests, RequestFits, Stages, TypeOK
  <2> QED BY <2>1, <2>2, <2>3, <2>5, ArriveTypes
<1> QED BY <1>1, <1>2, <1>3 DEF Receive

\* What a pull reads are ids, and its page ends at the greatest of them.
LEMMA ScopeIds ==
  ASSUME TypeOK, NEW d
  PROVE  /\ InScope(d) \subseteq Ids /\ Ids \subseteq Nat
         /\ Ids = 0..(nextId - 1) /\ nextId - 1 \in Nat
<1>1. nextId \in Nat \ {0} /\ \A c \in changes : c \in ChangeRow /\ c.id < nextId
  BY DEF TypeOK
<1>2. \A c \in changes : c.id \in Ids
  BY <1>1 DEF ChangeRow, Ids
<1>3. InScope(d) \subseteq Ids
  BY <1>2 DEF InScope
<1> QED BY <1>1, <1>3 DEF Ids

LEMMA MaxId ==
  ASSUME TypeOK, NEW T, T \subseteq Ids, T # {}
  PROVE  Max(T) \in T /\ Max(T) \in Ids /\ \A y \in T : y <= Max(T)
<1>1. Ids = 0..(nextId - 1) /\ nextId - 1 \in Nat
  BY ScopeIds
<1>2. PICK n \in Nat : n = nextId - 1
  BY <1>1
<1>3. T \subseteq 0..n
  BY <1>1, <1>2
<1> QED BY <1>3, MaxOf

LEMMA PageOf ==
  ASSUME TypeOK, NEW d, NEW since \in Ids, NEW rows, rows = FirstOf(Newer(d, since), Batch)
  PROVE  /\ rows \subseteq Newer(d, since) /\ rows \subseteq Ids
         /\ \A x \in rows : \A y \in Newer(d, since) : y < x => y \in rows
         /\ Cardinality(rows) < Batch => rows = Newer(d, since)
         /\ Cardinality(rows) <= Batch
         /\ Max(rows \cup {since}) \in Ids /\ Max(rows \cup {since}) \in rows \cup {since}
         /\ Max(rows \cup {since}) >= since
         /\ \A x \in rows : x <= Max(rows \cup {since})
<1>1. Newer(d, since) \subseteq Ids /\ Ids = 0..(nextId - 1) /\ nextId - 1 \in Nat
  BY ScopeIds DEF Newer
<1>2. PICK n \in Nat : n = nextId - 1
  BY <1>1
<1>3. PICK T : T = Newer(d, since)
  OBVIOUS
<1>4. T \subseteq 0..n /\ Batch \in Nat /\ rows = FirstOf(T, Batch)
  BY <1>1, <1>2, <1>3, FieldSyncAssumption
<1>5. /\ rows \subseteq T
      /\ \A x \in rows : \A y \in T : y < x => y \in rows
  BY <1>4, FirstIsLow
<1>6. /\ Cardinality(rows) < Batch => rows = T
      /\ Cardinality(rows) <= Batch
  BY <1>4, FirstIsPage
<1>7. rows \cup {since} \subseteq Ids /\ rows \cup {since} # {}
  BY <1>1, <1>3, <1>5
<1>8. PICK U : U = rows \cup {since}
  OBVIOUS
<1>9. Max(U) \in U /\ Max(U) \in Ids /\ \A y \in U : y <= Max(U)
  BY <1>7, <1>8, MaxId
<1>10. since <= Max(U) /\ since \in Nat /\ Max(U) \in Nat
  BY <1>8, <1>9, ScopeIds
<1> QED BY <1>1, <1>3, <1>5, <1>6, <1>7, <1>8, <1>9, <1>10

LEMMA NumberTypes ==
  ASSUME TypeOK, NEW w \in Workers, NumberChange(w)
  PROVE  TypeOK'
<1>0. /\ UNCHANGED <<changes, raced, cursor, stored, got, pushLog, applied, answers, exposed,
                     version, stale, started>>
      /\ nextId' = nextId + 1 /\ nextId \in Nat \ {0}
      /\ req[w] \in WriteRequest \/ (req[w] \in PushRequest /\ req[w].status = "applied")
      /\ req' = [req EXCEPT ![w].id = nextId] /\ pc' = [pc EXCEPT ![w] = "publish"]
  BY DEF NumberChange, TypeOK, RequestFits, Goto, devVars, pushVars
<1>1. /\ Ids \subseteq Ids' /\ Seq(Ids) \subseteq Seq(Ids') /\ WriteRequest \subseteq WriteRequest'
      /\ PushRequest \subseteq PushRequest' /\ nextId \in Ids'
  BY <1>0, Grows DEF Ids
<1>2. Tables'
  <2>1. \A c \in changes : c.id < nextId + 1
    BY <1>0 DEF TypeOK, ChangeRow
  <2>2. cursor \in [Devices -> Ids'] /\ stored \in [Devices -> Ids'] /\ got \in [Devices -> Seq(Ids')]
    BY <1>1 DEF TypeOK
  <2> QED BY <1>0, <2>1, <2>2 DEF TypeOK, Tables
<1>3. \/ [req[w] EXCEPT !.id = nextId] \in WriteRequest'
      \/ /\ [req[w] EXCEPT !.id = nextId] \in PushRequest'
         /\ [req[w] EXCEPT !.id = nextId].status = "applied"
  <2>1. CASE req[w] \in WriteRequest
    <3>1. req[w] \in WriteRequest'
      BY <1>1, <2>1
    <3> QED BY <1>1, <3>1 DEF WriteRequest
  <2>2. CASE req[w] \in PushRequest /\ req[w].status = "applied"
    <3>1. req[w] \in PushRequest'
      BY <1>1, <2>2
    <3> QED BY <1>1, <2>2, <3>1 DEF PushRequest
  <2> QED BY <1>0, <2>1, <2>2
<1>4. PICK r : r = [req[w] EXCEPT !.id = nextId]
  OBVIOUS
<1>5. r \in Requests' /\ RequestFits("publish", r)' /\ "publish" \in Stages
  <2>1. r.id # 0
    BY <1>0, <1>4 DEF WriteRequest, PushRequest
  <2> QED BY <1>3, <1>4, <2>1 DEF Requests, RequestFits, Stages
<1>6. req' = [req EXCEPT ![w] = r]
  BY <1>0, <1>4 DEF TypeOK
<1>7. Handlers'
  BY <1>0, <1>5, <1>6, WorkerMoves
<1> QED BY <1>2, <1>7, TypeParts, PTL

LEMMA AfterRecordTypes ==
  ASSUME TypeOK, NEW w \in Workers, pc[w] = "publish", AfterRecord(w), UNCHANGED nextId
  PROVE  Handlers'
<1>1. CASE req[w].kind = "push"
  <2>1. Goto(w, "log") /\ UNCHANGED req
    BY <1>1 DEF AfterRecord
  <2>2. req[w] \in PushRequest /\ req[w].status = "applied"
    BY <1>1 DEF TypeOK, RequestFits, WriteRequest
  <2>3. RequestFits("log", req[w]) /\ "log" \in Stages
    BY <1>1, <2>2 DEF RequestFits, Stages
  <2> QED BY <2>1, <2>3, KeepsRequest
<1>2. CASE req[w].kind # "push"
  BY <1>2, GoesIdle DEF AfterRecord
<1> QED BY <1>1, <1>2

LEMMA PublishTypes ==
  ASSUME TypeOK, NEW w \in Workers, PublishChange(w)
  PROVE  TypeOK'
<1>0. /\ UNCHANGED <<nextId, cursor, stored, got, pushLog, applied, answers, exposed,
                     version, stale, started>>
      /\ pc[w] = "publish" /\ AfterRecord(w) /\ Ids' = Ids
  BY DEF PublishChange, devVars, pushVars, Ids
<1>1. Handlers'
  BY <1>0, AfterRecordTypes
<1>2. CASE UNCHANGED <<changes, raced>>
  <2>1. Tables'
    BY <1>0, <1>2 DEF TypeOK, Tables
  <2> QED BY <1>1, <2>1, TypeParts, PTL
<1>3. CASE /\ changes' = changes \cup {[id |-> req[w].id, scope |-> req[w].scope]}
           /\ raced' \subseteq raced \cup {req[w].id}
  <2> DEFINE row == [id |-> req[w].id, scope |-> req[w].scope]
  <2>1. req[w].id \in Ids /\ req[w].id # 0 /\ req[w].scope \in Reps \cup {Global}
    BY <1>0 DEF TypeOK, RequestFits, WriteRequest, PushRequest
  <2>2. row \in ChangeRow /\ row.id < nextId
    BY <2>1 DEF ChangeRow, Ids, TypeOK
  <2>3. changes' \subseteq ChangeRow /\ \A c \in changes' : c.id < nextId
    BY <1>3, <2>2 DEF TypeOK
  <2>4. raced' \subseteq {c.id : c \in changes'}
    BY <1>3, <2>2 DEF TypeOK
  <2>5. Tables'
    BY <1>0, <2>3, <2>4 DEF TypeOK, Tables
  <2> QED BY <1>1, <2>5, TypeParts, PTL
<1> QED BY <1>2, <1>3 DEF PublishChange

LEMMA PullTypes ==
  ASSUME TypeOK, NEW w \in Workers, PullChanges(w)
  PROVE  TypeOK'
<1> DEFINE rows == FirstOf(Newer(req[w].device, req[w].since), Batch)
           to == Max(rows \cup {req[w].since})
<1>0. /\ UNCHANGED <<nextId, changes, raced, cursor, stored, got, pushLog, applied, answers,
                     exposed, version, stale, started>>
      /\ req[w] \in PullRequest /\ Ids' = Ids
      /\ req' = [req EXCEPT ![w].rows = rows, ![w].to = to]
      /\ \E st \in {"high", "store"} : pc' = [pc EXCEPT ![w] = st]
  BY DEF PullChanges, TypeOK, RequestFits, feedVars, devVars, pushVars, Ids, Goto
<1>1. /\ rows \subseteq Ids /\ Cardinality(rows) <= Batch
      /\ to \in Ids /\ to >= req[w].since
  <2>1. req[w].since \in Ids
    BY <1>0 DEF PullRequest
  <2> HIDE DEF rows
  <2>2. rows = FirstOf(Newer(req[w].device, req[w].since), Batch)
    BY DEF rows
  <2> QED BY <2>1, <2>2, PageOf
<1> HIDE DEF rows, to
<1>2. PICK r : r = [req[w] EXCEPT !.rows = rows, !.to = to]
  OBVIOUS
<1>3. /\ r \in PullRequest /\ r.to = to /\ r.rows = rows /\ r.since = req[w].since
  BY <1>0, <1>1, <1>2 DEF PullRequest
<1>4. PICK st \in {"high", "store"} : pc' = [pc EXCEPT ![w] = st]
  BY <1>0
<1>5. st \in Stages /\ RequestFits(st, r)' /\ r \in Requests'
  <2>1. r \in PullRequest'
    BY <1>0, <1>3, Grows
  <2>2. r.to >= r.since /\ Cardinality(r.rows) <= Batch
    BY <1>1, <1>3
  <2> QED BY <2>1, <2>2 DEF Stages, RequestFits, Requests
<1>6. req' = [req EXCEPT ![w] = r]
  BY <1>0, <1>2 DEF TypeOK
<1>8. Handlers'
  BY <1>0, <1>4, <1>5, <1>6, WorkerMoves
<1>9. Tables'
  BY <1>0 DEF TypeOK, Tables
<1> QED BY <1>8, <1>9, TypeParts, PTL

\* Where a pull stands after the high-water query.
LEMMA HighMark ==
  ASSUME TypeOK, NEW d, NEW to \in Ids
  PROVE  /\ Max(InScope(d) \cup {to}) \in Ids /\ Max(InScope(d) \cup {to}) >= to
         /\ \A x \in InScope(d) : x <= Max(InScope(d) \cup {to})
<1>1. PICK U : U = InScope(d) \cup {to}
  OBVIOUS
<1>2. U \subseteq Ids /\ U # {} /\ Ids \subseteq Nat
  BY <1>1, ScopeIds
<1>3. Max(U) \in Ids /\ \A y \in U : y <= Max(U)
  BY <1>2, MaxId
<1>4. to <= Max(U) /\ to \in Nat /\ Max(U) \in Nat
  BY <1>1, <1>2, <1>3
<1> QED BY <1>1, <1>3, <1>4

LEMMA HighTypes ==
  ASSUME TypeOK, NEW w \in Workers, HighWater(w)
  PROVE  TypeOK'
<1> DEFINE top == Max(InScope(req[w].device) \cup {req[w].to})
<1>0. /\ UNCHANGED <<nextId, changes, raced, cursor, stored, got, pushLog, applied, answers,
                     exposed, version, stale, started>>
      /\ req[w] \in PullRequest /\ req[w].to >= req[w].since /\ Cardinality(req[w].rows) <= Batch
      /\ Ids' = Ids /\ DOMAIN req = Workers
      /\ Goto(w, "store")
  BY DEF HighWater, TypeOK, RequestFits, feedVars, devVars, pushVars, Ids
<1>1. CASE UNCHANGED req
  <2>1. RequestFits("store", req[w]) /\ "store" \in Stages
    BY <1>0 DEF RequestFits, Stages
  <2>2. Handlers'
    BY <1>0, <1>1, <2>1, KeepsRequest
  <2>3. Tables'
    BY <1>0 DEF TypeOK, Tables
  <2> QED BY <2>2, <2>3, TypeParts, PTL
<1>2. CASE req' = [req EXCEPT ![w].to = top]
  <2>1. top \in Ids /\ top >= req[w].to
    <3>1. req[w].to \in Ids
      BY <1>0 DEF PullRequest
    <3> QED BY <3>1, HighMark
  <2>2. top >= req[w].since
    <3>1. req[w].to \in Nat /\ req[w].since \in Nat /\ top \in Nat
      BY <1>0, <2>1, ScopeIds DEF PullRequest
    <3> HIDE DEF top
    <3> QED BY <1>0, <2>1, <3>1
  <2> HIDE DEF top
  <2>3. PICK r : r = [req[w] EXCEPT !.to = top]
    OBVIOUS
  <2>4. r \in PullRequest /\ r.to = top /\ r.rows = req[w].rows /\ r.since = req[w].since
    BY <1>0, <2>1, <2>3 DEF PullRequest
  <2>5. "store" \in Stages /\ RequestFits("store", r)' /\ r \in Requests'
    <3>1. r \in PullRequest'
      BY <1>0, <2>4, Grows
    <3>2. r.to >= r.since /\ Cardinality(r.rows) <= Batch
      BY <1>0, <2>2, <2>4
    <3> QED BY <3>1, <3>2 DEF Stages, RequestFits, Requests
  <2>6. req' = [req EXCEPT ![w] = r] /\ pc' = [pc EXCEPT ![w] = "store"]
    BY <1>0, <1>2, <2>3 DEF Goto
  <2>7. Handlers'
    BY <1>0, <2>5, <2>6, WorkerMoves
  <2>8. Tables'
    BY <1>0 DEF TypeOK, Tables
  <2> QED BY <2>7, <2>8, TypeParts, PTL
<1> QED BY <1>1, <1>2 DEF HighWater

LEMMA StoreTypes ==
  ASSUME TypeOK, NEW w \in Workers, StoreCursor(w)
  PROVE  TypeOK'
<1>0. /\ UNCHANGED <<nextId, changes, raced, cursor, got, pushLog, applied, answers,
                     exposed, version, stale, started, req>>
      /\ req[w] \in PullRequest /\ req[w].to >= req[w].since /\ Cardinality(req[w].rows) <= Batch
      /\ Ids' = Ids /\ Goto(w, "answer")
  BY DEF StoreCursor, TypeOK, RequestFits, feedVars, pushVars, Ids
<1>1. stored' \in [Devices -> Ids]
  BY <1>0 DEF StoreCursor, PullRequest, TypeOK
<1>2. Tables'
  BY <1>0, <1>1 DEF TypeOK, Tables
<1>3. RequestFits("answer", req[w]) /\ "answer" \in Stages
  BY <1>0 DEF RequestFits, Stages
<1>4. Handlers'
  BY <1>0, <1>3, KeepsRequest
<1> QED BY <1>2, <1>4, TypeParts, PTL

LEMMA AnswerTypes ==
  ASSUME TypeOK, NEW w \in Workers, AnswerPull(w)
  PROVE  TypeOK'
<1>0. /\ UNCHANGED <<nextId, changes, raced, stored, pushLog, applied, answers,
                     exposed, version, stale, started>>
      /\ req[w] \in PullRequest /\ Done(w) /\ Ids' = Ids
      /\ cursor' = [cursor EXCEPT ![req[w].device] = req[w].to]
      /\ got' = [got EXCEPT ![req[w].device] = @ \o InOrder(req[w].rows)]
  BY DEF AnswerPull, TypeOK, RequestFits, feedVars, pushVars, Ids
<1>1. cursor' \in [Devices -> Ids]
  BY <1>0 DEF PullRequest, TypeOK
<1>2. InOrder(req[w].rows) \in Seq(Ids)
  <2>1. req[w].rows \subseteq Ids
    BY <1>0 DEF PullRequest
  <2>2. PICK n \in Nat : n = nextId - 1
    BY ScopeIds
  <2>3. PICK T : T = req[w].rows
    OBVIOUS
  <2>4. T \subseteq 0..n /\ T \subseteq Ids
    BY <2>1, <2>2, <2>3 DEF Ids
  <2>5. InOrder(T) \in Seq(T)
    BY <2>4, InOrderLists
  <2>6. InOrder(T) \in Seq(Ids)
    <3>1. PICK I, l : I = Ids /\ l = InOrder(T)
      OBVIOUS
    <3>2. T \subseteq I /\ l \in Seq(T)
      BY <2>4, <2>5, <3>1
    <3>3. l \in Seq(I)
      BY <3>2
    <3> QED BY <3>1, <3>3
  <2> QED BY <2>3, <2>6
<1>3. got' \in [Devices -> Seq(Ids)]
  <2>1. \A d \in Devices : got[d] \o InOrder(req[w].rows) \in Seq(Ids)
    <3> SUFFICES ASSUME NEW d \in Devices PROVE got[d] \o InOrder(req[w].rows) \in Seq(Ids)
      OBVIOUS
    <3>1. got[d] \in Seq(Ids)
      BY DEF TypeOK
    <3> QED BY <1>2, <3>1
  <2> QED BY <1>0, <2>1 DEF TypeOK
<1>4. Tables'
  BY <1>0, <1>1, <1>3 DEF TypeOK, Tables
<1>5. Handlers'
  BY <1>0, GoesIdle
<1> QED BY <1>4, <1>5, TypeParts, PTL

LEMMA LookUpTypes ==
  ASSUME TypeOK, NEW w \in Workers, LookUp(w)
  PROVE  TypeOK'
<1> DEFINE p == req[w].push
<1>0. /\ UNCHANGED <<nextId, changes, raced, cursor, stored, got, pushLog, applied, answers,
                     version, stale, started>>
      /\ req[w] \in PushRequest /\ Ids' = Ids /\ p \in Pushes
  BY DEF LookUp, TypeOK, RequestFits, feedVars, devVars, Ids, PushRequest
<1>1. CASE Seen(p) /\ req' = [req EXCEPT ![w].status = pushLog[p]] /\ Goto(w, "reply")
             /\ UNCHANGED exposed
  <2>1. PICK r : r = [req[w] EXCEPT !.status = pushLog[p]]
    OBVIOUS
  <2>2. r \in PushRequest /\ r.status # "none"
    BY <1>0, <1>1, <2>1 DEF PushRequest, TypeOK, Seen
  <2>3. r \in PushRequest'
    BY <1>0, <2>2, Grows
  <2>4. RequestFits("reply", r)' /\ r \in Requests' /\ "reply" \in Stages
    BY <2>2, <2>3 DEF RequestFits, Requests, Stages
  <2>5. req' = [req EXCEPT ![w] = r] /\ pc' = [pc EXCEPT ![w] = "reply"]
    BY <1>1, <2>1 DEF Goto, TypeOK
  <2>6. Handlers'
    BY <1>0, <2>4, <2>5, WorkerMoves
  <2>7. Tables'
    BY <1>0, <1>1 DEF TypeOK, Tables
  <2> QED BY <2>6, <2>7, TypeParts, PTL
<1>2. CASE exposed' \in {exposed, exposed \cup {p}} /\ Goto(w, "dispatch") /\ UNCHANGED req
  <2>1. Tables'
    BY <1>0, <1>2 DEF TypeOK, Tables
  <2>2. RequestFits("dispatch", req[w]) /\ "dispatch" \in Stages
    BY <1>0 DEF RequestFits, Stages
  <2>3. Handlers'
    BY <1>0, <1>2, <2>2, KeepsRequest
  <2> QED BY <2>1, <2>3, TypeParts, PTL
<1> QED BY <1>1, <1>2 DEF LookUp

\* The change took effect, or has its outcome.
LEMMA EffectTypes ==
  ASSUME TypeOK, NEW w \in Workers, req[w] \in PushRequest, UNCHANGED nextId,
         Effect(w, req[w].push)
  PROVE  Handlers' /\ applied' \in [Pushes -> Nat]
<1>1. PICK r : r = [req[w] EXCEPT !.status = "applied"]
  OBVIOUS
<1>2. r \in PushRequest /\ r.status = "applied"
  BY <1>1 DEF PushRequest, Statuses
<1>3. r \in PushRequest'
  BY <1>2, Grows
<1>4. RequestFits("number", r)' /\ r \in Requests' /\ "number" \in Stages
  BY <1>2, <1>3 DEF RequestFits, Requests, Stages
<1>5. req' = [req EXCEPT ![w] = r] /\ pc' = [pc EXCEPT ![w] = "number"]
  BY <1>1 DEF Effect, Goto, TypeOK
<1>6. Handlers'
  BY <1>4, <1>5, WorkerMoves
<1>7. applied' \in [Pushes -> Nat]
  BY DEF Effect, PushRequest, TypeOK
<1> QED BY <1>6, <1>7

LEMMA OutcomeTypes ==
  ASSUME TypeOK, NEW w \in Workers, req[w] \in PushRequest, UNCHANGED nextId,
         NEW status \in Statuses \ {"none"}, Outcome(w, status)
  PROVE  Handlers'
<1>1. PICK r : r = [req[w] EXCEPT !.status = status]
  OBVIOUS
<1>2. r \in PushRequest /\ r.status # "none"
  BY <1>1 DEF PushRequest
<1>3. r \in PushRequest'
  BY <1>2, Grows
<1>4. RequestFits("log", r)' /\ r \in Requests' /\ "log" \in Stages
  BY <1>2, <1>3 DEF RequestFits, Requests, Stages
<1>5. req' = [req EXCEPT ![w] = r] /\ pc' = [pc EXCEPT ![w] = "log"]
  BY <1>1 DEF Outcome, Goto, TypeOK
<1> QED BY <1>4, <1>5, WorkerMoves

LEMMA CreateTypes ==
  ASSUME TypeOK, NEW w \in Workers, Create(w)
  PROVE  TypeOK'
<1>0. /\ UNCHANGED <<nextId, changes, raced, cursor, stored, got, pushLog, answers, exposed,
                     version, stale, started>>
      /\ req[w] \in PushRequest /\ Ids' = Ids
  BY DEF Create, TypeOK, RequestFits, feedVars, devVars, Ids
<1>1. Handlers' /\ applied' \in [Pushes -> Nat]
  <2>1. CASE Effect(w, req[w].push)
    BY <1>0, <2>1, EffectTypes
  <2>2. CASE Outcome(w, "rejected") /\ UNCHANGED applied
    <3>1. "rejected" \in Statuses \ {"none"}
      BY DEF Statuses
    <3>2. Handlers'
      BY <1>0, <2>2, <3>1, OutcomeTypes
    <3> QED BY <2>2, <3>2 DEF TypeOK
  <2> QED BY <2>1, <2>2 DEF Create
<1>2. Tables'
  BY <1>0, <1>1 DEF TypeOK, Tables
<1> QED BY <1>1, <1>2, TypeParts, PTL

LEMMA CheckTypes ==
  ASSUME TypeOK, NEW w \in Workers, CheckEdit(w)
  PROVE  TypeOK'
<1>0. /\ UNCHANGED <<nextId, changes, raced, cursor, stored, got, pushLog, applied, answers,
                     exposed, version, stale, started>>
      /\ req[w] \in PushRequest /\ Ids' = Ids
  BY DEF CheckEdit, TypeOK, RequestFits, feedVars, devVars, pushVars, Ids
<1>1. Tables'
  BY <1>0 DEF TypeOK, Tables
<1>2. CASE Outcome(w, "rejected") \/ Outcome(w, "conflict")
  <2>1. {"rejected", "conflict"} \subseteq Statuses \ {"none"}
    BY DEF Statuses
  <2>2. Handlers'
    BY <1>0, <1>2, <2>1, OutcomeTypes
  <2> QED BY <1>1, <2>2, TypeParts, PTL
<1>3. CASE \E at \in Nat : req' = [req EXCEPT ![w].read = at] /\ Goto(w, "update")
  <2>1. PICK at \in Nat : req' = [req EXCEPT ![w].read = at] /\ Goto(w, "update")
    BY <1>3
  <2>2. PICK r : r = [req[w] EXCEPT !.read = at]
    OBVIOUS
  <2>3. r \in PushRequest
    BY <1>0, <2>2 DEF PushRequest
  <2>4. r \in PushRequest'
    BY <1>0, <2>3, Grows
  <2>5. RequestFits("update", r)' /\ r \in Requests' /\ "update" \in Stages
    BY <2>4 DEF RequestFits, Requests, Stages
  <2>6. req' = [req EXCEPT ![w] = r] /\ pc' = [pc EXCEPT ![w] = "update"]
    BY <2>1, <2>2 DEF Goto, TypeOK
  <2>7. Handlers'
    BY <1>0, <2>5, <2>6, WorkerMoves
  <2> QED BY <1>1, <2>7, TypeParts, PTL
<1>4. version[Rep[req[w].push.device]] \in Nat
  BY <1>0, FieldSyncAssumption DEF PushRequest, TypeOK
<1> QED BY <1>2, <1>3, <1>4 DEF CheckEdit

LEMMA UpdateTypes ==
  ASSUME TypeOK, NEW w \in Workers, UpdateActivity(w)
  PROVE  TypeOK'
<1> DEFINE p == req[w].push
<1>0. /\ UNCHANGED <<nextId, changes, raced, cursor, stored, got, pushLog, answers, exposed, started>>
      /\ req[w] \in PushRequest /\ Ids' = Ids
  BY DEF UpdateActivity, TypeOK, RequestFits, feedVars, devVars, Ids
<1>1. CASE Outcome(w, "rejected") /\ UNCHANGED <<version, stale, applied>>
  <2>1. Tables'
    BY <1>0, <1>1 DEF TypeOK, Tables
  <2>2. "rejected" \in Statuses \ {"none"}
    BY DEF Statuses
  <2>3. Handlers'
    BY <1>0, <1>1, <2>2, OutcomeTypes
  <2> QED BY <2>1, <2>3, TypeParts, PTL
<1>2. CASE ~ (Outcome(w, "rejected") /\ UNCHANGED <<version, stale, applied>>)
  <2>1. Handlers' /\ applied' \in [Pushes -> Nat]
    BY <1>0, <1>2, EffectTypes DEF UpdateActivity
  <2>2. p \in Pushes /\ Rep[p.device] \in Reps
    BY <1>0, FieldSyncAssumption DEF PushRequest
  <2>3. version' \in [Reps -> Nat]
    BY <1>2, <2>2 DEF UpdateActivity, TypeOK
  <2>4. stale' \subseteq [push : Pushes, overlap : BOOLEAN]
    <3>1. \E b \in BOOLEAN : stale' \in {stale, stale \cup {[push |-> p, overlap |-> b]}}
      BY <1>2 DEF UpdateActivity
    <3>2. \A b \in BOOLEAN : [push |-> p, overlap |-> b] \in [push : Pushes, overlap : BOOLEAN]
      BY <2>2
    <3> QED BY <3>1, <3>2 DEF TypeOK
  <2>5. Tables'
    BY <1>0, <2>1, <2>3, <2>4 DEF TypeOK, Tables
  <2> QED BY <2>1, <2>5, TypeParts, PTL
<1> QED BY <1>1, <1>2

LEMMA LogTypes ==
  ASSUME TypeOK, NEW w \in Workers, LogPush(w)
  PROVE  TypeOK'
<1>0. /\ UNCHANGED <<nextId, changes, raced, cursor, stored, got, applied, answers, version,
                     stale, req, started>>
      /\ req[w] \in PushRequest /\ Goto(w, "reply") /\ Ids' = Ids
      /\ req[w].push \in Pushes /\ req[w].status \in Statuses \ {"none"}
  BY DEF LogPush, TypeOK, RequestFits, PushRequest, feedVars, devVars, Ids
<1>1. pushLog' \in [Pushes -> Statuses] /\ exposed' \subseteq Pushes
  BY <1>0 DEF LogPush, TypeOK
<1>2. Tables'
  BY <1>0, <1>1 DEF TypeOK, Tables
<1>3. RequestFits("reply", req[w]) /\ "reply" \in Stages
  BY <1>0 DEF RequestFits, Stages
<1>4. Handlers'
  BY <1>0, <1>3, KeepsRequest
<1> QED BY <1>2, <1>4, TypeParts, PTL

LEMMA AnswerPushTypes ==
  ASSUME TypeOK, NEW w \in Workers, AnswerPush(w)
  PROVE  TypeOK'
<1>0. /\ UNCHANGED <<nextId, changes, raced, cursor, stored, got, pushLog, applied, exposed,
                     version, stale, started>>
      /\ Done(w) /\ Ids' = Ids
      /\ req[w].push \in Pushes /\ req[w].status \in Statuses \ {"none"}
  BY DEF AnswerPush, TypeOK, RequestFits, PushRequest, feedVars, devVars, Ids
<1>1. answers' \in [Pushes -> SUBSET (Statuses \ {"none"})]
  BY <1>0 DEF AnswerPush, TypeOK
<1>2. Tables'
  BY <1>0, <1>1 DEF TypeOK, Tables
<1>3. Handlers'
  BY <1>0, GoesIdle
<1> QED BY <1>2, <1>3, TypeParts, PTL

LEMMA FailTypes ==
  ASSUME TypeOK, NEW w \in Workers, Fail(w)
  PROVE  TypeOK'
<1>0. /\ UNCHANGED <<nextId, changes, raced, cursor, stored, got, pushLog, applied, answers,
                     version, stale, started>>
      /\ Done(w) /\ Ids' = Ids
  BY DEF Fail, feedVars, devVars, Ids
<1>1. exposed' \subseteq Pushes
  <2>1. req[w].kind = "push" /\ pc[w] # "idle" => req[w].push \in Pushes
    BY DEF TypeOK, RequestFits, WriteRequest, PullRequest, PushRequest
  <2> QED BY <2>1 DEF Fail, TypeOK
<1>2. Tables'
  BY <1>0, <1>1 DEF TypeOK, Tables
<1>3. Handlers'
  BY <1>0, GoesIdle
<1> QED BY <1>2, <1>3, TypeParts, PTL

LEMMA NextTypes == TypeOK /\ [Next]_vars => TypeOK'
<1> SUFFICES ASSUME TypeOK, [Next]_vars PROVE TypeOK'
  OBVIOUS
<1>1. ASSUME NEW w \in Workers, Serve(w) PROVE TypeOK'
  BY <1>1, NumberTypes, PublishTypes, PullTypes, HighTypes, StoreTypes, AnswerTypes,
     LookUpTypes, CreateTypes, CheckTypes, UpdateTypes, LogTypes, AnswerPushTypes DEF Serve
<1>2. ASSUME NEW w \in Workers, Receive(w) \/ Fail(w) PROVE TypeOK'
  BY <1>2, ReceiveTypes, FailTypes
<1>3. CASE Rest \/ UNCHANGED vars
  <2>1. UNCHANGED <<nextId, changes, raced, cursor, stored, got, pushLog, applied, answers,
                    exposed, version, stale, pc, req, started>>
    BY <1>3 DEF Rest, vars, feedVars, devVars, pushVars
  <2>2. Ids' = Ids /\ WriteRequest' = WriteRequest /\ PullRequest' = PullRequest
          /\ PushRequest' = PushRequest
    BY <2>1 DEF Ids, WriteRequest, PullRequest, PushRequest
  <2> QED BY <2>1, <2>2 DEF TypeOK, RequestFits
<1> QED BY <1>1, <1>2, <1>3 DEF Next

LEMMA SpecTypes == Spec => []TypeOK
BY InitTypes, NextTypes, PTL DEF Spec

-----------------------------------------------------------------------------
(* What a step leaves alone.                                               *)

\* Every worker but w is where it was.
OthersSame(w) == \A v \in Workers \ {w} : pc'[v] = pc[v] /\ req'[v] = req[v]

LEMMA OneMoves ==
  ASSUME TypeOK, NEW w \in Workers, Receive(w) \/ Serve(w) \/ Fail(w)
  PROVE  OthersSame(w)
<1>0. pc \in [Workers -> Stages] /\ req \in [Workers -> Requests]
  BY DEF TypeOK, Stages, Requests
<1>1. CASE Receive(w)
  BY <1>0, <1>1 DEF Receive, Write, StartPull, StartPush, Arrive, Goto, OthersSame
<1>2. CASE NumberChange(w) \/ PublishChange(w) \/ Fail(w)
  BY <1>0, <1>2 DEF NumberChange, PublishChange, AfterRecord, Fail, Done, Goto, OthersSame
<1>3. CASE PullChanges(w) \/ HighWater(w) \/ StoreCursor(w) \/ AnswerPull(w)
  BY <1>0, <1>3 DEF PullChanges, HighWater, StoreCursor, AnswerPull, Done, Goto, OthersSame
<1>4. CASE LookUp(w) \/ Create(w) \/ CheckEdit(w) \/ UpdateActivity(w) \/ LogPush(w)
             \/ AnswerPush(w)
  BY <1>0, <1>4 DEF LookUp, Create, CheckEdit, UpdateActivity, LogPush, AnswerPush, Effect,
     Outcome, Done, Goto, OthersSame
<1> QED BY <1>1, <1>2, <1>3, <1>4 DEF Serve

-----------------------------------------------------------------------------
(* Stale edits.                                                            *)

\* An edit about to be written read a version that its base allows.
StaleInv ==
  /\ StaleOnlyByOverlap
  /\ \A w \in Workers : pc[w] = "update" =>
       req[w].push.base = NoBase \/ req[w].read <= req[w].push.base

LEMMA StaleStep == TypeOK /\ StaleInv /\ [Next]_vars => StaleInv'
<1> SUFFICES ASSUME TypeOK, StaleInv, [Next]_vars PROVE StaleInv'
  OBVIOUS
<1>0. /\ pc \in [Workers -> Stages] /\ req \in [Workers -> Requests]
      /\ \A p \in Pushes : p.base \in Nat \cup {NoBase} /\ version[Rep[p.device]] \in Nat
  BY FieldSyncAssumption DEF TypeOK, Stages, Requests
<1>1. ASSUME NEW w \in Workers, UpdateActivity(w) PROVE StaleInv'
  <2>1. pc'[w] \in {"number", "log"} /\ OthersSame(w)
    BY <1>0, <1>1, OneMoves DEF Serve, UpdateActivity, Effect, Outcome, Goto
  <2>2. ASSUME NEW e \in stale' PROVE e.overlap
    <3> DEFINE p == req[w].push
               r == Rep[p.device]
    <3>1. CASE e \in stale
      BY <3>1 DEF StaleInv, StaleOnlyByOverlap
    <3>2. CASE /\ p.base # NoBase /\ version[r] > p.base
               /\ e = [push |-> p, overlap |-> req[w].read # version[r]]
      <4>1. p \in Pushes /\ req[w].read \in Nat
        BY <1>1 DEF UpdateActivity, TypeOK, RequestFits, PushRequest
      <4>2. req[w].read <= p.base
        BY <1>1, <3>2 DEF StaleInv, UpdateActivity
      <4>3. req[w].read # version[r]
        BY <1>0, <3>2, <4>1, <4>2
      <4> QED BY <3>2, <4>3
    <3> QED BY <1>1, <2>2, <3>1, <3>2 DEF UpdateActivity
  <2> QED BY <2>1, <2>2 DEF StaleInv, StaleOnlyByOverlap, OthersSame
<1>2. ASSUME NEW w \in Workers, CheckEdit(w) PROVE StaleInv'
  <2>1. OthersSame(w) /\ UNCHANGED stale
    BY <1>2, OneMoves DEF Serve, CheckEdit, pushVars
  <2>2. ASSUME pc'[w] = "update" PROVE req'[w].push.base = NoBase \/ req'[w].read <= req'[w].push.base
    <3> DEFINE p == req[w].push
               at == version[Rep[p.device]]
    <3>1. req' = [req EXCEPT ![w].read = at] /\ ~ Conflicts(at, p.base)
      BY <1>0, <1>2, <2>2 DEF CheckEdit, Outcome, Goto
    <3>2. req[w] \in PushRequest /\ p \in Pushes
      BY <1>2 DEF CheckEdit, TypeOK, RequestFits, PushRequest
    <3>3. req'[w].push = p /\ req'[w].read = at
      BY <1>0, <3>1, <3>2 DEF PushRequest
    <3> HIDE DEF at
    <3>4. at \in Nat /\ p.base \in Nat \cup {NoBase}
      BY <1>0, <3>2 DEF at
    <3> QED BY <3>1, <3>3, <3>4 DEF Conflicts
  <2> QED BY <2>1, <2>2 DEF StaleInv, StaleOnlyByOverlap, OthersSame
<1>3. ASSUME NEW w \in Workers, Receive(w) \/ Fail(w) \/ Serve(w),
             ~ UpdateActivity(w), ~ CheckEdit(w)
      PROVE  StaleInv'
  <2>1. OthersSame(w)
    BY <1>3, OneMoves
  <2>2. UNCHANGED stale /\ pc'[w] # "update"
    <3>1. CASE Receive(w)
      BY <1>0, <3>1 DEF Receive, Write, StartPull, StartPush, Arrive, Goto, pushVars
    <3>2. CASE NumberChange(w) \/ PublishChange(w) \/ Fail(w)
      BY <1>0, <3>2 DEF NumberChange, PublishChange, AfterRecord, Fail, Done, Goto, pushVars
    <3>3. CASE PullChanges(w) \/ HighWater(w) \/ StoreCursor(w) \/ AnswerPull(w)
      BY <1>0, <3>3 DEF PullChanges, HighWater, StoreCursor, AnswerPull, Done, Goto, pushVars
    <3>4. CASE LookUp(w) \/ Create(w) \/ LogPush(w) \/ AnswerPush(w)
      BY <1>0, <3>4 DEF LookUp, Create, LogPush, AnswerPush, Effect, Outcome, Done, Goto
    <3> QED BY <1>3, <3>1, <3>2, <3>3, <3>4 DEF Serve
  <2> QED BY <2>1, <2>2 DEF StaleInv, StaleOnlyByOverlap, OthersSame
<1>4. CASE Rest \/ UNCHANGED vars
  BY <1>4 DEF Rest, vars, pushVars, StaleInv, StaleOnlyByOverlap
<1> QED BY <1>1, <1>2, <1>3, <1>4 DEF Next

(* An edit overwrites a version newer than its base only if that version   *)
(* came between its check and its update (applyActivity).                  *)
THEOREM StaleAlwaysByOverlap == Spec => []StaleOnlyByOverlap
<1>1. Init => StaleInv
  BY DEF Init, StaleInv, StaleOnlyByOverlap
<1>2. StaleInv => StaleOnlyByOverlap
  BY DEF StaleInv
<1> QED BY <1>1, <1>2, SpecTypes, StaleStep, PTL DEF Spec

-----------------------------------------------------------------------------
(* Repeated changes.                                                       *)

\* Worker w has found nothing in the log for p and is at work on it.
Past(p, w) == Unlogged(p, w) /\ pc[w] # "seen"

Once(b) == IF b THEN 1 ELSE 0

\* While the change is at work the log has nothing, and its only effect is
\* the one its worker remembers.
Open(p, w) ==
  pushLog[p] = "none" /\ answers[p] = {} /\ applied[p] = Once(req[w].status = "applied")

\* Otherwise the log tells everything.
Closed(p) ==
  applied[p] = Once(pushLog[p] = "applied") /\ answers[p] \subseteq {pushLog[p]}

\* A worker that is about to answer has what the log has.
Replying(p, w) == Handles(p, w) /\ pc[w] = "reply"
Told(p, w) == pushLog[p] # "none" /\ req[w].status = pushLog[p]

PushOK(p) ==
  /\ \A v, w \in Workers : Unlogged(p, v) /\ Unlogged(p, w) => v = w
  /\ \A w \in Workers : Past(p, w) => Open(p, w)
  /\ (\A w \in Workers : ~ Past(p, w)) => Closed(p)
  /\ \A w \in Workers : Replying(p, w) => Told(p, w)

PushInv ==
  /\ \A w \in Workers : pc[w] \in {"seen", "dispatch", "update"} => req[w].status = "none"
  /\ \A p \in Pushes \ exposed : PushOK(p)

\* The invariant says what the property says.
LEMMA PushInvSays == TypeOK /\ PushInv => RepeatsHaveOneOutcome
<1> SUFFICES ASSUME TypeOK, PushInv, NEW p \in Pushes \ exposed
             PROVE  /\ applied[p] <= 1 /\ answers[p] \subseteq {pushLog[p]}
                    /\ pushLog[p] # "none" => (pushLog[p] = "applied" <=> applied[p] = 1)
  BY DEF RepeatsHaveOneOutcome
<1>1. PushOK(p)
  BY DEF PushInv
<1>2. CASE \A w \in Workers : ~ Past(p, w)
  BY <1>1, <1>2 DEF PushOK, Closed, Once
<1>3. CASE \E w \in Workers : Past(p, w)
  <2>1. PICK w \in Workers : Open(p, w)
    BY <1>1, <1>3 DEF PushOK
  <2> QED BY <2>1 DEF Open, Once
<1> QED BY <1>2, <1>3

\* What a worker's step does to the changes it does not handle: nothing.
LEMMA OtherPushes ==
  ASSUME TypeOK, NEW w \in Workers, Receive(w) \/ Serve(w) \/ Fail(w),
         NEW p \in Pushes, ~ Handles(p, w)
  PROVE  /\ pushLog'[p] = pushLog[p] /\ applied'[p] = applied[p] /\ answers'[p] = answers[p]
<1>0. /\ pushLog \in [Pushes -> Statuses] /\ applied \in [Pushes -> Nat]
      /\ answers \in [Pushes -> SUBSET (Statuses \ {"none"})]
      /\ pc[w] \in {"seen", "dispatch", "update", "log", "reply"} => req[w].push # p
  <2>1. pc[w] \in {"seen", "dispatch", "update", "log", "reply"} => req[w].kind = "push"
    BY DEF TypeOK, RequestFits, PushRequest
  <2> QED BY <2>1 DEF TypeOK, Handles
<1>1. CASE Receive(w) \/ Fail(w)
  BY <1>1 DEF Receive, Write, StartPull, StartPush, Fail, pushVars
<1>2. CASE NumberChange(w) \/ PublishChange(w) \/ PullChanges(w) \/ HighWater(w)
             \/ StoreCursor(w) \/ AnswerPull(w)
  BY <1>2 DEF NumberChange, PublishChange, PullChanges, HighWater, StoreCursor, AnswerPull,
     pushVars
<1>3. CASE LookUp(w)
  BY <1>3 DEF LookUp
<1>4. CASE Create(w) \/ CheckEdit(w) \/ UpdateActivity(w)
  BY <1>0, <1>4 DEF Create, CheckEdit, UpdateActivity, Effect, pushVars
<1>5. CASE LogPush(w) \/ AnswerPush(w)
  BY <1>0, <1>5 DEF LogPush, AnswerPush
<1> QED BY <1>1, <1>2, <1>3, <1>4, <1>5 DEF Serve

LEMMA Elsewhere ==
  ASSUME TypeOK, NEW w \in Workers, Receive(w) \/ Serve(w) \/ Fail(w),
         NEW p \in Pushes, ~ Handles(p, w), ~ Handles(p, w)', PushOK(p)
  PROVE  PushOK(p)'
<1>1. pushLog'[p] = pushLog[p] /\ applied'[p] = applied[p] /\ answers'[p] = answers[p]
  BY OtherPushes
<1>2. \A v \in Workers :
        /\ Unlogged(p, v)' <=> Unlogged(p, v)
        /\ Past(p, v)' <=> Past(p, v)
        /\ Replying(p, v)' <=> Replying(p, v)
  BY OneMoves DEF OthersSame, Unlogged, Past, Replying, Handles
<1>3. \A v \in Workers : Handles(p, v) => req'[v] = req[v]
  BY OneMoves DEF OthersSame
<1>4. Closed(p)' <=> Closed(p)
  BY <1>1 DEF Closed
<1>5. \A v \in Workers : Past(p, v) => (Open(p, v)' <=> Open(p, v))
  BY <1>1, <1>3 DEF Open, Past, Unlogged
<1>6. \A v \in Workers : Replying(p, v) => (Told(p, v)' <=> Told(p, v))
  BY <1>1, <1>3 DEF Told, Replying
<1> QED BY <1>2, <1>4, <1>5, <1>6 DEF PushOK

\* The only worker that has yet to log a change.
Sole(p, w) == \A v \in Workers \ {w} : ~ Unlogged(p, v)

LEMMA SoleStays ==
  ASSUME TypeOK, NEW w \in Workers, Receive(w) \/ Serve(w) \/ Fail(w),
         NEW p \in Pushes, PushOK(p), Sole(p, w),
         pushLog[p] # "none" => pushLog'[p] = pushLog[p],
         Replying(p, w)' => Told(p, w)'
  PROVE  /\ Past(p, w)' /\ Open(p, w)' => PushOK(p)'
         /\ ~ Past(p, w)' /\ Closed(p)' => PushOK(p)'
<1>1. \A v \in Workers \ {w} : ~ Unlogged(p, v)'
  BY OneMoves DEF OthersSame, Unlogged, Handles, Sole
<1>2. \A v \in Workers : Replying(p, v)' => Told(p, v)'
  <2> SUFFICES ASSUME NEW v \in Workers \ {w}, Replying(p, v)' PROVE Told(p, v)'
    OBVIOUS
  <2>1. Replying(p, v) /\ req'[v] = req[v]
    BY OneMoves DEF OthersSame, Replying, Handles
  <2>2. Told(p, v)
    BY <2>1 DEF PushOK
  <2> QED BY <2>1, <2>2 DEF Told
<1> QED BY <1>1, <1>2 DEF PushOK, Past

\* The steps of the worker that has yet to log p.
LEMMA OwnPush ==
  ASSUME TypeOK, PushInv, NEW w \in Workers, Receive(w) \/ Serve(w) \/ Fail(w),
         NEW p \in Pushes, p \notin exposed, p \notin exposed', Unlogged(p, w)
  PROVE  PushOK(p)'
<1>0. /\ pc \in [Workers -> Stages] /\ req \in [Workers -> Requests]
      /\ pushLog \in [Pushes -> Statuses] /\ applied \in [Pushes -> Nat]
      /\ answers \in [Pushes -> SUBSET (Statuses \ {"none"})]
  BY DEF TypeOK, Stages, Requests
<1>1. /\ PushOK(p) /\ Sole(p, w) /\ req[w].kind = "push" /\ req[w].push = p
      /\ pc[w] \in {"seen", "dispatch", "update"} => req[w].status = "none"
  BY DEF PushInv, PushOK, Sole, Unlogged, Handles
<1>2. /\ Past(p, w) => Open(p, w)
      /\ ~ Past(p, w) => Closed(p)
  BY <1>1 DEF PushOK, Sole, Past
<1>3. pc[w] # "seen" => Past(p, w)
  BY DEF Past
<1>4. /\ pc[w] \in {"number", "publish", "seen", "dispatch", "update", "log"}
      /\ req[w] \in PushRequest
      /\ pc[w] \in {"number", "publish"} => req[w].status = "applied"
      /\ pc[w] = "log" => req[w].status # "none"
  <2>0. pc[w] # "reply"
    BY DEF Unlogged
  <2>1. req[w] \notin WriteRequest /\ req[w] \notin PullRequest /\ req[w] # NoReq
    BY <1>1 DEF WriteRequest, PullRequest, NoReq
  <2>2. RequestFits(pc[w], req[w]) /\ pc[w] \in Stages
    BY <1>0 DEF TypeOK
  <2> QED BY <2>0, <2>1, <2>2 DEF RequestFits, Stages
<1>5. CASE Receive(w)
  BY <1>4, <1>5 DEF Receive, Write, StartPull, StartPush, Arrive
<1>6. CASE NumberChange(w) \/ PublishChange(w)
  <2>1. PICK i \in Nat \cup {req[w].id} : req'[w] = [req[w] EXCEPT !.id = i]
    <3>1. req[w] = [req[w] EXCEPT !.id = req[w].id]
      BY <1>4 DEF PushRequest
    <3>2. nextId \in Nat
      BY DEF TypeOK
    <3> QED BY <1>0, <1>1, <1>6, <3>1, <3>2 DEF NumberChange, PublishChange, AfterRecord, Goto
  <2>2. req'[w].kind = "push" /\ req'[w].push = p /\ req'[w].status = req[w].status
    BY <1>1, <1>4, <2>1 DEF PushRequest
  <2>3. pc[w] # "seen" /\ pc'[w] \notin {"seen", "reply"}
    BY <1>0, <1>1, <1>6 DEF NumberChange, PublishChange, AfterRecord, Goto
  <2>4. UNCHANGED <<pushLog, applied, answers>>
    BY <1>6 DEF NumberChange, PublishChange, pushVars
  <2>5. Past(p, w)' /\ Open(p, w)' /\ ~ Replying(p, w)'
    BY <1>2, <1>3, <2>2, <2>3, <2>4 DEF Past, Open, Unlogged, Handles, Replying
  <2> QED BY <1>1, <2>4, <2>5, SoleStays
<1>7. CASE PullChanges(w) \/ HighWater(w) \/ StoreCursor(w) \/ AnswerPull(w)
  BY <1>4, <1>7 DEF PullChanges, HighWater, StoreCursor, AnswerPull
<1>8. CASE LookUp(w)
  <2>0. /\ pc[w] = "seen" /\ ~ Past(p, w) /\ Closed(p)
        /\ UNCHANGED <<pushLog, applied, answers>>
    BY <1>2, <1>8 DEF LookUp, Past
  <2>1. CASE Seen(p) /\ req' = [req EXCEPT ![w].status = pushLog[p]] /\ Goto(w, "reply")
    <3>1. pc'[w] = "reply" /\ req'[w].status = pushLog[p]
      BY <1>0, <1>4, <2>1 DEF Goto, PushRequest
    <3>2. ~ Past(p, w)' /\ Told(p, w)'
      BY <2>0, <2>1, <3>1 DEF Past, Unlogged, Told, Seen
    <3>3. Closed(p)'
      BY <2>0 DEF Closed
    <3> QED BY <1>1, <2>0, <3>2, <3>3, SoleStays
  <2>2. CASE ~ Seen(p) /\ Goto(w, "dispatch") /\ UNCHANGED req
    <3>1. Past(p, w)' /\ ~ Replying(p, w)'
      BY <1>0, <1>1, <2>2 DEF Goto, Past, Unlogged, Handles, Replying
    <3>2. pushLog[p] = "none" /\ answers[p] = {} /\ applied[p] = 0
      BY <1>0, <2>0, <2>2 DEF Closed, Seen, Once
    <3>3. Open(p, w)'
      BY <1>1, <2>0, <2>2, <3>2 DEF Open, Once
    <3> QED BY <1>1, <2>0, <3>1, <3>3, SoleStays
  <2>3. CASE Seen(p) /\ exposed' = exposed \cup {p}
    BY <2>3
  <2> QED BY <1>1, <1>8, <2>1, <2>2, <2>3 DEF LookUp
<1>9. CASE Create(w) \/ CheckEdit(w) \/ UpdateActivity(w)
  <2>0. /\ pc[w] \in {"dispatch", "update"} /\ Open(p, w) /\ applied[p] = 0
        /\ UNCHANGED <<pushLog, answers>>
    BY <1>1, <1>2, <1>3, <1>9 DEF Create, CheckEdit, UpdateActivity, pushVars, Open, Once
  <2>1. CASE Effect(w, p)
    <3>1. req'[w] = [req[w] EXCEPT !.status = "applied"] /\ pc'[w] = "number" /\ applied'[p] = 1
      BY <1>0, <2>0, <2>1 DEF Effect, Goto
    <3>2. Past(p, w)' /\ Open(p, w)' /\ ~ Replying(p, w)'
      BY <1>1, <1>4, <2>0, <3>1 DEF Past, Unlogged, Handles, Replying, Open, Once, PushRequest
    <3> QED BY <1>1, <2>0, <3>2, SoleStays
  <2>2. CASE (\E status \in {"rejected", "conflict"} : Outcome(w, status)) /\ UNCHANGED applied
    <3>1. PICK status \in {"rejected", "conflict"} : Outcome(w, status)
      BY <2>2
    <3>2. req'[w] = [req[w] EXCEPT !.status = status] /\ pc'[w] = "log"
      BY <1>0, <3>1 DEF Outcome, Goto
    <3>3. Past(p, w)' /\ Open(p, w)' /\ ~ Replying(p, w)'
      BY <1>1, <1>4, <2>0, <2>2, <3>2 DEF Past, Unlogged, Handles, Replying, Open, Once, PushRequest
    <3> QED BY <1>1, <2>0, <3>3, SoleStays
  <2>3. CASE (\E at : req' = [req EXCEPT ![w].read = at]) /\ Goto(w, "update") /\ UNCHANGED applied
    <3>1. PICK at : req' = [req EXCEPT ![w].read = at]
      BY <2>3
    <3>2. req'[w] = [req[w] EXCEPT !.read = at] /\ pc'[w] = "update"
      BY <1>0, <2>3, <3>1 DEF Goto
    <3>3. Past(p, w)' /\ Open(p, w)' /\ ~ Replying(p, w)'
      BY <1>1, <1>4, <2>0, <2>3, <3>2 DEF Past, Unlogged, Handles, Replying, Open, Once, PushRequest
    <3> QED BY <1>1, <2>0, <3>3, SoleStays
  <2> QED BY <1>1, <1>9, <2>1, <2>2, <2>3 DEF Create, CheckEdit, UpdateActivity, pushVars
<1>10. CASE LogPush(w)
  <2>0. /\ pc[w] = "log" /\ Open(p, w) /\ Goto(w, "reply")
        /\ UNCHANGED <<applied, answers, req>>
    BY <1>2, <1>3, <1>10 DEF LogPush
  <2>1. pushLog'[p] = req[w].status /\ req[w].status # "none"
    BY <1>0, <1>1, <1>4, <1>10, <2>0 DEF LogPush, Open
  <2>2. Closed(p)'
    BY <2>0, <2>1 DEF Open, Closed
  <2>3. ~ Past(p, w)' /\ Told(p, w)'
    BY <1>0, <2>0, <2>1 DEF Goto, Past, Unlogged, Told
  <2> QED BY <1>1, <2>0, <2>2, <2>3, SoleStays DEF Open
<1>11. CASE Fail(w)
  <2>1. pc[w] = "seen" /\ Closed(p) /\ Done(w) /\ UNCHANGED <<pushLog, applied, answers>>
    BY <1>1, <1>2, <1>4, <1>11 DEF Fail, Past
  <2>2. ~ Past(p, w)' /\ ~ Replying(p, w)'
    BY <1>0, <2>1 DEF Done, Past, Unlogged, Handles, Replying, NoReq
  <2>3. Closed(p)'
    BY <2>1 DEF Closed
  <2> QED BY <1>1, <2>1, <2>2, <2>3, SoleStays
<1>12. CASE AnswerPush(w)
  BY <1>4, <1>12 DEF AnswerPush
<1> QED BY <1>5, <1>6, <1>7, <1>8, <1>9, <1>10, <1>11, <1>12 DEF Serve

\* The step of a worker that has only to answer.
LEMMA OwnAnswer ==
  ASSUME TypeOK, PushInv, NEW w \in Workers, Receive(w) \/ Serve(w) \/ Fail(w),
         NEW p \in Pushes, p \notin exposed, Replying(p, w)
  PROVE  PushOK(p)'
<1>0. /\ pc \in [Workers -> Stages] /\ req \in [Workers -> Requests]
      /\ pushLog \in [Pushes -> Statuses] /\ applied \in [Pushes -> Nat]
      /\ answers \in [Pushes -> SUBSET (Statuses \ {"none"})]
  BY DEF TypeOK, Stages, Requests
<1>1. PushOK(p) /\ Told(p, w) /\ pc[w] = "reply" /\ req[w].push = p
  BY DEF PushInv, PushOK, Replying, Handles
<1>2. Closed(p) /\ \A v \in Workers : ~ Past(p, v)
  BY <1>1 DEF PushOK, Open, Told
<1>3. AnswerPush(w) \/ Fail(w)
  BY <1>1 DEF Receive, Write, StartPull, StartPush, Arrive, Serve, NumberChange, PublishChange,
     PullChanges, HighWater, StoreCursor, AnswerPull, LookUp, Create, CheckEdit,
     UpdateActivity, LogPush
<1>4. /\ UNCHANGED <<pushLog, applied>> /\ Done(w)
      /\ answers'[p] \in {answers[p], answers[p] \cup {req[w].status}}
  BY <1>0, <1>1, <1>3 DEF AnswerPush, Fail
<1>5. Closed(p)'
  BY <1>1, <1>2, <1>4 DEF Closed, Told
<1>6. ~ Unlogged(p, w)' /\ ~ Replying(p, w)'
  BY <1>0, <1>4 DEF Done, Unlogged, Handles, Replying, NoReq
<1>7. \A v \in Workers \ {w} :
        /\ Unlogged(p, v)' <=> Unlogged(p, v)
        /\ Past(p, v)' <=> Past(p, v)
        /\ Replying(p, v)' => Replying(p, v) /\ Told(p, v)' = Told(p, v)
  BY <1>4, OneMoves DEF OthersSame, Unlogged, Past, Replying, Handles, Told
<1>8. \A v \in Workers : ~ Past(p, v)'
  BY <1>2, <1>6, <1>7 DEF Past
<1>9. \A v \in Workers : Replying(p, v)' => Told(p, v)'
  BY <1>1, <1>6, <1>7 DEF PushOK
<1> QED BY <1>1, <1>5, <1>6, <1>7, <1>8, <1>9 DEF PushOK

\* A change that w takes up is at "seen"; that another worker is at it already
\* would expose it.
LEMMA TakesUp ==
  ASSUME TypeOK, PushInv, NEW w \in Workers, Receive(w) \/ Serve(w) \/ Fail(w),
         NEW p \in Pushes, p \notin exposed, p \notin exposed',
         ~ Handles(p, w), Handles(p, w)'
  PROVE  PushOK(p)'
<1>0. pc \in [Workers -> Stages] /\ req \in [Workers -> Requests]
  BY DEF TypeOK, Stages, Requests
<1>1. StartPush(w)
  <2>1. CASE Write(w) \/ StartPull(w)
    BY <1>0, <2>1 DEF Write, StartPull, Arrive, Handles
  <2>2. CASE Fail(w)
    BY <1>0, <2>2 DEF Fail, Done, Handles, NoReq
  <2>3. CASE Serve(w)
    <3>1. req'[w].kind = "push" => req[w].kind = "push" /\ req'[w].push = req[w].push
      <4>1. RequestFits(pc[w], req[w])
        BY DEF TypeOK
      <4>2. CASE req'[w] = NoReq \/ req'[w] = req[w]
        BY <4>2 DEF NoReq
      <4>3. CASE NumberChange(w)
        <5>1. PICK i : req'[w] = [req[w] EXCEPT !.id = i]
          BY <1>0, <4>3 DEF NumberChange
        <5>2. req[w] \in WriteRequest \/ req[w] \in PushRequest
          BY <4>1, <4>3 DEF NumberChange, RequestFits
        <5> QED BY <5>1, <5>2 DEF WriteRequest, PushRequest
      <4>4. CASE PullChanges(w) \/ HighWater(w)
        <5>1. req[w] \in PullRequest
          BY <4>1, <4>4 DEF PullChanges, HighWater, RequestFits
        <5>2. CASE PullChanges(w)
          <6>1. PICK S, t : req' = [req EXCEPT ![w].rows = S, ![w].to = t]
            BY <5>2 DEF PullChanges
          <6> QED BY <1>0, <5>1, <6>1 DEF PullRequest
        <5>3. CASE HighWater(w)
          <6>1. PICK t : req' = [req EXCEPT ![w].to = t] \/ req' = req
            BY <5>3 DEF HighWater
          <6> QED BY <1>0, <5>1, <6>1 DEF PullRequest
        <5> QED BY <4>4, <5>2, <5>3
      <4>5. CASE Create(w) \/ CheckEdit(w) \/ UpdateActivity(w)
        <5>1. req[w] \in PushRequest
          BY <4>1, <4>5 DEF Create, CheckEdit, UpdateActivity, RequestFits
        <5>2. \/ \E t : req'[w] = [req[w] EXCEPT !.status = t]
              \/ \E t : req'[w] = [req[w] EXCEPT !.read = t]
          BY <1>0, <4>5 DEF Create, CheckEdit, UpdateActivity, Effect, Outcome
        <5> QED BY <5>1, <5>2 DEF PushRequest
      <4>6. CASE LookUp(w)
        <5>1. req[w] \in PushRequest
          BY <4>1, <4>6 DEF LookUp, RequestFits
        <5>2. req'[w] = req[w] \/ \E t : req'[w] = [req[w] EXCEPT !.status = t]
          BY <1>0, <4>6 DEF LookUp
        <5> QED BY <5>1, <5>2 DEF PushRequest
      <4> QED BY <1>0, <2>3, <4>2, <4>3, <4>4, <4>5, <4>6 DEF Serve, PublishChange, StoreCursor,
              AnswerPull, LogPush, AnswerPush, AfterRecord, Done
    <3> QED BY <3>1 DEF Handles
  <2> QED BY <2>1, <2>2, <2>3 DEF Receive
<1>2. PICK q \in Pushes :
        /\ Arrive(w, "seen", [kind |-> "push", push |-> q, status |-> "none", read |-> 0,
                              scope |-> Rep[q.device], id |-> 0])
        /\ exposed' = IF \E v \in Workers : Unlogged(q, v) THEN exposed \cup {q} ELSE exposed
  BY <1>1 DEF StartPush
<1>2a. pc'[w] = "seen" /\ req'[w].push = q
  BY <1>0, <1>2 DEF Arrive, Goto
<1>3. q = p /\ \A v \in Workers : ~ Unlogged(p, v)
  BY <1>2, <1>2a DEF Handles
<1>4. Sole(p, w) /\ Closed(p) /\ PushOK(p)
  BY <1>3 DEF Sole, PushInv, PushOK, Past
<1>5. Closed(p)' /\ ~ Past(p, w)' /\ ~ Replying(p, w)' /\ UNCHANGED pushLog
  BY <1>1, <1>2a, <1>4 DEF StartPush, Closed, Past, Replying
<1> QED BY <1>4, <1>5, SoleStays

LEMMA PushStep == TypeOK /\ PushInv /\ [Next]_vars => PushInv'
<1> SUFFICES ASSUME TypeOK, PushInv, [Next]_vars PROVE PushInv'
  OBVIOUS
<1>0. pc \in [Workers -> Stages] /\ req \in [Workers -> Requests]
  BY DEF TypeOK, Stages, Requests
<1>1. ASSUME NEW w \in Workers, Receive(w) \/ Serve(w) \/ Fail(w) PROVE PushInv'
  <2>1. exposed \subseteq exposed'
    <3>1. CASE Receive(w) \/ Fail(w)
      BY <3>1 DEF Receive, Write, StartPull, StartPush, Fail, pushVars
    <3>2. CASE NumberChange(w) \/ PublishChange(w) \/ PullChanges(w) \/ HighWater(w)
                 \/ StoreCursor(w) \/ AnswerPull(w)
      BY <3>2 DEF NumberChange, PublishChange, PullChanges, HighWater, StoreCursor, AnswerPull,
         pushVars
    <3>3. CASE LookUp(w) \/ Create(w) \/ CheckEdit(w) \/ UpdateActivity(w) \/ LogPush(w)
                 \/ AnswerPush(w)
      BY <3>3 DEF LookUp, Create, CheckEdit, UpdateActivity, LogPush, AnswerPush, pushVars
    <3> QED BY <1>1, <3>1, <3>2, <3>3 DEF Serve
  <2>2. ASSUME NEW p \in Pushes \ exposed' PROVE PushOK(p)'
    <3>1. p \in Pushes /\ p \notin exposed /\ p \notin exposed' /\ PushOK(p)
      BY <2>1 DEF PushInv
    <3>2. CASE Unlogged(p, w)
      BY <1>1, <3>1, <3>2, OwnPush
    <3>3. CASE Replying(p, w)
      BY <1>1, <3>1, <3>3, OwnAnswer
    <3>4. CASE ~ Handles(p, w) /\ Handles(p, w)'
      BY <1>1, <3>1, <3>4, TakesUp
    <3>5. CASE ~ Handles(p, w) /\ ~ Handles(p, w)'
      BY <1>1, <3>1, <3>5, Elsewhere
    <3> QED BY <3>2, <3>3, <3>4, <3>5 DEF Unlogged, Replying
  <2>3. pc'[w] \in {"seen", "dispatch", "update"} => req'[w].status = "none"
    <3>1. CASE Receive(w)
      <4>1. CASE StartPush(w)
        BY <1>0, <4>1 DEF StartPush, Arrive
      <4>2. CASE Write(w) \/ StartPull(w)
        BY <1>0, <4>2 DEF Write, StartPull, Arrive, Goto
      <4> QED BY <3>1, <4>1, <4>2 DEF Receive
    <3>2. CASE NumberChange(w) \/ PublishChange(w) \/ Fail(w)
      BY <1>0, <3>2 DEF NumberChange, PublishChange, AfterRecord, Fail, Done, Goto
    <3>3. CASE PullChanges(w) \/ HighWater(w) \/ StoreCursor(w) \/ AnswerPull(w)
      BY <1>0, <3>3 DEF PullChanges, HighWater, StoreCursor, AnswerPull, Done, Goto
    <3>4. CASE LookUp(w) \/ Create(w) \/ UpdateActivity(w) \/ LogPush(w) \/ AnswerPush(w)
      BY <1>0, <3>4 DEF LookUp, Create, UpdateActivity, LogPush, AnswerPush, Effect, Outcome,
         Done, Goto, PushInv
    <3>5. CASE CheckEdit(w)
      <4>1. req[w] \in PushRequest /\ req[w].status = "none"
        BY <3>5 DEF CheckEdit, TypeOK, RequestFits, PushInv
      <4>2. CASE \E at : req' = [req EXCEPT ![w].read = at]
        <5>1. PICK at : req' = [req EXCEPT ![w].read = at]
          BY <4>2
        <5> QED BY <1>0, <4>1, <5>1 DEF PushRequest
      <4>3. CASE Outcome(w, "rejected") \/ Outcome(w, "conflict")
        BY <1>0, <4>3 DEF Outcome, Goto
      <4> QED BY <3>5, <4>2, <4>3 DEF CheckEdit
    <3> QED BY <1>1, <3>1, <3>2, <3>3, <3>4, <3>5 DEF Serve
  <2>4. \A v \in Workers : pc'[v] \in {"seen", "dispatch", "update"} => req'[v].status = "none"
    BY <1>1, <2>3, OneMoves DEF OthersSame, PushInv
  <2> QED BY <2>2, <2>4 DEF PushInv
<1>2. CASE Rest \/ UNCHANGED vars
  BY <1>2 DEF Rest, vars, pushVars, PushInv, PushOK, Past, Open, Closed, Unlogged,
     Handles, Replying, Told
<1> QED BY <1>1, <1>2 DEF Next

(* However often a device repeats a change, it is told one outcome, the    *)
(* logged one, and has at most one effect, unless the log could not be     *)
(* read, two requests handled the change at once, or one was cut off       *)
(* before the log had it (pushChange, GetPushLog, CreatePushLog).          *)
THEOREM RepeatsAlwaysOneOutcome == Spec => []RepeatsHaveOneOutcome
<1>1. Init => PushInv
  <2> SUFFICES ASSUME Init PROVE PushInv
    OBVIOUS
  <2>1. \A w \in Workers : \A p \in Pushes : ~ Handles(p, w)
    BY DEF Init, Handles, NoReq
  <2>2. \A p \in Pushes : Closed(p)
    BY DEF Init, Closed, Once
  <2> QED BY <2>1, <2>2 DEF Init, PushInv, PushOK, Past, Unlogged, Replying
<1> QED BY <1>1, SpecTypes, PushStep, PushInvSays, PTL DEF Spec

-----------------------------------------------------------------------------
(* The feed.                                                               *)

Pulling(w) == pc[w] \in {"rows", "high", "store", "answer"}

\* The page holds everything between the cursor it started from and the one it
\* ends at, but for what raced; before the high-water query, everything newer.
PageOK(stage, r) ==
  /\ \A x \in r.rows : r.since < x /\ x <= r.to
  /\ \A x \in InScope(r.device) :
       r.since < x /\ (x <= r.to \/ stage = "high") => x \in r.rows \cup raced

PullInv ==
  /\ \A v, w \in Workers : Pulling(v) /\ Pulling(w) /\ req[v].device = req[w].device => v = w
  /\ \A w \in Workers : Pulling(w) => req[w].since = cursor[req[w].device]
  /\ \A w \in Workers : Reading(w) => PageOK(pc[w], req[w])

DeviceOK(d) ==
  /\ Increasing(got[d])
  /\ \A i \in DOMAIN got[d] : got[d][i] <= cursor[d]
  /\ Missed(d) \subseteq raced

FeedInv == PullInv /\ \A d \in Devices : DeviceOK(d)

LEMMA FeedInvSays == TypeOK /\ FeedInv => FeedIsWhole
<1> SUFFICES ASSUME TypeOK, FeedInv PROVE FeedIsWhole
  OBVIOUS
<1>1. MissedOnlyWhenRaced
  BY DEF FeedInv, DeviceOK, MissedOnlyWhenRaced
<1>2. DeliveredInOrder
  <2> SUFFICES ASSUME NEW d \in Devices, NEW i \in 2..Len(got[d]) PROVE got[d][i - 1] < got[d][i]
    BY DEF DeliveredInOrder
  <2>1. got[d] \in Seq(Ids) /\ Increasing(got[d])
    BY DEF TypeOK, FeedInv, DeviceOK
  <2>2. i \in DOMAIN got[d] /\ i - 1 \in DOMAIN got[d] /\ i - 1 < i
    BY <2>1
  <2> QED BY <2>1, <2>2 DEF Increasing
<1> QED BY <1>1, <1>2 DEF FeedIsWhole

\* A step of a worker that is not pulling afterwards and leaves the feed alone.
LEMMA Quiet ==
  ASSUME TypeOK, FeedInv, NEW w \in Workers, OthersSame(w), ~ Pulling(w)',
         UNCHANGED <<changes, raced, cursor, got>>
  PROVE  FeedInv'
<1>1. /\ \A v \in Workers : Pulling(v)' => v # w /\ Pulling(v)
      /\ \A v \in Workers : Reading(v)' => v # w /\ Reading(v)
  BY DEF OthersSame, Pulling, Reading
<1>2. PullInv'
  BY <1>1 DEF OthersSame, FeedInv, PullInv, PageOK, InScope
<1>3. \A d \in Devices : DeviceOK(d)'
  BY DEF FeedInv, DeviceOK, Missed, Received, InScope
<1> QED BY <1>2, <1>3 DEF FeedInv

\* A pull goes on.
LEMMA PullGoesOn ==
  ASSUME TypeOK, FeedInv, NEW w \in Workers, OthersSame(w), Pulling(w),
         NEW stage, NEW r, pc'[w] = stage, req'[w] = r,
         r.device = req[w].device, r.since = req[w].since, PageOK(stage, r),
         UNCHANGED <<changes, raced, cursor, got>>
  PROVE  FeedInv'
<1>1. /\ \A v \in Workers : Pulling(v)' => Pulling(v)
      /\ \A v \in Workers : req'[v].device = req[v].device \/ ~ Pulling(v)
      /\ \A v \in Workers : req'[v].since = req[v].since \/ ~ Pulling(v)
  BY DEF OthersSame, Pulling
<1>2. PageOK(pc[w], req[w])'
  BY DEF PageOK, InScope
<1>3. \A v \in Workers \ {w} : Reading(v)' => PageOK(pc[v], req[v])'
  BY DEF OthersSame, Reading, FeedInv, PullInv, PageOK, InScope
<1>4. PullInv'
  BY <1>1, <1>2, <1>3 DEF FeedInv, PullInv
<1>5. \A d \in Devices : DeviceOK(d)'
  BY DEF FeedInv, DeviceOK, Missed, Received, InScope
<1> QED BY <1>4, <1>5 DEF FeedInv

LEMMA StartPullFeed ==
  ASSUME TypeOK, FeedInv, NEW w \in Workers, StartPull(w)
  PROVE  FeedInv'
<1>0. pc \in [Workers -> Stages] /\ req \in [Workers -> Requests]
  BY DEF TypeOK, Stages, Requests
<1>1. PICK d \in Devices :
        /\ \A v \in Workers : req[v].kind = "pull" => req[v].device # d
        /\ Arrive(w, "rows", [kind |-> "pull", device |-> d, since |-> cursor[d],
                              rows |-> {}, to |-> cursor[d]])
  BY DEF StartPull
<1>2. /\ pc'[w] = "rows" /\ req'[w].device = d /\ req'[w].since = cursor[d]
      /\ UNCHANGED <<changes, raced, cursor, got>>
  BY <1>0, <1>1 DEF Arrive, Goto, feedVars, devVars
<1>3. OthersSame(w)
  BY OneMoves DEF Receive
<1>4. \A v \in Workers : Pulling(v) => req[v].device # d
  <2>1. \A v \in Workers : Pulling(v) => req[v].kind = "pull"
    BY DEF TypeOK, RequestFits, PullRequest, Pulling
  <2> QED BY <1>1, <2>1
<1>5. PullInv'
  <2>1. \A v \in Workers \ {w} : pc'[v] = pc[v] /\ req'[v] = req[v]
    BY <1>3 DEF OthersSame
  <2>2. \A v \in Workers \ {w} : Pulling(v)' <=> Pulling(v)
    BY <2>1 DEF Pulling
  <2>3. \A v \in Workers : Reading(v)' => v # w /\ Reading(v) /\ pc'[v] = pc[v] /\ req'[v] = req[v]
    BY <1>2, <2>1 DEF Reading
  <2>4. \A v \in Workers : Reading(v)' => PageOK(pc[v], req[v])'
    BY <1>2, <2>3 DEF FeedInv, PullInv, PageOK, InScope
  <2> QED BY <1>2, <1>4, <2>1, <2>2, <2>4 DEF FeedInv, PullInv
<1>6. \A e \in Devices : DeviceOK(e)'
  BY <1>2 DEF FeedInv, DeviceOK, Missed, Received, InScope
<1> QED BY <1>5, <1>6 DEF FeedInv

\* A change becomes visible: a pull that is past its read has raced with it.
LEMMA PublishFeed ==
  ASSUME TypeOK, FeedInv, NEW w \in Workers, PublishChange(w)
  PROVE  FeedInv'
<1> DEFINE id == req[w].id
           row == [id |-> id, scope |-> req[w].scope]
<1>0. /\ pc[w] = "publish" /\ AfterRecord(w) /\ UNCHANGED <<cursor, got>>
      /\ OthersSame(w)
  BY OneMoves DEF PublishChange, Serve, devVars
<1>1. pc'[w] \in {"log", "idle"} /\ ~ Pulling(w)' /\ ~ Reading(w)'
  BY <1>0 DEF AfterRecord, Done, Goto, TypeOK, Pulling, Reading
<1>2. CASE UNCHANGED <<changes, raced>>
  BY <1>0, <1>1, <1>2, Quiet
<1>3. CASE /\ changes' = changes \cup {row}
           /\ raced' = IF (\E v \in Workers : Reading(v)) \/ (\E d \in Devices : id <= cursor[d])
                       THEN raced \cup {id} ELSE raced
  <2>1. \A d \in Devices : InScope(d) \subseteq InScope(d)' /\ InScope(d)' \subseteq InScope(d) \cup {id}
    BY <1>3 DEF InScope
  <2>2. raced \subseteq raced'
    BY <1>3
  <2>3. (\E v \in Workers : Reading(v)) => id \in raced'
    BY <1>3
  <2>4. \A d \in Devices : id <= cursor[d] => id \in raced'
    BY <1>3
  <2> HIDE DEF id
  <2>5. ASSUME NEW v \in Workers, Reading(v)' PROVE PageOK(pc[v], req[v])'
    <3>1. v # w /\ Reading(v) /\ pc'[v] = pc[v] /\ req'[v] = req[v]
      BY <1>0, <1>1, <2>5 DEF OthersSame, Reading
    <3>2. PageOK(pc[v], req[v]) /\ id \in raced' /\ req[v].device \in Devices
      BY <2>3, <3>1 DEF FeedInv, PullInv, TypeOK, RequestFits, PullRequest, Reading
    <3> QED BY <2>1, <2>2, <3>1, <3>2 DEF PageOK
  <2>6. PullInv'
    <3>1. \A v \in Workers : Pulling(v)' => v # w /\ Pulling(v) /\ req'[v] = req[v]
      BY <1>0, <1>1 DEF OthersSame, Pulling
    <3> QED BY <1>0, <2>5, <3>1 DEF FeedInv, PullInv
  <2>7. ASSUME NEW d \in Devices PROVE DeviceOK(d)'
    <3>1. DeviceOK(d)
      BY DEF FeedInv
    <3>2. \A x \in Missed(d)' : x \in raced'
      BY <1>0, <2>1, <2>2, <2>4, <3>1 DEF Missed, Received, DeviceOK
    <3> QED BY <1>0, <3>1, <3>2 DEF DeviceOK
  <2> QED BY <2>6, <2>7 DEF FeedInv
<1> QED BY <1>2, <1>3 DEF PublishChange

\* PullChanges reads a page that leaves nothing out.
LEMMA PullFeed ==
  ASSUME TypeOK, FeedInv, NEW w \in Workers, PullChanges(w)
  PROVE  FeedInv'
<1> DEFINE d == req[w].device
           since == req[w].since
           rows == FirstOf(Newer(d, since), Batch)
           to == Max(rows \cup {since})
<1>0. /\ UNCHANGED <<changes, raced, cursor, got>>
      /\ pc[w] = "rows" /\ req[w] \in PullRequest /\ OthersSame(w)
      /\ req'[w] = [req[w] EXCEPT !.rows = rows, !.to = to]
      /\ pc'[w] = IF ShortPage(Cardinality(rows)) THEN "high" ELSE "store"
  <2>1. req'[w] = [req[w] EXCEPT !.rows = rows, !.to = to]
    BY DEF PullChanges, TypeOK
  <2>2. pc'[w] = IF ShortPage(Cardinality(rows)) THEN "high" ELSE "store"
    BY DEF PullChanges, TypeOK, Goto
  <2>3. UNCHANGED <<changes, raced, cursor, got>> /\ pc[w] = "rows"
    BY DEF PullChanges, feedVars, devVars
  <2>4. OthersSame(w)
    BY OneMoves DEF Serve
  <2>5. req[w] \in PullRequest
    BY <2>3 DEF TypeOK, RequestFits
  <2> QED BY <2>1, <2>2, <2>3, <2>4, <2>5
<1>1. since \in Ids /\ since \in Nat /\ \A x \in InScope(d) : x \in Nat
  BY <1>0, ScopeIds DEF PullRequest
<1>2. PICK T : T = rows
  OBVIOUS
<1>3. /\ T \subseteq Newer(d, since)
      /\ \A x \in T : \A y \in Newer(d, since) : y < x => y \in T
      /\ Cardinality(T) < Batch => T = Newer(d, since)
      /\ to \in T \cup {since} /\ to \in Ids /\ to \in Nat
      /\ \A x \in T : x <= to
  <2>1. T = FirstOf(Newer(d, since), Batch)
    BY <1>2
  <2> HIDE DEF rows, d, since
  <2>2. Max(T \cup {since}) \in Ids /\ Ids \subseteq Nat
    BY <1>1, <2>1, PageOf, ScopeIds
  <2> QED BY <1>1, <1>2, <2>1, <2>2, PageOf
<1> HIDE DEF to, rows
<1>4. PICK r : r = [req[w] EXCEPT !.rows = rows, !.to = to]
  OBVIOUS
<1>5. r.device = d /\ r.since = since /\ r.rows = T /\ r.to = to
  BY <1>0, <1>2, <1>4 DEF PullRequest
<1> HIDE DEF d, since
<1>6. ASSUME NEW stage, stage = IF ShortPage(Cardinality(T)) THEN "high" ELSE "store"
      PROVE  PageOK(stage, r)
  <2>1. \A x \in T : since < x /\ x <= to
    BY <1>1, <1>3 DEF Newer
  <2>2. ASSUME NEW x \in InScope(d), since < x PROVE x <= to => x \in T
    <3>1. x \in Newer(d, since) /\ x \in Nat
      BY <1>1, <2>2 DEF Newer
    <3>2. x <= to => to \in T
      BY <1>1, <1>3, <2>2, <3>1
    <3>3. x < to \/ x = to \/ ~ (x <= to)
      BY <1>3, <3>1
    <3> QED BY <1>3, <3>1, <3>2, <3>3
  <2>3. ASSUME NEW x \in InScope(d), since < x, stage = "high" PROVE x \in T
    BY <1>3, <1>6, <2>3 DEF ShortPage, Newer
  <2> QED BY <1>5, <2>1, <2>2, <2>3 DEF PageOK
<1>7. PICK stage : stage = IF ShortPage(Cardinality(T)) THEN "high" ELSE "store"
  OBVIOUS
<1>8. pc'[w] = stage /\ req'[w] = r /\ PageOK(stage, r) /\ Pulling(w)
  BY <1>0, <1>2, <1>4, <1>6, <1>7 DEF Pulling
<1> QED BY <1>0, <1>5, <1>8, PullGoesOn DEF d, since

LEMMA HighFeed ==
  ASSUME TypeOK, FeedInv, NEW w \in Workers, HighWater(w) \/ StoreCursor(w)
  PROVE  FeedInv'
<1> DEFINE d == req[w].device
           top == Max(InScope(d) \cup {req[w].to})
<1>0. /\ UNCHANGED <<changes, raced, cursor, got>>
      /\ pc[w] \in {"high", "store"} /\ pc'[w] \in {"store", "answer"}
      /\ pc[w] = "high" \/ req' = req
      /\ req[w] \in PullRequest /\ OthersSame(w)
      /\ req' = req \/ req'[w] = [req[w] EXCEPT !.to = top]
  <2>1. pc[w] \in {"high", "store"} /\ pc'[w] \in {"store", "answer"}
    BY DEF HighWater, StoreCursor, TypeOK, Goto
  <2>2. req' = req \/ req'[w] = [req[w] EXCEPT !.to = top]
    BY DEF HighWater, StoreCursor, TypeOK
  <2>3. UNCHANGED <<changes, raced, cursor, got>> /\ (pc[w] = "high" \/ req' = req)
    BY DEF HighWater, StoreCursor, feedVars, devVars
  <2>4. OthersSame(w)
    BY OneMoves DEF Serve
  <2>5. req[w] \in PullRequest
    BY <2>1 DEF TypeOK, RequestFits
  <2> QED BY <2>1, <2>2, <2>3, <2>4, <2>5
<1>1. PageOK(pc[w], req[w]) /\ Pulling(w)
  BY <1>0 DEF FeedInv, PullInv, Reading, Pulling
<1>2. PICK stage \in {"store", "answer"} : pc'[w] = stage
  BY <1>0
<1>3. CASE req' = req
  <2>1. PageOK(stage, req[w])
    BY <1>1 DEF PageOK
  <2>2. PICK r : r = req[w]
    OBVIOUS
  <2> QED BY <1>0, <1>1, <1>2, <1>3, <2>1, <2>2, PullGoesOn
<1>4. CASE pc[w] = "high" /\ req'[w] = [req[w] EXCEPT !.to = top]
  <2>1. /\ top \in Ids /\ top >= req[w].to /\ \A x \in InScope(d) : x <= top
        /\ top \in Nat /\ req[w].to \in Nat /\ \A x \in req[w].rows : x \in Nat
    <3>1. req[w].to \in Ids /\ req[w].rows \subseteq Ids /\ Ids \subseteq Nat
      BY <1>0, ScopeIds DEF PullRequest
    <3>2. top \in Ids /\ top >= req[w].to /\ \A x \in InScope(d) : x <= top
      BY <3>1, HighMark
    <3> QED BY <3>1, <3>2
  <2> HIDE DEF top
  <2>2. PICK r : r = [req[w] EXCEPT !.to = top]
    OBVIOUS
  <2>3. r.device = d /\ r.since = req[w].since /\ r.rows = req[w].rows /\ r.to = top
    BY <1>0, <2>2 DEF PullRequest
  <2>4. PageOK(stage, r)
    <3>1. \A x \in r.rows : r.since < x /\ x <= r.to
      BY <1>1, <2>1, <2>3 DEF PageOK
    <3>2. \A x \in InScope(d) : r.since < x => x \in r.rows \cup raced
      BY <1>1, <1>4, <2>3 DEF PageOK
    <3> QED BY <2>3, <3>1, <3>2 DEF PageOK
  <2>5. req'[w] = r
    BY <1>4, <2>2
  <2> QED BY <1>0, <1>1, <1>2, <2>3, <2>4, <2>5, PullGoesOn
<1> QED BY <1>0, <1>3, <1>4

LEMMA SeqWiden ==
  ASSUME NEW S, NEW T, S \subseteq T, NEW s \in Seq(S)
  PROVE  s \in Seq(T)
OBVIOUS

LEMMA ConcatShape ==
  ASSUME NEW S, NEW g \in Seq(S), NEW l \in Seq(S)
  PROVE  /\ Len(g) \in Nat /\ Len(l) \in Nat
         /\ DOMAIN g = 1..Len(g) /\ DOMAIN l = 1..Len(l)
         /\ DOMAIN (g \o l) = 1..(Len(g) + Len(l))
         /\ \A i \in DOMAIN g : (g \o l)[i] = g[i] /\ i \in DOMAIN (g \o l) /\ g[i] \in S
         /\ \A i \in DOMAIN l : (g \o l)[Len(g) + i] = l[i] /\ Len(g) + i \in DOMAIN (g \o l)
         /\ \A i \in DOMAIN (g \o l) : i \notin DOMAIN g =>
              i - Len(g) \in DOMAIN l /\ (g \o l)[i] = l[i - Len(g)]
<1>1. /\ Len(g) \in Nat /\ Len(l) \in Nat
      /\ DOMAIN g = 1..Len(g) /\ DOMAIN l = 1..Len(l)
      /\ DOMAIN (g \o l) = 1..(Len(g) + Len(l))
  OBVIOUS
<1>2. \A i \in DOMAIN g : (g \o l)[i] = g[i] /\ i \in DOMAIN (g \o l) /\ g[i] \in S
  OBVIOUS
<1>3. \A i \in DOMAIN l : (g \o l)[Len(g) + i] = l[i] /\ Len(g) + i \in DOMAIN (g \o l)
  OBVIOUS
<1>4. \A i \in DOMAIN (g \o l) : i \notin DOMAIN g =>
        i - Len(g) \in DOMAIN l /\ (g \o l)[i] = l[i - Len(g)]
  BY <1>1
<1> QED BY <1>1, <1>2, <1>3, <1>4

\* A sequence that goes on above its last member.
LEMMA IncreasingAppend ==
  ASSUME NEW s \in Seq(Nat), NEW t \in Seq(Nat), NEW n \in Nat,
         Increasing(s), Increasing(t),
         \A i \in DOMAIN s : s[i] <= n, \A i \in DOMAIN t : n < t[i]
  PROVE  Increasing(s \o t)
<1> SUFFICES ASSUME NEW i \in DOMAIN (s \o t), NEW j \in DOMAIN (s \o t), i < j
             PROVE  (s \o t)[i] < (s \o t)[j]
  BY DEF Increasing
<1>1. /\ Len(s) \in Nat /\ Len(t) \in Nat /\ DOMAIN s = 1..Len(s) /\ DOMAIN t = 1..Len(t)
      /\ i \in 1..(Len(s) + Len(t)) /\ j \in 1..(Len(s) + Len(t))
  OBVIOUS
<1>2. \A k \in DOMAIN s : (s \o t)[k] = s[k] /\ s[k] \in Nat
  OBVIOUS
<1>3. \A k \in 1..(Len(s) + Len(t)) : k > Len(s) =>
        (s \o t)[k] = t[k - Len(s)] /\ k - Len(s) \in DOMAIN t /\ t[k - Len(s)] \in Nat
  OBVIOUS
<1>4. CASE j \in DOMAIN s
  <2>1. i \in DOMAIN s
    BY <1>1, <1>4
  <2> QED BY <1>2, <1>4, <2>1 DEF Increasing
<1>5. CASE i \in DOMAIN s /\ j > Len(s)
  <2>1. s[i] <= n /\ n < t[j - Len(s)] /\ s[i] \in Nat /\ t[j - Len(s)] \in Nat
    BY <1>1, <1>2, <1>3, <1>5
  <2>2. s[i] < t[j - Len(s)]
    BY <2>1
  <2> QED BY <1>1, <1>2, <1>3, <1>5, <2>2
<1>6. CASE i > Len(s) /\ j > Len(s)
  <2>1. i - Len(s) \in DOMAIN t /\ j - Len(s) \in DOMAIN t /\ i - Len(s) < j - Len(s)
    BY <1>1, <1>3, <1>6
  <2>2. t[i - Len(s)] < t[j - Len(s)]
    BY <2>1 DEF Increasing
  <2> QED BY <1>1, <1>3, <1>6, <2>2
<1> QED BY <1>1, <1>4, <1>5, <1>6

\* AnswerPull: the device goes on where its page ends.
LEMMA AnswerFeed ==
  ASSUME TypeOK, FeedInv, NEW w \in Workers, AnswerPull(w)
  PROVE  FeedInv'
<1>d. PICK d : d = req[w].device
  OBVIOUS
<1>0. /\ UNCHANGED <<changes, raced>> /\ pc[w] = "answer" /\ req[w] \in PullRequest
      /\ Pulling(w) /\ Reading(w) /\ d \in Devices
      /\ OthersSame(w) /\ pc'[w] = "idle"
      /\ cursor' = [cursor EXCEPT ![d] = req[w].to]
      /\ got' = [got EXCEPT ![d] = @ \o InOrder(req[w].rows)]
  <2>1. UNCHANGED <<changes, raced>> /\ pc[w] = "answer" /\ pc'[w] = "idle"
    BY DEF AnswerPull, feedVars, Done, Goto, TypeOK
  <2>2. /\ cursor' = [cursor EXCEPT ![d] = req[w].to]
        /\ got' = [got EXCEPT ![d] = @ \o InOrder(req[w].rows)]
    BY <1>d DEF AnswerPull
  <2>3. req[w] \in PullRequest
    BY <2>1 DEF TypeOK, RequestFits
  <2>4. OthersSame(w)
    BY OneMoves DEF Serve
  <2> QED BY <1>d, <2>1, <2>2, <2>3, <2>4 DEF PullRequest, Pulling, Reading
<1>1. PageOK(pc[w], req[w]) /\ req[w].since = cursor[d]
  BY <1>0, <1>d DEF FeedInv, PullInv
<1>2. PICK R, l : R = req[w].rows /\ l = InOrder(R)
  OBVIOUS
<1>3. /\ l \in Seq(R) /\ Increasing(l) /\ R = {l[i] : i \in DOMAIN l}
      /\ R \subseteq Nat
  <2>1. PICK n \in Nat : n = nextId - 1
    BY ScopeIds
  <2>2. R \subseteq 0..n
    BY <1>0, <1>2, <2>1 DEF PullRequest, Ids
  <2> QED BY <1>2, <2>2, InOrderLists
<1>4. /\ got[d] \in Seq(Nat) /\ l \in Seq(Nat) /\ DeviceOK(d)
      /\ req[w].to \in Nat /\ cursor[d] \in Nat /\ cursor[d] <= req[w].to
      /\ \A x \in InScope(d) : x \in Nat
  <2>1. got[d] \in Seq(Ids) /\ cursor[d] \in Ids
    BY <1>0 DEF TypeOK
  <2>2. req[w].to \in Ids /\ Ids \subseteq Nat /\ \A x \in InScope(d) : x \in Nat
    BY <1>0, ScopeIds DEF PullRequest
  <2>3. PICK I, g : I = Ids /\ g = got[d]
    OBVIOUS
  <2>4. g \in Seq(Nat)
    <3>1. g \in Seq(I) /\ I \subseteq Nat
      BY <2>1, <2>2, <2>3
    <3> QED BY <3>1, SeqWiden
  <2>5. l \in Seq(Nat)
    BY <1>3, SeqWiden
  <2>6. req[w].to >= req[w].since
    BY <1>0 DEF TypeOK, RequestFits
  <2>7. cursor[d] <= req[w].to
    <3>1. cursor[d] \in Nat /\ req[w].to \in Nat
      BY <2>1, <2>2
    <3> QED BY <1>1, <2>6, <3>1
  <2> QED BY <1>0, <2>1, <2>2, <2>3, <2>4, <2>5, <2>7 DEF FeedInv
<1>5. \A i \in DOMAIN l : cursor[d] < l[i] /\ l[i] <= req[w].to
  BY <1>1, <1>2, <1>3, <1>d DEF PageOK
<1>6. got'[d] = got[d] \o l /\ cursor'[d] = req[w].to
  BY <1>0, <1>2 DEF TypeOK
<1>g. PICK g : g = got[d]
  OBVIOUS
<1>7. /\ g \in Seq(Nat) /\ l \in Seq(Nat)
      /\ \A i \in DOMAIN g : (g \o l)[i] = g[i] /\ i \in DOMAIN (g \o l) /\ g[i] \in Nat
      /\ \A i \in DOMAIN l : (g \o l)[Len(g) + i] = l[i] /\ Len(g) + i \in DOMAIN (g \o l)
      /\ \A i \in DOMAIN (g \o l) : i \notin DOMAIN g =>
           i - Len(g) \in DOMAIN l /\ (g \o l)[i] = l[i - Len(g)]
  <2>1. g \in Seq(Nat) /\ l \in Seq(Nat)
    BY <1>4, <1>g
  <2> QED BY <2>1, ConcatShape
<1>8. Increasing(g \o l) /\ \A i \in DOMAIN g : g[i] <= cursor[d]
  <2>1. Increasing(g) /\ \A i \in DOMAIN g : g[i] <= cursor[d]
    BY <1>4, <1>g DEF DeviceOK
  <2> QED BY <1>3, <1>4, <1>5, <1>7, <2>1, IncreasingAppend
<1>9. \A i \in DOMAIN (g \o l) : (g \o l)[i] <= req[w].to
  <2> SUFFICES ASSUME NEW i \in DOMAIN (g \o l) PROVE (g \o l)[i] <= req[w].to
    OBVIOUS
  <2>1. CASE i \in DOMAIN g
    <3>1. (g \o l)[i] = g[i] /\ g[i] \in Nat /\ g[i] <= cursor[d]
      BY <1>7, <1>8, <2>1
    <3> QED BY <1>4, <3>1
  <2>2. CASE i \notin DOMAIN g
    BY <1>5, <1>7, <2>2
  <2> QED BY <2>1, <2>2
<1>10. Received(d) \subseteq Received(d)' /\ R \subseteq Received(d)'
  <2>1. Received(d) = {g[i] : i \in DOMAIN g} /\ Received(d)' = {(g \o l)[i] : i \in DOMAIN (g \o l)}
    BY <1>6, <1>g DEF Received
  <2> QED BY <1>3, <1>7, <2>1
<1>11. Missed(d)' \subseteq raced
  <2> SUFFICES ASSUME NEW x \in InScope(d), x <= req[w].to, x \notin Received(d)'
               PROVE  x \in raced
    BY <1>0, <1>6 DEF Missed, InScope
  <2>1. CASE x <= cursor[d]
    BY <1>4, <1>10, <2>1 DEF DeviceOK, Missed
  <2>2. CASE cursor[d] < x
    BY <1>1, <1>2, <1>10, <1>d, <2>2 DEF PageOK
  <2> QED BY <1>4, <2>1, <2>2
<1>12. DeviceOK(d)'
  BY <1>0, <1>6, <1>8, <1>9, <1>11, <1>g DEF DeviceOK
<1>13. ASSUME NEW e \in Devices, e # d PROVE DeviceOK(e)'
  <2>1. cursor'[e] = cursor[e] /\ got'[e] = got[e] /\ DeviceOK(e)
    BY <1>0, <1>13 DEF TypeOK, FeedInv
  <2> QED BY <1>0, <2>1 DEF DeviceOK, Missed, Received, InScope
<1>14. PullInv'
  <2>1. \A v \in Workers : Pulling(v)' => v # w /\ Pulling(v) /\ pc'[v] = pc[v] /\ req'[v] = req[v]
    BY <1>0 DEF OthersSame, Pulling
  <2>2. \A v \in Workers : Pulling(v)' => req[v].device # d
    BY <1>0, <1>d, <2>1 DEF FeedInv, PullInv
  <2>3. \A v \in Workers : Pulling(v)' => cursor'[req[v].device] = cursor[req[v].device]
    <3>1. \A v \in Workers : Pulling(v) => req[v].device \in Devices
      BY DEF TypeOK, RequestFits, PullRequest, Pulling
    <3> QED BY <1>0, <2>1, <2>2, <3>1 DEF TypeOK
  <2>4. \A v \in Workers : Reading(v)' => Pulling(v)' /\ Reading(v)
    BY <2>1 DEF Reading, Pulling
  <2>5. \A v \in Workers : Reading(v)' => PageOK(pc[v], req[v])'
    BY <1>0, <2>1, <2>4 DEF FeedInv, PullInv, PageOK, InScope
  <2> QED BY <2>1, <2>3, <2>5 DEF FeedInv, PullInv
<1> QED BY <1>12, <1>13, <1>14 DEF FeedInv

LEMMA FeedStep == TypeOK /\ FeedInv /\ [Next]_vars => FeedInv'
<1> SUFFICES ASSUME TypeOK, FeedInv, [Next]_vars PROVE FeedInv'
  OBVIOUS
<1>0. pc \in [Workers -> Stages] /\ req \in [Workers -> Requests]
  BY DEF TypeOK, Stages, Requests
<1>1. ASSUME NEW w \in Workers, Receive(w) \/ Serve(w) \/ Fail(w) PROVE FeedInv'
  <2>1. CASE StartPull(w)
    BY <2>1, StartPullFeed
  <2>2. CASE PublishChange(w)
    BY <2>2, PublishFeed
  <2>3. CASE PullChanges(w)
    BY <2>3, PullFeed
  <2>4. CASE HighWater(w) \/ StoreCursor(w)
    BY <2>4, HighFeed
  <2>5. CASE AnswerPull(w)
    BY <2>5, AnswerFeed
  <2>6. CASE Write(w) \/ StartPush(w) \/ NumberChange(w) \/ Fail(w)
    <3>1. /\ pc'[w] \in {"number", "seen", "publish", "idle"}
          /\ UNCHANGED <<changes, raced, cursor, got>>
      BY <1>0, <2>6 DEF Write, StartPush, Arrive, NumberChange, Fail, Done, Goto, feedVars, devVars
    <3> QED BY <1>1, <3>1, OneMoves, Quiet DEF Pulling
  <2>7. CASE LookUp(w) \/ Create(w) \/ CheckEdit(w) \/ UpdateActivity(w) \/ LogPush(w)
               \/ AnswerPush(w)
    <3>1. /\ pc'[w] \in {"dispatch", "number", "log", "update", "reply", "idle"}
          /\ UNCHANGED <<changes, raced, cursor, got>>
      BY <1>0, <2>7 DEF LookUp, Create, CheckEdit, UpdateActivity, LogPush, AnswerPush, Effect,
         Outcome, Done, Goto, feedVars, devVars
    <3> QED BY <1>1, <3>1, OneMoves, Quiet DEF Pulling
  <2> QED BY <1>1, <2>1, <2>2, <2>3, <2>4, <2>5, <2>6, <2>7 DEF Receive, Serve
<1>2. CASE Rest \/ UNCHANGED vars
  BY <1>2 DEF Rest, vars, feedVars, devVars, FeedInv, PullInv, DeviceOK, Pulling, Reading, PageOK,
     InScope, Missed, Received
<1> QED BY <1>1, <1>2 DEF Next

(* A device gets its whole feed, every change once and in order of id,     *)
(* however its pages fall and whichever answers are lost; it misses only   *)
(* changes whose rows became visible after a pull had passed their ids     *)
(* (pull.go, changelog.Record).                                            *)
THEOREM FeedAlwaysWhole == Spec => []FeedIsWhole
<1>1. Init => FeedInv
  BY DEF Init, FeedInv, PullInv, DeviceOK, Pulling, Reading, Increasing, Missed, InScope
<1> QED BY <1>1, SpecTypes, FeedStep, FeedInvSays, PTL DEF Spec

-----------------------------------------------------------------------------
(* ErpOutbound.  The rows of the tables and the tasks of the threads.      *)

JobStatuses == {"available", "running", "completed"}
DispatchRow == [kind : {"dispatch"}, status : JobStatuses, runs : Nat, to : States,
                listed : SUBSET Rules, silent : SUBSET Rules]
ActionRow == [kind : {"action"}, status : JobStatuses, runs : Nat, event : Nat, rule : Rules,
              nth : Nat, mails : Nat]
JobRow == DispatchRow \cup ActionRow
ExecutionRow == [event : Nat, rule : Rules, status : {"ok", "error"}]

Steps == {"idle", "announce", "rules", "enqueue", "act", "finish", "list", "push", "ref", "sent",
          "error"}

StatusTask == [kind : {"status"}, order : Orders]
JobTask == [kind : {"job"}, job : Nat]
RulesTask == [kind : {"job"}, job : Nat, todo : SUBSET Rules, next : Nat \ {0}, result : {"ok", "error"}]
SweepTask == [kind : {"sweep"}, type : {"order", "invoice"}]
ListTask == [kind : {"sweep"}, type : {"order", "invoice"}, docs : SUBSET Docs]

\* The tasks a thread may be at where it is.
Fits(s, t) ==
  \/ s = "idle" /\ t = NoTask
  \/ s = "announce" /\ t \in StatusTask
  \/ s \in {"rules", "act", "finish"} /\ t \in JobTask
  \/ s = "enqueue" /\ t \in RulesTask
  \/ s = "list" /\ t \in SweepTask
  \/ s = "push" /\ t \in ListTask
  \/ s \in {"ref", "sent", "error"} /\ t \in ListTask /\ t.docs # {}

JobTables ==
  /\ mix \in Mixes
  /\ state \in [Docs -> States] /\ rules \subseteq Rules
  /\ job \in Seq(JobRow) /\ executions \in Seq(ExecutionRow)

ErpTables ==
  /\ refs \subseteq [doc : Docs, ext : {ErpId[d] : d \in Docs}]
  /\ log \subseteq [doc : Docs, status : {"sent", "error"}]
  /\ erp \in [Docs -> 0..2] /\ excused \subseteq Docs

Posts ==
  /\ step \in [Threads -> Steps] /\ task = [w \in Threads |-> task[w]]
  /\ \A w \in Threads : Fits(step[w], task[w])

OutTyped == JobTables /\ ErpTables /\ Posts

\* One thread moves.
Only(w, s, t) ==
  /\ step' = [step EXCEPT ![w] = s]
  /\ task' = [task EXCEPT ![w] = t]

LEMMA KindOf ==
  ASSUME NEW s, NEW t, Fits(s, t)
  PROVE  /\ s = "idle" <=> t.kind = "none"
         /\ s = "announce" <=> t.kind = "status"
         /\ s \in {"rules", "enqueue", "act", "finish"} <=> t.kind = "job"
         /\ s \in {"list", "push", "ref", "sent", "error"} <=> t.kind = "sweep"
         /\ s \in Steps
  BY DEF Fits, NoTask, StatusTask, JobTask, RulesTask, SweepTask, ListTask, Steps

LEMMA Moved ==
  ASSUME Posts, NEW w \in Threads, NEW s \in Steps, NEW t, Only(w, s, t)
  PROVE  /\ step'[w] = s /\ task'[w] = t
         /\ \A v \in Threads \ {w} : step'[v] = step[v] /\ task'[v] = task[v]
         /\ Fits(s, t) => Posts'
  BY DEF Only, Posts

LEMMA LeavesTo ==
  ASSUME Posts, NEW w \in Threads, Leave(w)
  PROVE  Only(w, "idle", NoTask) /\ Fits("idle", NoTask) /\ "idle" \in Steps
  BY DEF Leave, MoveTo, Only, Fits, Steps

\* The least rule, the first document.
LEMMA RuleIn ==
  ASSUME OutTyped, NEW w \in Threads, step[w] = "enqueue", task[w].todo # {}
  PROVE  Rule(w) \in task[w].todo /\ Rule(w) \in Rules
<1>1. Fits(step[w], task[w])
  BY DEF OutTyped, Posts
<1>2. task[w] \in RulesTask
  BY <1>1 DEF Fits
<1>3. task[w].todo \subseteq Rules /\ Rules \subseteq Nat
  BY <1>2, AutomationAssumption DEF RulesTask
<1>4. \E r \in task[w].todo : \A s \in task[w].todo : r <= s
  BY <1>3, LeastOf
<1>5. Rule(w) \in task[w].todo
  BY <1>4 DEF Rule
<1> QED BY <1>3, <1>5

LEMMA DocIn ==
  ASSUME OutTyped, NEW w \in Threads, step[w] \in {"push", "ref", "sent", "error"},
         task[w].docs # {}
  PROVE  Doc(w) \in task[w].docs /\ Doc(w) \in Docs
<1>1. Fits(step[w], task[w])
  BY DEF OutTyped, Posts
<1>2. task[w] \in ListTask
  BY <1>1 DEF Fits
<1>3. task[w].docs \subseteq Docs /\ \A d \in task[w].docs : d[2] \in Nat
  BY <1>2, AutomationAssumption DEF ListTask
<1> DEFINE N == {d[2] : d \in task[w].docs}
<1>4. PICK n \in N : \A m \in N : n <= m
  <2>1. N \subseteq Nat /\ N # {}
    BY <1>3
  <2> HIDE DEF N
  <2> QED BY <2>1, LeastOf
<1>5. \E d \in task[w].docs : \A e \in task[w].docs : d[2] <= e[2]
  BY <1>4
<1>6. Doc(w) \in task[w].docs
  BY <1>5 DEF Doc
<1> QED BY <1>3, <1>6

-----------------------------------------------------------------------------
(* What each action does to the thread, and to the tables.                 *)

LEMMA OutInitTypes == OutboundInit => OutTyped
<1> SUFFICES ASSUME OutboundInit PROVE OutTyped
  OBVIOUS
<1> USE DEF OutboundInit, AutomationInit
<1>1. mix \in Mixes /\ state = mix.from /\ mix.from \in [Docs -> States]
  BY AutomationAssumption
<1>2. JobTables
  BY <1>1 DEF JobTables
<1>3. ErpTables
  BY DEF ErpTables
<1>4. Posts
  BY DEF Posts, Steps, Fits
<1> QED BY <1>2, <1>3, <1>4 DEF OutTyped

\* A row that changes fields of one job, in a table of them.
LEMMA Rewrites ==
  ASSUME NEW S, NEW t \in Seq(S), NEW j \in DOMAIN t, NEW x \in S
  PROVE  /\ [t EXCEPT ![j] = x] \in Seq(S)
         /\ DOMAIN [t EXCEPT ![j] = x] = DOMAIN t
         /\ [t EXCEPT ![j] = x][j] = x
         /\ \A i \in DOMAIN t : i # j => [t EXCEPT ![j] = x][i] = t[i]
<1>1. Len(t) \in Nat /\ DOMAIN t = 1..Len(t) /\ t \in [1..Len(t) -> S]
  OBVIOUS
<1>2. [t EXCEPT ![j] = x] \in [1..Len(t) -> S]
  BY <1>1
<1>3. [t EXCEPT ![j] = x] \in Seq(S)
  BY <1>1, <1>2, SeqDef
<1> QED BY <1>1, <1>3

LEMMA Extends ==
  ASSUME NEW S, NEW t \in Seq(S), NEW x \in S
  PROVE  /\ Append(t, x) \in Seq(S)
         /\ Len(t) + 1 \notin DOMAIN t /\ Len(t) + 1 \in Nat
         /\ DOMAIN Append(t, x) = DOMAIN t \cup {Len(t) + 1}
         /\ Append(t, x)[Len(t) + 1] = x
         /\ \A i \in DOMAIN t : Append(t, x)[i] = t[i]
  OBVIOUS

\* What the threads' moves leave of the job tables and the ERP's.
LEMMA ChangeStatusMoves ==
  ASSUME OutTyped, NEW w \in Threads, ChangeStatus(w)
  PROVE  /\ step[w] = "idle" /\ step'[w] = "announce"
         /\ Only(w, "announce", task'[w]) /\ Fits("announce", task'[w])
         /\ JobTables'
<1> USE DEF ChangeStatus
<1>0. Posts /\ JobTables
  BY DEF OutTyped
<1>1. PICK o \in Orders, to \in States :
        /\ state' = [state EXCEPT ![o] = to]
        /\ Begin(w, "announce", [kind |-> "status", order |-> o])
  OBVIOUS
<1>2. /\ Only(w, "announce", [kind |-> "status", order |-> o]) /\ step[w] = "idle"
      /\ Fits("announce", [kind |-> "status", order |-> o])
  BY <1>1 DEF Begin, MoveTo, Only, Fits, StatusTask
<1>3. task'[w] = [kind |-> "status", order |-> o] /\ step'[w] = "announce"
  BY <1>0, <1>2, Moved, Zenon DEF Steps
<1>4. JobTables'
  BY <1>0, <1>1 DEF JobTables, queue
<1> QED BY <1>2, <1>3, <1>4

LEMMA AnnounceMoves ==
  ASSUME OutTyped, NEW w \in Threads, Announce(w)
  PROVE  /\ step[w] = "announce" /\ Only(w, "idle", NoTask) /\ Fits("idle", NoTask)
         /\ JobTables'
         /\ \/ job' = job
            \/ \E row \in DispatchRow : job' = Append(job, row) /\ row.status = "available"
         /\ executions' = executions
<1> USE DEF Announce
<1>0. Posts /\ JobTables
  BY DEF OutTyped
<1>1. Only(w, "idle", NoTask) /\ Fits("idle", NoTask)
  BY <1>0, LeavesTo
<1>2. task[w] \in StatusTask
  BY <1>0 DEF Posts, Fits
<1>3. state[task[w].order] \in States
  BY <1>0, <1>2 DEF JobTables, StatusTask, Docs
<1>4. CASE job' = job
  BY <1>0, <1>1, <1>4 DEF JobTables
<1>5. CASE job' # job
  <2> DEFINE row == [kind |-> "dispatch", status |-> "available", runs |-> 0,
                     to |-> state[task[w].order], listed |-> {}, silent |-> {}]
  <2>1. row \in DispatchRow /\ row.status = "available" /\ job' = Append(job, row)
    BY <1>3, <1>5 DEF DispatchRow, JobStatuses
  <2> HIDE DEF row
  <2>2. job' \in Seq(JobRow)
    BY <1>0, <2>1, Extends DEF JobTables, JobRow
  <2> QED BY <1>0, <1>1, <2>1, <2>2 DEF JobTables
<1> QED BY <1>4, <1>5

\* A dispatch stays one and so does an action, and of what they are to do
\* nothing changes.
Alike(x, y) ==
  \/ x \in DispatchRow /\ y \in DispatchRow
  \/ /\ x \in ActionRow /\ y \in ActionRow
     /\ y.event = x.event /\ y.rule = x.rule /\ y.nth = x.nth

RewritesJob(j, x) ==
  /\ j \in DOMAIN job /\ Alike(job[j], x)
  /\ job' = [job EXCEPT ![j] = x]

LEMMA RewritesTypes ==
  ASSUME JobTables, NEW j, NEW x, RewritesJob(j, x)
  PROVE  /\ job' \in Seq(JobRow) /\ DOMAIN job' = DOMAIN job
         /\ job'[j] = x
         /\ \A i \in DOMAIN job : i # j => job'[i] = job[i]
         /\ \A i \in DOMAIN job : Alike(job[i], job'[i])
<1>1. x \in JobRow /\ job \in Seq(JobRow)
  BY DEF RewritesJob, Alike, JobRow, JobTables
<1>2. /\ job' \in Seq(JobRow) /\ DOMAIN job' = DOMAIN job
      /\ job'[j] = x
      /\ \A i \in DOMAIN job : i # j => job'[i] = job[i]
  BY <1>1, Rewrites, Zenon DEF RewritesJob
<1>3. \A i \in DOMAIN job : job[i] \in JobRow
  BY <1>1
<1>4. \A i \in DOMAIN job : Alike(job[i], job'[i])
  <2> TAKE i \in DOMAIN job
  <2>1. CASE i = j
    BY <1>2, <2>1 DEF RewritesJob
  <2>2. CASE i # j
    BY <1>2, <1>3, <2>2, Zenon DEF Alike, JobRow
  <2> QED BY <2>1, <2>2
<1> QED BY <1>2, <1>4

\* A thread at a job is at one that runs, of the kind its step is for, and no
\* other is.
Runs(w) ==
  LET j == task[w].job IN
  /\ j \in DOMAIN job /\ job[j].status = "running"
  /\ job[j].kind = IF step[w] \in {"rules", "enqueue"} THEN "dispatch" ELSE "action"

Runners ==
  /\ \A w \in Threads : task[w].kind = "job" => Runs(w)
  /\ \A v, w \in Threads :
       task[v].kind = "job" /\ task[w].kind = "job" /\ task[v].job = task[w].job => v = w
  /\ \A j \in DOMAIN job :
       job[j].status = "running" => \E w \in Threads : task[w].kind = "job" /\ task[w].job = j

LEMMA RunsJob ==
  ASSUME OutTyped, Runners, NEW w \in Threads, task[w].kind = "job"
  PROVE  /\ task[w].job \in DOMAIN job /\ task[w].job \in Nat
         /\ job[task[w].job].status = "running"
         /\ step[w] \in {"rules", "enqueue"} => job[task[w].job] \in DispatchRow
         /\ step[w] \in {"act", "finish"} => job[task[w].job] \in ActionRow
         /\ Fits(step[w], task[w])
<1>1. Runs(w) /\ Fits(step[w], task[w])
  BY DEF Runners, OutTyped, Posts
<1>2. job \in Seq(JobRow)
  BY DEF OutTyped, JobTables
<1>3. task[w].job \in DOMAIN job /\ job[task[w].job] \in JobRow /\ task[w].job \in Nat
  BY <1>1, <1>2 DEF Runs
<1> QED BY <1>1, <1>3 DEF Runs, JobRow, DispatchRow, ActionRow

Stamped(x, s, n) == [x EXCEPT !.status = s, !.runs = n]

LEMMA RowStarts ==
  ASSUME NEW x \in JobRow, NEW s \in JobStatuses, NEW n \in Nat
  PROVE  LET y == Stamped(x, s, n) IN
         /\ Alike(x, y) /\ y.status = s /\ y.runs = n /\ y.kind = x.kind
         /\ x \in ActionRow => y.mails = x.mails
         /\ x \in DispatchRow => y.listed = x.listed /\ y.silent = x.silent
<1> DEFINE y == Stamped(x, s, n)
<1> USE DEF Stamped
<1>1. CASE x \in DispatchRow
  <2>1. y \in DispatchRow /\ x \notin ActionRow
    BY <1>1 DEF DispatchRow, ActionRow
  <2> QED BY <1>1, <2>1 DEF DispatchRow, Alike
<1>2. CASE x \in ActionRow
  <2>1. y \in ActionRow /\ x \notin DispatchRow
    BY <1>2 DEF DispatchRow, ActionRow
  <2>2. y.event = x.event /\ y.rule = x.rule /\ y.nth = x.nth
    BY <1>2 DEF ActionRow
  <2> QED BY <1>2, <2>1, <2>2 DEF ActionRow, Alike
<1> QED BY <1>1, <1>2 DEF JobRow

LEMMA TakeMoves ==
  ASSUME OutTyped, NEW w \in Threads, Take(w)
  PROVE  \E j \in DOMAIN job :
           /\ step[w] = "idle" /\ job[j].status = "available"
           /\ RewritesJob(j, Stamped(job[j], "running", job[j].runs + 1))
           /\ \/ job[j] \in DispatchRow /\ Only(w, "rules", [kind |-> "job", job |-> j])
              \/ job[j] \in ActionRow /\ Only(w, "act", [kind |-> "job", job |-> j])
           /\ Fits("rules", [kind |-> "job", job |-> j])
           /\ Fits("act", [kind |-> "job", job |-> j])
           /\ JobTables'
<1> USE DEF Take
<1>0. Posts /\ JobTables
  BY DEF OutTyped
<1>1. PICK j \in DOMAIN job :
        /\ Takeable(j)
        /\ job' = [job EXCEPT ![j].status = "running", ![j].runs = @ + 1]
        /\ Begin(w, IF job[j].kind = "dispatch" THEN "rules" ELSE "act",
                 [kind |-> "job", job |-> j])
  OBVIOUS
<1>2. job[j] \in JobRow /\ j \in Nat
  BY <1>0 DEF JobTables
<1> DEFINE x == Stamped(job[j], "running", job[j].runs + 1)
<1>3. job' = [job EXCEPT ![j] = x]
  BY <1>1 DEF Stamped
<1>4. Alike(job[j], x)
  <2>1. job[j].runs + 1 \in Nat /\ "running" \in JobStatuses
    BY <1>2 DEF JobRow, DispatchRow, ActionRow, JobStatuses
  <2> QED BY <1>2, <2>1, RowStarts
<1>5. RewritesJob(j, x)
  BY <1>3, <1>4 DEF RewritesJob
<1>6. /\ \/ job[j] \in DispatchRow /\ Only(w, "rules", [kind |-> "job", job |-> j])
         \/ job[j] \in ActionRow /\ Only(w, "act", [kind |-> "job", job |-> j])
      /\ step[w] = "idle" /\ job[j].status = "available"
  BY <1>1, <1>2 DEF Begin, MoveTo, Only, Takeable, JobRow, DispatchRow, ActionRow
<1>7. Fits("rules", [kind |-> "job", job |-> j]) /\ Fits("act", [kind |-> "job", job |-> j])
  BY <1>2 DEF Fits, JobTask
<1>8. JobTables'
  <2> HIDE DEF x
  <2>1. job' \in Seq(JobRow)
    BY <1>0, <1>5, RewritesTypes
  <2> QED BY <1>0, <2>1 DEF JobTables, counts
<1> QED BY <1>5, <1>6, <1>7, <1>8

LEMMA ListRulesMoves ==
  ASSUME OutTyped, Runners, NEW w \in Threads, ListRules(w)
  PROVE  LET j == task[w].job
             t == [kind |-> "job", job |-> j, todo |-> job'[j].listed, next |-> 1,
                   result |-> "ok"]
         IN  /\ step[w] = "rules" /\ Only(w, "enqueue", t) /\ Fits("enqueue", t)
             /\ job[j] \in DispatchRow /\ job'[j].runs = job[j].runs
             /\ job'[j].status = job[j].status
             /\ RewritesJob(j, job'[j])
             /\ JobTables' /\ executions' = executions
<1> USE DEF ListRules
<1>0. Posts /\ JobTables
  BY DEF OutTyped
<1>1. step[w] = "rules" /\ task[w].kind = "job"
  BY <1>0, KindOf DEF Posts
<1> DEFINE j == task[w].job
           list == {r \in rules : job[j].to \in MatchedBy[r]}
           x == [job[j] EXCEPT !.listed = list]
<1>2. j \in DOMAIN job /\ j \in Nat /\ job[j] \in DispatchRow
  BY <1>1, RunsJob
<1>3. /\ job' = [job EXCEPT ![j] = x]
      /\ Only(w, "enqueue", [kind |-> "job", job |-> j, todo |-> list, next |-> 1, result |-> "ok"])
  BY DEF MoveTo, Only
<1>4. list \subseteq Rules
  BY <1>0 DEF JobTables
<1>5. Alike(job[j], x) /\ x.listed = list /\ x.runs = job[j].runs /\ x.status = job[j].status
  <2> HIDE DEF list
  <2> QED BY <1>2, <1>4 DEF Alike, DispatchRow
<1>6. RewritesJob(j, x)
  BY <1>2, <1>3, <1>5 DEF RewritesJob
<1>7. job'[j] = x /\ job' \in Seq(JobRow)
  <2> HIDE DEF x
  <2> QED BY <1>0, <1>6, RewritesTypes
<1>8. Fits("enqueue", [kind |-> "job", job |-> j, todo |-> list, next |-> 1, result |-> "ok"])
  <2> HIDE DEF list
  <2> QED BY <1>2, <1>4 DEF Fits, RulesTask
<1>9. JobTables'
  BY <1>0, <1>7 DEF JobTables, counts
<1> HIDE DEF x, list
<1> QED BY <1>1, <1>2, <1>3, <1>5, <1>6, <1>7, <1>8, <1>9

LEMMA NotedTask ==
  ASSUME NEW t \in RulesTask, NEW n \in Nat \ {0}, NEW e \in {"ok", "error"}
  PROVE  [t EXCEPT !.next = n, !.result = e] \in RulesTask
  BY DEF RulesTask

LEMMA EnqueueMoves ==
  ASSUME OutTyped, Runners, NEW w \in Threads, Enqueue(w)
  PROVE  LET j == task[w].job
             r == Rule(w)
             k == task[w].next
             row == [kind |-> "action", status |-> "available", runs |-> 0, event |-> j,
                     rule |-> r, nth |-> k, mails |-> 0]
             after(e) == [task[w] EXCEPT !.next = k + 1, !.result = e]
         IN  /\ step[w] = "enqueue" /\ k \in 1..ActionsOf[r] /\ r \in task[w].todo
             /\ r \in Rules /\ j \in DOMAIN job /\ job[j] \in DispatchRow
             /\ row \in ActionRow
             /\ \/ job' = Append(job, row) /\ Only(w, "enqueue", after(task[w].result))
                \/ job' = job /\ Only(w, "enqueue", after("error"))
             /\ Fits("enqueue", after(task[w].result)) /\ Fits("enqueue", after("error"))
             /\ JobTables' /\ executions' = executions
<1> USE DEF Enqueue
<1>0. Posts /\ JobTables
  BY DEF OutTyped
<1>1. step[w] = "enqueue" /\ task[w].kind = "job" /\ task[w].todo # {}
  BY <1>0, KindOf DEF Posts
<1> DEFINE j == task[w].job
           r == Rule(w)
           k == task[w].next
           row == [kind |-> "action", status |-> "available", runs |-> 0, event |-> j,
                   rule |-> r, nth |-> k, mails |-> 0]
           after(e) == [task[w] EXCEPT !.next = k + 1, !.result = e]
<1>2. j \in DOMAIN job /\ j \in Nat /\ job[j] \in DispatchRow /\ r \in task[w].todo /\ r \in Rules
  BY <1>1, RunsJob, RuleIn
<1>3. task[w] \in RulesTask
  BY <1>0, <1>1 DEF Posts, Fits
<1>4. k \in 1..ActionsOf[r] /\ k \in Nat
  <2>1. k \in Nat \ {0} /\ k <= ActionsOf[r] /\ ActionsOf[r] \in Nat
    BY <1>2, <1>3, AutomationAssumption DEF RulesTask
  <2> QED BY <2>1
<1>5. row \in ActionRow
  BY <1>2, <1>4 DEF ActionRow, JobStatuses
<1>6. AnyError(w, "ok") = task[w].result /\ AnyError(w, "error") = "error"
  BY <1>3 DEF AnyError, RulesTask
<1>7. \/ /\ job' = Append(job, row)
         /\ task' = [task EXCEPT ![w].next = k + 1, ![w].result = AnyError(w, "ok")]
      \/ /\ job' = job
         /\ task' = [task EXCEPT ![w].next = k + 1, ![w].result = AnyError(w, "error")]
  BY DEF AfterAction, NewAction
<1>8. \/ job' = Append(job, row) /\ Only(w, "enqueue", after(task[w].result))
      \/ job' = job /\ Only(w, "enqueue", after("error"))
  <2>1. step' = [step EXCEPT ![w] = "enqueue"]
    BY <1>0, <1>1 DEF Posts
  <2> HIDE DEF row
  <2> QED BY <1>6, <1>7, <2>1 DEF Only
<1>9. Fits("enqueue", after(task[w].result)) /\ Fits("enqueue", after("error"))
  <2>1. k + 1 \in Nat \ {0} /\ task[w].result \in {"ok", "error"}
    BY <1>3, <1>4 DEF RulesTask
  <2>2. after(task[w].result) \in RulesTask /\ after("error") \in RulesTask
    BY <1>3, <2>1, NotedTask
  <2> QED BY <2>2 DEF Fits
<1>10. JobTables'
  <2>1. job' \in Seq(JobRow)
    <3> HIDE DEF row, Enqueue
    <3>1. job \in Seq(JobRow) /\ row \in JobRow
      BY <1>0, <1>5 DEF JobTables, JobRow
    <3>2. job' = job \/ job' = Append(job, row)
      BY <1>8
    <3> QED BY <3>1, <3>2, Extends
  <2> QED BY <1>0, <2>1 DEF JobTables
<1> QED BY <1>1, <1>2, <1>4, <1>5, <1>8, <1>9, <1>10

LEMMA DoneTask ==
  ASSUME NEW t \in RulesTask, NEW r
  PROVE  [t EXCEPT !.todo = t.todo \ {r}, !.next = 1, !.result = "ok"] \in RulesTask
<1>1. t.todo \ {r} \in SUBSET Rules
  BY DEF RulesTask
<1>2. ASSUME NEW S \in SUBSET Rules, NEW n \in Nat \ {0}, NEW e \in {"ok", "error"}
      PROVE  [t EXCEPT !.todo = S, !.next = n, !.result = e] \in RulesTask
  BY DEF RulesTask
<1>3. 1 \in Nat \ {0}
  OBVIOUS
<1> QED BY <1>1, <1>2, <1>3

LEMMA ExecuteMoves ==
  ASSUME OutTyped, Runners, NEW w \in Threads, Execute(w)
  PROVE  LET j == task[w].job
             r == Rule(w)
             row == [event |-> j, rule |-> r, status |-> task[w].result]
             t == [task[w] EXCEPT !.todo = @ \ {r}, !.next = 1, !.result = "ok"]
         IN  /\ step[w] = "enqueue" /\ r \in task[w].todo /\ r \in Rules
             /\ j \in DOMAIN job /\ job[j] \in DispatchRow
             /\ task[w].next > ActionsOf[r]
             /\ Only(w, "enqueue", t) /\ Fits("enqueue", t)
             /\ row \in ExecutionRow
             /\ \/ executions' = Append(executions, row) /\ job' = job
                \/ /\ executions' = executions
                   /\ RewritesJob(j, [job[j] EXCEPT !.silent = @ \cup {r}])
             /\ JobTables'
<1>0. Posts /\ JobTables
  BY DEF OutTyped
<1>1. step[w] = "enqueue" /\ task[w].kind = "job" /\ task[w].todo # {}
  BY <1>0, KindOf DEF Posts, Execute
<1> DEFINE j == task[w].job
           r == Rule(w)
           row == [event |-> j, rule |-> r, status |-> task[w].result]
           t == [task[w] EXCEPT !.todo = @ \ {r}, !.next = 1, !.result = "ok"]
           x == [job[j] EXCEPT !.silent = @ \cup {r}]
<1>2. j \in DOMAIN job /\ j \in Nat /\ job[j] \in DispatchRow /\ r \in task[w].todo /\ r \in Rules
  BY <1>1, RunsJob, RuleIn
<1>3. task[w] \in RulesTask
  BY <1>0, <1>1 DEF Posts, Fits
<1>4. task[w].next > ActionsOf[r]
  BY DEF Execute
<1>5. row \in ExecutionRow
  BY <1>2, <1>3 DEF ExecutionRow, RulesTask
<1>6. Only(w, "enqueue", t)
  <2>1. step' = [step EXCEPT ![w] = "enqueue"]
    BY <1>0, <1>1 DEF Posts, Execute
  <2>2. task' = [task EXCEPT ![w] = t]
    BY DEF Execute
  <2> QED BY <2>1, <2>2 DEF Only
<1>7. Fits("enqueue", t)
  <2>1. t \in RulesTask
    BY <1>3, DoneTask
  <2> QED BY <2>1 DEF Fits
<1>8. Alike(job[j], x)
  BY <1>2 DEF Alike, DispatchRow
<1>9. \/ executions' = Append(executions, row) /\ job' = job
      \/ executions' = executions /\ job' = [job EXCEPT ![j] = x]
  BY DEF Execute
<1>10. \/ executions' = Append(executions, row) /\ job' = job
       \/ executions' = executions /\ RewritesJob(j, x)
  BY <1>2, <1>8, <1>9 DEF RewritesJob
<1>11. JobTables'
  <2> HIDE DEF row, x
  <2>1. job' \in Seq(JobRow)
    BY <1>0, <1>10, RewritesTypes DEF JobTables
  <2>2. executions' \in Seq(ExecutionRow)
    BY <1>0, <1>5, <1>10, Extends DEF JobTables
  <2>3. UNCHANGED <<state, rules, mix>>
    BY DEF Execute
  <2> QED BY <1>0, <2>1, <2>2, <2>3 DEF JobTables
<1> QED BY <1>1, <1>2, <1>4, <1>5, <1>6, <1>7, <1>10, <1>11

LEMMA ActMoves ==
  ASSUME OutTyped, Runners, NEW w \in Threads, Act(w)
  PROVE  LET j == task[w].job IN
         /\ step[w] = "act" /\ Only(w, "finish", task[w]) /\ Fits("finish", task[w])
         /\ j \in DOMAIN job /\ job[j] \in ActionRow
         /\ \/ RewritesJob(j, [job[j] EXCEPT !.mails = @ + 1])
            \/ job' = job
         /\ JobTables' /\ executions' = executions
<1>0. Posts /\ JobTables
  BY DEF OutTyped
<1>1. step[w] = "act" /\ task[w].kind = "job"
  BY <1>0, KindOf DEF Posts, Act
<1> DEFINE j == task[w].job
           x == [job[j] EXCEPT !.mails = @ + 1]
<1>2. j \in DOMAIN job /\ job[j] \in ActionRow
  BY <1>1, RunsJob
<1>3. Only(w, "finish", task[w]) /\ Fits("finish", task[w])
  BY <1>0, <1>1 DEF Only, Act, MoveTo, Fits, Posts
<1>4. Alike(job[j], x)
  <2>1. job[j].mails + 1 \in Nat
    BY <1>2 DEF ActionRow
  <2>2. x \in ActionRow /\ x.event = job[j].event /\ x.rule = job[j].rule /\ x.nth = job[j].nth
    BY <1>2, <2>1 DEF ActionRow
  <2> QED BY <1>2, <2>2 DEF Alike
<1>5. job' = job \/ job' = [job EXCEPT ![j] = x]
  BY DEF Act
<1>6. job' = job \/ RewritesJob(j, x)
  BY <1>2, <1>4, <1>5 DEF RewritesJob
<1>7. JobTables'
  <2> HIDE DEF x
  <2>1. job' \in Seq(JobRow)
    BY <1>0, <1>6, RewritesTypes DEF JobTables
  <2> QED BY <1>0, <2>1 DEF JobTables, Act
<1> QED BY <1>1, <1>2, <1>3, <1>6, <1>7 DEF Act

\* A job completes, or fails and goes back to the queue.
Ends(w, s) ==
  LET j == task[w].job IN
  /\ task[w].kind = "job" /\ Only(w, "idle", NoTask) /\ Fits("idle", NoTask)
  /\ j \in DOMAIN job /\ job[j] \in JobRow
  /\ RewritesJob(j, Stamped(job[j], s, job[j].runs))
  /\ JobTables' /\ executions' = executions

LEMMA EndsJob ==
  ASSUME OutTyped, Runners, NEW w \in Threads, NEW s \in JobStatuses,
         task[w].kind = "job", Leave(w), job' = [job EXCEPT ![task[w].job].status = s],
         UNCHANGED <<state, rules, executions, mix>>
  PROVE  Ends(w, s)
<1>0. Posts /\ JobTables
  BY DEF OutTyped
<1> DEFINE j == task[w].job
           x == Stamped(job[j], s, job[j].runs)
<1>1. j \in DOMAIN job /\ job[j] \in JobRow
  BY <1>0, RunsJob DEF JobTables
<1>2. Only(w, "idle", NoTask) /\ Fits("idle", NoTask)
  BY <1>0, LeavesTo
<1>3. job[j].runs \in Nat
  BY <1>1 DEF JobRow, DispatchRow, ActionRow
<1>4. Alike(job[j], x)
  BY <1>1, <1>3, RowStarts
<1>5. [job[j] EXCEPT !.status = s] = x
  BY <1>1 DEF JobRow, DispatchRow, ActionRow, Stamped
<1>6. RewritesJob(j, x)
  BY <1>1, <1>4, <1>5 DEF RewritesJob
<1>7. JobTables'
  <2> HIDE DEF x
  <2>1. job' \in Seq(JobRow)
    BY <1>0, <1>6, RewritesTypes DEF JobTables
  <2> QED BY <1>0, <2>1 DEF JobTables
<1> QED BY <1>1, <1>2, <1>6, <1>7 DEF Ends

LEMMA FinishMoves ==
  ASSUME OutTyped, Runners, NEW w \in Threads, Finish(w)
  PROVE  /\ Ends(w, "completed")
         /\ step[w] = "finish" \/ (step[w] = "enqueue" /\ task[w].todo = {})
<1>1. step[w] = "finish" \/ (step[w] = "enqueue" /\ task[w].todo = {})
  BY DEF Finish, Finished
<1>2. task[w].kind = "job"
  BY <1>1, KindOf DEF OutTyped, Posts
<1>3. UNCHANGED <<state, rules, executions, mix>> /\ Leave(w)
  BY DEF Finish, counts
<1> QED BY <1>1, <1>2, <1>3, EndsJob DEF Finish, JobStatuses

LEMMA JobFailsMoves ==
  ASSUME OutTyped, Runners, NEW w \in Threads, JobFails(w)
  PROVE  Ends(w, "available")
<1>1. UNCHANGED <<state, rules, executions, mix>> /\ Leave(w) /\ task[w].kind = "job"
  BY DEF JobFails
<1> QED BY <1>1, EndsJob DEF JobFails, Requeue, JobStatuses

-----------------------------------------------------------------------------
(* The sweep's moves.                                                      *)

JobsRest == UNCHANGED <<state, rules, job, executions, mix>>

LEMMA StartSweepMoves ==
  ASSUME OutTyped, NEW w \in Threads, StartSweep(w)
  PROVE  LET t == [kind |-> "sweep", type |-> "order"] IN
         /\ step[w] = "idle" /\ Only(w, "list", t) /\ Fits("list", t)
         /\ JobsRest /\ UNCHANGED <<refs, log, erp, excused>>
  BY DEF StartSweep, Begin, MoveTo, Only, Fits, SweepTask, JobsRest, queue, counts, outbound

LEMMA ListMoves ==
  ASSUME OutTyped, NEW w \in Threads, List(w)
  PROVE  \E docs \in SUBSET ToSync(task[w].type) :
           LET t == [kind |-> "sweep", type |-> task[w].type, docs |-> docs] IN
           /\ step[w] = "list" /\ Only(w, "push", t) /\ Fits("push", t)
           /\ docs \subseteq Docs
           /\ excused' = excused \cup {d \in docs : \E v \in Threads : Sweeping(v, d)}
           /\ JobsRest /\ UNCHANGED <<refs, log, erp>>
<1>1. step[w] = "list" /\ Fits(step[w], task[w])
  BY DEF List, OutTyped, Posts
<1>2. task[w].type \in {"order", "invoice"}
  BY <1>1 DEF Fits, SweepTask
<1>3. ToSync(task[w].type) \subseteq Docs
  BY DEF ToSync, UpToBatch
<1>4. PICK docs \in {ToSync(task[w].type), {}} :
         /\ task' = [task EXCEPT ![w] = [kind |-> "sweep", type |-> task[w].type, docs |-> docs]]
         /\ excused' = excused \cup {d \in docs : \E v \in Threads : Sweeping(v, d)}
  BY DEF List
<1>5. docs \subseteq ToSync(task[w].type) /\ docs \subseteq Docs
  BY <1>3, <1>4
<1>6. JobsRest /\ UNCHANGED <<refs, log, erp>> /\ step' = [step EXCEPT ![w] = "push"]
  BY DEF List, JobsRest, queue, MoveTo
<1>7. Fits("push", [kind |-> "sweep", type |-> task[w].type, docs |-> docs])
  BY <1>2, <1>5 DEF Fits, ListTask
<1> QED BY <1>1, <1>4, <1>5, <1>6, <1>7 DEF Only

LEMMA PushMoves ==
  ASSUME OutTyped, NEW w \in Threads, Push(w)
  PROVE  LET d == Doc(w) IN
         /\ step[w] = "push" /\ d \in task[w].docs /\ d \in Docs
         /\ \E s \in {"ref", "error"} : Only(w, s, task[w]) /\ Fits(s, task[w])
         /\ \/ Book(d) /\ excused' = excused /\ step'[w] = "ref"
            \/ erp' = erp /\ excused' = excused /\ step'[w] = "error"
            \/ Book(d) /\ excused' = excused \cup {d} /\ step'[w] = "error"
         /\ JobsRest /\ UNCHANGED <<refs, log>>
<1>0. Posts /\ step[w] = "push" /\ task[w].docs # {} /\ Fits(step[w], task[w])
  BY DEF Push, OutTyped, Posts
<1>1. Doc(w) \in task[w].docs /\ Doc(w) \in Docs
  BY <1>0, DocIn
<1>2. JobsRest /\ UNCHANGED <<refs, log>> /\ task' = task
  BY DEF Push, JobsRest, queue
<1>3. \E s \in {"ref", "error"} :
         /\ step' = [step EXCEPT ![w] = s]
         /\ \/ s = "ref" /\ Book(Doc(w)) /\ excused' = excused
            \/ s = "error" /\ erp' = erp /\ excused' = excused
            \/ s = "error" /\ Book(Doc(w)) /\ excused' = excused \cup {Doc(w)}
  BY DEF Push, MoveTo, AfterError
<1>4. \A s \in {"ref", "error"} : Fits(s, task[w])
  BY <1>0 DEF Fits
<1>5. task' = [task EXCEPT ![w] = task[w]]
  BY <1>0, <1>2 DEF Posts
<1>6. \A s : step' = [step EXCEPT ![w] = s] => step'[w] = s
  BY <1>0 DEF Posts
<1> QED BY <1>0, <1>1, <1>2, <1>3, <1>4, <1>5, <1>6 DEF Only

LEMMA AddRefMoves ==
  ASSUME OutTyped, NEW w \in Threads, AddRef(w)
  PROVE  LET d == Doc(w) IN
         /\ step[w] = "ref" /\ d \in task[w].docs /\ d \in Docs
         /\ Only(w, "sent", task[w]) /\ Fits("sent", task[w])
         /\ \/ /\ \A r \in refs : Type(r.doc) = Type(d) => r.doc # d /\ r.ext # ErpId[d]
               /\ refs' = refs \cup {[doc |-> d, ext |-> ErpId[d]]}
               /\ excused' = excused
            \/ refs' = refs /\ excused' = IF Referred(d) THEN excused ELSE excused \cup {d}
         /\ JobsRest /\ UNCHANGED <<log, erp>>
<1>0. Posts /\ step[w] = "ref" /\ Fits(step[w], task[w])
  BY DEF AddRef, OutTyped, Posts
<1>1. task[w].docs # {}
  BY <1>0 DEF Fits
<1>2. Doc(w) \in task[w].docs /\ Doc(w) \in Docs
  BY <1>0, <1>1, DocIn
<1>3. Only(w, "sent", task[w]) /\ Fits("sent", task[w])
  BY <1>0 DEF AddRef, MoveTo, Only, Fits, Posts
<1> QED BY <1>0, <1>2, <1>3 DEF AddRef, JobsRest, queue

LEMMA LogMoves ==
  ASSUME OutTyped, NEW w \in Threads, Log(w)
  PROVE  LET d == Doc(w)
             t == [task[w] EXCEPT !.docs = @ \ {d}]
         IN  /\ step[w] \in {"sent", "error"} /\ d \in task[w].docs /\ d \in Docs
             /\ Only(w, "push", t) /\ Fits("push", t)
             /\ t.docs = task[w].docs \ {d}
             /\ \/ log' = log
                \/ log' = log \cup {[doc |-> d, status |-> step[w]]}
             /\ JobsRest /\ UNCHANGED <<refs, erp, excused>>
<1>0. Posts /\ step[w] \in {"sent", "error"} /\ Fits(step[w], task[w])
  BY DEF Log, OutTyped, Posts
<1>1. task[w].docs # {} /\ task[w] \in ListTask
  BY <1>0 DEF Fits
<1>2. Doc(w) \in task[w].docs /\ Doc(w) \in Docs
  BY <1>0, <1>1, DocIn
<1> DEFINE t == [task[w] EXCEPT !.docs = @ \ {Doc(w)}]
<1>3. t \in ListTask /\ t.docs = task[w].docs \ {Doc(w)}
  BY <1>1 DEF ListTask
<1>4. Fits("push", t)
  BY <1>3 DEF Fits
<1>5. Only(w, "push", t)
  BY DEF Log, MoveTo, Only
<1>6. /\ log' = log \/ log' = log \cup {[doc |-> Doc(w), status |-> step[w]]}
      /\ JobsRest /\ UNCHANGED <<refs, erp, excused>>
  BY DEF Log, JobsRest, queue
<1> QED BY <1>0, <1>2, <1>3, <1>4, <1>5, <1>6

LEMMA EndListMoves ==
  ASSUME OutTyped, NEW w \in Threads, EndList(w)
  PROVE  /\ step[w] = "push" /\ task[w].docs = {}
         /\ \E s \in {"idle", "list"}, t \in SweepTask \cup {NoTask} : Only(w, s, t) /\ Fits(s, t)
         /\ JobsRest /\ UNCHANGED <<refs, log, erp, excused>>
<1>0. Posts /\ step[w] = "push" /\ task[w].docs = {}
  BY DEF EndList, OutTyped
<1>1. JobsRest /\ UNCHANGED <<refs, log, erp, excused>>
  BY DEF EndList, JobsRest, queue, counts, outbound
<1>2. CASE task[w].type = "order"
  <2> DEFINE t == [kind |-> "sweep", type |-> "invoice"]
  <2>1. t \in SweepTask /\ Fits("list", t) /\ Only(w, "list", t)
    BY <1>2 DEF EndList, MoveTo, Only, Fits, SweepTask
  <2> QED BY <1>0, <1>1, <2>1
<1>3. CASE task[w].type # "order"
  <2>1. Leave(w)
    BY <1>3 DEF EndList
  <2> QED BY <1>0, <1>1, <2>1, LeavesTo
<1> QED BY <1>2, <1>3

LEMMA SweepDiesMoves ==
  ASSUME OutTyped, NEW w \in Threads, SweepDies(w)
  PROVE  /\ task[w].kind = "sweep" /\ Only(w, "idle", NoTask) /\ Fits("idle", NoTask)
         /\ step[w] = "ref" => Doc(w) \in Docs
         /\ excused' = IF step[w] = "ref" /\ ~Referred(Doc(w)) THEN excused \cup {Doc(w)}
                       ELSE excused
         /\ JobsRest /\ UNCHANGED <<refs, log, erp>>
<1>0. Posts /\ Fits(step[w], task[w]) /\ Leave(w) /\ task[w].kind = "sweep"
  BY DEF SweepDies, OutTyped, Posts
<1>1. Only(w, "idle", NoTask) /\ Fits("idle", NoTask)
  BY <1>0, LeavesTo
<1>2. ASSUME step[w] = "ref" PROVE Doc(w) \in Docs
  BY <1>0, <1>2, DocIn DEF Fits
<1> QED BY <1>0, <1>1, <1>2 DEF SweepDies, JobsRest, queue

-----------------------------------------------------------------------------
(* The tables keep their shape.                                            *)

LEMMA ErpTablesStay ==
  ASSUME ErpTables, UNCHANGED <<refs, log, erp, excused>>
  PROVE  ErpTables'
  BY DEF ErpTables

LEMMA BookTypes ==
  ASSUME ErpTables, NEW d \in Docs, Book(d)
  PROVE  /\ erp' \in [Docs -> 0..2] /\ erp'[d] > 0
         /\ \A e \in Docs : erp'[e] >= erp[e]
         /\ \A e \in Docs \ {d} : erp'[e] = erp[e]
         /\ erp[d] = 0 => erp'[d] = 1
  BY DEF ErpTables, Book

LEMMA SweepTypes ==
  ASSUME OutTyped, NEW w \in Threads,
         List(w) \/ Push(w) \/ AddRef(w) \/ Log(w) \/ SweepDies(w)
  PROVE  ErpTables'
<1>0. ErpTables
  BY DEF OutTyped
<1>1. CASE List(w)
  <2>1. PICK docs \in SUBSET Docs :
          /\ excused' = excused \cup {d \in docs : \E v \in Threads : Sweeping(v, d)}
          /\ UNCHANGED <<refs, log, erp>>
    BY <1>1, ListMoves
  <2> QED BY <1>0, <2>1 DEF ErpTables
<1>2. CASE Push(w)
  <2>1. /\ Doc(w) \in Docs /\ UNCHANGED <<refs, log>>
        /\ Book(Doc(w)) \/ erp' = erp
        /\ excused' = excused \/ excused' = excused \cup {Doc(w)}
    BY <1>2, PushMoves
  <2>2. erp' \in [Docs -> 0..2]
    BY <1>0, <2>1, BookTypes DEF ErpTables
  <2> QED BY <1>0, <2>1, <2>2 DEF ErpTables
<1>3. CASE AddRef(w)
  <2>1. /\ Doc(w) \in Docs /\ UNCHANGED <<log, erp>>
        /\ refs' = refs \/ refs' = refs \cup {[doc |-> Doc(w), ext |-> ErpId[Doc(w)]]}
        /\ excused' = excused \/ excused' = excused \cup {Doc(w)}
    BY <1>3, AddRefMoves
  <2> QED BY <1>0, <2>1 DEF ErpTables
<1>4. CASE Log(w)
  <2>1. /\ Doc(w) \in Docs /\ UNCHANGED <<refs, erp, excused>> /\ step[w] \in {"sent", "error"}
        /\ log' = log \/ log' = log \cup {[doc |-> Doc(w), status |-> step[w]]}
    BY <1>4, LogMoves
  <2> QED BY <1>0, <2>1 DEF ErpTables
<1>5. CASE SweepDies(w)
  <2>1. /\ UNCHANGED <<refs, log, erp>>
        /\ excused' = excused \/ (Doc(w) \in Docs /\ excused' = excused \cup {Doc(w)})
    BY <1>5, SweepDiesMoves
  <2> QED BY <1>0, <2>1 DEF ErpTables
<1> QED BY <1>1, <1>2, <1>3, <1>4, <1>5

\* A sweep's step leaves the jobs and moves its thread.
LEMMA SweepsMove ==
  ASSUME OutTyped, NEW w \in Threads, StartSweep(w) \/ Sweep(w) \/ SweepDies(w)
  PROVE  \E s, t :
           /\ s \in Steps /\ Only(w, s, t) /\ Fits(s, t) /\ JobsRest
           /\ task[w].kind # "job" /\ t.kind # "job"
<1>0. Posts /\ Fits(step[w], task[w])
  BY DEF OutTyped, Posts
<1>1. CASE StartSweep(w)
  <2> DEFINE t == [kind |-> "sweep", type |-> "order"]
  <2>1. step[w] = "idle" /\ Only(w, "list", t) /\ Fits("list", t) /\ JobsRest
    BY <1>1, StartSweepMoves
  <2> HIDE DEF t
  <2> QED BY <1>0, <2>1, KindOf
<1>2. CASE List(w)
  <2>1. PICK docs : LET t == [kind |-> "sweep", type |-> task[w].type, docs |-> docs] IN
          step[w] = "list" /\ Only(w, "push", t) /\ Fits("push", t) /\ JobsRest
    BY <1>2, ListMoves
  <2> DEFINE t == [kind |-> "sweep", type |-> task[w].type, docs |-> docs]
  <2>2. step[w] = "list" /\ Only(w, "push", t) /\ Fits("push", t) /\ JobsRest
    BY <2>1
  <2> HIDE DEF t
  <2> QED BY <1>0, <2>2, KindOf
<1>3. CASE Push(w)
  <2>1. PICK s \in {"ref", "error"} :
          step[w] = "push" /\ Only(w, s, task[w]) /\ Fits(s, task[w]) /\ JobsRest
    BY <1>3, PushMoves
  <2> QED BY <1>0, <2>1, KindOf
<1>4. CASE AddRef(w)
  <2>1. step[w] = "ref" /\ Only(w, "sent", task[w]) /\ Fits("sent", task[w]) /\ JobsRest
    BY <1>4, AddRefMoves
  <2> QED BY <1>0, <2>1, KindOf
<1>5. CASE Log(w)
  <2> DEFINE t == [task[w] EXCEPT !.docs = @ \ {Doc(w)}]
  <2>1. step[w] \in {"sent", "error"} /\ Only(w, "push", t) /\ Fits("push", t) /\ JobsRest
    BY <1>5, LogMoves
  <2> HIDE DEF t
  <2> QED BY <1>0, <2>1, KindOf
<1>6. CASE EndList(w)
  <2>1. PICK s, t : s \in {"idle", "list"} /\ step[w] = "push" /\ Only(w, s, t) /\ Fits(s, t) /\ JobsRest
    BY <1>6, EndListMoves
  <2> QED BY <1>0, <2>1, KindOf
<1>7. CASE SweepDies(w)
  <2>1. task[w].kind = "sweep" /\ Only(w, "idle", NoTask) /\ Fits("idle", NoTask) /\ JobsRest
    BY <1>7, SweepDiesMoves
  <2> QED BY <1>0, <2>1, KindOf
<1> QED BY <1>1, <1>2, <1>3, <1>4, <1>5, <1>6, <1>7 DEF Sweep

\* The other steps of the queue and the requests, of which the ERP's tables
\* and the sweeps see nothing.
JobStep(w) ==
  Automate(w) \/ ChangeStatus(w) \/ JobFails(w)

LEMMA JobStepsMove ==
  ASSUME OutTyped, Runners, NEW w \in Threads, JobStep(w)
  PROVE  \E s, t :
           /\ s \in Steps /\ Only(w, s, t) /\ Fits(s, t) /\ JobTables'
           /\ task[w].kind # "sweep" /\ t.kind # "sweep"
<1>0. Posts /\ Fits(step[w], task[w])
  BY DEF OutTyped, Posts
<1>1. CASE ChangeStatus(w)
  <2>1. step[w] = "idle" /\ Only(w, "announce", task'[w]) /\ Fits("announce", task'[w]) /\ JobTables'
    BY <1>1, ChangeStatusMoves
  <2>2. PICK t : t = task'[w]
    OBVIOUS
  <2> QED BY <1>0, <2>1, <2>2, KindOf
<1>2. CASE Announce(w)
  <2>1. step[w] = "announce" /\ Only(w, "idle", NoTask) /\ Fits("idle", NoTask) /\ JobTables'
    BY <1>2, AnnounceMoves
  <2> QED BY <1>0, <2>1, KindOf
<1>3. CASE Take(w)
  <2>1. PICK j : \E s \in {"rules", "act"} : LET t == [kind |-> "job", job |-> j] IN
           step[w] = "idle" /\ Only(w, s, t) /\ Fits(s, t) /\ JobTables'
    BY <1>3, TakeMoves
  <2> DEFINE t == [kind |-> "job", job |-> j]
  <2>2. PICK s \in {"rules", "act"} : step[w] = "idle" /\ Only(w, s, t) /\ Fits(s, t) /\ JobTables'
    BY <2>1
  <2> HIDE DEF t
  <2> QED BY <1>0, <2>2, KindOf
<1>4. CASE ListRules(w)
  <2>1. PICK t : t = [kind |-> "job", job |-> task[w].job, todo |-> job'[task[w].job].listed,
                      next |-> 1, result |-> "ok"]
    OBVIOUS
  <2>2. step[w] = "rules" /\ Only(w, "enqueue", t) /\ Fits("enqueue", t) /\ JobTables'
    BY <1>4, <2>1, ListRulesMoves
  <2> QED BY <1>0, <2>2, KindOf
<1>5. CASE Enqueue(w)
  <2>1. \E e \in {task[w].result, "error"} :
           LET t == [task[w] EXCEPT !.next = task[w].next + 1, !.result = e] IN
           step[w] = "enqueue" /\ Only(w, "enqueue", t) /\ Fits("enqueue", t) /\ JobTables'
    BY <1>5, EnqueueMoves
  <2>2. PICK t : step[w] = "enqueue" /\ Only(w, "enqueue", t) /\ Fits("enqueue", t) /\ JobTables'
    BY <2>1
  <2> QED BY <1>0, <2>2, KindOf
<1>6. CASE Execute(w)
  <2>1. PICK t : step[w] = "enqueue" /\ Only(w, "enqueue", t) /\ Fits("enqueue", t) /\ JobTables'
    BY <1>6, ExecuteMoves
  <2> QED BY <1>0, <2>1, KindOf
<1>7. CASE Act(w)
  <2>1. step[w] = "act" /\ Only(w, "finish", task[w]) /\ Fits("finish", task[w]) /\ JobTables'
    BY <1>7, ActMoves
  <2> QED BY <1>0, <2>1, KindOf
<1>8. CASE Finish(w) \/ JobFails(w)
  <2>1. PICK s : Ends(w, s)
    BY <1>8, FinishMoves, JobFailsMoves
  <2> QED BY <1>0, <2>1, KindOf DEF Ends
<1> QED BY <1>1, <1>2, <1>3, <1>4, <1>5, <1>6, <1>7, <1>8 DEF JobStep, Automate

\* A step is one of a job's or a request's, one of a sweep's, or a switch.
Switches == UNCHANGED <<state, job, executions, step, task, mix, refs, log, erp, excused>>

LEMMA OutStepKinds ==
  ASSUME [OutboundNext]_outboundVars
  PROVE  \/ \E w \in Threads : JobStep(w) /\ UNCHANGED outbound
         \/ \E w \in Threads : StartSweep(w) \/ Sweep(w) \/ SweepDies(w)
         \/ Switches /\ (rules' = rules \/ \E r \in Rules : rules' = rules \ {r} \/ rules' = rules \cup {r})
<1>1. CASE SwitchRule /\ UNCHANGED outbound
  BY <1>1 DEF SwitchRule, Switches, outbound
<1>2. CASE SwitchConnection
  BY <1>2 DEF SwitchConnection, Switches, queue
<1>3. CASE Resting \/ UNCHANGED outboundVars
  BY <1>3 DEF Resting, Switches, outboundVars, outbound, queue, counts
<1> QED BY <1>1, <1>2, <1>3 DEF OutboundNext, Work, Request, JobStep

LEMMA OutTypedStep ==
  ASSUME OutTyped, Runners, [OutboundNext]_outboundVars
  PROVE  OutTyped'
<1>0. JobTables /\ ErpTables /\ Posts
  BY DEF OutTyped
<1>1. CASE \E w \in Threads : JobStep(w) /\ UNCHANGED outbound
  <2>1. PICK w \in Threads : JobStep(w) /\ UNCHANGED outbound
    BY <1>1
  <2>2. PICK s, t : s \in Steps /\ Only(w, s, t) /\ Fits(s, t) /\ JobTables'
    BY <2>1, JobStepsMove
  <2>3. Posts'
    BY <1>0, <2>2, Moved
  <2>4. ErpTables'
    BY <1>0, <2>1, ErpTablesStay DEF outbound
  <2> QED BY <2>2, <2>3, <2>4 DEF OutTyped
<1>2. CASE \E w \in Threads : StartSweep(w) \/ Sweep(w) \/ SweepDies(w)
  <2>1. PICK w \in Threads : StartSweep(w) \/ Sweep(w) \/ SweepDies(w)
    BY <1>2
  <2>2. PICK s, t : s \in Steps /\ Only(w, s, t) /\ Fits(s, t) /\ JobsRest
    BY <2>1, SweepsMove
  <2>3. Posts'
    BY <1>0, <2>2, Moved
  <2>4. JobTables'
    BY <1>0, <2>2 DEF JobTables, JobsRest
  <2>5. ErpTables'
    BY <1>0, <2>1, SweepTypes, StartSweepMoves, EndListMoves, ErpTablesStay DEF Sweep
  <2> QED BY <2>3, <2>4, <2>5 DEF OutTyped
<1>3. CASE Switches /\ (rules' = rules \/ \E r \in Rules : rules' = rules \ {r} \/ rules' = rules \cup {r})
  <2>1. rules' \subseteq Rules
    BY <1>0, <1>3 DEF JobTables
  <2> QED BY <1>0, <1>3, <2>1 DEF OutTyped, JobTables, ErpTables, Posts, Switches
<1> QED BY <1>1, <1>2, <1>3, OutStepKinds

-----------------------------------------------------------------------------
(* One thread per running job.                                             *)

LEMMA OutInitRunners == OutboundInit => Runners
<1> SUFFICES ASSUME OutboundInit PROVE Runners
  OBVIOUS
<1>1. job = <<>> /\ \A w \in Threads : task[w].kind # "job"
  BY DEF OutboundInit, AutomationInit, NoTask
<1>2. DOMAIN job = {}
  BY <1>1
<1> QED BY <1>1, <1>2 DEF Runners

\* The jobs there are keep status and kind, and what is added does not run;
\* the thread that moves stays at its job, or at none.
LEMMA RunnersStay ==
  ASSUME OutTyped, Runners, NEW w \in Threads, NEW s \in Steps, NEW t,
         Only(w, s, t), Fits(s, t),
         DOMAIN job \subseteq DOMAIN job',
         \A j \in DOMAIN job : job'[j].status = job[j].status /\ job'[j].kind = job[j].kind,
         \A j \in DOMAIN job' \ DOMAIN job : job'[j].status # "running",
         t.kind = "job" <=> task[w].kind = "job",
         t.kind = "job" => /\ t.job = task[w].job
                           /\ s \in {"rules", "enqueue"} <=> step[w] \in {"rules", "enqueue"}
  PROVE  Runners'
<1>1. /\ step'[w] = s /\ task'[w] = t
      /\ \A v \in Threads \ {w} : step'[v] = step[v] /\ task'[v] = task[v]
  BY Moved DEF OutTyped
<1>2. \A v \in Threads : /\ task'[v].kind = "job" <=> task[v].kind = "job"
                         /\ task[v].kind = "job" =>
                              /\ task'[v].job = task[v].job
                              /\ step'[v] \in {"rules", "enqueue"} <=> step[v] \in {"rules", "enqueue"}
  BY <1>1
<1>3. ASSUME NEW v \in Threads, task'[v].kind = "job" PROVE Runs(v)'
  <2>1. Runs(v)
    BY <1>2, <1>3 DEF Runners
  <2> QED BY <1>2, <1>3, <2>1 DEF Runs
<1>4. ASSUME NEW j \in DOMAIN job', job'[j].status = "running"
      PROVE  \E v \in Threads : task'[v].kind = "job" /\ task'[v].job = j
  <2>1. j \in DOMAIN job /\ job[j].status = "running"
    BY <1>4
  <2> QED BY <1>2, <2>1 DEF Runners
<1>5. \A u, v \in Threads : task'[v].kind = "job" /\ task'[u].kind = "job" /\ task'[v].job = task'[u].job => v = u
  BY <1>2 DEF Runners
<1> QED BY <1>3, <1>4, <1>5 DEF Runners

LEMMA AlikeKinds ==
  ASSUME NEW x, NEW y, Alike(x, y)
  PROVE  x \in JobRow /\ y \in JobRow /\ y.kind = x.kind /\ x.kind \in {"dispatch", "action"}
  BY DEF Alike, DispatchRow, ActionRow, JobRow

\* A rewritten row that keeps its status.
LEMMA SameStatus ==
  ASSUME OutTyped, NEW j, NEW x, RewritesJob(j, x), x.status = job[j].status
  PROVE  /\ DOMAIN job' = DOMAIN job
         /\ \A i \in DOMAIN job : job'[i].status = job[i].status /\ job'[i].kind = job[i].kind
<1>1. /\ DOMAIN job' = DOMAIN job /\ job'[j] = x
      /\ \A i \in DOMAIN job : i # j => job'[i] = job[i]
      /\ \A i \in DOMAIN job : Alike(job[i], job'[i])
  BY RewritesTypes DEF OutTyped
<1> QED BY <1>1, AlikeKinds

LEMMA AddedRow ==
  ASSUME OutTyped, NEW x \in JobRow, job' = Append(job, x)
  PROVE  /\ DOMAIN job' = DOMAIN job \cup {Len(job) + 1}
         /\ Len(job) + 1 \notin DOMAIN job
         /\ job'[Len(job) + 1] = x
         /\ \A i \in DOMAIN job : job'[i] = job[i]
         /\ \A i \in DOMAIN job : Alike(job[i], job'[i])
<1>1. job \in Seq(JobRow)
  BY DEF OutTyped, JobTables
<1>2. /\ DOMAIN job' = DOMAIN job \cup {Len(job) + 1}
      /\ Len(job) + 1 \notin DOMAIN job
      /\ job'[Len(job) + 1] = x
      /\ \A i \in DOMAIN job : job'[i] = job[i]
  BY <1>1, Extends
<1>3. \A i \in DOMAIN job : job[i] \in JobRow
  BY <1>1
<1> QED BY <1>2, <1>3 DEF Alike, JobRow

LEMMA TakeRunners ==
  ASSUME OutTyped, Runners, NEW w \in Threads, Take(w)
  PROVE  Runners'
<1>1. PICK j \in DOMAIN job :
        /\ step[w] = "idle" /\ job[j].status = "available"
        /\ RewritesJob(j, Stamped(job[j], "running", job[j].runs + 1))
        /\ \/ job[j] \in DispatchRow /\ Only(w, "rules", [kind |-> "job", job |-> j])
           \/ job[j] \in ActionRow /\ Only(w, "act", [kind |-> "job", job |-> j])
  BY TakeMoves
<1>2. job \in Seq(JobRow) /\ job[j] \in JobRow /\ Posts
  BY DEF OutTyped, JobTables
<1>3. job[j].runs + 1 \in Nat
  BY <1>2 DEF JobRow, DispatchRow, ActionRow
<1> DEFINE x == Stamped(job[j], "running", job[j].runs + 1)
<1>4. x.status = "running" /\ x.kind = job[j].kind
  <2>1. "running" \in JobStatuses
    BY DEF JobStatuses
  <2> QED BY <1>2, <1>3, <2>1, RowStarts
<1>5. /\ DOMAIN job' = DOMAIN job /\ job'[j].status = "running" /\ job'[j].kind = job[j].kind
      /\ \A i \in DOMAIN job : i # j => job'[i] = job[i]
  <2> HIDE DEF x
  <2> QED BY <1>1, <1>4, RewritesTypes DEF OutTyped, x
<1>6. PICK s \in {"rules", "act"} :
        /\ Only(w, s, [kind |-> "job", job |-> j])
        /\ job[j].kind = IF s = "rules" THEN "dispatch" ELSE "action"
  BY <1>1 DEF DispatchRow, ActionRow
<1>7. /\ step'[w] = s /\ task'[w] = [kind |-> "job", job |-> j]
      /\ \A v \in Threads \ {w} : step'[v] = step[v] /\ task'[v] = task[v]
  <2>1. s \in Steps
    BY DEF Steps
  <2> QED BY <1>2, <1>6, <2>1, Moved
<1>8. task[w].kind # "job"
  BY <1>1, <1>2, KindOf DEF Posts
<1>9. \A v \in Threads : task[v].kind = "job" => task[v].job # j
  BY <1>1 DEF Runners, Runs
<1>10. ASSUME NEW v \in Threads, task'[v].kind = "job" PROVE Runs(v)'
  <2>1. CASE v = w
    BY <1>5, <1>6, <1>7, <2>1 DEF Runs
  <2>2. CASE v # w
    <3>1. Runs(v) /\ task[v].job # j
      BY <1>7, <1>9, <1>10, <2>2 DEF Runners
    <3> QED BY <1>5, <1>7, <2>2, <3>1 DEF Runs
  <2> QED BY <2>1, <2>2
<1>11. ASSUME NEW i \in DOMAIN job', job'[i].status = "running"
       PROVE  \E v \in Threads : task'[v].kind = "job" /\ task'[v].job = i
  <2>1. CASE i = j
    BY <1>7, <2>1
  <2>2. CASE i # j
    <3>1. PICK v \in Threads : task[v].kind = "job" /\ task[v].job = i
      BY <1>5, <1>11, <2>2 DEF Runners
    <3> QED BY <1>7, <1>8, <3>1
  <2> QED BY <2>1, <2>2
<1>12. ASSUME NEW u \in Threads, NEW v \in Threads,
              task'[v].kind = "job", task'[u].kind = "job", task'[v].job = task'[u].job
       PROVE  v = u
  BY <1>7, <1>9, <1>12 DEF Runners
<1> QED BY <1>10, <1>11, <1>12 DEF Runners

LEMMA EndRunners ==
  ASSUME OutTyped, Runners, NEW w \in Threads, NEW e \in {"available", "completed"}, Ends(w, e)
  PROVE  Runners'
<1> DEFINE j == task[w].job
           x == Stamped(job[j], e, job[j].runs)
<1>1. /\ task[w].kind = "job" /\ Only(w, "idle", NoTask) /\ j \in DOMAIN job
      /\ job[j] \in JobRow /\ RewritesJob(j, x)
  BY DEF Ends
<1>2. x.status = e
  BY <1>1 DEF JobRow, DispatchRow, ActionRow, Stamped
<1>3. /\ DOMAIN job' = DOMAIN job /\ job'[j].status = e
      /\ \A i \in DOMAIN job : i # j => job'[i] = job[i]
  <2> HIDE DEF x
  <2> QED BY <1>1, <1>2, RewritesTypes DEF OutTyped
<1>4. /\ task'[w] = NoTask /\ NoTask.kind # "job"
      /\ \A v \in Threads \ {w} : step'[v] = step[v] /\ task'[v] = task[v]
  <2>1. "idle" \in Steps /\ NoTask.kind # "job"
    BY DEF Steps, NoTask
  <2> QED BY <1>1, <2>1, Moved DEF OutTyped
<1>5. \A v \in Threads \ {w} : task[v].kind = "job" => task[v].job # j
  BY <1>1 DEF Runners
<1>6. ASSUME NEW v \in Threads, task'[v].kind = "job" PROVE Runs(v)'
  <2>1. v # w /\ task[v].kind = "job" /\ task[v].job # j /\ Runs(v)
    BY <1>4, <1>5, <1>6 DEF Runners
  <2> QED BY <1>3, <1>4, <2>1 DEF Runs
<1>7. ASSUME NEW i \in DOMAIN job', job'[i].status = "running"
      PROVE  \E v \in Threads : task'[v].kind = "job" /\ task'[v].job = i
  <2>1. i # j /\ job[i].status = "running" /\ i \in DOMAIN job
    BY <1>3, <1>7
  <2>2. PICK v \in Threads : task[v].kind = "job" /\ task[v].job = i
    BY <2>1 DEF Runners
  <2> QED BY <1>4, <2>1, <2>2
<1>8. ASSUME NEW u \in Threads, NEW v \in Threads,
             task'[v].kind = "job", task'[u].kind = "job", task'[v].job = task'[u].job
      PROVE  v = u
  BY <1>4, <1>8 DEF Runners
<1> QED BY <1>6, <1>7, <1>8 DEF Runners

LEMMA OutRunnersStep ==
  ASSUME OutTyped, Runners, [OutboundNext]_outboundVars
  PROVE  Runners'
<1>0. /\ \A w \in Threads : Fits(step[w], task[w])
      /\ \A j \in DOMAIN job : job[j] \in JobRow
  BY DEF OutTyped, Posts, JobTables
<1>1. ASSUME NEW w \in Threads, ChangeStatus(w) PROVE Runners'
  <2>1. step[w] = "idle" /\ Only(w, "announce", task'[w]) /\ Fits("announce", task'[w])
    BY <1>1, ChangeStatusMoves
  <2>2. job' = job
    BY <1>1 DEF ChangeStatus, queue
  <2>3. PICK t : t = task'[w]
    OBVIOUS
  <2>4. t.kind # "job" /\ task[w].kind # "job" /\ "announce" \in Steps
    BY <1>0, <2>1, <2>3, KindOf
  <2> QED BY <2>1, <2>2, <2>3, <2>4, RunnersStay
<1>2. ASSUME NEW w \in Threads, Announce(w) PROVE Runners'
  <2>1. /\ step[w] = "announce" /\ Only(w, "idle", NoTask) /\ Fits("idle", NoTask)
        /\ \/ job' = job
           \/ \E row \in DispatchRow : job' = Append(job, row) /\ row.status = "available"
    BY <1>2, AnnounceMoves
  <2>2. NoTask.kind # "job" /\ task[w].kind # "job" /\ "idle" \in Steps
    BY <1>0, <2>1, KindOf
  <2>3. CASE job' = job
    BY <2>1, <2>2, <2>3, RunnersStay
  <2>4. CASE job' # job
    <3>1. PICK row \in DispatchRow : job' = Append(job, row) /\ row.status = "available"
      BY <2>1, <2>4
    <3>2. row \in JobRow
      BY DEF JobRow
    <3>3. /\ DOMAIN job' = DOMAIN job \cup {Len(job) + 1} /\ job'[Len(job) + 1] = row
          /\ \A i \in DOMAIN job : job'[i] = job[i]
      BY <3>1, <3>2, AddedRow
    <3> QED BY <2>1, <2>2, <3>1, <3>3, RunnersStay
  <2> QED BY <2>3, <2>4
<1>3. ASSUME NEW w \in Threads, ListRules(w) PROVE Runners'
  <2>1. PICK t : t = [kind |-> "job", job |-> task[w].job, todo |-> job'[task[w].job].listed,
                      next |-> 1, result |-> "ok"]
    OBVIOUS
  <2>2. /\ step[w] = "rules" /\ Only(w, "enqueue", t) /\ Fits("enqueue", t)
        /\ job'[task[w].job].status = job[task[w].job].status
        /\ RewritesJob(task[w].job, job'[task[w].job])
    BY <1>3, <2>1, ListRulesMoves
  <2>3. PICK x : x = job'[task[w].job]
    OBVIOUS
  <2>4. /\ DOMAIN job' = DOMAIN job
        /\ \A i \in DOMAIN job : job'[i].status = job[i].status /\ job'[i].kind = job[i].kind
    BY <2>2, <2>3, SameStatus
  <2>5. task[w].kind = "job" /\ t.kind = "job" /\ "enqueue" \in Steps /\ t.job = task[w].job
    BY <1>0, <2>1, <2>2, KindOf
  <2> QED BY <2>2, <2>4, <2>5, RunnersStay
<1>4. ASSUME NEW w \in Threads, Enqueue(w) PROVE Runners'
  <2> DEFINE row == [kind |-> "action", status |-> "available", runs |-> 0, event |-> task[w].job,
                     rule |-> Rule(w), nth |-> task[w].next, mails |-> 0]
  <2>1. PICK e : LET t == [task[w] EXCEPT !.next = task[w].next + 1, !.result = e] IN
          /\ step[w] = "enqueue" /\ Only(w, "enqueue", t) /\ Fits("enqueue", t)
          /\ row \in ActionRow
          /\ job' = job \/ job' = Append(job, row)
    BY <1>4, EnqueueMoves
  <2>2. PICK t : t = [task[w] EXCEPT !.next = task[w].next + 1, !.result = e]
    OBVIOUS
  <2>3. task[w] \in RulesTask
    BY <1>0, <2>1 DEF Fits
  <2>4. t.kind = "job" /\ task[w].kind = "job" /\ t.job = task[w].job /\ "enqueue" \in Steps
    BY <2>2, <2>3 DEF RulesTask, Steps
  <2>5. row.status # "running" /\ row \in ActionRow
    BY <1>4, EnqueueMoves
  <2> HIDE DEF row
  <2>6. CASE job' = job
    BY <2>1, <2>2, <2>4, <2>6, RunnersStay
  <2>7. CASE job' = Append(job, row)
    <3>1. row \in JobRow
      BY <2>5 DEF JobRow
    <3>2. /\ DOMAIN job' = DOMAIN job \cup {Len(job) + 1} /\ job'[Len(job) + 1] = row
          /\ \A i \in DOMAIN job : job'[i] = job[i]
      BY <2>7, <3>1, AddedRow
    <3> QED BY <2>1, <2>2, <2>4, <2>5, <3>2, RunnersStay
  <2> QED BY <1>4, <2>6, <2>7, EnqueueMoves DEF row
<1>5. ASSUME NEW w \in Threads, Execute(w) PROVE Runners'
  <2> DEFINE j == task[w].job
             x == [job[j] EXCEPT !.silent = @ \cup {Rule(w)}]
  <2>1. PICK t : t = [task[w] EXCEPT !.todo = @ \ {Rule(w)}, !.next = 1, !.result = "ok"]
    OBVIOUS
  <2>2. /\ step[w] = "enqueue" /\ Only(w, "enqueue", t) /\ Fits("enqueue", t)
        /\ job[j] \in DispatchRow
        /\ job' = job \/ RewritesJob(j, x)
    BY <1>5, <2>1, ExecuteMoves
  <2>3. task[w] \in RulesTask
    BY <1>0, <2>2 DEF Fits
  <2>4. t.kind = "job" /\ task[w].kind = "job" /\ t.job = task[w].job /\ "enqueue" \in Steps
    BY <2>1, <2>3 DEF RulesTask, Steps
  <2>5. job[j] \in DispatchRow
    BY <1>5, ExecuteMoves
  <2>6. x.status = job[j].status
    BY <2>5 DEF DispatchRow
  <2> HIDE DEF x
  <2>7. /\ DOMAIN job' = DOMAIN job
        /\ \A i \in DOMAIN job : job'[i].status = job[i].status /\ job'[i].kind = job[i].kind
    BY <1>5, <2>2, <2>6, SameStatus
  <2> QED BY <2>2, <2>4, <2>7, RunnersStay
<1>6. ASSUME NEW w \in Threads, Act(w) PROVE Runners'
  <2> DEFINE j == task[w].job
             x == [job[j] EXCEPT !.mails = @ + 1]
  <2>1. /\ step[w] = "act" /\ Only(w, "finish", task[w]) /\ Fits("finish", task[w])
        /\ job[j] \in ActionRow
        /\ RewritesJob(j, x) \/ job' = job
    BY <1>6, ActMoves
  <2>2. x.status = job[j].status
    BY <2>1 DEF ActionRow
  <2> HIDE DEF x
  <2>3. /\ DOMAIN job' = DOMAIN job
        /\ \A i \in DOMAIN job : job'[i].status = job[i].status /\ job'[i].kind = job[i].kind
    BY <2>1, <2>2, SameStatus
  <2>4. "finish" \in Steps
    BY DEF Steps
  <2> QED BY <2>1, <2>3, <2>4, RunnersStay
<1>7. ASSUME NEW w \in Threads, Take(w) PROVE Runners'
  BY <1>7, TakeRunners
<1>8. ASSUME NEW w \in Threads, Finish(w) \/ JobFails(w) PROVE Runners'
  BY <1>8, FinishMoves, JobFailsMoves, EndRunners
<1>9. ASSUME NEW w \in Threads, StartSweep(w) \/ Sweep(w) \/ SweepDies(w) PROVE Runners'
  <2>1. PICK s, t : /\ s \in Steps /\ Only(w, s, t) /\ Fits(s, t) /\ JobsRest
                    /\ task[w].kind # "job" /\ t.kind # "job"
    BY <1>9, SweepsMove
  <2> QED BY <2>1, RunnersStay DEF JobsRest
<1>10. CASE Switches
  BY <1>10 DEF Switches, Runners, Runs
<1> QED BY <1>1, <1>2, <1>3, <1>4, <1>5, <1>6, <1>7, <1>8, <1>9, <1>10, OutStepKinds DEF JobStep, Automate

-----------------------------------------------------------------------------
(* What actions there are of a job.                                        *)

\* Every action is one of a rule of a dispatch there is, and so is every row
\* of the execution log.
Rooted ==
  /\ \A a \in DOMAIN job : job[a] \in ActionRow =>
       job[a].event \in Dispatches /\ job[a].nth \in 1..ActionsOf[job[a].rule]
  /\ \A i \in DOMAIN executions : executions[i].event \in Dispatches

Taken(j, r, k) == {a \in ActionJobs(j, r) : job[a].nth = k}
Times(j, r, k) == Cardinality(Taken(j, r, k))

SameViews ==
  /\ Dispatches' = Dispatches
  /\ \A j, r : ActionJobs(j, r)' = ActionJobs(j, r)
  /\ \A j, r, k : Taken(j, r, k)' = Taken(j, r, k)
  /\ \A j, r, k : Times(j, r, k)' = Times(j, r, k)

LEMMA RowKinds ==
  ASSUME OutTyped
  PROVE  /\ Dispatches \subseteq DOMAIN job
         /\ \A a \in DOMAIN job : /\ job[a] \in JobRow
                                  /\ a \in Dispatches <=> job[a] \in DispatchRow
                                  /\ job[a].kind = "action" <=> job[a] \in ActionRow
                                  /\ job[a] \in ActionRow <=> a \notin Dispatches
<1>1. \A a \in DOMAIN job : job[a] \in JobRow
  BY DEF OutTyped, JobTables
<1> QED BY <1>1 DEF Dispatches, JobRow, DispatchRow, ActionRow

LEMMA TakenFinite ==
  ASSUME OutTyped
  PROVE  \A j, r, k : IsFiniteSet(Taken(j, r, k)) /\ Times(j, r, k) \in Nat
<1> TAKE j, r, k
<1>1. Len(job) \in Nat /\ DOMAIN job = 1..Len(job)
  BY DEF OutTyped, JobTables
<1>2. Taken(j, r, k) \subseteq 1..Len(job)
  BY <1>1 DEF Taken, ActionJobs
<1>3. IsFiniteSet(1..Len(job))
  BY <1>1, FS_Interval
<1> QED BY <1>2, <1>3, FS_Subset, FS_CardinalityType DEF Times

LEMMA AlikeViews ==
  ASSUME OutTyped, DOMAIN job' = DOMAIN job, \A i \in DOMAIN job : Alike(job[i], job'[i])
  PROVE  SameViews
<1>1. \A i \in DOMAIN job : job'[i].kind = job[i].kind /\ job[i].kind \in {"dispatch", "action"}
  BY AlikeKinds
<1>2. \A i \in DOMAIN job : job[i].kind = "action" =>
        job'[i].event = job[i].event /\ job'[i].rule = job[i].rule /\ job'[i].nth = job[i].nth
  BY DEF Alike, DispatchRow, ActionRow
<1>3. Dispatches' = Dispatches
  BY <1>1 DEF Dispatches
<1>4. \A j, r : ActionJobs(j, r)' = ActionJobs(j, r)
  BY <1>1, <1>2 DEF ActionJobs
<1>5. \A j, r, k : Taken(j, r, k)' = Taken(j, r, k)
  <2> TAKE j, r, k
  <2>1. \A a \in ActionJobs(j, r) : job'[a].nth = job[a].nth
    BY <1>2 DEF ActionJobs
  <2> QED BY <1>4, <2>1 DEF Taken
<1>6. \A j, r, k : Times(j, r, k)' = Times(j, r, k)
  BY <1>5 DEF Times
<1> QED BY <1>3, <1>4, <1>5, <1>6 DEF SameViews

LEMMA DispatchViews ==
  ASSUME OutTyped, Rooted, NEW x \in DispatchRow, job' = Append(job, x)
  PROVE  /\ Dispatches' = Dispatches \cup {Len(job) + 1}
         /\ \A j, r : ActionJobs(j, r)' = ActionJobs(j, r)
         /\ \A j, r, k : Taken(j, r, k)' = Taken(j, r, k)
         /\ \A r, k : Taken(Len(job) + 1, r, k) = {}
<1> DEFINE n == Len(job) + 1
<1>1. /\ DOMAIN job' = DOMAIN job \cup {n} /\ n \notin DOMAIN job /\ job'[n] = x
      /\ \A i \in DOMAIN job : job'[i] = job[i]
  BY AddedRow DEF JobRow
<1>2. x.kind = "dispatch"
  BY DEF DispatchRow
<1> HIDE DEF n
<1>3. Dispatches' = Dispatches \cup {n}
  BY <1>1, <1>2 DEF Dispatches
<1>4. \A j, r : ActionJobs(j, r)' = ActionJobs(j, r)
  BY <1>1, <1>2 DEF ActionJobs
<1>5. \A j, r, k : Taken(j, r, k)' = Taken(j, r, k)
  <2> TAKE j, r, k
  <2>1. \A a \in ActionJobs(j, r) : job'[a].nth = job[a].nth
    BY <1>1 DEF ActionJobs
  <2> QED BY <1>4, <2>1 DEF Taken
<1>6. \A r, k : Taken(n, r, k) = {}
  <2>1. \A a \in DOMAIN job : job[a].kind = "action" => job[a].event # n
    BY <1>1, RowKinds DEF Rooted
  <2> QED BY <2>1 DEF Taken, ActionJobs
<1> QED BY <1>3, <1>4, <1>5, <1>6 DEF n

LEMMA ActionViews ==
  ASSUME OutTyped, NEW x \in ActionRow, job' = Append(job, x)
  PROVE  /\ Dispatches' = Dispatches
         /\ \A j, r : ActionJobs(j, r) \subseteq ActionJobs(j, r)'
         /\ \A j, r, k : x.event # j \/ x.rule # r \/ x.nth # k => Taken(j, r, k)' = Taken(j, r, k)
         /\ Taken(x.event, x.rule, x.nth)' = Taken(x.event, x.rule, x.nth) \cup {Len(job) + 1}
         /\ Len(job) + 1 \notin Taken(x.event, x.rule, x.nth)
<1> DEFINE n == Len(job) + 1
<1>1. /\ DOMAIN job' = DOMAIN job \cup {n} /\ n \notin DOMAIN job /\ job'[n] = x
      /\ \A i \in DOMAIN job : job'[i] = job[i]
  BY AddedRow DEF JobRow
<1>2. x.kind = "action"
  BY DEF ActionRow
<1> HIDE DEF n
<1>3. Dispatches' = Dispatches
  BY <1>1, <1>2 DEF Dispatches
<1>4. \A j, r : ActionJobs(j, r) \subseteq ActionJobs(j, r)'
  BY <1>1 DEF ActionJobs
<1>5. \A j, r, k, a : a \in Taken(j, r, k) <=>
        a \in DOMAIN job /\ job[a].kind = "action" /\ job[a].event = j /\ job[a].rule = r /\ job[a].nth = k
  BY DEF Taken, ActionJobs
<1>6. \A j, r, k, a : a \in Taken(j, r, k)' <=>
        a \in DOMAIN job' /\ job'[a].kind = "action" /\ job'[a].event = j /\ job'[a].rule = r /\ job'[a].nth = k
  BY DEF Taken, ActionJobs
<1>7. \A j, r, k, a : a \in Taken(j, r, k)' <=>
        a \in Taken(j, r, k) \/ (a = n /\ x.event = j /\ x.rule = r /\ x.nth = k)
  BY <1>1, <1>2, <1>5, <1>6
<1>8. ASSUME NEW j, NEW r, NEW k, x.event # j \/ x.rule # r \/ x.nth # k
      PROVE  Taken(j, r, k)' = Taken(j, r, k)
  <2>1. \A a : a \in Taken(j, r, k)' <=> a \in Taken(j, r, k)
    BY <1>7, <1>8
  <2> QED BY <2>1
<1>9. Taken(x.event, x.rule, x.nth)' = Taken(x.event, x.rule, x.nth) \cup {n}
  <2>1. \A a : a \in Taken(x.event, x.rule, x.nth)' <=> a \in Taken(x.event, x.rule, x.nth) \/ a = n
    BY <1>7
  <2> QED BY <2>1
<1>10. n \notin Taken(x.event, x.rule, x.nth)
  BY <1>1, <1>5
<1> QED BY <1>3, <1>4, <1>8, <1>9, <1>10 DEF n

LEMMA RootedStays ==
  ASSUME OutTyped, Rooted, DOMAIN job' = DOMAIN job,
         \A i \in DOMAIN job : Alike(job[i], job'[i]),
         \/ executions' = executions
         \/ \E row \in ExecutionRow : executions' = Append(executions, row) /\ row.event \in Dispatches
  PROVE  Rooted'
<1>1. Dispatches' = Dispatches
  BY AlikeViews DEF SameViews
<1>2. ASSUME NEW a \in DOMAIN job', job'[a] \in ActionRow
      PROVE  job'[a].event \in Dispatches' /\ job'[a].nth \in 1..ActionsOf[job'[a].rule]
  <2>1. job[a] \in ActionRow /\ Alike(job[a], job'[a])
    BY <1>2 DEF Alike, DispatchRow, ActionRow
  <2>2. job'[a].event = job[a].event /\ job'[a].rule = job[a].rule /\ job'[a].nth = job[a].nth
    BY <2>1 DEF Alike, DispatchRow, ActionRow
  <2> QED BY <1>1, <2>1, <2>2 DEF Rooted
<1>3. \A i \in DOMAIN executions' : executions'[i].event \in Dispatches'
  <2>1. CASE executions' = executions
    BY <1>1, <2>1 DEF Rooted
  <2>2. CASE \E row \in ExecutionRow : executions' = Append(executions, row) /\ row.event \in Dispatches
    <3>1. PICK row \in ExecutionRow : executions' = Append(executions, row) /\ row.event \in Dispatches
      BY <2>2
    <3>2. executions \in Seq(ExecutionRow)
      BY DEF OutTyped, JobTables
    <3>3. /\ DOMAIN executions' = DOMAIN executions \cup {Len(executions) + 1}
          /\ executions'[Len(executions) + 1] = row
          /\ \A i \in DOMAIN executions : executions'[i] = executions[i]
      BY <3>1, <3>2, Extends
    <3> QED BY <1>1, <3>1, <3>3 DEF Rooted
  <2> QED BY <2>1, <2>2
<1> QED BY <1>2, <1>3 DEF Rooted

LEMMA SelfAlike ==
  ASSUME OutTyped
  PROVE  \A i \in DOMAIN job : Alike(job[i], job[i])
  BY RowKinds DEF Alike, JobRow

LEMMA RootedStep ==
  ASSUME OutTyped, Runners, Rooted, [OutboundNext]_outboundVars
  PROVE  Rooted'
<1>1. ASSUME job' = job, executions' = executions PROVE Rooted'
  BY <1>1, SelfAlike, RootedStays
<1>2. ASSUME NEW j, NEW x, RewritesJob(j, x), executions' = executions PROVE Rooted'
  <2>1. DOMAIN job' = DOMAIN job /\ \A i \in DOMAIN job : Alike(job[i], job'[i])
    BY <1>2, RewritesTypes DEF OutTyped
  <2> QED BY <1>2, <2>1, RootedStays
<1>3. ASSUME NEW w \in Threads, Announce(w) PROVE Rooted'
  <2>1. CASE job' = job
    BY <1>1, <1>3, <2>1, AnnounceMoves
  <2>2. CASE job' # job
    <3>1. PICK row \in DispatchRow : job' = Append(job, row) /\ executions' = executions
      BY <1>3, <2>2, AnnounceMoves
    <3>2. Dispatches' = Dispatches \cup {Len(job) + 1}
      BY <3>1, DispatchViews
    <3>3. /\ DOMAIN job' = DOMAIN job \cup {Len(job) + 1} /\ job'[Len(job) + 1] = row
          /\ \A i \in DOMAIN job : job'[i] = job[i]
      BY <3>1, AddedRow DEF JobRow
    <3>4. row \notin ActionRow
      BY DEF DispatchRow, ActionRow
    <3> QED BY <3>1, <3>2, <3>3, <3>4 DEF Rooted
  <2> QED BY <2>1, <2>2
<1>4. ASSUME NEW w \in Threads, Enqueue(w) PROVE Rooted'
  <2> DEFINE row == [kind |-> "action", status |-> "available", runs |-> 0, event |-> task[w].job,
                     rule |-> Rule(w), nth |-> task[w].next, mails |-> 0]
  <2>1. /\ row \in ActionRow /\ executions' = executions
        /\ job' = job \/ job' = Append(job, row)
        /\ task[w].next \in 1..ActionsOf[Rule(w)]
        /\ task[w].job \in DOMAIN job /\ job[task[w].job] \in DispatchRow
    BY <1>4, EnqueueMoves
  <2>2. row.event \in Dispatches /\ row.nth \in 1..ActionsOf[row.rule]
    BY <2>1, RowKinds
  <2> HIDE DEF row
  <2>3. CASE job' = job
    BY <1>1, <2>1, <2>3
  <2>4. CASE job' = Append(job, row)
    <3>1. Dispatches' = Dispatches
      BY <2>1, <2>4, ActionViews
    <3>2. /\ DOMAIN job' = DOMAIN job \cup {Len(job) + 1} /\ job'[Len(job) + 1] = row
          /\ \A i \in DOMAIN job : job'[i] = job[i]
      BY <2>1, <2>4, AddedRow DEF JobRow
    <3> QED BY <2>1, <2>2, <3>1, <3>2 DEF Rooted
  <2> QED BY <2>1, <2>3, <2>4
<1>5. ASSUME NEW w \in Threads, Execute(w) PROVE Rooted'
  <2> DEFINE x == [job[task[w].job] EXCEPT !.silent = @ \cup {Rule(w)}]
             row == [event |-> task[w].job, rule |-> Rule(w), status |-> task[w].result]
  <2>1. /\ row \in ExecutionRow
        /\ \/ executions' = Append(executions, row) /\ job' = job
           \/ executions' = executions /\ RewritesJob(task[w].job, x)
        /\ task[w].job \in DOMAIN job /\ job[task[w].job] \in DispatchRow
    BY <1>5, ExecuteMoves
  <2>2. row.event \in Dispatches
    BY <2>1, RowKinds
  <2> HIDE DEF x, row
  <2>3. CASE executions' = Append(executions, row) /\ job' = job
    BY <2>1, <2>2, <2>3, SelfAlike, RootedStays
  <2>4. CASE executions' = executions /\ RewritesJob(task[w].job, x)
    BY <1>2, <2>4
  <2> QED BY <2>1, <2>3, <2>4
<1>6. ASSUME NEW w \in Threads, Act(w) PROVE Rooted'
  <2> DEFINE x == [job[task[w].job] EXCEPT !.mails = @ + 1]
  <2>1. executions' = executions /\ (RewritesJob(task[w].job, x) \/ job' = job)
    BY <1>6, ActMoves
  <2> HIDE DEF x
  <2> QED BY <1>1, <1>2, <2>1
<1>7. ASSUME NEW w \in Threads, Finish(w) \/ JobFails(w) PROVE Rooted'
  <2>1. PICK s : Ends(w, s)
    BY <1>7, FinishMoves, JobFailsMoves
  <2>2. PICK x : RewritesJob(task[w].job, x) /\ executions' = executions
    BY <2>1 DEF Ends
  <2> QED BY <1>2, <2>2
<1>8. ASSUME NEW w \in Threads, Take(w) PROVE Rooted'
  <2>1. PICK j, x : RewritesJob(j, x)
    BY <1>8, TakeMoves
  <2>2. executions' = executions
    BY <1>8 DEF Take
  <2> QED BY <1>2, <2>1, <2>2
<1>9. ASSUME NEW w \in Threads, ListRules(w) PROVE Rooted'
  <2>1. PICK x : RewritesJob(task[w].job, x) /\ executions' = executions
    BY <1>9, ListRulesMoves
  <2> QED BY <1>2, <2>1
<1>10. ASSUME NEW w \in Threads, ChangeStatus(w) PROVE Rooted'
  BY <1>1, <1>10 DEF ChangeStatus, queue
<1>11. ASSUME NEW w \in Threads, StartSweep(w) \/ Sweep(w) \/ SweepDies(w) PROVE Rooted'
  BY <1>1, <1>11, SweepsMove DEF JobsRest
<1>12. CASE Switches
  BY <1>1, <1>12 DEF Switches
<1> QED BY <1>3, <1>4, <1>5, <1>6, <1>7, <1>8, <1>9, <1>10, <1>11, <1>12, OutStepKinds DEF JobStep, Automate

-----------------------------------------------------------------------------
(* An action is taken at most once per run of its event's job.             *)

Least(t) == CHOOSE r \in t.todo : \A s \in t.todo : r <= s

\* What this run of the job has yet to enqueue.
OpenAt(s, t, r, k) ==
  s = "rules" \/ (s = "enqueue" /\ r \in t.todo /\ (r = Least(t) => k >= t.next))

Counted ==
  /\ \A j \in Dispatches, r \in Rules : \A k \in 1..ActionsOf[r] : Times(j, r, k) <= job[j].runs
  /\ \A w \in Threads, r \in Rules : \A k \in 1..ActionsOf[r] : \A j :
       OpenAt(step[w], task[w], r, k) /\ task[w].job = j => Times(j, r, k) < job[j].runs
  /\ \A a \in DOMAIN job : job[a] \in ActionRow => job[a].mails <= job[a].runs
  /\ \A w \in Threads : step[w] = "act" => job[task[w].job].mails < job[task[w].job].runs

LEMMA RunsNat ==
  ASSUME OutTyped
  PROVE  \A a \in DOMAIN job : /\ job[a].runs \in Nat
                               /\ job[a] \in ActionRow => job[a].mails \in Nat
  BY RowKinds DEF JobRow, DispatchRow, ActionRow

LEMMA OutInitCounted == OutboundInit => Rooted /\ Counted
<1> SUFFICES ASSUME OutboundInit PROVE Rooted /\ Counted
  OBVIOUS
<1>1. DOMAIN job = {} /\ DOMAIN executions = {} /\ \A w \in Threads : step[w] = "idle"
  BY DEF OutboundInit, AutomationInit
<1> QED BY <1>1 DEF Rooted, Counted, OpenAt, Dispatches

\* A thread that moves leaves the other threads' jobs alone, opens nothing
\* that was counted in full, and loses no run.
LEMMA CountedStays ==
  ASSUME OutTyped, OutTyped', Runners, Rooted, Counted, NEW w \in Threads, NEW s \in Steps, NEW t,
         Only(w, s, t), Fits(s, t),
         DOMAIN job' = DOMAIN job, \A i \in DOMAIN job : Alike(job[i], job'[i]),
         \A i \in DOMAIN job : job'[i].runs >= job[i].runs,
         \A v \in Threads \ {w} : task[v].kind = "job" => job'[task[v].job] = job[task[v].job],
         \A r \in Rules : \A k \in 1..ActionsOf[r] : OpenAt(s, t, r, k) =>
           Times(t.job, r, k) < job'[t.job].runs,
         \A i \in DOMAIN job : job[i] \in ActionRow => job'[i].mails <= job'[i].runs,
         s = "act" => job'[t.job].mails < job'[t.job].runs
  PROVE  Counted'
<1>0. /\ SameViews /\ Posts
      /\ \A v \in Threads : Fits(step[v], task[v])
  BY AlikeViews DEF OutTyped, Posts
<1>1. /\ step'[w] = s /\ task'[w] = t
      /\ \A v \in Threads \ {w} : step'[v] = step[v] /\ task'[v] = task[v]
  BY <1>0, Moved
<1>2. /\ Dispatches' = Dispatches /\ Dispatches \subseteq DOMAIN job
      /\ \A j, r, k : Times(j, r, k)' = Times(j, r, k) /\ Times(j, r, k) \in Nat
  BY <1>0, RowKinds, TakenFinite DEF SameViews
<1>3. \A i \in DOMAIN job : job[i].runs \in Nat /\ job'[i].runs \in Nat
  <2>1. \A i \in DOMAIN job' : job'[i] \in JobRow
    BY DEF OutTyped, JobTables
  <2>2. \A i \in DOMAIN job' : job'[i].runs \in Nat
    BY <2>1 DEF JobRow, DispatchRow, ActionRow
  <2> QED BY <2>2, RunsNat
<1>4. ASSUME NEW j \in Dispatches', NEW r \in Rules, NEW k \in 1..ActionsOf[r]
      PROVE  Times(j, r, k)' <= job'[j].runs
  <2>1. Times(j, r, k) <= job[j].runs /\ job'[j].runs >= job[j].runs /\ j \in DOMAIN job
    BY <1>2 DEF Counted
  <2>2. Times(j, r, k)' = Times(j, r, k) /\ Times(j, r, k) \in Nat
    BY <1>2
  <2> QED BY <1>3, <2>1, <2>2
<1>5. ASSUME NEW v \in Threads, NEW r \in Rules, NEW k \in 1..ActionsOf[r],
             NEW j, OpenAt(step'[v], task'[v], r, k), task'[v].job = j
      PROVE  Times(j, r, k)' < job'[j].runs
  <2>1. CASE v = w
    BY <1>1, <1>2, <1>5, <2>1
  <2>2. CASE v # w
    <3>1. OpenAt(step[v], task[v], r, k) /\ task'[v] = task[v]
      BY <1>1, <1>5, <2>2
    <3>2. task[v].kind = "job"
      BY <1>0, <3>1, KindOf DEF OpenAt
    <3>3. job'[j] = job[j] /\ task[v].job = j
      BY <1>5, <2>2, <3>1, <3>2
    <3>4. Times(j, r, k) < job[j].runs
      BY <3>1, <3>3 DEF Counted
    <3> QED BY <1>2, <3>3, <3>4
  <2> QED BY <2>1, <2>2
<1>6. \A a \in DOMAIN job' : job'[a] \in ActionRow => job'[a].mails <= job'[a].runs
  <2>1. \A a \in DOMAIN job : job'[a] \in ActionRow => job[a] \in ActionRow
    BY DEF Alike, DispatchRow, ActionRow
  <2> QED BY <2>1
<1>7. ASSUME NEW v \in Threads, step'[v] = "act"
      PROVE  job'[task'[v].job].mails < job'[task'[v].job].runs
  <2>1. CASE v = w
    BY <1>1, <1>7, <2>1
  <2>2. CASE v # w
    <3>1. step[v] = "act" /\ task'[v] = task[v] /\ task[v].kind = "job"
      BY <1>0, <1>1, <1>7, <2>2, KindOf
    <3>2. job'[task[v].job] = job[task[v].job]
      BY <2>2, <3>1
    <3> QED BY <3>1, <3>2 DEF Counted
  <2> QED BY <2>1, <2>2
<1> QED BY <1>4, <1>5, <1>6, <1>7 DEF Counted

\* Of a rewritten row no other thread at work is at it.
LEMMA OwnRow ==
  ASSUME OutTyped, Runners, NEW w \in Threads, NEW j, NEW x, RewritesJob(j, x),
         (task[w].kind = "job" /\ task[w].job = j) \/ job[j].status # "running"
  PROVE  /\ DOMAIN job' = DOMAIN job /\ job'[j] = x
         /\ \A i \in DOMAIN job : i # j => job'[i] = job[i]
         /\ \A i \in DOMAIN job : Alike(job[i], job'[i])
         /\ \A v \in Threads \ {w} : task[v].kind = "job" => job'[task[v].job] = job[task[v].job]
<1>1. /\ DOMAIN job' = DOMAIN job /\ job'[j] = x
      /\ \A i \in DOMAIN job : i # j => job'[i] = job[i]
      /\ \A i \in DOMAIN job : Alike(job[i], job'[i])
  BY RewritesTypes DEF OutTyped
<1>2. ASSUME NEW v \in Threads \ {w}, task[v].kind = "job"
      PROVE  job'[task[v].job] = job[task[v].job]
  <2>1. task[v].job # j /\ task[v].job \in DOMAIN job
    BY <1>2 DEF Runners, Runs
  <2> QED BY <1>1, <2>1
<1> QED BY <1>1, <1>2

LEMMA CountedSameJobs ==
  ASSUME OutTyped, OutTyped', Runners, Rooted, Counted, NEW w \in Threads, NEW s \in Steps, NEW t,
         Only(w, s, t), Fits(s, t), job' = job,
         \A r \in Rules : \A k \in 1..ActionsOf[r] : OpenAt(s, t, r, k) =>
           Times(t.job, r, k) < job[t.job].runs,
         s # "act"
  PROVE  Counted'
<1>1. /\ \A i \in DOMAIN job : Alike(job[i], job'[i])
      /\ \A i \in DOMAIN job : job'[i].runs >= job[i].runs
      /\ \A i \in DOMAIN job : job[i] \in ActionRow => job'[i].mails <= job'[i].runs
  BY SelfAlike, RunsNat DEF Counted
<1> QED BY <1>1, CountedStays

LEMMA TakeCounted ==
  ASSUME OutTyped, OutTyped', Runners, Rooted, Counted, NEW w \in Threads, Take(w)
  PROVE  Counted'
<1>1. PICK j \in DOMAIN job :
        /\ step[w] = "idle" /\ job[j].status = "available"
        /\ RewritesJob(j, Stamped(job[j], "running", job[j].runs + 1))
        /\ \/ job[j] \in DispatchRow /\ Only(w, "rules", [kind |-> "job", job |-> j])
           \/ job[j] \in ActionRow /\ Only(w, "act", [kind |-> "job", job |-> j])
        /\ Fits("rules", [kind |-> "job", job |-> j])
        /\ Fits("act", [kind |-> "job", job |-> j])
  BY TakeMoves
<1> DEFINE x == Stamped(job[j], "running", job[j].runs + 1)
<1>2. job[j].runs + 1 \in Nat /\ job[j] \in JobRow /\ job[j].runs \in Nat
  BY RunsNat, RowKinds
<1>3. x.runs = job[j].runs + 1 /\ (job[j] \in ActionRow => x.mails = job[j].mails)
  <2>1. "running" \in JobStatuses
    BY DEF JobStatuses
  <2> QED BY <1>2, <2>1, RowStarts
<1>4. /\ DOMAIN job' = DOMAIN job /\ job'[j] = x
      /\ \A i \in DOMAIN job : i # j => job'[i] = job[i]
      /\ \A i \in DOMAIN job : Alike(job[i], job'[i])
      /\ \A v \in Threads \ {w} : task[v].kind = "job" => job'[task[v].job] = job[task[v].job]
  <2> HIDE DEF x
  <2>1. RewritesJob(j, x) /\ job[j].status # "running"
    BY <1>1 DEF x
  <2> QED BY <2>1, OwnRow
<1> HIDE DEF x
<1>5. \A i \in DOMAIN job : job'[i].runs >= job[i].runs
  BY <1>2, <1>3, <1>4, RunsNat
<1>6. \A i \in DOMAIN job : job[i] \in ActionRow => job'[i].mails <= job'[i].runs
  <2> TAKE i \in DOMAIN job
  <2> HAVE job[i] \in ActionRow
  <2>1. job[i].mails <= job[i].runs /\ job[i].mails \in Nat /\ job[i].runs \in Nat
    BY RunsNat DEF Counted
  <2> QED BY <1>3, <1>4, <2>1
<1>7. CASE job[j] \in DispatchRow /\ Only(w, "rules", [kind |-> "job", job |-> j])
  <2>1. PICK t : t = [kind |-> "job", job |-> j]
    OBVIOUS
  <2>2. \A r \in Rules : \A k \in 1..ActionsOf[r] : Times(j, r, k) < job'[j].runs
    <3> TAKE r \in Rules
    <3> TAKE k \in 1..ActionsOf[r]
    <3>1. Times(j, r, k) <= job[j].runs /\ Times(j, r, k) \in Nat
      BY <1>7, RowKinds, TakenFinite DEF Counted
    <3> QED BY <1>2, <1>3, <1>4, <3>1
  <2>3. t.job = j /\ Only(w, "rules", t) /\ Fits("rules", t) /\ "rules" \in Steps
    BY <1>1, <1>7, <2>1 DEF Steps
  <2> QED BY <1>4, <1>5, <1>6, <2>2, <2>3, CountedStays
<1>8. CASE job[j] \in ActionRow /\ Only(w, "act", [kind |-> "job", job |-> j])
  <2>1. PICK t : t = [kind |-> "job", job |-> j]
    OBVIOUS
  <2>2. job'[j].mails < job'[j].runs
    <3>1. job[j].mails <= job[j].runs /\ job[j].mails \in Nat
      BY <1>8, RunsNat DEF Counted
    <3> QED BY <1>2, <1>3, <1>4, <1>8, <3>1
  <2>3. t.job = j /\ Only(w, "act", t) /\ Fits("act", t) /\ "act" \in Steps
    BY <1>1, <1>8, <2>1 DEF Steps
  <2>4. \A r, k : ~OpenAt("act", t, r, k)
    BY DEF OpenAt
  <2> QED BY <1>4, <1>5, <1>6, <2>2, <2>3, <2>4, CountedStays
<1> QED BY <1>1, <1>7, <1>8

LEMMA ListRulesCounted ==
  ASSUME OutTyped, OutTyped', Runners, Rooted, Counted, NEW w \in Threads, ListRules(w)
  PROVE  Counted'
<1>1. PICK t : t = [kind |-> "job", job |-> task[w].job, todo |-> job'[task[w].job].listed,
                    next |-> 1, result |-> "ok"]
  OBVIOUS
<1>2. PICK j, x : j = task[w].job /\ x = job'[task[w].job]
  OBVIOUS
<1>3. /\ step[w] = "rules" /\ Only(w, "enqueue", t) /\ Fits("enqueue", t)
      /\ x.runs = job[j].runs /\ RewritesJob(j, x) /\ job[j] \in DispatchRow
  BY <1>1, <1>2, ListRulesMoves
<1>4. task[w].kind = "job" /\ "enqueue" \in Steps /\ t.job = j
  BY <1>1, <1>2, <1>3, KindOf DEF OutTyped, Posts
<1>5. /\ DOMAIN job' = DOMAIN job /\ job'[j] = x
      /\ \A i \in DOMAIN job : i # j => job'[i] = job[i]
      /\ \A i \in DOMAIN job : Alike(job[i], job'[i])
      /\ \A v \in Threads \ {w} : task[v].kind = "job" => job'[task[v].job] = job[task[v].job]
  BY <1>2, <1>3, <1>4, OwnRow
<1>6. \A i \in DOMAIN job : job'[i].runs >= job[i].runs
  BY <1>3, <1>5, RunsNat
<1>7. \A i \in DOMAIN job : job[i] \in ActionRow => job'[i].mails <= job'[i].runs
  BY <1>3, <1>5 DEF Counted, DispatchRow, ActionRow
<1>8. \A r \in Rules : \A k \in 1..ActionsOf[r] : Times(j, r, k) < job'[j].runs
  BY <1>2, <1>3, <1>5 DEF Counted, OpenAt
<1> QED BY <1>3, <1>4, <1>5, <1>6, <1>7, <1>8, CountedStays

LEMMA EndCounted ==
  ASSUME OutTyped, OutTyped', Runners, Rooted, Counted, NEW w \in Threads,
         NEW e \in {"available", "completed"}, Ends(w, e)
  PROVE  Counted'
<1>1. PICK j, x : j = task[w].job /\ x = Stamped(job[j], e, job[j].runs)
  OBVIOUS
<1>2. /\ task[w].kind = "job" /\ Only(w, "idle", NoTask) /\ Fits("idle", NoTask)
      /\ j \in DOMAIN job /\ job[j] \in JobRow /\ RewritesJob(j, x)
  BY <1>1 DEF Ends
<1>3. x.runs = job[j].runs /\ (job[j] \in ActionRow => x.mails = job[j].mails)
  <2>1. e \in JobStatuses /\ job[j].runs \in Nat
    BY <1>2, RunsNat DEF JobStatuses
  <2> QED BY <1>1, <1>2, <2>1, RowStarts
<1>4. /\ DOMAIN job' = DOMAIN job /\ job'[j] = x
      /\ \A i \in DOMAIN job : i # j => job'[i] = job[i]
      /\ \A i \in DOMAIN job : Alike(job[i], job'[i])
      /\ \A v \in Threads \ {w} : task[v].kind = "job" => job'[task[v].job] = job[task[v].job]
  BY <1>1, <1>2, OwnRow
<1>5. \A i \in DOMAIN job : job'[i].runs >= job[i].runs
  BY <1>2, <1>3, <1>4, RunsNat
<1>6. \A i \in DOMAIN job : job[i] \in ActionRow => job'[i].mails <= job'[i].runs
  BY <1>3, <1>4 DEF Counted
<1>7. "idle" \in Steps /\ \A r, k : ~OpenAt("idle", NoTask, r, k)
  BY DEF Steps, OpenAt
<1> QED BY <1>2, <1>4, <1>5, <1>6, <1>7, CountedStays

LEMMA ActCounted ==
  ASSUME OutTyped, OutTyped', Runners, Rooted, Counted, NEW w \in Threads, Act(w)
  PROVE  Counted'
<1>1. PICK j, x, t : j = task[w].job /\ x = [job[j] EXCEPT !.mails = @ + 1] /\ t = task[w]
  OBVIOUS
<1>2. /\ step[w] = "act" /\ Only(w, "finish", t) /\ Fits("finish", t)
      /\ j \in DOMAIN job /\ job[j] \in ActionRow
      /\ RewritesJob(j, x) \/ job' = job
  BY <1>1, ActMoves
<1>3. "finish" \in Steps /\ \A r, k : ~OpenAt("finish", t, r, k)
  BY DEF Steps, OpenAt
<1>4. CASE job' = job
  BY <1>2, <1>3, <1>4, CountedSameJobs
<1>5. CASE RewritesJob(j, x)
  <2>1. x.runs = job[j].runs /\ x.mails = job[j].mails + 1
    BY <1>1, <1>2 DEF ActionRow
  <2>2. task[w].kind = "job"
    BY <1>2, KindOf DEF OutTyped, Posts
  <2>3. /\ DOMAIN job' = DOMAIN job /\ job'[j] = x
        /\ \A i \in DOMAIN job : i # j => job'[i] = job[i]
        /\ \A i \in DOMAIN job : Alike(job[i], job'[i])
        /\ \A v \in Threads \ {w} : task[v].kind = "job" => job'[task[v].job] = job[task[v].job]
    BY <1>1, <1>5, <2>2, OwnRow
  <2>4. \A i \in DOMAIN job : job'[i].runs >= job[i].runs
    BY <1>2, <2>1, <2>3, RunsNat
  <2>5. job[j].mails < job[j].runs /\ job[j].mails \in Nat /\ job[j].runs \in Nat
    BY <1>1, <1>2, RunsNat DEF Counted
  <2>6. \A i \in DOMAIN job : job[i] \in ActionRow => job'[i].mails <= job'[i].runs
    BY <2>1, <2>3, <2>5 DEF Counted
  <2> QED BY <1>2, <1>3, <2>3, <2>4, <2>6, CountedStays
<1> QED BY <1>2, <1>4, <1>5

LEMMA RuleIsLeast ==
  ASSUME NEW w
  PROVE  Rule(w) = Least(task[w])
  BY DEF Rule, Least

LEMMA SameTodo ==
  ASSUME NEW t, NEW u, u.todo = t.todo
  PROVE  Least(u) = Least(t)
  BY DEF Least

LEMMA EnqueueCounted ==
  ASSUME OutTyped, OutTyped', Runners, Rooted, Counted, NEW w \in Threads, Enqueue(w)
  PROVE  Counted'
<1>1. PICK j, r, k : j = task[w].job /\ r = Rule(w) /\ k = task[w].next
  OBVIOUS
<1>2. PICK x : x = [kind |-> "action", status |-> "available", runs |-> 0, event |-> j,
                    rule |-> r, nth |-> k, mails |-> 0]
  OBVIOUS
<1>3. PICK e : LET t == [task[w] EXCEPT !.next = k + 1, !.result = e] IN
        /\ Only(w, "enqueue", t) /\ Fits("enqueue", t)
        /\ job' = Append(job, x) \/ job' = job
  BY <1>1, <1>2, EnqueueMoves
<1>4. PICK t : t = [task[w] EXCEPT !.next = k + 1, !.result = e]
  OBVIOUS
<1>5. /\ step[w] = "enqueue" /\ k \in 1..ActionsOf[r] /\ r \in task[w].todo
      /\ r \in Rules /\ j \in DOMAIN job /\ job[j] \in DispatchRow /\ x \in ActionRow
      /\ Only(w, "enqueue", t) /\ Fits("enqueue", t)
      /\ job' = Append(job, x) \/ job' = job
  BY <1>1, <1>2, <1>3, <1>4, EnqueueMoves
<1>6. Fits(step[w], task[w]) /\ Posts
  BY DEF OutTyped, Posts
<1>7. task[w] \in RulesTask
  BY <1>5, <1>6 DEF Fits
<1>8. t.todo = task[w].todo /\ t.job = j /\ t.next = k + 1 /\ k \in Nat
  BY <1>1, <1>4, <1>7 DEF RulesTask
<1>9. Least(t) = r /\ Least(task[w]) = r
  BY <1>1, <1>8, RuleIsLeast, SameTodo
<1>10. \A q, m : OpenAt("enqueue", t, q, m) /\ m \in Nat => OpenAt(step[w], task[w], q, m) /\ ~(q = r /\ m = k)
  BY <1>1, <1>5, <1>8, <1>9 DEF OpenAt
<1>11. \A q \in Rules : \A m \in 1..ActionsOf[q] : OpenAt("enqueue", t, q, m) =>
         Times(j, q, m) < job[j].runs /\ ~(q = r /\ m = k)
  BY <1>1, <1>10 DEF Counted
<1>12. CASE job' = job
  <2>1. "enqueue" \in Steps
    BY DEF Steps
  <2> QED BY <1>5, <1>8, <1>11, <1>12, <2>1, CountedSameJobs
<1>13. CASE job' = Append(job, x)
  <2>0. x.event = j /\ x.rule = r /\ x.nth = k /\ x.mails = 0 /\ x.runs = 0
    BY <1>2
  <2>1. /\ Dispatches' = Dispatches
        /\ \A i, q, m : j # i \/ r # q \/ k # m => Taken(i, q, m)' = Taken(i, q, m)
        /\ Taken(j, r, k)' = Taken(j, r, k) \cup {Len(job) + 1}
        /\ Len(job) + 1 \notin Taken(j, r, k)
    BY <1>5, <1>13, <2>0, ActionViews
  <2>2. /\ \A i, q, m : j # i \/ r # q \/ k # m => Times(i, q, m)' = Times(i, q, m)
        /\ \A i, q, m : IsFiniteSet(Taken(i, q, m)) /\ Times(i, q, m) \in Nat
    BY <2>1, TakenFinite DEF Times
  <2>3. Times(j, r, k)' = Times(j, r, k) + 1
    BY <2>1, <2>2, FS_AddElement DEF Times
  <2>4. Times(j, r, k) < job[j].runs
    <3>1. OpenAt(step[w], task[w], r, k)
      BY <1>5, <1>1, <1>8 DEF OpenAt
    <3> QED BY <1>1, <1>5, <3>1 DEF Counted
  <2>5. /\ DOMAIN job' = DOMAIN job \cup {Len(job) + 1} /\ job'[Len(job) + 1] = x
        /\ \A i \in DOMAIN job : job'[i] = job[i]
    BY <1>5, <1>13, AddedRow DEF JobRow
  <2>6. /\ step'[w] = "enqueue" /\ task'[w] = t
        /\ \A v \in Threads \ {w} : step'[v] = step[v] /\ task'[v] = task[v]
    BY <1>5, <1>6, Moved DEF Steps
  <2>7. ASSUME NEW i \in Dispatches', NEW q \in Rules, NEW m \in 1..ActionsOf[q]
        PROVE  Times(i, q, m)' <= job'[i].runs
    <3>1. i \in DOMAIN job /\ Times(i, q, m) <= job[i].runs /\ job'[i] = job[i]
      BY <2>1, <2>5, RowKinds DEF Counted
    <3>2. CASE i = j /\ q = r /\ m = k
      BY <2>2, <2>3, <2>4, <3>1, <3>2, RunsNat
    <3>3. CASE ~(i = j /\ q = r /\ m = k)
      BY <2>2, <3>1, <3>3
    <3> QED BY <3>2, <3>3
  <2>8. ASSUME NEW v \in Threads, NEW q \in Rules, NEW m \in 1..ActionsOf[q],
               NEW i, OpenAt(step'[v], task'[v], q, m), task'[v].job = i
        PROVE  Times(i, q, m)' < job'[i].runs
    <3>1. CASE v = w
      <4>1. i = j /\ Times(j, q, m) < job[j].runs /\ ~(q = r /\ m = k)
        BY <1>8, <1>11, <2>6, <2>8, <3>1
      <4> QED BY <1>5, <2>2, <2>5, <4>1
    <3>2. CASE v # w
      <4>1. OpenAt(step[v], task[v], q, m) /\ task[v].job = i
        BY <2>6, <2>8, <3>2
      <4>2. task[v].kind = "job" /\ task[w].kind = "job"
        BY <1>5, <4>1, KindOf DEF OpenAt, OutTyped, Posts
      <4>3. i # j /\ i \in DOMAIN job
        BY <1>1, <3>2, <4>1, <4>2 DEF Runners, Runs
      <4>4. Times(i, q, m) < job[i].runs
        BY <4>1 DEF Counted
      <4> QED BY <2>2, <2>5, <4>3, <4>4
    <3> QED BY <3>1, <3>2
  <2>9. \A a \in DOMAIN job' : job'[a] \in ActionRow => job'[a].mails <= job'[a].runs
    BY <2>0, <2>5 DEF Counted
  <2>10. ASSUME NEW v \in Threads, step'[v] = "act"
         PROVE  job'[task'[v].job].mails < job'[task'[v].job].runs
    <3>1. v # w /\ step[v] = "act" /\ task'[v] = task[v]
      BY <2>6, <2>10
    <3>2. task[v].job \in DOMAIN job
      BY <3>1, KindOf, RunsJob DEF OutTyped, Posts
    <3> QED BY <2>5, <3>1, <3>2 DEF Counted
  <2> QED BY <2>7, <2>8, <2>9, <2>10 DEF Counted
<1> QED BY <1>5, <1>12, <1>13

LEMMA ExecuteCounted ==
  ASSUME OutTyped, OutTyped', Runners, Rooted, Counted, NEW w \in Threads, Execute(w)
  PROVE  Counted'
<1>1. PICK j, r : j = task[w].job /\ r = Rule(w)
  OBVIOUS
<1>2. PICK t, x : /\ t = [task[w] EXCEPT !.todo = @ \ {r}, !.next = 1, !.result = "ok"]
                  /\ x = [job[j] EXCEPT !.silent = @ \cup {r}]
  OBVIOUS
<1>3. /\ step[w] = "enqueue" /\ j \in DOMAIN job /\ job[j] \in DispatchRow
      /\ r \in task[w].todo
      /\ Only(w, "enqueue", t) /\ Fits("enqueue", t)
      /\ job' = job \/ RewritesJob(j, x)
  BY <1>1, <1>2, ExecuteMoves
<1>4. task[w] \in RulesTask /\ task[w].kind = "job"
  BY <1>3, KindOf DEF OutTyped, Posts, Fits
<1>5. t.todo = task[w].todo \ {r} /\ t.job = j /\ "enqueue" \in Steps
  BY <1>1, <1>2, <1>4 DEF RulesTask, Steps
<1>6. Least(task[w]) = r
  BY <1>1, RuleIsLeast
<1>7. \A q \in Rules : \A m \in 1..ActionsOf[q] : OpenAt("enqueue", t, q, m) =>
         Times(j, q, m) < job[j].runs
  BY <1>1, <1>3, <1>5, <1>6 DEF Counted, OpenAt
<1>8. CASE job' = job
  BY <1>3, <1>5, <1>7, <1>8, CountedSameJobs
<1>9. CASE RewritesJob(j, x)
  <2>1. x.runs = job[j].runs
    BY <1>2, <1>3 DEF DispatchRow
  <2>2. /\ DOMAIN job' = DOMAIN job /\ job'[j] = x
        /\ \A i \in DOMAIN job : i # j => job'[i] = job[i]
        /\ \A i \in DOMAIN job : Alike(job[i], job'[i])
        /\ \A v \in Threads \ {w} : task[v].kind = "job" => job'[task[v].job] = job[task[v].job]
    BY <1>1, <1>4, <1>9, OwnRow
  <2>3. \A i \in DOMAIN job : job'[i].runs >= job[i].runs
    BY <2>1, <2>2, RunsNat
  <2>4. \A i \in DOMAIN job : job[i] \in ActionRow => job'[i].mails <= job'[i].runs
    BY <1>3, <2>2 DEF Counted, DispatchRow, ActionRow
  <2>5. job'[j].runs = job[j].runs
    BY <2>1, <2>2
  <2> QED BY <1>3, <1>5, <1>7, <2>2, <2>3, <2>4, <2>5, CountedStays
<1> QED BY <1>3, <1>8, <1>9

LEMMA AnnounceCounted ==
  ASSUME OutTyped, OutTyped', Runners, Rooted, Counted, NEW w \in Threads, Announce(w)
  PROVE  Counted'
<1>1. /\ Only(w, "idle", NoTask) /\ Fits("idle", NoTask)
      /\ job' = job \/ \E x \in DispatchRow : job' = Append(job, x)
  BY AnnounceMoves
<1>2. "idle" \in Steps /\ \A r, k : ~OpenAt("idle", NoTask, r, k)
  BY DEF Steps, OpenAt
<1>3. CASE job' = job
  BY <1>1, <1>2, <1>3, CountedSameJobs
<1>4. CASE \E x \in DispatchRow : job' = Append(job, x)
  <2>1. PICK x \in DispatchRow : job' = Append(job, x)
    BY <1>4
  <2>2. PICK n : n = Len(job) + 1
    OBVIOUS
  <2>3. /\ DOMAIN job' = DOMAIN job \cup {n} /\ n \notin DOMAIN job /\ job'[n] = x
        /\ \A i \in DOMAIN job : job'[i] = job[i]
    BY <2>1, <2>2, AddedRow DEF JobRow
  <2>4. /\ Dispatches' = Dispatches \cup {n}
        /\ \A j, r, k : Taken(j, r, k)' = Taken(j, r, k)
        /\ \A r, k : Taken(n, r, k) = {}
    BY <2>1, <2>2, DispatchViews
  <2>5. /\ \A j, r, k : Times(j, r, k)' = Times(j, r, k)
        /\ \A r, k : Times(n, r, k) = 0
    BY <2>4, FS_EmptySet DEF Times
  <2>6. /\ step'[w] = "idle" /\ task'[w] = NoTask
        /\ \A v \in Threads \ {w} : step'[v] = step[v] /\ task'[v] = task[v]
    BY <1>1, <1>2, Moved DEF OutTyped
  <2>7. x.runs \in Nat /\ x \notin ActionRow
    BY DEF DispatchRow, ActionRow
  <2>8. ASSUME NEW j \in Dispatches', NEW r \in Rules, NEW k \in 1..ActionsOf[r]
        PROVE  Times(j, r, k)' <= job'[j].runs
    <3>1. CASE j = n
      BY <2>3, <2>5, <2>7, <3>1
    <3>2. CASE j # n
      BY <2>3, <2>4, <2>5, <3>2, RowKinds DEF Counted
    <3> QED BY <3>1, <3>2
  <2>9. ASSUME NEW v \in Threads, NEW r \in Rules, NEW k \in 1..ActionsOf[r],
               NEW j, OpenAt(step'[v], task'[v], r, k), task'[v].job = j
        PROVE  Times(j, r, k)' < job'[j].runs
    <3>1. v # w /\ OpenAt(step[v], task[v], r, k) /\ task[v].job = j
      BY <1>2, <2>6, <2>9
    <3>2. j \in DOMAIN job
      BY <3>1, KindOf, RunsJob DEF OpenAt, OutTyped, Posts
    <3> QED BY <2>3, <2>5, <3>1, <3>2 DEF Counted
  <2>10. \A a \in DOMAIN job' : job'[a] \in ActionRow => job'[a].mails <= job'[a].runs
    BY <2>3, <2>7 DEF Counted
  <2>11. ASSUME NEW v \in Threads, step'[v] = "act"
         PROVE  job'[task'[v].job].mails < job'[task'[v].job].runs
    <3>1. v # w /\ step[v] = "act" /\ task'[v] = task[v]
      BY <2>6, <2>11
    <3>2. task[v].job \in DOMAIN job
      BY <3>1, KindOf, RunsJob DEF OutTyped, Posts
    <3> QED BY <2>3, <3>1, <3>2 DEF Counted
  <2> QED BY <2>8, <2>9, <2>10, <2>11 DEF Counted
<1> QED BY <1>1, <1>3, <1>4

LEMMA CountedStep ==
  ASSUME OutTyped, OutTyped', Runners, Rooted, Counted, [OutboundNext]_outboundVars
  PROVE  Counted'
<1>1. ASSUME NEW w \in Threads, ChangeStatus(w) PROVE Counted'
  <2>1. PICK t : t = task'[w]
    OBVIOUS
  <2>2. Only(w, "announce", t) /\ Fits("announce", t)
    BY <1>1, <2>1, ChangeStatusMoves
  <2>3. job' = job /\ "announce" \in Steps /\ \A r, k : ~OpenAt("announce", t, r, k)
    BY <1>1 DEF ChangeStatus, queue, Steps, OpenAt
  <2> QED BY <2>2, <2>3, CountedSameJobs
<1>2. ASSUME NEW w \in Threads, StartSweep(w) \/ Sweep(w) \/ SweepDies(w) PROVE Counted'
  <2>1. PICK s, t : /\ s \in Steps /\ Only(w, s, t) /\ Fits(s, t) /\ JobsRest /\ t.kind # "job"
    BY <1>2, SweepsMove
  <2>2. s # "act" /\ \A r, k : ~OpenAt(s, t, r, k)
    BY <2>1, KindOf DEF OpenAt
  <2> QED BY <2>1, <2>2, CountedSameJobs DEF JobsRest
<1>3. ASSUME NEW w \in Threads, Finish(w) \/ JobFails(w) PROVE Counted'
  BY <1>3, FinishMoves, JobFailsMoves, EndCounted
<1>4. CASE Switches
  <2>1. UNCHANGED <<job, step, task>>
    BY <1>4 DEF Switches
  <2> QED BY <2>1 DEF Counted, OpenAt, Least, Times, Taken, ActionJobs, Dispatches
<1> QED BY <1>1, <1>2, <1>3, <1>4, TakeCounted, ListRulesCounted, EnqueueCounted, ExecuteCounted,
        ActCounted, AnnounceCounted, OutStepKinds DEF JobStep, Automate

-----------------------------------------------------------------------------
(* What could not be enqueued is recorded.                                 *)

Handled(j, r, k) ==
  \/ \E a \in ActionJobs(j, r) : job[a].nth = k
  \/ \E i \in DOMAIN executions : executions[i] = [event |-> j, rule |-> r, status |-> "error"]
  \/ r \in job[j].silent

\* An action of a rule is handled, or the run has it ahead of it, or has an
\* error noted that the rule's row will tell of.
Met(t, r, k) ==
  \/ Handled(t.job, r, k)
  \/ r \in t.todo /\ (r = Least(t) => k >= t.next \/ t.result = "error")

Dropped ==
  /\ DroppedIsRecorded
  /\ \A w \in Threads : step[w] = "enqueue" => \A t : task[w] = t =>
       \A r \in job[t.job].listed : \A k \in 1..ActionsOf[r] : Met(t, r, k)

\* Nothing handled is forgotten.
Remembers ==
  /\ \A j, r, k : Taken(j, r, k) # {} => Taken(j, r, k)' # {}
  /\ \A i \in DOMAIN executions : i \in DOMAIN executions' /\ executions'[i] = executions[i]
  /\ \A j \in Dispatches : j \in Dispatches' /\ job[j].silent \subseteq job'[j].silent

LEMMA HandledIs ==
  \A j, r, k : Handled(j, r, k) <=>
    \/ Taken(j, r, k) # {}
    \/ \E i \in DOMAIN executions : executions[i] = [event |-> j, rule |-> r, status |-> "error"]
    \/ r \in job[j].silent
  BY DEF Handled, Taken

LEMMA HandledIsPrimed ==
  \A j, r, k : Handled(j, r, k)' <=>
    \/ Taken(j, r, k)' # {}
    \/ \E i \in DOMAIN executions' : executions'[i] = [event |-> j, rule |-> r, status |-> "error"]
    \/ r \in job'[j].silent
  BY DEF Handled, Taken

LEMMA HandledStays ==
  ASSUME Remembers, NEW j \in Dispatches, NEW r, NEW k, Handled(j, r, k)
  PROVE  Handled(j, r, k)'
<1>1. CASE Taken(j, r, k) # {}
  BY <1>1, HandledIsPrimed DEF Remembers
<1>2. CASE \E i \in DOMAIN executions : executions[i] = [event |-> j, rule |-> r, status |-> "error"]
  BY <1>2, HandledIsPrimed DEF Remembers
<1>3. CASE r \in job[j].silent
  BY <1>3, HandledIsPrimed DEF Remembers
<1> QED BY <1>1, <1>2, <1>3, HandledIs

LEMMA OutInitDropped == OutboundInit => Dropped
<1> SUFFICES ASSUME OutboundInit PROVE Dropped
  OBVIOUS
<1>1. DOMAIN job = {} /\ \A w \in Threads : step[w] = "idle"
  BY DEF OutboundInit, AutomationInit
<1> QED BY <1>1 DEF Dropped, DroppedIsRecorded, Dispatches

\* A thread that moves: the jobs of the others keep their lists, and what
\* completes is handled.
LEMMA DroppedStays ==
  ASSUME OutTyped, Runners, Dropped, Remembers,
         NEW w \in Threads, NEW s \in Steps, NEW t, Only(w, s, t), Fits(s, t),
         \A v \in Threads \ {w} : task[v].kind = "job" => job'[task[v].job] = job[task[v].job],
         \A j \in Dispatches' : job'[j].status = "completed" =>
           \/ /\ j \in Dispatches /\ job[j].status = "completed"
              /\ job'[j].listed = job[j].listed
           \/ \A r \in job'[j].listed : \A k \in 1..ActionsOf[r] : Handled(j, r, k)',
         s = "enqueue" => \A r \in job'[t.job].listed : \A k \in 1..ActionsOf[r] : Met(t, r, k)'
  PROVE  Dropped'
<1>1. /\ step'[w] = s /\ task'[w] = t
      /\ \A v \in Threads \ {w} : step'[v] = step[v] /\ task'[v] = task[v]
  BY Moved DEF OutTyped
<1>2. DroppedIsRecorded'
  <2>1. SUFFICES ASSUME NEW j \in Dispatches', job'[j].status = "completed",
                        NEW r \in job'[j].listed, NEW k \in 1..ActionsOf[r]
                 PROVE  Handled(j, r, k)'
    BY DEF DroppedIsRecorded, Handled
  <2>2. CASE j \in Dispatches /\ job[j].status = "completed" /\ job'[j].listed = job[j].listed
    <3>1. Handled(j, r, k)
      BY <2>1, <2>2 DEF Dropped, DroppedIsRecorded, Handled
    <3> QED BY <2>2, <3>1, HandledStays
  <2> QED BY <2>1, <2>2
<1>3. ASSUME NEW v \in Threads, step'[v] = "enqueue", NEW u, task'[v] = u,
             NEW r \in job'[u.job].listed, NEW k \in 1..ActionsOf[r]
      PROVE  Met(u, r, k)'
  <2>1. CASE v = w
    BY <1>1, <1>3, <2>1
  <2>2. CASE v # w
    <3>1. step[v] = "enqueue" /\ task[v] = u /\ task[v].kind = "job"
      BY <1>1, <1>3, <2>2, KindOf DEF OutTyped, Posts
    <3>2. u.job \in Dispatches /\ job'[u.job] = job[u.job]
      BY <2>2, <3>1, RunsJob, RowKinds
    <3>3. Met(u, r, k)
      BY <1>3, <3>1, <3>2 DEF Dropped
    <3> QED BY <3>2, <3>3, HandledStays DEF Met
  <2> QED BY <2>1, <2>2
<1> QED BY <1>2, <1>3 DEF Dropped

\* Rows that stay alike and lose nothing they were silent about.
LEMMA RemembersAlike ==
  ASSUME OutTyped, DOMAIN job' = DOMAIN job, \A i \in DOMAIN job : Alike(job[i], job'[i]),
         \A j \in Dispatches : job[j].silent \subseteq job'[j].silent,
         \/ executions' = executions
         \/ \E row \in ExecutionRow : executions' = Append(executions, row)
  PROVE  Remembers /\ Dispatches' = Dispatches
<1>1. SameViews
  BY AlikeViews
<1>2. \A i \in DOMAIN executions : i \in DOMAIN executions' /\ executions'[i] = executions[i]
  <2>1. executions \in Seq(ExecutionRow)
    BY DEF OutTyped, JobTables
  <2> QED BY <2>1, Extends
<1> QED BY <1>1, <1>2 DEF Remembers, SameViews

LEMMA DroppedSameJobs ==
  ASSUME OutTyped, Runners, Dropped, NEW w \in Threads, NEW s \in Steps, NEW t,
         Only(w, s, t), Fits(s, t), job' = job, executions' = executions, s # "enqueue"
  PROVE  Dropped'
<1>1. Remembers /\ Dispatches' = Dispatches
  BY SelfAlike, RemembersAlike
<1> QED BY <1>1, DroppedStays

LEMMA TakeDropped ==
  ASSUME OutTyped, Runners, Dropped, NEW w \in Threads, Take(w)
  PROVE  Dropped'
<1>1. PICK j \in DOMAIN job :
        /\ job[j].status = "available"
        /\ RewritesJob(j, Stamped(job[j], "running", job[j].runs + 1))
        /\ \/ Only(w, "rules", [kind |-> "job", job |-> j])
           \/ Only(w, "act", [kind |-> "job", job |-> j])
        /\ Fits("rules", [kind |-> "job", job |-> j])
        /\ Fits("act", [kind |-> "job", job |-> j])
  BY TakeMoves
<1>2. PICK x, t : x = Stamped(job[j], "running", job[j].runs + 1) /\ t = [kind |-> "job", job |-> j]
  OBVIOUS
<1>3. PICK s \in {"rules", "act"} : Only(w, s, t) /\ Fits(s, t)
  BY <1>1, <1>2
<1>4. /\ x.status = "running"
      /\ job[j] \in DispatchRow => x.listed = job[j].listed /\ x.silent = job[j].silent
  <2>1. job[j].runs + 1 \in Nat /\ job[j] \in JobRow /\ "running" \in JobStatuses
    BY RunsNat, RowKinds DEF JobStatuses
  <2> QED BY <1>2, <2>1, RowStarts
<1>5. /\ DOMAIN job' = DOMAIN job /\ job'[j] = x
      /\ \A i \in DOMAIN job : i # j => job'[i] = job[i]
      /\ \A i \in DOMAIN job : Alike(job[i], job'[i])
      /\ \A v \in Threads \ {w} : task[v].kind = "job" => job'[task[v].job] = job[task[v].job]
  <2>1. RewritesJob(j, x) /\ job[j].status # "running"
    BY <1>1, <1>2
  <2> QED BY <2>1, OwnRow
<1>6. \A i \in Dispatches : job[i].silent \subseteq job'[i].silent
  BY <1>4, <1>5, RowKinds
<1>7. executions' = executions
  BY DEF Take
<1>8. Remembers /\ Dispatches' = Dispatches
  BY <1>5, <1>6, <1>7, RemembersAlike
<1>9. \A i \in Dispatches' : job'[i].status = "completed" => job'[i] = job[i]
  BY <1>4, <1>5, <1>8, RowKinds
<1>10. s \in Steps /\ s # "enqueue"
  BY DEF Steps
<1> QED BY <1>3, <1>5, <1>8, <1>9, <1>10, DroppedStays

LEMMA ListRulesDropped ==
  ASSUME OutTyped, Runners, Dropped, NEW w \in Threads, ListRules(w)
  PROVE  Dropped'
<1>1. PICK t : t = [kind |-> "job", job |-> task[w].job, todo |-> job'[task[w].job].listed,
                    next |-> 1, result |-> "ok"]
  OBVIOUS
<1>2. PICK j, x : j = task[w].job /\ x = job'[task[w].job]
  OBVIOUS
<1>3. /\ step[w] = "rules" /\ Only(w, "enqueue", t) /\ Fits("enqueue", t)
      /\ x.status = job[j].status /\ RewritesJob(j, x) /\ job[j] \in DispatchRow
      /\ executions' = executions
  BY <1>1, <1>2, ListRulesMoves
<1>4. task[w].kind = "job" /\ "enqueue" \in Steps /\ t.job = j /\ t.todo = x.listed /\ t.next = 1
  BY <1>1, <1>2, <1>3, KindOf DEF OutTyped, Posts
<1>5. /\ DOMAIN job' = DOMAIN job /\ job'[j] = x
      /\ \A i \in DOMAIN job : i # j => job'[i] = job[i]
      /\ \A i \in DOMAIN job : Alike(job[i], job'[i])
      /\ \A v \in Threads \ {w} : task[v].kind = "job" => job'[task[v].job] = job[task[v].job]
  BY <1>2, <1>3, <1>4, OwnRow
<1>6. x.silent = job[j].silent
  <2>1. job' = [job EXCEPT ![j].listed = {r \in rules : job[j].to \in MatchedBy[r]}]
    BY <1>2 DEF ListRules
  <2>2. j \in DOMAIN job
    BY <1>3 DEF RewritesJob
  <2> QED BY <1>3, <1>5, <2>1, <2>2 DEF DispatchRow
<1>7. \A i \in Dispatches : job[i].silent \subseteq job'[i].silent
  BY <1>5, <1>6, RowKinds
<1>8. Remembers /\ Dispatches' = Dispatches
  BY <1>3, <1>5, <1>7, RemembersAlike
<1>9. job[j].status = "running"
  BY <1>2, <1>4, RunsJob
<1>10. \A i \in Dispatches' : job'[i].status = "completed" => job'[i] = job[i]
  BY <1>3, <1>5, <1>8, <1>9, RowKinds
<1>11. \A r \in job'[t.job].listed : \A k \in 1..ActionsOf[r] : Met(t, r, k)'
  BY <1>4, <1>5 DEF Met
<1> QED BY <1>3, <1>4, <1>5, <1>8, <1>10, <1>11, DroppedStays

LEMMA ActDropped ==
  ASSUME OutTyped, Runners, Dropped, NEW w \in Threads, Act(w)
  PROVE  Dropped'
<1>1. PICK j, x, t : j = task[w].job /\ x = [job[j] EXCEPT !.mails = @ + 1] /\ t = task[w]
  OBVIOUS
<1>2. /\ step[w] = "act" /\ Only(w, "finish", t) /\ Fits("finish", t)
      /\ j \in DOMAIN job /\ job[j] \in ActionRow
      /\ RewritesJob(j, x) \/ job' = job
      /\ executions' = executions
  BY <1>1, ActMoves
<1>3. "finish" \in Steps
  BY DEF Steps
<1>4. CASE job' = job
  BY <1>2, <1>3, <1>4, DroppedSameJobs
<1>5. CASE RewritesJob(j, x)
  <2>1. task[w].kind = "job" /\ j \notin Dispatches
    BY <1>2, KindOf, RowKinds DEF OutTyped, Posts
  <2>2. /\ DOMAIN job' = DOMAIN job /\ job'[j] = x
        /\ \A i \in DOMAIN job : i # j => job'[i] = job[i]
        /\ \A i \in DOMAIN job : Alike(job[i], job'[i])
        /\ \A v \in Threads \ {w} : task[v].kind = "job" => job'[task[v].job] = job[task[v].job]
    BY <1>1, <1>5, <2>1, OwnRow
  <2>3. \A i \in Dispatches : job'[i] = job[i]
    BY <2>1, <2>2, RowKinds
  <2>4. Remembers /\ Dispatches' = Dispatches
    BY <1>2, <2>2, <2>3, RemembersAlike
  <2> QED BY <1>2, <1>3, <2>2, <2>3, <2>4, DroppedStays
<1> QED BY <1>2, <1>4, <1>5

LEMMA EndDropped ==
  ASSUME OutTyped, Runners, Dropped, NEW w \in Threads,
         NEW e \in {"available", "completed"}, Ends(w, e),
         e = "completed" => step[w] = "finish" \/ (step[w] = "enqueue" /\ task[w].todo = {})
  PROVE  Dropped'
<1>1. PICK j, x : j = task[w].job /\ x = Stamped(job[j], e, job[j].runs)
  OBVIOUS
<1>2. /\ task[w].kind = "job" /\ Only(w, "idle", NoTask) /\ Fits("idle", NoTask)
      /\ j \in DOMAIN job /\ job[j] \in JobRow /\ RewritesJob(j, x) /\ executions' = executions
  BY <1>1 DEF Ends
<1>3. /\ x.status = e
      /\ job[j] \in DispatchRow => x.listed = job[j].listed /\ x.silent = job[j].silent
  <2>1. e \in JobStatuses /\ job[j].runs \in Nat
    BY <1>2, RunsNat DEF JobStatuses
  <2> QED BY <1>1, <1>2, <2>1, RowStarts
<1>4. /\ DOMAIN job' = DOMAIN job /\ job'[j] = x
      /\ \A i \in DOMAIN job : i # j => job'[i] = job[i]
      /\ \A i \in DOMAIN job : Alike(job[i], job'[i])
      /\ \A v \in Threads \ {w} : task[v].kind = "job" => job'[task[v].job] = job[task[v].job]
  BY <1>1, <1>2, OwnRow
<1>5. \A i \in Dispatches : job[i].silent \subseteq job'[i].silent /\ job'[i].listed = job[i].listed
  BY <1>3, <1>4, RowKinds
<1>6. Remembers /\ Dispatches' = Dispatches
  BY <1>2, <1>4, <1>5, RemembersAlike
<1>7. ASSUME NEW i \in Dispatches', job'[i].status = "completed"
      PROVE  \/ /\ i \in Dispatches /\ job[i].status = "completed"
                /\ job'[i].listed = job[i].listed
             \/ \A r \in job'[i].listed : \A k \in 1..ActionsOf[r] : Handled(i, r, k)'
  <2>1. CASE i # j
    BY <1>4, <1>5, <1>6, <1>7, <2>1, RowKinds
  <2>2. CASE i = j
    <3>1. e = "completed"
      BY <1>3, <1>4, <1>7, <2>2
    <3>2. step[w] = "enqueue" /\ task[w].todo = {}
      BY <1>1, <1>2, <1>6, <1>7, <2>2, <3>1, RunsJob, RowKinds
    <3>3. PICK t : t = task[w]
      OBVIOUS
    <3>4. \A r \in job[j].listed : \A k \in 1..ActionsOf[r] : Met(t, r, k)
      BY <1>1, <3>2, <3>3 DEF Dropped
    <3>5. \A r \in job[j].listed : \A k \in 1..ActionsOf[r] : Handled(j, r, k)
      BY <1>1, <3>2, <3>3, <3>4 DEF Met
    <3> QED BY <1>5, <1>6, <2>2, <3>5, HandledStays
  <2> QED BY <2>1, <2>2
<1>8. "idle" \in Steps /\ "idle" # "enqueue"
  BY DEF Steps
<1> QED BY <1>2, <1>4, <1>6, <1>7, <1>8, DroppedStays

LEMMA AnnounceDropped ==
  ASSUME OutTyped, Runners, Rooted, Dropped, NEW w \in Threads, Announce(w)
  PROVE  Dropped'
<1>1. /\ Only(w, "idle", NoTask) /\ Fits("idle", NoTask) /\ executions' = executions
      /\ \/ job' = job
         \/ \E x \in DispatchRow : job' = Append(job, x) /\ x.status = "available"
  BY AnnounceMoves
<1>2. "idle" \in Steps /\ "idle" # "enqueue"
  BY DEF Steps
<1>3. CASE job' = job
  BY <1>1, <1>2, <1>3, DroppedSameJobs
<1>4. CASE job' # job
  <2>1. PICK x \in DispatchRow : job' = Append(job, x) /\ x.status = "available"
    BY <1>1, <1>4
  <2>2. PICK n : n = Len(job) + 1
    OBVIOUS
  <2>3. /\ DOMAIN job' = DOMAIN job \cup {n} /\ n \notin DOMAIN job /\ job'[n] = x
        /\ \A i \in DOMAIN job : job'[i] = job[i]
    BY <2>1, <2>2, AddedRow DEF JobRow
  <2>4. /\ Dispatches' = Dispatches \cup {n}
        /\ \A j, r, k : Taken(j, r, k)' = Taken(j, r, k)
    BY <2>1, <2>2, DispatchViews
  <2>5. Remembers
    BY <1>1, <2>3, <2>4, RowKinds DEF Remembers
  <2>6. \A j \in Dispatches' : job'[j].status = "completed" => j \in Dispatches /\ job'[j] = job[j]
    BY <2>1, <2>3, <2>4, RowKinds
  <2>7. \A v \in Threads \ {w} : task[v].kind = "job" => job'[task[v].job] = job[task[v].job]
    BY <2>3, RunsJob
  <2> QED BY <1>1, <1>2, <2>5, <2>6, <2>7, DroppedStays
<1> QED BY <1>3, <1>4

LEMMA EnqueueDropped ==
  ASSUME OutTyped, Runners, Rooted, Dropped, NEW w \in Threads, Enqueue(w)
  PROVE  Dropped'
<1>1. PICK j, r, k : j = task[w].job /\ r = Rule(w) /\ k = task[w].next
  OBVIOUS
<1>2. PICK x : x = [kind |-> "action", status |-> "available", runs |-> 0, event |-> j,
                    rule |-> r, nth |-> k, mails |-> 0]
  OBVIOUS
<1>3. PICK e : LET t == [task[w] EXCEPT !.next = k + 1, !.result = e] IN
        /\ Only(w, "enqueue", t) /\ Fits("enqueue", t)
        /\ \/ job' = Append(job, x) /\ e = task[w].result
           \/ job' = job /\ e = "error"
  BY <1>1, <1>2, EnqueueMoves
<1>4. PICK t : t = [task[w] EXCEPT !.next = k + 1, !.result = e]
  OBVIOUS
<1>5. /\ step[w] = "enqueue" /\ k \in 1..ActionsOf[r] /\ r \in task[w].todo
      /\ r \in Rules /\ j \in DOMAIN job /\ job[j] \in DispatchRow /\ x \in ActionRow
      /\ Only(w, "enqueue", t) /\ Fits("enqueue", t)
      /\ \/ job' = Append(job, x) /\ t.result = task[w].result
         \/ job' = job /\ t.result = "error"
      /\ executions' = executions
  <2>1. task[w] \in RulesTask
    BY EnqueueMoves DEF OutTyped, Posts, Fits
  <2>2. t.result = e
    BY <1>4, <2>1 DEF RulesTask
  <2> QED BY <1>1, <1>2, <1>3, <1>4, <2>2, EnqueueMoves
<1>6. task[w] \in RulesTask
  BY <1>5 DEF OutTyped, Posts, Fits
<1>7. t.todo = task[w].todo /\ t.job = j /\ t.next = k + 1 /\ k \in Nat
  BY <1>1, <1>4, <1>6 DEF RulesTask
<1>8. Least(t) = r /\ Least(task[w]) = r
  BY <1>1, <1>7, RuleIsLeast, SameTodo
<1>9. \A q \in job[j].listed : \A m \in 1..ActionsOf[q] : Met(task[w], q, m)
  <2>1. PICK u : u = task[w]
    OBVIOUS
  <2> QED BY <1>1, <1>5, <2>1 DEF Dropped
<1>10. j \in Dispatches
  BY <1>5, RowKinds
<1>11. "enqueue" \in Steps
  BY DEF Steps
<1>12. CASE job' = job /\ t.result = "error"
  <2>1. Remembers /\ Dispatches' = Dispatches
    BY <1>5, <1>12, SelfAlike, RemembersAlike
  <2>2. ASSUME NEW q \in job'[t.job].listed, NEW m \in 1..ActionsOf[q] PROVE Met(t, q, m)'
    <3>1. Met(task[w], q, m)
      BY <1>7, <1>9, <1>12, <2>2
    <3>2. CASE Handled(j, q, m)
      BY <1>7, <1>10, <2>1, <3>2, HandledStays DEF Met
    <3>3. CASE ~Handled(j, q, m)
      BY <1>1, <1>7, <1>12, <3>1, <3>3 DEF Met
    <3> QED BY <3>2, <3>3
  <2> QED BY <1>5, <1>11, <1>12, <2>1, <2>2, DroppedStays
<1>13. CASE job' = Append(job, x) /\ t.result = task[w].result
  <2>0. x.event = j /\ x.rule = r /\ x.nth = k
    BY <1>2
  <2>1. /\ Dispatches' = Dispatches
        /\ \A i, q, m : j # i \/ r # q \/ k # m => Taken(i, q, m)' = Taken(i, q, m)
        /\ Taken(j, r, k)' = Taken(j, r, k) \cup {Len(job) + 1}
    BY <1>5, <1>13, <2>0, ActionViews
  <2>2. /\ DOMAIN job' = DOMAIN job \cup {Len(job) + 1} /\ job'[Len(job) + 1] = x
        /\ \A i \in DOMAIN job : job'[i] = job[i]
    BY <1>5, <1>13, AddedRow DEF JobRow
  <2>3. Remembers
    <3>1. \A i, q, m : Taken(i, q, m) # {} => Taken(i, q, m)' # {}
      BY <2>1
    <3> QED BY <1>5, <2>1, <2>2, <3>1, RowKinds DEF Remembers
  <2>4. Handled(j, r, k)'
    BY <2>1, HandledIsPrimed
  <2>5. ASSUME NEW q \in job'[t.job].listed, NEW m \in 1..ActionsOf[q] PROVE Met(t, q, m)'
    <3>1. Met(task[w], q, m)
      BY <1>5, <1>7, <1>9, <2>2, <2>5
    <3>2. CASE Handled(j, q, m)
      BY <1>7, <1>10, <2>3, <3>2, HandledStays DEF Met
    <3>3. CASE ~Handled(j, q, m)
      <4>1. CASE q = r /\ m = k
        BY <1>7, <2>4, <4>1 DEF Met
      <4>2. CASE ~(q = r /\ m = k)
        <5>1. q \in task[w].todo /\ (q = r => m >= k \/ task[w].result = "error")
          BY <1>1, <1>8, <3>1, <3>3 DEF Met
        <5>2. m \in Int
          OBVIOUS
        <5>3. q = r => m >= k + 1 \/ task[w].result = "error"
          BY <1>7, <4>2, <5>1, <5>2
        <5> QED BY <1>7, <1>8, <1>13, <5>1, <5>3 DEF Met
      <4> QED BY <4>1, <4>2
    <3> QED BY <3>2, <3>3
  <2>6. \A i \in Dispatches' : job'[i] = job[i]
    BY <2>1, <2>2, RowKinds
  <2>7. \A v \in Threads \ {w} : task[v].kind = "job" => job'[task[v].job] = job[task[v].job]
    BY <2>2, RunsJob
  <2> QED BY <1>5, <1>11, <2>1, <2>3, <2>5, <2>6, <2>7, DroppedStays
<1> QED BY <1>5, <1>12, <1>13

LEMMA ExecuteDropped ==
  ASSUME OutTyped, Runners, Rooted, Dropped, NEW w \in Threads, Execute(w)
  PROVE  Dropped'
<1>1. PICK j, r : j = task[w].job /\ r = Rule(w)
  OBVIOUS
<1>2. PICK t, x, row :
         /\ t = [task[w] EXCEPT !.todo = @ \ {r}, !.next = 1, !.result = "ok"]
         /\ x = [job[j] EXCEPT !.silent = @ \cup {r}]
         /\ row = [event |-> j, rule |-> r, status |-> task[w].result]
  OBVIOUS
<1>3. /\ step[w] = "enqueue" /\ j \in DOMAIN job /\ job[j] \in DispatchRow
      /\ r \in task[w].todo /\ r \in Rules /\ task[w].next > ActionsOf[r]
      /\ Only(w, "enqueue", t) /\ Fits("enqueue", t) /\ row \in ExecutionRow
      /\ \/ executions' = Append(executions, row) /\ job' = job
         \/ executions' = executions /\ RewritesJob(j, x)
  BY <1>1, <1>2, ExecuteMoves
<1>4. task[w] \in RulesTask /\ task[w].kind = "job"
  BY <1>3, KindOf DEF OutTyped, Posts, Fits
<1>5. /\ t.todo = task[w].todo \ {r} /\ t.job = j /\ t.next = 1 /\ "enqueue" \in Steps
      /\ task[w].next \in Nat /\ ActionsOf[r] \in Nat
  BY <1>1, <1>2, <1>3, <1>4, AutomationAssumption DEF RulesTask, Steps
<1>6. Least(task[w]) = r /\ j \in Dispatches
  BY <1>1, <1>3, RuleIsLeast, RowKinds
<1>7. \A q \in job[j].listed : \A m \in 1..ActionsOf[q] :
        Handled(j, q, m) \/ q \in t.todo \/ (q = r /\ task[w].result = "error")
  <2>1. PICK u : u = task[w]
    OBVIOUS
  <2>2. \A q \in job[j].listed : \A m \in 1..ActionsOf[q] : Met(task[w], q, m)
    BY <1>1, <1>3, <2>1 DEF Dropped
  <2> TAKE q \in job[j].listed
  <2> TAKE m \in 1..ActionsOf[q]
  <2>3. CASE q = r
    <3>1. ~(m >= task[w].next)
      BY <1>3, <1>5, <2>3
    <3> QED BY <1>1, <1>6, <2>2, <2>3, <3>1 DEF Met
  <2>4. CASE q # r
    BY <1>1, <1>5, <2>2, <2>4 DEF Met
  <2> QED BY <2>3, <2>4
<1>8. /\ DOMAIN job' = DOMAIN job
      /\ \A i \in DOMAIN job : Alike(job[i], job'[i])
      /\ \A v \in Threads \ {w} : task[v].kind = "job" => job'[task[v].job] = job[task[v].job]
      /\ \A i \in Dispatches : /\ job[i].silent \subseteq job'[i].silent
                               /\ job'[i].listed = job[i].listed
                               /\ job'[i].status = job[i].status
      /\ job' # job => r \in job'[j].silent
  <2>1. CASE job' = job
    BY <2>1, SelfAlike
  <2>2. CASE RewritesJob(j, x)
    <3>1. /\ x.silent = job[j].silent \cup {r} /\ x.listed = job[j].listed
          /\ x.status = job[j].status
      BY <1>2, <1>3 DEF DispatchRow
    <3>2. /\ DOMAIN job' = DOMAIN job /\ job'[j] = x
          /\ \A i \in DOMAIN job : i # j => job'[i] = job[i]
          /\ \A i \in DOMAIN job : Alike(job[i], job'[i])
          /\ \A v \in Threads \ {w} : task[v].kind = "job" => job'[task[v].job] = job[task[v].job]
      BY <1>1, <1>4, <2>2, OwnRow
    <3> QED BY <3>1, <3>2, RowKinds
  <2> QED BY <1>3, <2>1, <2>2
<1>9. Remembers /\ Dispatches' = Dispatches
  BY <1>3, <1>8, RemembersAlike
<1>10. task[w].result = "error" => \A m : Handled(j, r, m)'
  <2>1. CASE job' # job
    BY <1>8, <2>1, HandledIsPrimed
  <2>2. CASE job' = job /\ executions' = Append(executions, row)
    <3>1. executions \in Seq(ExecutionRow)
      BY DEF OutTyped, JobTables
    <3>2. Len(executions) + 1 \in DOMAIN executions' /\ executions'[Len(executions) + 1] = row
      BY <1>3, <2>2, <3>1, Extends
    <3> QED BY <1>2, <3>2, HandledIsPrimed
  <2>3. CASE job' = job /\ RewritesJob(j, x)
    <3>1. x.silent = job[j].silent \cup {r}
      BY <1>2, <1>3 DEF DispatchRow
    <3>2. job'[j] = x
      BY <2>3, RewritesTypes DEF OutTyped
    <3> QED BY <3>1, <3>2, HandledIsPrimed
  <2> QED BY <1>3, <2>1, <2>2, <2>3
<1>11. ASSUME NEW q \in job'[t.job].listed, NEW m \in 1..ActionsOf[q] PROVE Met(t, q, m)'
  <2>1. q \in job[j].listed
    BY <1>5, <1>6, <1>8, <1>11
  <2>2. CASE Handled(j, q, m)
    BY <1>5, <1>6, <1>9, <2>2, HandledStays DEF Met
  <2>3. CASE q \in t.todo
    BY <1>5, <2>3 DEF Met
  <2>4. CASE q = r /\ task[w].result = "error"
    BY <1>5, <1>10, <2>4 DEF Met
  <2> QED BY <1>7, <2>1, <2>2, <2>3, <2>4
<1> QED BY <1>3, <1>5, <1>8, <1>9, <1>11, DroppedStays

LEMMA DroppedStep ==
  ASSUME OutTyped, Runners, Rooted, Dropped, [OutboundNext]_outboundVars
  PROVE  Dropped'
<1>1. ASSUME NEW w \in Threads, ChangeStatus(w) PROVE Dropped'
  <2>1. PICK t : t = task'[w]
    OBVIOUS
  <2>2. Only(w, "announce", t) /\ Fits("announce", t)
    BY <1>1, <2>1, ChangeStatusMoves
  <2>3. job' = job /\ executions' = executions /\ "announce" \in Steps
    BY <1>1 DEF ChangeStatus, queue, Steps
  <2> QED BY <2>2, <2>3, DroppedSameJobs
<1>2. ASSUME NEW w \in Threads, StartSweep(w) \/ Sweep(w) \/ SweepDies(w) PROVE Dropped'
  <2>1. PICK s, t : /\ s \in Steps /\ Only(w, s, t) /\ Fits(s, t) /\ JobsRest /\ t.kind # "job"
    BY <1>2, SweepsMove
  <2>2. s # "enqueue"
    BY <2>1, KindOf
  <2> QED BY <2>1, <2>2, DroppedSameJobs DEF JobsRest
<1>3. ASSUME NEW w \in Threads, Finish(w) PROVE Dropped'
  BY <1>3, FinishMoves, EndDropped
<1>4. ASSUME NEW w \in Threads, JobFails(w) PROVE Dropped'
  BY <1>4, JobFailsMoves, EndDropped
<1>5. CASE Switches
  <2>1. UNCHANGED <<job, executions, step, task>>
    BY <1>5 DEF Switches
  <2> QED BY <2>1 DEF Dropped, DroppedIsRecorded, Met, Handled, Least, ActionJobs, Dispatches
<1> QED BY <1>1, <1>2, <1>3, <1>4, <1>5, TakeDropped, ListRulesDropped, EnqueueDropped,
        ExecuteDropped, ActDropped, AnnounceDropped, OutStepKinds DEF JobStep, Automate

-----------------------------------------------------------------------------
(* What the ERP has booked.                                                *)

First(t) == CHOOSE d \in t.docs : \A e \in t.docs : d[2] <= e[2]

\* A sweep has the document ahead of it, or has it booked and not yet referred.
Waits(s, t, d) ==
  \/ s = "push" /\ d \in t.docs
  \/ s \in {"ref", "sent", "error"} /\ d \in t.docs \ {First(t)}

Booked(s, t, d) == s = "ref" /\ d = First(t)

Sweeps(s, t, d) == Waits(s, t, d) \/ Booked(s, t, d)

Delivered ==
  \A d \in Docs \ excused :
    /\ erp[d] <= 1
    /\ erp[d] > 0 => Referred(d) \/ \E v \in Threads : Booked(step[v], task[v], d)
    /\ \A u, v \in Threads :
         Sweeps(step[u], task[u], d) /\ Sweeps(step[v], task[v], d) => u = v
    /\ \A v \in Threads : Waits(step[v], task[v], d) => erp[d] = 0

Claims ==
  /\ RefMeansDelivered
  /\ \A w \in Threads : step[w] \in {"ref", "sent"} => \A t : task[w] = t => erp[First(t)] > 0
  /\ \A r, s \in refs : Type(r.doc) = Type(s.doc) /\ (r.doc = s.doc \/ r.ext = s.ext) => r = s

LEMMA DocIsFirst ==
  ASSUME NEW w
  PROVE  Doc(w) = First(task[w])
  BY DEF Doc, First

LEMMA FirstIn ==
  ASSUME NEW t \in ListTask, t.docs # {}
  PROVE  First(t) \in t.docs /\ First(t) \in Docs
<1>1. t.docs \subseteq Docs /\ \A d \in t.docs : d[2] \in Nat
  BY AutomationAssumption DEF ListTask
<1> DEFINE N == {d[2] : d \in t.docs}
<1>2. PICK n \in N : \A m \in N : n <= m
  <2>1. N \subseteq Nat /\ N # {}
    BY <1>1
  <2> HIDE DEF N
  <2> QED BY <2>1, LeastOf
<1>3. \E d \in t.docs : \A e \in t.docs : d[2] <= e[2]
  BY <1>2
<1>4. First(t) \in t.docs
  BY <1>3 DEF First
<1> QED BY <1>1, <1>4

LEMMA SweepingIs ==
  ASSUME OutTyped, NEW v \in Threads, NEW d
  PROVE  Sweeping(v, d) <=> Sweeps(step[v], task[v], d)
<1>1. Fits(step[v], task[v])
  BY DEF OutTyped, Posts
<1>2. step[v] = "ref" => First(task[v]) \in task[v].docs
  BY <1>1, FirstIn DEF Fits
<1> QED BY <1>2, DocIsFirst DEF Sweeping, Sweeps, Waits, Booked

LEMMA NotSwept ==
  ASSUME NEW s, NEW t, Fits(s, t), t.kind # "sweep" \/ s = "list"
  PROVE  \A d : ~Sweeps(s, t, d)
  BY KindOf DEF Sweeps, Waits, Booked

LEMMA OutInitDelivered == OutboundInit => Delivered /\ Claims
<1> SUFFICES ASSUME OutboundInit PROVE Delivered /\ Claims
  OBVIOUS
<1>1. /\ refs = {} /\ log = {} /\ erp = [d \in Docs |-> 0]
      /\ \A w \in Threads : step[w] = "idle"
  BY DEF OutboundInit, AutomationInit
<1> QED BY <1>1 DEF Delivered, Claims, RefMeansDelivered, Sweeps, Waits, Booked

LEMMA ReferredStays ==
  ASSUME refs \subseteq refs', NEW d, Referred(d)
  PROVE  Referred(d)'
  BY DEF Referred

\* A thread that moves with nothing new booked: it sweeps no more than before,
\* and what it had booked has its reference, or is still its document.
LEMMA DeliveredStays ==
  ASSUME OutTyped, Delivered, NEW w \in Threads, NEW s \in Steps, NEW t,
         Only(w, s, t), Fits(s, t), refs \subseteq refs', excused \subseteq excused',
         \A d \in Docs \ excused' :
           /\ erp'[d] = erp[d]
           /\ Sweeps(s, t, d) => Sweeps(step[w], task[w], d)
           /\ Waits(s, t, d) => Waits(step[w], task[w], d)
           /\ Booked(step[w], task[w], d) => Referred(d)' \/ Booked(s, t, d)
  PROVE  Delivered'
<1>1. /\ step'[w] = s /\ task'[w] = t
      /\ \A v \in Threads \ {w} : step'[v] = step[v] /\ task'[v] = task[v]
  BY Moved DEF OutTyped
<1>2. SUFFICES ASSUME NEW d \in Docs \ excused'
               PROVE  /\ erp'[d] <= 1
                      /\ erp'[d] > 0 => Referred(d)' \/ \E v \in Threads : Booked(step'[v], task'[v], d)
                      /\ \A u, v \in Threads :
                           Sweeps(step'[u], task'[u], d) /\ Sweeps(step'[v], task'[v], d) => u = v
                      /\ \A v \in Threads : Waits(step'[v], task'[v], d) => erp'[d] = 0
  BY DEF Delivered
<1>3. d \in Docs \ excused /\ erp'[d] = erp[d]
  BY <1>2
<1>4. \A v \in Threads : /\ Sweeps(step'[v], task'[v], d) => Sweeps(step[v], task[v], d)
                         /\ Waits(step'[v], task'[v], d) => Waits(step[v], task[v], d)
                         /\ Booked(step[v], task[v], d) => Referred(d)' \/ Booked(step'[v], task'[v], d)
  BY <1>1, <1>2
<1>5. Referred(d) => Referred(d)'
  BY ReferredStays
<1> QED BY <1>3, <1>4, <1>5 DEF Delivered

LEMMA ListDelivered ==
  ASSUME OutTyped, Delivered, Claims, NEW w \in Threads, List(w)
  PROVE  Delivered'
<1>1. PICK docs \in SUBSET ToSync(task[w].type) :
        LET t == [kind |-> "sweep", type |-> task[w].type, docs |-> docs] IN
        /\ step[w] = "list" /\ Only(w, "push", t) /\ Fits("push", t)
        /\ excused' = excused \cup {d \in docs : \E v \in Threads : Sweeping(v, d)}
        /\ UNCHANGED <<refs, log, erp>>
  BY ListMoves
<1>2. PICK t : t = [kind |-> "sweep", type |-> task[w].type, docs |-> docs]
  OBVIOUS
<1>3. /\ step[w] = "list" /\ Only(w, "push", t) /\ Fits("push", t) /\ t.docs = docs
      /\ excused' = excused \cup {d \in docs : \E v \in Threads : Sweeping(v, d)}
  BY <1>1, <1>2
<1>4. /\ step'[w] = "push" /\ task'[w] = t
      /\ \A v \in Threads \ {w} : step'[v] = step[v] /\ task'[v] = task[v]
  BY <1>3, Moved DEF OutTyped, Steps
<1>5. \A d \in docs : ~Referred(d)
  BY DEF ToSync, UpToBatch
<1>6. \A d : (Referred(d) <=> Referred(d)')
  BY <1>1 DEF Referred
<1>7. SUFFICES ASSUME NEW d \in Docs \ excused'
               PROVE  /\ erp[d] <= 1
                      /\ erp[d] > 0 => Referred(d) \/ \E v \in Threads : Booked(step'[v], task'[v], d)
                      /\ \A u, v \in Threads :
                           Sweeps(step'[u], task'[u], d) /\ Sweeps(step'[v], task'[v], d) => u = v
                      /\ \A v \in Threads : Waits(step'[v], task'[v], d) => erp[d] = 0
  BY <1>1, <1>6 DEF Delivered
<1>8. d \in Docs \ excused /\ (d \in docs => \A v \in Threads : ~Sweeps(step[v], task[v], d))
  BY <1>3, <1>7, SweepingIs
<1>9. ~Sweeps(step[w], task[w], d)
  BY <1>3, NotSwept DEF OutTyped, Posts
<1>10. CASE d \in docs
  <2>1. erp[d] = 0
    <3>1. ~Referred(d) /\ \A v \in Threads : ~Booked(step[v], task[v], d)
      BY <1>5, <1>8, <1>10 DEF Sweeps
    <3>2. ~(erp[d] > 0) /\ erp[d] \in 0..2
      BY <1>8, <3>1 DEF Delivered, OutTyped, ErpTables
    <3> QED BY <3>2
  <2>2. \A v \in Threads \ {w} : ~Sweeps(step'[v], task'[v], d)
    BY <1>4, <1>8, <1>10
  <2> QED BY <2>1, <2>2
<1>11. CASE d \notin docs
  <2>1. ~Sweeps("push", t, d)
    BY <1>3, <1>11 DEF Sweeps, Waits, Booked
  <2>2. /\ ~Sweeps(step'[w], task'[w], d)
        /\ \A v \in Threads \ {w} : step'[v] = step[v] /\ task'[v] = task[v]
    BY <1>4, <2>1
  <2>3. \A v \in Threads : Booked(step[v], task[v], d) => Booked(step'[v], task'[v], d)
    BY <1>4, <1>9 DEF Sweeps
  <2>4. \A v \in Threads : Waits(step'[v], task'[v], d) => Waits(step[v], task[v], d)
    BY <2>2 DEF Sweeps
  <2>5. \A v \in Threads : Sweeps(step'[v], task'[v], d) => Sweeps(step[v], task[v], d)
    BY <2>2
  <2> QED BY <1>8, <2>3, <2>4, <2>5 DEF Delivered
<1> QED BY <1>10, <1>11

LEMMA PushDelivered ==
  ASSUME OutTyped, Delivered, Claims, NEW w \in Threads, Push(w)
  PROVE  Delivered'
<1>1. PICK b, t : b = Doc(w) /\ t = task[w]
  OBVIOUS
<1>2. PICK s \in {"ref", "error"} :
        /\ step[w] = "push" /\ b \in t.docs /\ b \in Docs
        /\ Only(w, s, t) /\ Fits(s, t)
        /\ \/ Book(b) /\ excused' = excused /\ step'[w] = "ref"
           \/ erp' = erp /\ excused' = excused /\ step'[w] = "error"
           \/ Book(b) /\ excused' = excused \cup {b} /\ step'[w] = "error"
        /\ UNCHANGED <<refs, log>>
  BY <1>1, PushMoves
<1>3. /\ step'[w] = s /\ task'[w] = t
      /\ \A v \in Threads \ {w} : step'[v] = step[v] /\ task'[v] = task[v]
  BY <1>2, Moved DEF OutTyped, Steps
<1>4. b = First(t)
  BY <1>1, DocIsFirst
<1>5. /\ \A d : Sweeps(s, t, d) => Sweeps("push", t, d)
      /\ \A d : Waits(s, t, d) => Waits("push", t, d)
      /\ \A d : ~Booked("push", t, d)
  BY <1>2, <1>4 DEF Sweeps, Waits, Booked
<1>6. ASSUME \A d \in Docs \ excused' : erp'[d] = erp[d], excused \subseteq excused' PROVE Delivered'
  BY <1>1, <1>2, <1>5, <1>6, DeliveredStays DEF Steps
<1>7. CASE erp' = erp /\ excused' = excused
  BY <1>6, <1>7
<1>8. CASE Book(b) /\ excused' = excused \cup {b}
  <2>1. \A d \in Docs \ {b} : erp'[d] = erp[d]
    BY <1>2, <1>8, BookTypes DEF OutTyped
  <2> QED BY <1>6, <1>8, <2>1
<1>9. CASE Book(b) /\ excused' = excused /\ s = "ref"
  <2>1. /\ \A d \in Docs \ {b} : erp'[d] = erp[d]
        /\ erp[b] = 0 => erp'[b] = 1
    BY <1>2, <1>9, BookTypes DEF OutTyped
  <2>2. SUFFICES ASSUME NEW d \in Docs \ excused
                 PROVE  /\ erp'[d] <= 1
                        /\ erp'[d] > 0 => Referred(d)' \/ \E v \in Threads : Booked(step'[v], task'[v], d)
                        /\ \A u, v \in Threads :
                             Sweeps(step'[u], task'[u], d) /\ Sweeps(step'[v], task'[v], d) => u = v
                        /\ \A v \in Threads : Waits(step'[v], task'[v], d) => erp'[d] = 0
    BY <1>9 DEF Delivered
  <2>3. \A v \in Threads : /\ Sweeps(step'[v], task'[v], d) => Sweeps(step[v], task[v], d)
                           /\ Waits(step'[v], task'[v], d) => Waits(step[v], task[v], d)
    BY <1>1, <1>2, <1>3, <1>5
  <2>4. \A u, v \in Threads :
          Sweeps(step'[u], task'[u], d) /\ Sweeps(step'[v], task'[v], d) => u = v
    BY <2>2, <2>3 DEF Delivered
  <2>5. CASE d = b
    <3>1. Waits(step[w], task[w], d) /\ Booked(step'[w], task'[w], d)
      BY <1>1, <1>2, <1>3, <1>4, <1>9, <2>5 DEF Waits, Booked
    <3>2. erp[d] = 0
      BY <2>2, <3>1 DEF Delivered
    <3>3. ~Waits(step'[w], task'[w], d)
      BY <1>3, <1>4, <1>9, <2>5 DEF Waits
    <3>4. \A v \in Threads : ~Waits(step'[v], task'[v], d)
      BY <2>4, <3>1, <3>3 DEF Sweeps
    <3> QED BY <2>1, <2>4, <2>5, <3>1, <3>2, <3>4
  <2>6. CASE d # b
    <3>1. erp'[d] = erp[d]
      BY <2>1, <2>6
    <3>2. \A v \in Threads : Booked(step[v], task[v], d) => Booked(step'[v], task'[v], d)
      BY <1>1, <1>2, <1>3, <1>5
    <3>3. Referred(d) => Referred(d)'
      BY <1>2 DEF Referred
    <3> QED BY <2>2, <2>3, <2>4, <3>1, <3>2, <3>3 DEF Delivered
  <2> QED BY <2>5, <2>6
<1> QED BY <1>2, <1>3, <1>7, <1>8, <1>9

LEMMA AddRefDelivered ==
  ASSUME OutTyped, Delivered, NEW w \in Threads, AddRef(w)
  PROVE  Delivered'
<1>1. PICK b, t : b = Doc(w) /\ t = task[w]
  OBVIOUS
<1>2. /\ step[w] = "ref" /\ b \in t.docs /\ b \in Docs
      /\ Only(w, "sent", t) /\ Fits("sent", t)
      /\ \/ refs' = refs \cup {[doc |-> b, ext |-> ErpId[b]]} /\ excused' = excused
         \/ refs' = refs /\ excused' = IF Referred(b) THEN excused ELSE excused \cup {b}
      /\ UNCHANGED <<log, erp>>
  BY <1>1, AddRefMoves
<1>3. b = First(t)
  BY <1>1, DocIsFirst
<1>4. refs \subseteq refs' /\ excused \subseteq excused' /\ (b \in excused' \/ Referred(b)')
  <2>1. refs \subseteq refs' /\ excused \subseteq excused'
    BY <1>2
  <2>2. CASE refs' = refs \cup {[doc |-> b, ext |-> ErpId[b]]}
    <3>1. PICK r : r = [doc |-> b, ext |-> ErpId[b]]
      OBVIOUS
    <3>2. r \in refs' /\ r.doc = b
      BY <2>2, <3>1
    <3>3. Referred(b)'
      BY <3>2 DEF Referred
    <3> QED BY <2>1, <3>3
  <2>3. CASE refs' = refs /\ excused' = IF Referred(b) THEN excused ELSE excused \cup {b}
    <3>1. Referred(b) => Referred(b)'
      BY <2>1, ReferredStays
    <3> QED BY <2>1, <2>3, <3>1
  <2> QED BY <1>2, <2>1, <2>2, <2>3
<1>5. \A d : /\ Sweeps("sent", t, d) => Waits("ref", t, d)
             /\ Waits("sent", t, d) => Waits("ref", t, d)
             /\ Booked("ref", t, d) => d = b
  BY <1>3 DEF Sweeps, Waits, Booked
<1>6. \A d \in Docs \ excused' :
           /\ erp'[d] = erp[d]
           /\ Sweeps("sent", t, d) => Sweeps(step[w], task[w], d)
           /\ Waits("sent", t, d) => Waits(step[w], task[w], d)
           /\ Booked(step[w], task[w], d) => Referred(d)' \/ Booked("sent", t, d)
  BY <1>1, <1>2, <1>4, <1>5 DEF Sweeps
<1>7. "sent" \in Steps
  BY DEF Steps
<1> QED BY <1>2, <1>4, <1>6, <1>7, DeliveredStays

LEMMA LogDelivered ==
  ASSUME OutTyped, Delivered, NEW w \in Threads, Log(w)
  PROVE  Delivered'
<1>1. PICK b, t : b = Doc(w) /\ t = [task[w] EXCEPT !.docs = @ \ {b}]
  OBVIOUS
<1>2. /\ step[w] \in {"sent", "error"} /\ b \in task[w].docs
      /\ Only(w, "push", t) /\ Fits("push", t)
      /\ t.docs = task[w].docs \ {b}
      /\ UNCHANGED <<refs, erp, excused>>
  BY <1>1, LogMoves
<1>3. b = First(task[w])
  BY <1>1, DocIsFirst
<1>4. \A d : /\ Sweeps("push", t, d) => Waits(step[w], task[w], d)
             /\ Waits("push", t, d) => Waits(step[w], task[w], d)
             /\ ~Booked(step[w], task[w], d)
  BY <1>2, <1>3 DEF Sweeps, Waits, Booked
<1>5. "push" \in Steps
  BY DEF Steps
<1> QED BY <1>2, <1>4, <1>5, DeliveredStays DEF Sweeps

LEMMA DiesDelivered ==
  ASSUME OutTyped, Delivered, NEW w \in Threads, SweepDies(w)
  PROVE  Delivered'
<1>1. PICK b : b = Doc(w)
  OBVIOUS
<1>2. /\ Only(w, "idle", NoTask) /\ Fits("idle", NoTask)
      /\ excused' = IF step[w] = "ref" /\ ~Referred(b) THEN excused \cup {b} ELSE excused
      /\ UNCHANGED <<refs, log, erp>>
  BY <1>1, SweepDiesMoves
<1>3. \A d \in Docs \ excused' : Booked(step[w], task[w], d) => Referred(d)
  BY <1>1, <1>2, DocIsFirst DEF Booked
<1>4. \A d : ~Sweeps("idle", NoTask, d) /\ ~Waits("idle", NoTask, d)
  BY DEF Sweeps, Waits, Booked
<1>5. "idle" \in Steps /\ refs \subseteq refs' /\ excused \subseteq excused'
  BY <1>2 DEF Steps
<1>6. \A d \in Docs \ excused' : Booked(step[w], task[w], d) => Referred(d)'
  BY <1>3, <1>5, ReferredStays
<1> QED BY <1>2, <1>4, <1>5, <1>6, DeliveredStays

LEMMA DeliveredStep ==
  ASSUME OutTyped, Runners, Delivered, Claims, [OutboundNext]_outboundVars
  PROVE  Delivered'
<1>1. ASSUME NEW w \in Threads, JobStep(w), UNCHANGED outbound PROVE Delivered'
  <2>1. PICK s, t : /\ s \in Steps /\ Only(w, s, t) /\ Fits(s, t)
                    /\ task[w].kind # "sweep" /\ t.kind # "sweep"
    BY <1>1, JobStepsMove
  <2>2. Fits(step[w], task[w])
    BY DEF OutTyped, Posts
  <2>3. \A d : ~Sweeps(step[w], task[w], d) /\ ~Sweeps(s, t, d)
    BY <2>1, <2>2, NotSwept
  <2> QED BY <1>1, <2>1, <2>3, DeliveredStays DEF outbound, Sweeps
<1>2. ASSUME NEW w \in Threads, StartSweep(w) PROVE Delivered'
  <2>1. PICK t : t = [kind |-> "sweep", type |-> "order"]
    OBVIOUS
  <2>2. /\ step[w] = "idle" /\ Only(w, "list", t) /\ Fits("list", t)
        /\ UNCHANGED <<refs, log, erp, excused>>
    BY <1>2, <2>1, StartSweepMoves
  <2>3. \A d : ~Sweeps("list", t, d) /\ ~Booked(step[w], task[w], d)
    BY <2>2 DEF Sweeps, Waits, Booked
  <2> QED BY <2>2, <2>3, DeliveredStays DEF Steps, Sweeps
<1>3. ASSUME NEW w \in Threads, EndList(w) PROVE Delivered'
  <2>1. PICK s, t : /\ s \in {"idle", "list"} /\ Only(w, s, t) /\ Fits(s, t)
                    /\ step[w] = "push" /\ UNCHANGED <<refs, log, erp, excused>>
    BY <1>3, EndListMoves
  <2>2. \A d : ~Sweeps(s, t, d) /\ ~Booked(step[w], task[w], d)
    BY <2>1 DEF Sweeps, Waits, Booked
  <2> QED BY <2>1, <2>2, DeliveredStays DEF Steps, Sweeps
<1>4. CASE Switches
  <2>1. UNCHANGED <<refs, erp, excused, step, task>>
    BY <1>4 DEF Switches
  <2> QED BY <2>1 DEF Delivered, Referred
<1> QED BY <1>1, <1>2, <1>3, <1>4, ListDelivered, PushDelivered, AddRefDelivered, LogDelivered,
        DiesDelivered, OutStepKinds DEF Sweep

\* Deliveries are kept, and what a moving thread adds or claims is one.
LEMMA ClaimsStay ==
  ASSUME OutTyped, OutTyped', Claims, NEW w \in Threads, NEW s \in Steps, NEW t,
         Only(w, s, t), Fits(s, t), \A d \in Docs : erp'[d] >= erp[d],
         \A r \in refs' \ refs : erp'[r.doc] > 0,
         \A l \in log' \ log : l.status = "sent" => erp'[l.doc] > 0,
         s \in {"ref", "sent"} => erp'[First(t)] > 0,
         \A q, r \in refs' : Type(q.doc) = Type(r.doc) /\ (q.doc = r.doc \/ q.ext = r.ext) => q = r
  PROVE  Claims'
<1>1. /\ step'[w] = s /\ task'[w] = t
      /\ \A v \in Threads \ {w} : step'[v] = step[v] /\ task'[v] = task[v]
  BY Moved DEF OutTyped
<1>2. \A d \in Docs : erp[d] > 0 => erp'[d] > 0
  BY DEF OutTyped, ErpTables
<1>3. /\ \A r \in refs : r.doc \in Docs
      /\ \A l \in log : l.doc \in Docs
  BY DEF OutTyped, ErpTables
<1>4. RefMeansDelivered'
  BY <1>2, <1>3 DEF Claims, RefMeansDelivered
<1>5. ASSUME NEW v \in Threads, step'[v] \in {"ref", "sent"}, NEW u, task'[v] = u
      PROVE  erp'[First(u)] > 0
  <2>1. CASE v = w
    BY <1>1, <1>5, <2>1
  <2>2. CASE v # w
    <3>1. step[v] \in {"ref", "sent"} /\ task[v] = u
      BY <1>1, <1>5, <2>2
    <3>2. u \in ListTask /\ u.docs # {}
      BY <3>1 DEF OutTyped, Posts, Fits
    <3>3. First(u) \in Docs /\ erp[First(u)] > 0
      BY <3>1, <3>2, FirstIn DEF Claims
    <3> QED BY <1>2, <3>3
  <2> QED BY <2>1, <2>2
<1> QED BY <1>4, <1>5 DEF Claims

LEMMA ClaimsSame ==
  ASSUME OutTyped, OutTyped', Claims, NEW w \in Threads, NEW s \in Steps, NEW t,
         Only(w, s, t), Fits(s, t), s \notin {"ref", "sent"}, UNCHANGED <<refs, log, erp>>
  PROVE  Claims'
<1>1. \A d \in Docs : erp'[d] >= erp[d]
  BY DEF OutTyped, ErpTables
<1>2. \A q, r \in refs' : Type(q.doc) = Type(r.doc) /\ (q.doc = r.doc \/ q.ext = r.ext) => q = r
  BY DEF Claims, Type
<1> QED BY <1>1, <1>2, ClaimsStay

LEMMA PushClaims ==
  ASSUME OutTyped, OutTyped', Claims, NEW w \in Threads, Push(w)
  PROVE  Claims'
<1>1. PICK b, t : b = Doc(w) /\ t = task[w]
  OBVIOUS
<1>2. PICK s \in {"ref", "error"} :
        /\ b \in Docs /\ Only(w, s, t) /\ Fits(s, t)
        /\ Book(b) \/ (erp' = erp /\ step'[w] = "error")
        /\ UNCHANGED <<refs, log>>
  BY <1>1, PushMoves
<1>3. s \in Steps /\ step'[w] = s
  <2>1. s \in Steps
    BY DEF Steps
  <2> QED BY <1>2, <2>1, Moved DEF OutTyped
<1>4. b = First(t)
  BY <1>1, DocIsFirst
<1>5. \A q, r \in refs' : Type(q.doc) = Type(r.doc) /\ (q.doc = r.doc \/ q.ext = r.ext) => q = r
  BY <1>2 DEF Claims, Type
<1>6. CASE Book(b)
  <2>1. erp'[b] > 0 /\ \A d \in Docs : erp'[d] >= erp[d]
    BY <1>2, <1>6, BookTypes DEF OutTyped
  <2> QED BY <1>2, <1>3, <1>4, <1>5, <2>1, ClaimsStay
<1>7. CASE erp' = erp /\ s = "error"
  BY <1>2, <1>3, <1>7, ClaimsSame
<1> QED BY <1>2, <1>3, <1>6, <1>7

LEMMA AddRefClaims ==
  ASSUME OutTyped, OutTyped', Claims, NEW w \in Threads, AddRef(w)
  PROVE  Claims'
<1>1. PICK b, t : b = Doc(w) /\ t = task[w]
  OBVIOUS
<1>2. PICK n : n = [doc |-> b, ext |-> ErpId[b]]
  OBVIOUS
<1>3. /\ step[w] = "ref" /\ b \in Docs /\ Only(w, "sent", t) /\ Fits("sent", t)
      /\ \/ /\ \A r \in refs : Type(r.doc) = Type(b) => r.doc # b /\ r.ext # ErpId[b]
            /\ refs' = refs \cup {n}
         \/ refs' = refs
      /\ UNCHANGED <<log, erp>>
  BY <1>1, <1>2, AddRefMoves
<1>4. b = First(t) /\ "sent" \in Steps
  BY <1>1, DocIsFirst DEF Steps
<1>5. erp[b] > 0
  BY <1>1, <1>3, <1>4 DEF Claims
<1>6. n.doc = b /\ n.ext = ErpId[b]
  BY <1>2
<1>7. \A q, r \in refs : Type(q.doc) = Type(r.doc) /\ (q.doc = r.doc \/ q.ext = r.ext) => q = r
  BY DEF Claims
<1>8. \A q, r \in refs' : Type(q.doc) = Type(r.doc) /\ (q.doc = r.doc \/ q.ext = r.ext) => q = r
  <2>1. CASE refs' = refs
    BY <1>7, <2>1 DEF Type
  <2>2. CASE /\ \A r \in refs : Type(r.doc) = Type(b) => r.doc # b /\ r.ext # ErpId[b]
             /\ refs' = refs \cup {n}
    BY <1>6, <1>7, <2>2 DEF Type
  <2> QED BY <1>3, <2>1, <2>2
<1>9. \A d \in Docs : erp'[d] >= erp[d]
  BY <1>3 DEF OutTyped, ErpTables
<1>10. /\ \A r \in refs' \ refs : erp'[r.doc] > 0
       /\ erp'[First(t)] > 0
  BY <1>3, <1>4, <1>5, <1>6
<1> QED BY <1>3, <1>4, <1>8, <1>9, <1>10, ClaimsStay

LEMMA LogClaims ==
  ASSUME OutTyped, OutTyped', Claims, NEW w \in Threads, Log(w)
  PROVE  Claims'
<1>1. PICK b, t, n : /\ b = Doc(w) /\ t = [task[w] EXCEPT !.docs = @ \ {b}]
                     /\ n = [doc |-> b, status |-> step[w]]
  OBVIOUS
<1>2. /\ step[w] \in {"sent", "error"} /\ Only(w, "push", t) /\ Fits("push", t)
      /\ log' = log \/ log' = log \cup {n}
      /\ UNCHANGED <<refs, erp>>
  BY <1>1, LogMoves
<1>3. step[w] = "sent" => erp[b] > 0
  BY <1>1, DocIsFirst DEF Claims
<1>4. \A l \in log' \ log : l.status = "sent" => erp'[l.doc] > 0
  BY <1>1, <1>2, <1>3
<1>5. \A d \in Docs : erp'[d] >= erp[d]
  BY <1>2 DEF OutTyped, ErpTables
<1>6. \A q, r \in refs' : Type(q.doc) = Type(r.doc) /\ (q.doc = r.doc \/ q.ext = r.ext) => q = r
  BY <1>2 DEF Claims, Type
<1>7. "push" \in Steps /\ refs' \ refs = {}
  BY <1>2 DEF Steps
<1> QED BY <1>2, <1>4, <1>5, <1>6, <1>7, ClaimsStay

LEMMA ClaimsStep ==
  ASSUME OutTyped, OutTyped', Runners, Claims, [OutboundNext]_outboundVars
  PROVE  Claims'
<1>1. ASSUME NEW w \in Threads, JobStep(w), UNCHANGED outbound PROVE Claims'
  <2>1. PICK s, t : /\ s \in Steps /\ Only(w, s, t) /\ Fits(s, t) /\ t.kind # "sweep"
    BY <1>1, JobStepsMove
  <2>2. s \notin {"ref", "sent"}
    BY <2>1, KindOf
  <2> QED BY <1>1, <2>1, <2>2, ClaimsSame DEF outbound
<1>2. ASSUME NEW w \in Threads, StartSweep(w) PROVE Claims'
  <2>1. PICK t : t = [kind |-> "sweep", type |-> "order"]
    OBVIOUS
  <2>2. Only(w, "list", t) /\ Fits("list", t) /\ UNCHANGED <<refs, log, erp>>
    BY <1>2, <2>1, StartSweepMoves
  <2> QED BY <2>2, ClaimsSame DEF Steps
<1>3. ASSUME NEW w \in Threads, List(w) PROVE Claims'
  <2>1. PICK t : Only(w, "push", t) /\ Fits("push", t) /\ UNCHANGED <<refs, log, erp>>
    BY <1>3, ListMoves
  <2> QED BY <2>1, ClaimsSame DEF Steps
<1>4. ASSUME NEW w \in Threads, EndList(w) PROVE Claims'
  <2>1. PICK s, t : /\ s \in {"idle", "list"} /\ Only(w, s, t) /\ Fits(s, t)
                    /\ UNCHANGED <<refs, log, erp>>
    BY <1>4, EndListMoves
  <2> QED BY <2>1, ClaimsSame DEF Steps
<1>5. ASSUME NEW w \in Threads, SweepDies(w) PROVE Claims'
  <2>1. Only(w, "idle", NoTask) /\ Fits("idle", NoTask) /\ UNCHANGED <<refs, log, erp>>
    BY <1>5, SweepDiesMoves
  <2> QED BY <2>1, ClaimsSame DEF Steps
<1>6. CASE Switches
  <2>1. UNCHANGED <<refs, log, erp, step, task>>
    BY <1>6 DEF Switches
  <2> QED BY <2>1 DEF Claims, RefMeansDelivered, Type
<1> QED BY <1>1, <1>2, <1>3, <1>4, <1>5, <1>6, PushClaims, AddRefClaims, LogClaims, OutStepKinds DEF Sweep

-----------------------------------------------------------------------------
(* The invariant, and what it says.                                        *)

OutInv ==
  /\ OutTyped /\ active \in BOOLEAN
  /\ Runners /\ Rooted /\ Counted /\ Dropped /\ Delivered /\ Claims

LEMMA OutInvHolds == OutboundSpec => []OutInv
<1>1. OutboundInit => OutInv
  <2>1. OutboundInit => active \in BOOLEAN
    BY OutboundAssumption DEF OutboundInit, AutomationInit
  <2> QED BY <2>1, OutInitTypes, OutInitRunners, OutInitCounted, OutInitDropped, OutInitDelivered
       DEF OutInv
<1>2. OutInv /\ [OutboundNext]_outboundVars => OutInv'
  <2> SUFFICES ASSUME OutInv, [OutboundNext]_outboundVars PROVE OutInv'
    OBVIOUS
  <2> USE DEF OutInv
  <2>1. OutTyped' /\ Runners' /\ Rooted'
    BY OutTypedStep, OutRunnersStep, RootedStep
  <2>2. Counted' /\ Dropped' /\ Delivered' /\ Claims'
    BY <2>1, CountedStep, DroppedStep, DeliveredStep, ClaimsStep
  <2>3. active' \in BOOLEAN
    <3>1. active' = active \/ active' = ~active
      BY DEF OutboundNext, Work, Request, Sweep, StartSweep, List, Push, AddRef, Log, EndList,
             SweepDies, SwitchConnection, Resting, outboundVars, outbound
    <3> QED BY <3>1
  <2> QED BY <2>1, <2>2, <2>3
<1> QED BY <1>1, <1>2, PTL DEF OutboundSpec

\* One worker for a job that runs, and none for another.
LEMMA WorkersOf ==
  ASSUME Runners, NEW j \in DOMAIN job
  PROVE  Cardinality({w \in Threads : task[w].kind = "job" /\ task[w].job = j}) =
           IF job[j].status = "running" THEN 1 ELSE 0
<1> DEFINE S == {w \in Threads : task[w].kind = "job" /\ task[w].job = j}
<1>1. CASE job[j].status = "running"
  <2>1. PICK w \in Threads : task[w].kind = "job" /\ task[w].job = j
    BY <1>1 DEF Runners
  <2>2. S = {w}
    BY <2>1 DEF Runners
  <2>3. Cardinality({w}) = 1
    BY FS_Singleton
  <2> QED BY <1>1, <2>2, <2>3
<1>2. CASE job[j].status # "running"
  <2>1. S = {}
    BY <1>2 DEF Runners, Runs
  <2> QED BY <1>2, <2>1, FS_EmptySet
<1> QED BY <1>1, <1>2

LEMMA OutInvTypes ==
  ASSUME OutInv
  PROVE  OutboundType
<1>1. \A j \in DOMAIN job :
        /\ job[j].status \in {"available", "running", "completed"} /\ job[j].runs \in Nat
        /\ IF j \in Dispatches THEN job[j].to \in States /\ job[j].listed \subseteq Rules
           ELSE job[j].event \in Dispatches /\ job[j].nth \in 1..ActionsOf[job[j].rule]
  <2>1. \A j \in DOMAIN job : job[j].status \in {"available", "running", "completed"}
    BY RowKinds DEF OutInv, JobRow, DispatchRow, ActionRow, JobStatuses
  <2>2. \A j \in Dispatches : job[j].to \in States /\ job[j].listed \subseteq Rules
    BY RowKinds DEF OutInv, DispatchRow
  <2>3. \A j \in DOMAIN job \ Dispatches :
          job[j].event \in Dispatches /\ job[j].nth \in 1..ActionsOf[job[j].rule]
    BY RowKinds DEF OutInv, Rooted
  <2> QED BY <2>1, <2>2, <2>3, RunsNat DEF OutInv
<1>2. \A j \in DOMAIN job :
        Cardinality({w \in Threads : task[w].kind = "job" /\ task[w].job = j}) =
          IF job[j].status = "running" THEN 1 ELSE 0
  BY WorkersOf DEF OutInv
<1>3. executions \in Seq([event : Dispatches, rule : Rules, status : {"ok", "error"}])
  <2>1. executions \in Seq(ExecutionRow)
    BY DEF OutInv, OutTyped, JobTables
  <2> DEFINE Row == [event : Dispatches, rule : Rules, status : {"ok", "error"}]
  <2>2. ASSUME NEW i \in DOMAIN executions PROVE executions[i] \in Row
    <3>1. executions[i] \in ExecutionRow /\ executions[i].event \in Dispatches
      BY <2>1 DEF OutInv, Rooted
    <3> QED BY <3>1 DEF ExecutionRow
  <2>3. Len(executions) \in Nat /\ DOMAIN executions = 1..Len(executions)
        /\ executions \in [1..Len(executions) -> ExecutionRow]
    BY <2>1
  <2> HIDE DEF Row
  <2>4. executions \in [1..Len(executions) -> Row]
    BY <2>2, <2>3
  <2>5. executions \in Seq(Row)
    BY <2>3, <2>4, SeqDef
  <2> QED BY <2>5 DEF Row
<1>4. AutomationType
  BY <1>1, <1>2, <1>3 DEF AutomationType, OutInv, OutTyped, JobTables
<1> QED BY <1>4 DEF OutboundType, OutInv, OutTyped, ErpTables, Claims

LEMMA OutInvCounts ==
  ASSUME OutInv
  PROVE  RepeatsHaveReasons
<1>1. RepeatedOnlyByRetry
  <2>1. \A j \in Dispatches, r \in Rules : \A k \in 1..ActionsOf[r] :
          Cardinality({a \in ActionJobs(j, r) : job[a].nth = k}) <= job[j].runs
    BY DEF OutInv, Counted, Times, Taken
  <2>2. \A a \in DOMAIN job \ Dispatches : job[a].mails <= job[a].runs
    BY RowKinds DEF OutInv, Counted
  <2> QED BY <2>1, <2>2 DEF RepeatedOnlyByRetry
<1>2. DeliveredAgainOnlyIfUnrecorded
  <2>1. \A d \in Docs : erp[d] \in 0..2
    BY DEF OutInv, OutTyped, ErpTables
  <2> QED BY <2>1 DEF OutInv, Delivered, DeliveredAgainOnlyIfUnrecorded
<1> QED BY <1>1, <1>2 DEF RepeatsHaveReasons

(* Under any interleaving, failure or death, the tables keep their shape,  *)
(* what a reference or a log claims is in the ERP is there, and a rule     *)
(* whose action could not be enqueued is in the execution log              *)
(* (pushEntity, Emit).                                                     *)
THEOREM OutboundRecordsAlwaysTrue == OutboundSpec => []RecordsAreTrue
<1>1. OutInv => RecordsAreTrue
  BY OutInvTypes DEF OutInv, Claims, Dropped, RecordsAreTrue
<1> QED BY <1>1, OutInvHolds, PTL

(* An action is taken, and mails, at most once per run of its job; the ERP *)
(* books a document again only if the record of a delivery was lost or     *)
(* two sweeps had it listed at once (AutomationDispatchWorker, Sweep).     *)
THEOREM OutboundRepeatsAlwaysHaveReasons == OutboundSpec => []RepeatsHaveReasons
<1>1. OutInv => RepeatsHaveReasons
  BY OutInvCounts
<1> QED BY <1>1, OutInvHolds, PTL

=============================================================================
