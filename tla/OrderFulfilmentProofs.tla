------------------------ MODULE OrderFulfilmentProofs ------------------------
(***************************************************************************)
(* For every set of workers, orders, products, warehouses and requests:    *)
(* the types, the agreement of stock and ledger, of status columns and     *)
(* workflow instances, the approval rule, the movements that each order    *)
(* and shipment may cause, and the bounds on what overlapping requests can *)
(* ship or reserve too much are invariants of the specification.           *)
(***************************************************************************)
EXTENDS OrderFulfilment, SumTheorems, SequenceTheorems

(***************************************************************************)
(* What each statement and transaction end of Inventory preserves.  The    *)
(* ledger agrees with the cache because the uncommitted effects of every   *)
(* transaction agree with its uncommitted movements (DeltasAgree), and a   *)
(* row's effects belong to the holder of its lock (UncommittedUnderLock).  *)
(***************************************************************************)
DeltasAgree ==
  \A w \in Workers, k \in Keys :
    /\ dReserved[w][k] = ReservedOf(dMoved[w][k])
    /\ dOnHand[w][k] = OnHandOf(dMoved[w][k])

StockInv == StockType /\ LedgerAgrees /\ DeltasAgree /\ UncommittedUnderLock

(* The tables of a fresh stock, filled by receipts, agree.                 *)
LEMMA StockInitInv == StockInit => StockInv
<1> SUFFICES ASSUME StockInit PROVE StockInv
  OBVIOUS
<1>1. StockType
  BY InventoryAssumption DEF StockInit, StockType, NoDelta, NoMove, MoveTypes
<1>2. LedgerAgrees
  BY InventoryAssumption DEF StockInit, LedgerAgrees, NoDelta, ReservedOf, OnHandOf, MoveTypes
<1>3. DeltasAgree
  BY DEF StockInit, DeltasAgree, NoDelta, NoMove, ReservedOf, OnHandOf, MoveTypes
<1>4. UncommittedUnderLock
  BY DEF StockInit, UncommittedUnderLock, NoDelta, NoMove
<1> QED
  BY <1>1, <1>2, <1>3, <1>4 DEF StockInv

(* A statement whose movement has the effect it makes keeps them together. *)
LEMMA AdjustAndLogInv ==
  ASSUME StockInv, NEW w \in Workers, NEW k \in Keys, NEW type \in MoveTypes,
         NEW on \in Int, NEW res \in Int, NEW q \in Int,
         on = IF type \in {"receipt", "adjustment", "return", "fulfillment"} THEN q ELSE 0,
         res = IF type \in {"reservation", "fulfillment"} THEN q ELSE 0,
         type # "release",
         AdjustAndLog(w, k, on, res, type, q)
  PROVE  StockInv'
<1> USE DEF StockInv, AdjustAndLog, committed
<1>1. StockType'
  BY DEF StockType
<1>2. LedgerAgrees'
  BY DEF LedgerAgrees
<1>3. DeltasAgree'
  <2> SUFFICES ASSUME NEW v \in Workers, NEW j \in Keys
               PROVE  /\ dReserved'[v][j] = ReservedOf(dMoved'[v][j])
                      /\ dOnHand'[v][j] = OnHandOf(dMoved'[v][j])
    BY DEF DeltasAgree
  <2>1. CASE v = w /\ j = k
    <3>1. /\ dMoved'[v][j] = [dMoved[v][j] EXCEPT ![type] = @ + q]
          /\ dReserved'[v][j] = dReserved[v][j] + res
          /\ dOnHand'[v][j] = dOnHand[v][j] + on
      BY <2>1 DEF StockType
    <3>2. dMoved[v][j] \in [MoveTypes -> Int]
      BY DEF StockType
    <3>3. /\ dReserved[v][j] = ReservedOf(dMoved[v][j])
          /\ dOnHand[v][j] = OnHandOf(dMoved[v][j])
      BY DEF DeltasAgree
    <3> QED
      BY <3>1, <3>2, <3>3 DEF ReservedOf, OnHandOf, MoveTypes
  <2>2. CASE ~(v = w /\ j = k)
    <3>1. /\ dMoved'[v][j] = dMoved[v][j]
          /\ dReserved'[v][j] = dReserved[v][j]
          /\ dOnHand'[v][j] = dOnHand[v][j]
      BY <2>2 DEF StockType
    <3> QED
      BY <3>1 DEF DeltasAgree
  <2> QED
    BY <2>1, <2>2
<1>4. UncommittedUnderLock'
  <2> SUFFICES ASSUME NEW v \in Workers, NEW j \in Keys, rowLock'[j] # v
               PROVE  /\ dOnHand'[v][j] = 0 /\ dReserved'[v][j] = 0
                      /\ dMoved'[v][j] = NoMove[j]
    BY DEF UncommittedUnderLock
  <2>1. ~(v = w /\ j = k)
    BY DEF StockType
  <2>2. rowLock[j] # v
    BY <2>1, InventoryAssumption DEF StockType, CanLock
  <2>3. /\ dMoved'[v][j] = dMoved[v][j]
        /\ dReserved'[v][j] = dReserved[v][j]
        /\ dOnHand'[v][j] = dOnHand[v][j]
    BY <2>1 DEF StockType
  <2> QED
    BY <2>2, <2>3 DEF UncommittedUnderLock
<1> QED
  BY <1>1, <1>2, <1>3, <1>4

LEMMA ReserveLineInv ==
  ASSUME StockInv, NEW w \in Workers, NEW k \in Keys, NEW q \in Nat, ReserveLine(w, k, q)
  PROVE  StockInv'
<1>1. AdjustAndLog(w, k, 0, q, "reservation", q) /\ "reservation" \in MoveTypes
  BY DEF ReserveLine, MoveTypes
<1> QED
  BY <1>1, AdjustAndLogInv

LEMMA FulfilLineInv ==
  ASSUME StockInv, NEW w \in Workers, NEW k \in Keys, NEW q \in Nat, FulfilLine(w, k, q)
  PROVE  StockInv'
<1>1. AdjustAndLog(w, k, -q, -q, "fulfillment", -q) /\ "fulfillment" \in MoveTypes /\ -q \in Int
  BY DEF FulfilLine, MoveTypes
<1> QED
  BY <1>1, AdjustAndLogInv

(* What the end of a transaction leaves in flight: the other transactions. *)
LEMMA ReleaseInv ==
  ASSUME StockInv, NEW w \in Workers, Release(w)
  PROVE  /\ rowLock' \in [Keys -> Workers \cup {NoWorker}]
         /\ dOnHand' \in [Workers -> [Keys -> Int]]
         /\ dReserved' \in [Workers -> [Keys -> Int]]
         /\ dMoved' \in [Workers -> [Keys -> [MoveTypes -> Int]]]
         /\ DeltasAgree'
         /\ UncommittedUnderLock'
<1> USE DEF StockInv, Release
<1>1. NoDelta \in [Keys -> Int] /\ NoMove \in [Keys -> [MoveTypes -> Int]]
  BY DEF NoDelta, NoMove
<1>2. \A v \in Workers : v # w => /\ dOnHand'[v] = dOnHand[v]
                                  /\ dReserved'[v] = dReserved[v]
                                  /\ dMoved'[v] = dMoved[v]
  BY DEF StockType
<1>3. dOnHand'[w] = NoDelta /\ dReserved'[w] = NoDelta /\ dMoved'[w] = NoMove
  BY DEF StockType
<1>4. DeltasAgree'
  <2> SUFFICES ASSUME NEW v \in Workers, NEW j \in Keys
               PROVE  /\ dReserved'[v][j] = ReservedOf(dMoved'[v][j])
                      /\ dOnHand'[v][j] = OnHandOf(dMoved'[v][j])
    BY DEF DeltasAgree
  <2>1. CASE v = w
    BY <2>1, <1>3 DEF NoDelta, NoMove, ReservedOf, OnHandOf, MoveTypes
  <2>2. CASE v # w
    BY <2>2, <1>2 DEF DeltasAgree
  <2> QED
    BY <2>1, <2>2
<1>5. UncommittedUnderLock'
  <2> SUFFICES ASSUME NEW v \in Workers, NEW j \in Keys, rowLock'[j] # v
               PROVE  /\ dOnHand'[v][j] = 0 /\ dReserved'[v][j] = 0
                      /\ dMoved'[v][j] = NoMove[j]
    BY DEF UncommittedUnderLock
  <2>1. CASE v = w
    BY <2>1, <1>3 DEF NoDelta
  <2>2. CASE v # w
    <3>1. rowLock[j] # v
      BY <2>2 DEF StockType
    <3> QED
      BY <3>1, <2>2, <1>2 DEF UncommittedUnderLock
  <2> QED
    BY <2>1, <2>2
<1>6. /\ rowLock' \in [Keys -> Workers \cup {NoWorker}]
      /\ dOnHand' \in [Workers -> [Keys -> Int]]
      /\ dReserved' \in [Workers -> [Keys -> Int]]
      /\ dMoved' \in [Workers -> [Keys -> [MoveTypes -> Int]]]
  BY <1>1 DEF StockType
<1> QED
  BY <1>4, <1>5, <1>6

LEMMA CommitStockInv ==
  ASSUME StockInv, NEW w \in Workers, CommitStock(w)
  PROVE  StockInv'
<1>1. Release(w)
  BY DEF CommitStock
<1>2. StockType'
  BY <1>1, ReleaseInv DEF CommitStock, StockType, StockInv
<1>3. LedgerAgrees'
  <2> SUFFICES ASSUME NEW k \in Keys
               PROVE  /\ reserved'[k] = ReservedOf(moved'[k])
                      /\ k \notin erpWritten' => onHand'[k] = OnHandOf(moved'[k])
    BY DEF LedgerAgrees
  <2>1. /\ reserved'[k] = reserved[k] + dReserved[w][k]
        /\ onHand'[k] = onHand[k] + dOnHand[w][k]
        /\ moved'[k] = [t \in MoveTypes |-> moved[k][t] + dMoved[w][k][t]]
        /\ erpWritten' = erpWritten
    BY DEF CommitStock
  <2>2. moved[k] \in [MoveTypes -> Int] /\ dMoved[w][k] \in [MoveTypes -> Int]
    BY DEF StockInv, StockType
  <2>3. /\ reserved[k] = ReservedOf(moved[k])
        /\ k \notin erpWritten => onHand[k] = OnHandOf(moved[k])
        /\ dReserved[w][k] = ReservedOf(dMoved[w][k])
        /\ dOnHand[w][k] = OnHandOf(dMoved[w][k])
    BY DEF StockInv, LedgerAgrees, DeltasAgree
  <2> QED
    BY <2>1, <2>2, <2>3 DEF ReservedOf, OnHandOf, MoveTypes
<1> QED
  BY <1>1, <1>2, <1>3, ReleaseInv DEF StockInv

LEMMA RollbackStockInv ==
  ASSUME StockInv, NEW w \in Workers, RollbackStock(w)
  PROVE  StockInv'
<1>1. Release(w) /\ UNCHANGED committed
  BY DEF RollbackStock
<1>2. StockType'
  BY <1>1, ReleaseInv DEF committed, StockType, StockInv
<1>3. LedgerAgrees'
  BY <1>1 DEF committed, LedgerAgrees, StockInv
<1> QED
  BY <1>1, <1>2, <1>3, ReleaseInv DEF StockInv

LEMMA AdjustInv ==
  ASSUME StockInv, NEW k \in Keys, NEW type, NEW q \in Int, Adjust(k, type, q)
  PROVE  StockInv'
<1> USE DEF StockInv, Adjust, inFlight
<1>1. type \in MoveTypes /\ type \in {"receipt", "return", "adjustment"}
  BY DEF MoveTypes
<1>2. StockType'
  BY <1>1 DEF StockType
<1>3. LedgerAgrees'
  <2> SUFFICES ASSUME NEW j \in Keys
               PROVE  /\ reserved'[j] = ReservedOf(moved'[j])
                      /\ j \notin erpWritten' => onHand'[j] = OnHandOf(moved'[j])
    BY DEF LedgerAgrees
  <2>1. CASE j = k
    <3>1. /\ moved'[j] = [moved[j] EXCEPT ![type] = @ + q]
          /\ onHand'[j] = onHand[j] + q
          /\ reserved'[j] = reserved[j] /\ erpWritten' = erpWritten
      BY <2>1 DEF StockType
    <3>2. moved[j] \in [MoveTypes -> Int] /\ onHand[j] \in Int
      BY DEF StockType
    <3>3. /\ reserved[j] = ReservedOf(moved[j])
          /\ j \notin erpWritten => onHand[j] = OnHandOf(moved[j])
      BY DEF LedgerAgrees
    <3> QED
      BY <1>1, <3>1, <3>2, <3>3 DEF ReservedOf, OnHandOf, MoveTypes
  <2>2. CASE j # k
    BY <2>2 DEF LedgerAgrees, StockType
  <2> QED
    BY <2>1, <2>2
<1>4. DeltasAgree' /\ UncommittedUnderLock'
  BY DEF DeltasAgree, UncommittedUnderLock
<1> QED
  BY <1>2, <1>3, <1>4

LEMMA SetLevelConfigInv ==
  ASSUME StockInv, NEW k \in Keys, NEW allow, SetLevelConfig(k, allow)
  PROVE  StockInv'
BY DEF SetLevelConfig, StockInv, StockType, LedgerAgrees, DeltasAgree,
       UncommittedUnderLock, inFlight

LEMMA SetInventoryOnHandInv ==
  ASSUME StockInv, NEW k \in Keys, NEW q \in Int, SetInventoryOnHand(k, q)
  PROVE  StockInv'
<1> USE DEF SetInventoryOnHand, StockInv, inFlight
<1>1. StockType'
  BY DEF StockType
<1>2. LedgerAgrees'
  BY DEF LedgerAgrees, StockType
<1>3. DeltasAgree' /\ UncommittedUnderLock'
  BY DEF DeltasAgree, UncommittedUnderLock
<1> QED
  BY <1>1, <1>2, <1>3

LEMMA StockUnchanged ==
  ASSUME StockInv, UNCHANGED stockVars
  PROVE  StockInv'
BY DEF stockVars, StockInv, StockType, LedgerAgrees, DeltasAgree, UncommittedUnderLock

-----------------------------------------------------------------------------
(* The orders, shipments and workflow instances over that stock.           *)

InTx == {"begin", "line", "adjust"}

\* The items of a shipment, or of one about to be inserted, are lines of its order.
PackedLinesExist ==
  /\ \A s \in Shipments : \A i \in DOMAIN shipment[s].items :
       /\ shipment[s].order \in Orders
       /\ shipment[s].items[i].line \in DOMAIN Lines[shipment[s].order]
  /\ \A w \in Workers : pc[w] = "pack" => \A i \in DOMAIN req[w].items :
       req[w].items[i].line \in DOMAIN Lines[req[w].order]

\* What StatusFollowsInstance needs of requests that have read a status but
\* not resolved an instance yet, and of shipments that do not exist.
SyncInv ==
  /\ StatusFollowsInstance
  /\ \A e \in Entities : status[e] = NoState => inst[e] = NoState
  /\ \A w \in Workers : pc[w] = "resolve" =>
       /\ status[req[w].ent] # NoState
       /\ req[w].ent \notin decided /\ inst[req[w].ent] = NoState
            => status[req[w].ent] = req[w].seen

\* What the guards established before BEGIN still holds of the request.
ApprovalInv ==
  /\ OverLimitNeedsApproval
  /\ \A w \in Workers :
       pc[w] \in InTx /\ req[w].ent \in OverLimit /\ req[w].to = "confirmed"
         => req[w].approve

(* A function on 1..n is a sequence.                                       *)
LEMMA FunctionIsSeq ==
  ASSUME NEW S, NEW n \in Nat, NEW f \in [1..n -> S]
  PROVE  f \in Seq(S)
BY SeqDef

(* The lines a commit hook walks are stock lines: rows and quantities.     *)
LEMMA HookLinesType ==
  ASSUME TypeOK, PackedLinesExist, NEW e \in Entities, NEW to \in States
  PROVE  HookLines(e, to) \in StockLines
<1> DEFINE Row == [key : Keys, qty : Nat]
<1>1. CASE e \in Orders /\ to = "confirmed"
  <2> DEFINE L == [i \in DOMAIN Lines[e] |->
            [key |-> <<Lines[e][i].product, DefaultWh>>, qty |-> Lines[e][i].qty]]
  <2>1. Lines[e] \in Seq([product : Products, qty : Nat])
    BY <1>1, FulfilmentAssumption
  <2>2. DOMAIN Lines[e] = 1..Len(Lines[e]) /\ Len(Lines[e]) \in Nat
    BY <2>1, LenProperties
  <2>3. ASSUME NEW i \in 1..Len(Lines[e])
        PROVE  [key |-> <<Lines[e][i].product, DefaultWh>>, qty |-> Lines[e][i].qty] \in Row
    <3>1. Lines[e][i] \in [product : Products, qty : Nat]
      BY <2>1, ElementOfSeq
    <3>2. <<Lines[e][i].product, DefaultWh>> \in Keys
      BY <3>1, InventoryAssumption DEF Keys
    <3> QED
      BY <3>1, <3>2
  <2>4. L \in [1..Len(Lines[e]) -> Row]
    BY <2>2, <2>3
  <2>5. L \in StockLines
    BY <2>2, <2>4, FunctionIsSeq DEF StockLines
  <2> QED
    BY <1>1, <2>5 DEF HookLines
<1>2. CASE e \in Shipments /\ to = "shipped"
  <2> DEFINE s == shipment[e]
             L == [i \in DOMAIN s.items |->
                     [key |-> <<Lines[s.order][s.items[i].line].product, s.wh>>,
                      qty |-> s.items[i].qty]]
  <2>1. s.items \in Seq([line : Nat, qty : Nat]) /\ s.wh \in Warehouses
    <3>1. s.items \in Packings \cup {<<>>} /\ s.wh \in Warehouses
      BY <1>2 DEF TypeOK, TablesType, ShipmentRow
    <3>2. <<>> \in Seq([line : Nat, qty : Nat])
      BY EmptySeq
    <3> QED
      BY <3>1, <3>2, FulfilmentAssumption
  <2>2. DOMAIN s.items = 1..Len(s.items) /\ Len(s.items) \in Nat
    BY <2>1, LenProperties
  <2>3. ASSUME NEW i \in 1..Len(s.items)
        PROVE  [key |-> <<Lines[s.order][s.items[i].line].product, s.wh>>,
                qty |-> s.items[i].qty] \in Row
    <3>1. s.order \in Orders /\ s.items[i].line \in DOMAIN Lines[s.order]
      BY <1>2, <2>2 DEF PackedLinesExist
    <3>2. Lines[s.order] \in Seq([product : Products, qty : Nat])
      BY <3>1, FulfilmentAssumption
    <3>3. s.items[i].line \in 1..Len(Lines[s.order])
      BY <3>1, <3>2, LenProperties
    <3>4. Lines[s.order][s.items[i].line] \in [product : Products, qty : Nat]
      BY <3>2, <3>3, ElementOfSeq
    <3>5. s.items[i] \in [line : Nat, qty : Nat]
      BY <2>1, ElementOfSeq
    <3>6. <<Lines[s.order][s.items[i].line].product, s.wh>> \in Keys
      BY <2>1, <3>4 DEF Keys
    <3> QED
      BY <3>5, <3>6
  <2>4. L \in [1..Len(s.items) -> Row]
    BY <2>2, <2>3
  <2>5. L \in StockLines
    BY <2>2, <2>4, FunctionIsSeq DEF StockLines
  <2>6. ~(e \in Orders /\ to = "confirmed")
    BY <1>2, FulfilmentAssumption
  <2> QED
    BY <1>2, <2>5, <2>6 DEF HookLines
<1>3. CASE ~(e \in Orders /\ to = "confirmed") /\ ~(e \in Shipments /\ to = "shipped")
  BY <1>3, EmptySeq DEF HookLines, StockLines
<1> QED
  BY <1>1, <1>2, <1>3

(* Moving one worker to a stage with a request that fits it.               *)
LEMMA MoveWorker ==
  ASSUME WorkersType, NEW w \in Workers, NEW label \in Stages, NEW r \in AnyRequest,
         RequestFits(label, r),
         pc' = [pc EXCEPT ![w] = label], req' = [req EXCEPT ![w] = r],
         started' \in Nat
  PROVE  WorkersType'
<1>1. pc' \in [Workers -> Stages] /\ req' \in [Workers -> AnyRequest]
  BY DEF WorkersType
<1>2. \A v \in Workers : RequestFits(pc'[v], req'[v])
  BY DEF WorkersType
<1> QED
  BY <1>1, <1>2 DEF WorkersType

LEMMA DoneWorker ==
  ASSUME WorkersType, NEW w \in Workers, Done(w), started' \in Nat
  PROVE  WorkersType'
<1>1. NoReq \in AnyRequest /\ RequestFits("idle", NoReq) /\ "idle" \in Stages
  BY DEF AnyRequest, RequestFits, Stages
<1> QED
  BY <1>1, MoveWorker DEF Done, Goto

LEMMA ArriveWorker ==
  ASSUME WorkersType, NEW w \in Workers, NEW label \in Stages, NEW r \in AnyRequest,
         RequestFits(label, r), Arrive(w, label, r)
  PROVE  WorkersType'
<1>1. started' \in Nat
  BY DEF WorkersType, Arrive
<1> QED
  BY <1>1, MoveWorker DEF Arrive, Goto

(* The next line of a transaction is a row and a quantity.                 *)
LEMMA HeadLine ==
  ASSUME TypeOK, NEW w \in Workers, pc[w] \in {"line", "adjust"}, req[w].todo # <<>>
  PROVE  /\ req[w] \in StatusRequest
         /\ Head(req[w].todo).key \in Keys /\ Head(req[w].todo).qty \in Nat
         /\ Tail(req[w].todo) \in StockLines
<1>1. req[w] \in StatusRequest
  BY DEF TypeOK, WorkersType, RequestFits
<1>2. req[w].todo \in Seq([key : Keys, qty : Nat])
  BY <1>1 DEF StatusRequest, StockLines
<1>3. Head(req[w].todo) \in [key : Keys, qty : Nat] /\ Tail(req[w].todo) \in StockLines
  BY <1>2, HeadTailProperties DEF StockLines
<1> QED
  BY <1>1, <1>3

-----------------------------------------------------------------------------
(* Every step keeps the stock's invariant.                                 *)
LEMMA StockStep ==
  ASSUME TypeOK, StockInv, [Next]_vars
  PROVE  StockInv'
<1>1. CASE UNCHANGED stockVars
  BY <1>1, StockUnchanged
<1>2. ASSUME NEW w \in Workers, Rollback(w) PROVE StockInv'
  BY <1>2, RollbackStockInv DEF Rollback
<1>3. ASSUME NEW w \in Workers, Serve(w) PROVE StockInv'
  <2>1. CASE AdjustLine(w)
    <3> DEFINE line == Head(req[w].todo)
    <3>1. req[w].todo # <<>>
      BY <2>1 DEF AdjustLine, TypeOK, WorkersType, RequestFits
    <3>2. line.key \in Keys /\ line.qty \in Nat
      BY <2>1, <3>1, HeadLine DEF AdjustLine
    <3>3. CASE req[w].ent \in Orders
      BY <2>1, <3>2, <3>3, ReserveLineInv DEF AdjustLine
    <3>4. CASE req[w].ent \notin Orders
      BY <2>1, <3>2, <3>4, FulfilLineInv DEF AdjustLine
    <3> QED
      BY <3>3, <3>4
  <2>2. CASE CommitTransition(w)
    BY <2>2, CommitStockInv DEF CommitTransition
  <2>3. CASE ErpApply(w)
    <3>1. req[w] \in ErpRequest
      BY <2>3 DEF ErpApply, TypeOK, WorkersType, RequestFits
    <3>2. <<req[w].event.product, DefaultWh>> \in Keys /\ req[w].event.qty \in Int
      BY <3>1, FulfilmentAssumption, InventoryAssumption DEF ErpRequest, Keys
    <3> QED
      BY <2>3, <3>2, SetInventoryOnHandInv DEF ErpApply
  <2>4. CASE ReadLevel(w)
    BY <2>4, <1>1, <1>2 DEF ReadLevel
  <2>5. CASE DeadlockVictim(w)
    BY <2>5, <1>2 DEF DeadlockVictim
  <2>6. CASE Resolve(w) \/ Begin(w) \/ CreateShipment(w) \/ DecideOrder(w) \/ ErpRecord(w)
    BY <2>6, <1>1 DEF Resolve, Begin, CreateShipment, DecideOrder, ErpRecord
  <2> QED
    BY <1>3, <2>1, <2>2, <2>3, <2>4, <2>5, <2>6 DEF Serve
<1>4. ASSUME NEW w \in Workers, Receive(w) PROVE StockInv'
  BY <1>4, <1>1 DEF Receive, LoadEntity, PackShipment, LoadHeldOrder, ErpInbound
<1>5. ASSUME NEW w \in Workers, Fail(w) PROVE StockInv'
  BY <1>5, <1>2 DEF Fail
<1>6. CASE Correct
  <2>1. PICK c \in Corrections : Adjust(c.key, c.type, c.qty)
    BY <1>6 DEF Correct
  <2>2. c.key \in Keys /\ c.qty \in Int
    BY FulfilmentAssumption
  <2> QED
    BY <2>1, <2>2, AdjustInv
<1>7. CASE Configure
  <2>1. PICK c \in Configs : SetLevelConfig(c.key, c.allow)
    BY <1>7 DEF Configure
  <2>2. c.key \in Keys
    BY FulfilmentAssumption
  <2> QED
    BY <2>1, <2>2, SetLevelConfigInv
<1>8. CASE Rest \/ UNCHANGED vars
  BY <1>8, <1>1 DEF Rest, vars
<1> QED
  BY <1>3, <1>4, <1>5, <1>6, <1>7, <1>8 DEF Next

-----------------------------------------------------------------------------
(* Every step keeps every worker's request fitted to its stage.            *)
LEMMA WorkersStep ==
  ASSUME TypeOK, PackedLinesExist, [Next]_vars
  PROVE  WorkersType'
<1> USE DEF TypeOK
<1>1. ASSUME NEW w \in Workers, Rollback(w) PROVE WorkersType'
  <2>1. started' \in Nat
    BY <1>1 DEF Rollback, WorkersType
  <2> QED
    BY <1>1, <2>1, DoneWorker DEF Rollback
<1>2. ASSUME NEW w \in Workers, Receive(w) PROVE WorkersType'
  <2>1. CASE LoadEntity(w)
    <3>1. PICK e \in Entities, to \in OrderTargets \cup ShipTargets, approve \in BOOLEAN :
             /\ status[e] # NoState
             /\ Arrive(w, "resolve",
                  [kind |-> "status", ent |-> e, to |-> to, seen |-> status[e],
                   from |-> NoState, approve |-> approve, todo |-> <<>>])
      BY <2>1 DEF LoadEntity
    <3> DEFINE r == [kind |-> "status", ent |-> e, to |-> to, seen |-> status[e],
                     from |-> NoState, approve |-> approve, todo |-> <<>>]
    <3>2. <<>> \in StockLines
      BY EmptySeq DEF StockLines
    <3>3. status[e] \in States /\ to \in States
      BY <3>1, FulfilmentAssumption DEF TablesType, States
    <3>4. r \in StatusRequest
      BY <3>2, <3>3 DEF StatusRequest
    <3>5. r \in AnyRequest /\ RequestFits("resolve", r) /\ "resolve" \in Stages
      BY <3>4 DEF AnyRequest, RequestFits, Stages
    <3> QED
      BY <3>1, <3>5, ArriveWorker
  <2>2. CASE PackShipment(w)
    <3>1. PICK o \in Orders, wh \in Warehouses, items \in Packings :
             Arrive(w, "pack", [kind |-> "pack", order |-> o, wh |-> wh, items |-> items])
      BY <2>2 DEF PackShipment
    <3> DEFINE r == [kind |-> "pack", order |-> o, wh |-> wh, items |-> items]
    <3>2. r \in AnyRequest /\ RequestFits("pack", r) /\ "pack" \in Stages
      BY DEF AnyRequest, PackRequest, RequestFits, Stages
    <3> QED
      BY <3>1, <3>2, ArriveWorker
  <2>3. CASE LoadHeldOrder(w)
    <3>1. PICK o \in Orders, to \in Decisions :
             Arrive(w, "decide", [kind |-> "decide", ent |-> o, to |-> to])
      BY <2>3 DEF LoadHeldOrder
    <3> DEFINE r == [kind |-> "decide", ent |-> o, to |-> to]
    <3>2. r \in AnyRequest /\ RequestFits("decide", r) /\ "decide" \in Stages
      BY DEF AnyRequest, DecideRequest, RequestFits, Stages
    <3> QED
      BY <3>1, <3>2, ArriveWorker
  <2>4. CASE ErpInbound(w)
    <3>1. PICK ev \in ErpEvents : Arrive(w, "erpApply", [kind |-> "erp", event |-> ev])
      BY <2>4 DEF ErpInbound
    <3> DEFINE r == [kind |-> "erp", event |-> ev]
    <3>2. r \in AnyRequest /\ RequestFits("erpApply", r) /\ "erpApply" \in Stages
      BY DEF AnyRequest, ErpRequest, RequestFits, Stages
    <3> QED
      BY <3>1, <3>2, ArriveWorker
  <2> QED
    BY <1>2, <2>1, <2>2, <2>3, <2>4 DEF Receive
<1>3. ASSUME NEW w \in Workers, Serve(w) PROVE WorkersType'
  <2>0. started \in Nat /\ req[w] \in AnyRequest /\ WorkersType
        /\ pc \in [Workers -> Stages] /\ req \in [Workers -> AnyRequest]
    BY DEF WorkersType
  <2>1. CASE Resolve(w)
    <3> DEFINE from == Ensured(req[w].ent, req[w].seen)
               r == [req[w] EXCEPT !.from = from]
    <3>1. req[w] \in StatusRequest
      BY <2>1 DEF Resolve, WorkersType, RequestFits
    <3>2. CASE MayTransition(req[w].ent, from, req[w].to, req[w].approve)
      <4>1. pc' = [pc EXCEPT ![w] = "begin"] /\ req' = [req EXCEPT ![w] = r]
        BY <2>0, <2>1, <3>1, <3>2 DEF Resolve, Goto
      <4>2. from \in States /\ from # NoState
        BY <3>1, <3>2, FulfilmentAssumption
           DEF StatusRequest, TablesType, Ensured, MayTransition
      <4>3. r \in StatusRequest /\ r.from # NoState
        BY <3>1, <4>2 DEF StatusRequest
      <4>4. r \in AnyRequest /\ RequestFits("begin", r) /\ "begin" \in Stages
        BY <4>3 DEF AnyRequest, RequestFits, Stages
      <4> QED
        BY <2>0, <2>1, <4>1, <4>4, MoveWorker DEF Resolve
    <3>3. CASE ~MayTransition(req[w].ent, from, req[w].to, req[w].approve)
      BY <2>0, <2>1, <3>3, DoneWorker DEF Resolve
    <3> QED
      BY <3>2, <3>3
  <2>2. CASE Begin(w)
    <3> DEFINE r == [req[w] EXCEPT !.todo = HookLines(req[w].ent, req[w].to)]
    <3>1. req[w] \in StatusRequest /\ req[w].from # NoState
      BY <2>2 DEF Begin, WorkersType, RequestFits
    <3>2. HookLines(req[w].ent, req[w].to) \in StockLines
      BY <3>1, HookLinesType DEF StatusRequest
    <3>3. r \in StatusRequest /\ r.from # NoState
      BY <3>1, <3>2 DEF StatusRequest
    <3>4. r \in AnyRequest /\ RequestFits("line", r) /\ "line" \in Stages
      BY <3>3 DEF AnyRequest, RequestFits, Stages
    <3>5. pc' = [pc EXCEPT ![w] = "line"] /\ req' = [req EXCEPT ![w] = r]
      BY <2>0, <2>2, <3>1 DEF Begin, Goto
    <3> QED
      BY <2>0, <2>2, <3>4, <3>5, MoveWorker DEF Begin
  <2> DEFINE next == [req[w] EXCEPT !.todo = Tail(req[w].todo)]
  <2>3. ASSUME pc[w] \in {"line", "adjust"}, req[w].todo # <<>>
        PROVE  /\ next \in AnyRequest /\ RequestFits("line", next) /\ "line" \in Stages
               /\ [req EXCEPT ![w].todo = Tail(@)] = [req EXCEPT ![w] = next]
    <3>1. req[w] \in StatusRequest /\ Tail(req[w].todo) \in StockLines
      BY <2>3, HeadLine
    <3>2. req[w].from # NoState
      BY <2>3 DEF WorkersType, RequestFits
    <3>3. next \in StatusRequest /\ next.from # NoState
      BY <3>1, <3>2 DEF StatusRequest
    <3> QED
      BY <2>0, <3>3 DEF AnyRequest, RequestFits, Stages
  <2>4. CASE ReadLevel(w)
    <3>1. pc[w] = "line" /\ req[w].todo # <<>>
      BY <2>4 DEF ReadLevel
    <3>2. CASE Rollback(w)
      BY <1>1, <3>2
    <3>3. CASE req' = [req EXCEPT ![w].todo = Tail(@)] /\ UNCHANGED <<pc, started>>
      <4>1. pc' = [pc EXCEPT ![w] = "line"]
        BY <2>0, <3>1, <3>3
      <4> QED
        BY <2>0, <2>3, <3>1, <3>3, <4>1, MoveWorker
    <3>4. CASE Goto(w, "adjust") /\ UNCHANGED <<req, started>>
      <4>1. req' = [req EXCEPT ![w] = req[w]] /\ pc' = [pc EXCEPT ![w] = "adjust"]
        BY <2>0, <3>4 DEF Goto
      <4>2. RequestFits("adjust", req[w]) /\ "adjust" \in Stages
        BY <3>1 DEF WorkersType, RequestFits, Stages
      <4> QED
        BY <2>0, <3>4, <4>1, <4>2, MoveWorker
    <3> QED
      BY <2>4, <3>2, <3>3, <3>4 DEF ReadLevel
  <2>5. CASE AdjustLine(w)
    <3>1. pc[w] = "adjust" /\ req[w].todo # <<>>
      BY <2>5 DEF AdjustLine, WorkersType, RequestFits
    <3> QED
      BY <2>0, <2>3, <2>5, <3>1, MoveWorker DEF AdjustLine, Goto
  <2>6. CASE ErpApply(w)
    <3>1. req[w] \in ErpRequest
      BY <2>6 DEF ErpApply, WorkersType, RequestFits
    <3>2. RequestFits("erpLog", req[w]) /\ "erpLog" \in Stages
      BY <3>1 DEF RequestFits, Stages
    <3>3. req' = [req EXCEPT ![w] = req[w]] /\ pc' = [pc EXCEPT ![w] = "erpLog"]
      BY <2>0, <2>6 DEF ErpApply, Goto
    <3> QED
      BY <2>0, <2>6, <3>2, <3>3, MoveWorker DEF ErpApply
  <2>7. CASE DeadlockVictim(w)
    BY <2>7, <1>1 DEF DeadlockVictim
  <2>8. CASE CommitTransition(w) \/ CreateShipment(w) \/ DecideOrder(w) \/ ErpRecord(w)
    BY <2>0, <2>8, DoneWorker DEF CommitTransition, CreateShipment, DecideOrder, ErpRecord
  <2> QED
    BY <1>3, <2>1, <2>2, <2>4, <2>5, <2>6, <2>7, <2>8 DEF Serve
<1>4. ASSUME NEW w \in Workers, Fail(w) PROVE WorkersType'
  BY <1>4, <1>1 DEF Fail
<1>5. CASE Correct \/ Configure
  BY <1>5 DEF Correct, Configure, WorkersType
<1>6. CASE Rest \/ UNCHANGED vars
  BY <1>6 DEF Rest, vars, WorkersType
<1> QED
  BY <1>2, <1>3, <1>4, <1>5, <1>6 DEF Next


-----------------------------------------------------------------------------
(* Every step keeps the shape of the tables.                               *)
LEMMA TablesStep ==
  ASSUME TypeOK, [Next]_vars
  PROVE  TablesType'
<1> USE DEF TypeOK
<1>1. CASE UNCHANGED <<flowVars, erpVars>>
  BY <1>1 DEF flowVars, erpVars, TablesType
<1>2. ASSUME NEW w \in Workers, Rollback(w) PROVE TablesType'
  BY <1>2 DEF Rollback, FreeEntity, flowVars, erpVars, TablesType
<1>3. ASSUME NEW w \in Workers, Serve(w) PROVE TablesType'
  <2>0. req[w] \in AnyRequest /\ RequestFits(pc[w], req[w])
    BY DEF WorkersType
  <2>1. CASE Resolve(w)
    <3>1. req[w] \in StatusRequest
      BY <2>0, <2>1 DEF Resolve, RequestFits
    <3>2. Ensured(req[w].ent, req[w].seen) \in States
      BY <3>1 DEF Ensured, StatusRequest, TablesType
    <3> QED
      BY <2>1, <3>2 DEF Resolve, erpVars, TablesType
  <2>2. CASE Begin(w)
    BY <2>2 DEF Begin, erpVars, TablesType
  <2>3. CASE ReadLevel(w)
    BY <2>3, <1>1, <1>2 DEF ReadLevel
  <2>4. CASE AdjustLine(w)
    BY <2>4, <1>1 DEF AdjustLine
  <2>5. CASE CommitTransition(w)
    <3>1. req[w] \in StatusRequest /\ req[w].from # NoState
      BY <2>0, <2>5 DEF CommitTransition, RequestFits
    <3> DEFINE e == req[w].ent
               row == [from |-> req[w].from, to |-> req[w].to, approve |-> req[w].approve]
               mv == [k \in Keys |-> refMoved[e][k] + dMoved[w][k][RefType(e)]]
    <3>2. e \in Entities /\ req[w].to \in States /\ row \in LogRow
      BY <3>1 DEF StatusRequest, LogRow
    <3>3. log' \in [Entities -> Seq(LogRow)]
      <4>1. log[e] \in Seq(LogRow) /\ Append(log[e], row) \in Seq(LogRow)
        BY <3>2, AppendProperties DEF TablesType
      <4>2. log' = [log EXCEPT ![e] = Append(log[e], row)]
        BY <2>5, <3>2 DEF CommitTransition, TablesType
      <4> QED
        BY <3>2, <4>1, <4>2 DEF TablesType
    <3>4. refMoved' \in [Entities -> [Keys -> Int]]
      <4>1. RefType(e) \in MoveTypes
        BY DEF RefType, MoveTypes
      <4>2. mv \in [Keys -> Int]
        BY <3>2, <4>1 DEF TablesType, StockType
      <4>3. refMoved' = [refMoved EXCEPT ![e] = mv]
        BY <2>5, <3>2 DEF CommitTransition, TablesType
      <4> QED
        BY <3>2, <4>2, <4>3 DEF TablesType
    <3>5. /\ inst' \in [Entities -> States \cup {NoState}]
          /\ status' \in [Entities -> States \cup {NoState}]
          /\ entLock' \in [Entities -> Workers \cup {NoWorker}]
      BY <2>5, <3>2 DEF CommitTransition, FreeEntity, TablesType
    <3> QED
      BY <2>5, <3>3, <3>4, <3>5 DEF CommitTransition, erpVars, TablesType
  <2>6. CASE DeadlockVictim(w)
    BY <2>6, <1>2 DEF DeadlockVictim
  <2>7. CASE CreateShipment(w)
    <3>1. PICK s \in Shipments :
             /\ status' = [status EXCEPT ![s] = "pending"]
             /\ shipment' = [shipment EXCEPT ![s] =
                  [order |-> req[w].order, wh |-> req[w].wh, items |-> req[w].items]]
      BY <2>7 DEF CreateShipment
    <3>2. req[w] \in PackRequest
      BY <2>0, <2>7 DEF CreateShipment, RequestFits
    <3>3. shipment' \in [Shipments -> ShipmentRow]
      BY <3>1, <3>2 DEF PackRequest, ShipmentRow, TablesType
    <3>4. status' \in [Entities -> States \cup {NoState}]
      BY <3>1 DEF States, ShipStates, TablesType
    <3> QED
      BY <2>7, <3>3, <3>4 DEF CreateShipment, erpVars, TablesType
  <2>8. CASE DecideOrder(w)
    <3>1. req[w].ent \in Orders /\ req[w].to \in States
      BY <2>0, <2>8, FulfilmentAssumption
         DEF DecideOrder, RequestFits, DecideRequest, States, OrderStates
    <3> QED
      BY <2>8, <3>1 DEF DecideOrder, erpVars, TablesType
  <2>9. CASE ErpApply(w)
    <3>1. req[w].event \in ErpEvents
      BY <2>0, <2>9 DEF ErpApply, RequestFits, ErpRequest
    <3> QED
      BY <2>9, <3>1 DEF ErpApply, flowVars, TablesType
  <2>10. CASE ErpRecord(w)
    <3>1. req[w].event \in ErpEvents
      BY <2>0, <2>10 DEF ErpRecord, RequestFits, ErpRequest
    <3> QED
      BY <2>10, <3>1 DEF ErpRecord, flowVars, TablesType
  <2> QED
    BY <1>3, <2>1, <2>2, <2>3, <2>4, <2>5, <2>6, <2>7, <2>8, <2>9, <2>10 DEF Serve
<1>4. ASSUME NEW w \in Workers, Receive(w) PROVE TablesType'
  BY <1>4, <1>1 DEF Receive, LoadEntity, PackShipment, LoadHeldOrder, ErpInbound
<1>5. ASSUME NEW w \in Workers, Fail(w) PROVE TablesType'
  BY <1>5, <1>2 DEF Fail
<1>6. CASE Correct \/ Configure \/ Rest \/ UNCHANGED vars
  BY <1>6, <1>1 DEF Correct, Configure, Rest, vars
<1> QED
  BY <1>3, <1>4, <1>5, <1>6 DEF Next


-----------------------------------------------------------------------------
(* Every step keeps the items of shipments on lines of their order.        *)
LEMMA PackedStep ==
  ASSUME TypeOK, PackedLinesExist, [Next]_vars
  PROVE  PackedLinesExist'
<1> USE DEF TypeOK, WorkersType
<1>1. ASSUME UNCHANGED shipment,
             \A w \in Workers : pc'[w] = "pack" => pc[w] = "pack" /\ req'[w] = req[w]
      PROVE  PackedLinesExist'
  BY <1>1 DEF PackedLinesExist
<1>2. ASSUME NEW w \in Workers, NEW label \in Stages \ {"pack"}, NEW r,
             pc' = [pc EXCEPT ![w] = label], req' = [req EXCEPT ![w] = r],
             UNCHANGED shipment
      PROVE  PackedLinesExist'
  BY <1>1, <1>2
<1>3. "idle" \in Stages \ {"pack"} /\ "resolve" \in Stages \ {"pack"}
      /\ "decide" \in Stages \ {"pack"} /\ "erpApply" \in Stages \ {"pack"}
      /\ "begin" \in Stages \ {"pack"} /\ "line" \in Stages \ {"pack"}
      /\ "adjust" \in Stages \ {"pack"} /\ "erpLog" \in Stages \ {"pack"}
  BY DEF Stages
<1>4. ASSUME NEW w \in Workers, Rollback(w) PROVE PackedLinesExist'
  BY <1>2, <1>3, <1>4 DEF Rollback, Done, Goto
<1>5. ASSUME NEW w \in Workers, Serve(w) PROVE PackedLinesExist'
  <2>1. CASE Resolve(w)
    BY <2>1, <1>1 DEF Resolve, Done, Goto
  <2>2. CASE Begin(w)
    BY <2>2, <1>1 DEF Begin, Goto
  <2>3. CASE ReadLevel(w)
    <3>1. CASE ~Rollback(w)
      BY <2>3, <3>1, <1>1 DEF ReadLevel, Goto, flowVars
    <3> QED
      BY <3>1, <1>4
  <2>4. CASE AdjustLine(w)
    BY <2>4, <1>1 DEF AdjustLine, Goto, flowVars
  <2>5. CASE CommitTransition(w)
    BY <2>5, <1>1 DEF CommitTransition, Done, Goto
  <2>6. CASE DeadlockVictim(w)
    BY <2>6, <1>4 DEF DeadlockVictim
  <2>7. CASE CreateShipment(w)
    <3>1. PICK s \in Shipments : shipment' = [shipment EXCEPT ![s] =
               [order |-> req[w].order, wh |-> req[w].wh, items |-> req[w].items]]
      BY <2>7 DEF CreateShipment
    <3>2. pc[w] = "pack" /\ req[w] \in PackRequest
      BY <2>7 DEF CreateShipment, RequestFits
    <3>3. \A i \in DOMAIN req[w].items : req[w].items[i].line \in DOMAIN Lines[req[w].order]
      BY <3>2 DEF PackedLinesExist
    <3>4. \A t \in Shipments : \A i \in DOMAIN shipment'[t].items :
             /\ shipment'[t].order \in Orders
             /\ shipment'[t].items[i].line \in DOMAIN Lines[shipment'[t].order]
      <4> TAKE t \in Shipments
      <4>1. CASE t = s
        BY <4>1, <3>1, <3>2, <3>3 DEF PackRequest, TablesType
      <4>2. CASE t # s
        BY <4>2, <3>1 DEF PackedLinesExist, TablesType
      <4> QED
        BY <4>1, <4>2
    <3>5. \A v \in Workers : pc'[v] = "pack" => pc[v] = "pack" /\ req'[v] = req[v]
      BY <2>7 DEF CreateShipment, Done, Goto
    <3> QED
      BY <3>4, <3>5 DEF PackedLinesExist
  <2>8. CASE DecideOrder(w)
    BY <2>8, <1>1 DEF DecideOrder, Done, Goto
  <2>9. CASE ErpApply(w) \/ ErpRecord(w)
    BY <2>9, <1>1 DEF ErpApply, ErpRecord, Done, Goto, flowVars
  <2> QED
    BY <1>5, <2>1, <2>2, <2>3, <2>4, <2>5, <2>6, <2>7, <2>8, <2>9 DEF Serve
<1>6. ASSUME NEW w \in Workers, Receive(w) PROVE PackedLinesExist'
  <2>1. CASE LoadEntity(w) \/ LoadHeldOrder(w) \/ ErpInbound(w)
    BY <2>1, <1>1 DEF LoadEntity, LoadHeldOrder, ErpInbound, Arrive, Goto, flowVars
  <2>2. CASE PackShipment(w)
    <3>1. PICK o \in Orders, wh \in Warehouses, items \in Packings :
             /\ \A i \in DOMAIN items : items[i].line \in DOMAIN Lines[o]
             /\ Arrive(w, "pack", [kind |-> "pack", order |-> o, wh |-> wh, items |-> items])
             /\ UNCHANGED flowVars
      BY <2>2 DEF PackShipment
    <3>2. req'[w] = [kind |-> "pack", order |-> o, wh |-> wh, items |-> items]
      BY <3>1 DEF Arrive
    <3>3. \A v \in Workers : v # w => req'[v] = req[v] /\ pc'[v] = pc[v]
      BY <3>1 DEF Arrive, Goto
    <3> QED
      BY <3>1, <3>2, <3>3 DEF PackedLinesExist, flowVars
  <2> QED
    BY <1>6, <2>1, <2>2 DEF Receive
<1>7. ASSUME NEW w \in Workers, Fail(w) PROVE PackedLinesExist'
  BY <1>7, <1>4 DEF Fail
<1>8. CASE Correct \/ Configure \/ Rest \/ UNCHANGED vars
  BY <1>8, <1>1 DEF Correct, Configure, Rest, vars, flowVars
<1> QED
  BY <1>5, <1>6, <1>7, <1>8 DEF Next


-----------------------------------------------------------------------------
(* Status and instance move together: the engine's commit writes both, the *)
(* first resolution copies one into the other, and an approver's direct    *)
(* write takes its order out of the claim.                                 *)
LEMMA SyncStep ==
  ASSUME TypeOK, SyncInv, [Next]_vars
  PROVE  SyncInv'
<1> USE DEF TypeOK, WorkersType, SyncInv, StatusFollowsInstance
<1>1. ASSUME UNCHANGED <<status, inst, decided>>,
             \A v \in Workers : pc'[v] = "resolve" => pc[v] = "resolve" /\ req'[v] = req[v]
      PROVE  SyncInv'
  BY <1>1
<1>2. ASSUME NEW w \in Workers, Rollback(w) PROVE SyncInv'
  BY <1>1, <1>2 DEF Rollback, Done, Goto
<1>3. ASSUME NEW w \in Workers, Serve(w) PROVE SyncInv'
  <2>0. RequestFits(pc[w], req[w])
    OBVIOUS
  <2>1. CASE Resolve(w)
    <3> DEFINE e == req[w].ent
    <3>1. req[w] \in StatusRequest /\ e \in Entities
      BY <2>0, <2>1 DEF Resolve, RequestFits, StatusRequest
    <3>2. /\ inst' = [inst EXCEPT ![e] = Ensured(e, req[w].seen)]
          /\ UNCHANGED <<status, decided>>
          /\ \A v \in Workers : pc'[v] = "resolve" =>
               v # w /\ pc[v] = "resolve" /\ req'[v] = req[v]
      BY <2>1 DEF Resolve, Done, Goto
    <3>3. status[e] # NoState /\ pc[w] = "resolve"
      BY <2>1 DEF Resolve
    <3>4. e \notin decided => status[e] = Ensured(e, req[w].seen)
      BY <3>1, <3>3 DEF Ensured
    <3>5. Ensured(e, req[w].seen) # NoState
      BY <3>1, FulfilmentAssumption DEF Ensured, StatusRequest
    <3>6. /\ inst'[e] = Ensured(e, req[w].seen)
          /\ \A f \in Entities : f # e => inst'[f] = inst[f]
      BY <3>1, <3>2 DEF TablesType
    <3> QED
      BY <3>1, <3>2, <3>3, <3>4, <3>5, <3>6
  <2>2. CASE Begin(w)
    BY <2>2, <1>1 DEF Begin, Goto
  <2>3. CASE ReadLevel(w)
    <3>1. CASE ~Rollback(w)
      BY <2>3, <3>1, <1>1 DEF ReadLevel, Goto, flowVars
    <3> QED
      BY <3>1, <1>2
  <2>4. CASE AdjustLine(w)
    BY <2>4, <1>1 DEF AdjustLine, Goto, flowVars
  <2>5. CASE CommitTransition(w)
    <3> DEFINE e == req[w].ent
    <3>1. req[w] \in StatusRequest /\ e \in Entities /\ req[w].to # NoState
      BY <2>0, <2>5, FulfilmentAssumption DEF CommitTransition, RequestFits, StatusRequest
    <3>2. /\ inst'[e] = req[w].to /\ status'[e] = req[w].to
          /\ \A f \in Entities : f # e => inst'[f] = inst[f] /\ status'[f] = status[f]
          /\ UNCHANGED decided
      BY <2>5, <3>1 DEF CommitTransition, TablesType
    <3>3. \A v \in Workers : pc'[v] = "resolve" => pc[v] = "resolve" /\ req'[v] = req[v]
      BY <2>5 DEF CommitTransition, Done, Goto
    <3>4. \A v \in Workers : pc[v] = "resolve" => req[v].ent \in Entities
      BY DEF RequestFits, StatusRequest
    <3> QED
      BY <3>1, <3>2, <3>3, <3>4
  <2>6. CASE DeadlockVictim(w)
    BY <2>6, <1>2 DEF DeadlockVictim
  <2>7. CASE CreateShipment(w)
    <3>1. PICK s \in Shipments : status[s] = NoState /\ status' = [status EXCEPT ![s] = "pending"]
      BY <2>7 DEF CreateShipment, Exists
    <3>2. "pending" # NoState
      BY FulfilmentAssumption DEF States, OrderStates
    <3>3. /\ UNCHANGED <<inst, decided>>
          /\ \A v \in Workers : pc'[v] = "resolve" => pc[v] = "resolve" /\ req'[v] = req[v]
      BY <2>7 DEF CreateShipment, Done, Goto
    <3>4. s \in Entities /\ inst[s] = NoState
          /\ \A f \in Entities : f # s => status'[f] = status[f]
      BY <3>1 DEF Entities, TablesType
    <3>5. status'[s] # NoState
      BY <3>1, <3>2, <3>4 DEF TablesType
    <3>6. \A v \in Workers : pc[v] = "resolve" => req[v].ent # s /\ req[v].ent \in Entities
      BY <3>1 DEF RequestFits, StatusRequest
    <3> QED
      BY <3>3, <3>4, <3>5, <3>6
  <2>8. CASE DecideOrder(w)
    <3> DEFINE o == req[w].ent
    <3>1. o \in Orders /\ o \in Entities /\ req[w].to # NoState
      BY <2>0, <2>8, FulfilmentAssumption
         DEF DecideOrder, RequestFits, DecideRequest, States, OrderStates, Entities
    <3>2. /\ status'[o] = req[w].to /\ decided' = decided \cup {o} /\ UNCHANGED inst
          /\ \A f \in Entities : f # o => status'[f] = status[f]
      BY <2>8, <3>1 DEF DecideOrder, TablesType
    <3>3. \A v \in Workers : pc'[v] = "resolve" => pc[v] = "resolve" /\ req'[v] = req[v]
      BY <2>8 DEF DecideOrder, Done, Goto
    <3>4. \A v \in Workers : pc[v] = "resolve" => req[v].ent \in Entities
      BY DEF RequestFits, StatusRequest
    <3> QED
      BY <3>1, <3>2, <3>3, <3>4
  <2>9. CASE ErpApply(w) \/ ErpRecord(w)
    BY <2>9, <1>1 DEF ErpApply, ErpRecord, Done, Goto, flowVars
  <2> QED
    BY <1>3, <2>1, <2>2, <2>3, <2>4, <2>5, <2>6, <2>7, <2>8, <2>9 DEF Serve
<1>4. ASSUME NEW w \in Workers, Receive(w) PROVE SyncInv'
  <2>1. CASE LoadEntity(w)
    <3>1. PICK e \in Entities, to \in OrderTargets \cup ShipTargets, approve \in BOOLEAN :
             /\ status[e] # NoState
             /\ req' = [req EXCEPT ![w] =
                  [kind |-> "status", ent |-> e, to |-> to, seen |-> status[e],
                   from |-> NoState, approve |-> approve, todo |-> <<>>]]
      BY <2>1 DEF LoadEntity, Arrive
    <3>2. req'[w].ent = e /\ req'[w].seen = status[e]
      BY <3>1
    <3>3. /\ UNCHANGED <<status, inst, decided>>
          /\ \A v \in Workers : v # w => pc'[v] = pc[v] /\ req'[v] = req[v]
      BY <2>1 DEF LoadEntity, Arrive, Goto, flowVars
    <3> QED
      BY <3>1, <3>2, <3>3
  <2>2. CASE PackShipment(w) \/ LoadHeldOrder(w) \/ ErpInbound(w)
    BY <2>2, <1>1 DEF PackShipment, LoadHeldOrder, ErpInbound, Arrive, Goto, flowVars
  <2> QED
    BY <1>4, <2>1, <2>2 DEF Receive
<1>5. ASSUME NEW w \in Workers, Fail(w) PROVE SyncInv'
  BY <1>5, <1>2 DEF Fail
<1>6. CASE Correct \/ Configure \/ Rest \/ UNCHANGED vars
  BY <1>6, <1>1 DEF Correct, Configure, Rest, vars, flowVars
<1> QED
  BY <1>3, <1>4, <1>5, <1>6 DEF Next

-----------------------------------------------------------------------------
(* What a guard established when it was evaluated stays true of the request *)
(* until its commit: the rep's permission and the order's total do not     *)
(* change, although the instance's state may.                              *)
LEMMA ApprovalStep ==
  ASSUME TypeOK, ApprovalInv, [Next]_vars
  PROVE  ApprovalInv'
<1> USE DEF TypeOK, WorkersType, ApprovalInv, OverLimitNeedsApproval, InTx
<1>0. OverLimit \subseteq Orders /\ OverLimit \subseteq Entities
  BY FulfilmentAssumption DEF Entities
<1>1. ASSUME UNCHANGED log,
             \A v \in Workers : pc'[v] \in InTx =>
               /\ pc[v] \in InTx /\ req'[v].ent = req[v].ent
               /\ req'[v].to = req[v].to /\ req'[v].approve = req[v].approve
      PROVE  ApprovalInv'
  BY <1>1
<1>2. ASSUME NEW w \in Workers, Rollback(w) PROVE ApprovalInv'
  BY <1>1, <1>2 DEF Rollback, Done, Goto
<1>3. ASSUME NEW w \in Workers, Serve(w) PROVE ApprovalInv'
  <2>0. RequestFits(pc[w], req[w])
    OBVIOUS
  <2>1. CASE Resolve(w)
    <3> DEFINE from == Ensured(req[w].ent, req[w].seen)
               allowed == MayTransition(req[w].ent, from, req[w].to, req[w].approve)
    <3>1. req[w] \in StatusRequest
      BY <2>0, <2>1 DEF Resolve, RequestFits
    <3>2. CASE allowed
      <4>1. /\ req'[w].ent = req[w].ent /\ req'[w].to = req[w].to
            /\ req'[w].approve = req[w].approve
            /\ \A v \in Workers : v # w => pc'[v] = pc[v] /\ req'[v] = req[v]
            /\ UNCHANGED log
        BY <2>1, <3>1, <3>2 DEF Resolve, Goto, StatusRequest
      <4>2. ASSUME req[w].ent \in OverLimit, req[w].to = "confirmed"
            PROVE  req[w].approve
        <5>1. <<from, "confirmed">> \in OrderEdges /\ GuardsAllow(req[w].ent, from, "confirmed", req[w].approve)
          BY <1>0, <3>2, <4>2 DEF MayTransition, Edges
        <5>2. from \in {"pending", "on_hold"}
          BY <5>1 DEF OrderEdges
        <5> QED
          BY <4>2, <5>1, <5>2 DEF GuardsAllow
      <4> QED
        BY <4>1, <4>2
    <3>3. CASE ~allowed
      BY <2>1, <3>3, <1>1 DEF Resolve, Done, Goto
    <3> QED
      BY <3>2, <3>3
  <2>2. CASE Begin(w)
    <3>1. req[w] \in StatusRequest
      BY <2>0, <2>2 DEF Begin, RequestFits
    <3> QED
      BY <2>2, <3>1, <1>1 DEF Begin, Goto, StatusRequest
  <2>3. CASE ReadLevel(w)
    <3>0. req[w] \in StatusRequest
      BY <2>0, <2>3 DEF ReadLevel, RequestFits
    <3>1. CASE ~Rollback(w)
      BY <2>3, <3>0, <3>1, <1>1 DEF ReadLevel, Goto, flowVars, StatusRequest
    <3> QED
      BY <3>1, <1>2
  <2>4. CASE AdjustLine(w)
    <3>1. req[w] \in StatusRequest
      BY <2>0, <2>4 DEF AdjustLine, RequestFits
    <3> QED
      BY <2>4, <3>1, <1>1 DEF AdjustLine, Goto, flowVars, StatusRequest
  <2>5. CASE CommitTransition(w)
    <3> DEFINE e == req[w].ent
               row == [from |-> req[w].from, to |-> req[w].to, approve |-> req[w].approve]
    <3>1. req[w] \in StatusRequest /\ pc[w] \in InTx /\ e \in Entities
      BY <2>0, <2>5 DEF CommitTransition, RequestFits, StatusRequest
    <3>2. log' = [log EXCEPT ![e] = Append(log[e], row)]
      BY <2>5, <3>1 DEF CommitTransition, TablesType
    <3>3. \A v \in Workers : pc'[v] \in InTx => pc[v] \in InTx /\ req'[v] = req[v]
      BY <2>5 DEF CommitTransition, Done, Goto
    <3>4. ASSUME NEW o \in OverLimit, NEW i \in DOMAIN log'[o], log'[o][i].to = "confirmed"
          PROVE  log'[o][i].approve
      <4>1. log[o] \in Seq(LogRow) /\ o \in Entities
        BY <1>0 DEF TablesType
      <4>2. CASE o # e
        BY <3>2, <3>4, <4>1, <4>2 DEF TablesType
      <4>3. CASE o = e
        <5>1. log'[o] = Append(log[o], row)
          BY <3>1, <3>2, <4>3 DEF TablesType
        <5>2. row \in LogRow
          <6>1. req[w].from # NoState
            BY <2>0, <2>5 DEF CommitTransition, RequestFits
          <6> QED
            BY <3>1, <6>1 DEF StatusRequest, LogRow
        <5>3. /\ Len(log'[o]) = Len(log[o]) + 1 /\ Len(log[o]) \in Nat
              /\ DOMAIN log'[o] = 1..Len(log'[o]) /\ DOMAIN log[o] = 1..Len(log[o])
              /\ \A j \in 1..Len(log[o]) : log'[o][j] = log[o][j]
              /\ log'[o][Len(log[o]) + 1] = row
          BY <4>1, <5>1, <5>2, AppendProperties, LenProperties
        <5>4. CASE i \in 1..Len(log[o])
          BY <3>4, <5>3, <5>4
        <5>5. CASE i = Len(log[o]) + 1
          BY <3>1, <3>4, <4>3, <5>3, <5>5
        <5> QED
          BY <3>4, <5>3, <5>4, <5>5
      <4> QED
        BY <4>2, <4>3
    <3> QED
      BY <3>3, <3>4
  <2>6. CASE DeadlockVictim(w)
    BY <2>6, <1>2 DEF DeadlockVictim
  <2>7. CASE CreateShipment(w) \/ DecideOrder(w) \/ ErpApply(w) \/ ErpRecord(w)
    BY <2>7, <1>1 DEF CreateShipment, DecideOrder, ErpApply, ErpRecord, Done, Goto, flowVars
  <2> QED
    BY <1>3, <2>1, <2>2, <2>3, <2>4, <2>5, <2>6, <2>7 DEF Serve
<1>4. ASSUME NEW w \in Workers, Receive(w) PROVE ApprovalInv'
  BY <1>1, <1>4 DEF Receive, LoadEntity, PackShipment, LoadHeldOrder, ErpInbound,
                    Arrive, Goto, flowVars
<1>5. ASSUME NEW w \in Workers, Fail(w) PROVE ApprovalInv'
  BY <1>5, <1>2 DEF Fail
<1>6. CASE Correct \/ Configure \/ Rest \/ UNCHANGED vars
  BY <1>6, <1>1 DEF Correct, Configure, Rest, vars, flowVars
<1> QED
  BY <1>3, <1>4, <1>5, <1>6 DEF Next

-----------------------------------------------------------------------------
Inv == TypeOK /\ StockInv /\ PackedLinesExist /\ SyncInv /\ ApprovalInv

LEMMA InitInv == Init => Inv
<1> SUFFICES ASSUME Init PROVE Inv
  OBVIOUS
<1>1. StockInv
  BY StockInitInv DEF Init
<1>2. TablesType
  <2>1. <<>> \in Seq(LogRow)
    BY EmptySeq
  <2>2. NoShipment \in ShipmentRow
    BY InventoryAssumption DEF NoShipment, ShipmentRow
  <2>3. NoDelta \in [Keys -> Int]
    BY DEF NoDelta
  <2>4. "pending" \in States
    BY DEF States, OrderStates
  <2> QED
    BY <2>1, <2>2, <2>3, <2>4 DEF Init, TablesType
<1>3. WorkersType
  BY DEF Init, WorkersType, RequestFits, Stages, AnyRequest
<1>4. PackedLinesExist
  BY DEF Init, PackedLinesExist, NoShipment
<1>5. SyncInv
  BY DEF Init, SyncInv, StatusFollowsInstance
<1>6. ApprovalInv
  BY FulfilmentAssumption DEF Init, ApprovalInv, OverLimitNeedsApproval, InTx, Entities
<1> QED
  BY <1>1, <1>2, <1>3, <1>4, <1>5, <1>6 DEF Inv, TypeOK, StockInv

LEMMA StepInv == Inv /\ [Next]_vars => Inv'
<1> SUFFICES ASSUME Inv, [Next]_vars PROVE Inv'
  OBVIOUS
<1> USE DEF Inv
<1>1. StockInv'
  BY StockStep
<1>2. WorkersType'
  BY WorkersStep
<1>3. TablesType'
  BY TablesStep
<1>4. TypeOK'
  BY <1>1, <1>2, <1>3 DEF TypeOK, StockInv
<1> QED
  BY <1>1, <1>4, PackedStep, SyncStep, ApprovalStep

LEMMA SpecInv == Spec => []Inv
BY InitInv, StepInv, PTL DEF Spec

(* Tables and requests keep their shape at every stage of every handler.   *)
THEOREM TypeCorrect == Spec => []TypeOK
<1>1. Inv => TypeOK
  BY DEF Inv
<1> QED
  BY <1>1, SpecInv, PTL

(* The stock cache is the movement ledger's sum, on-hand where the ERP has *)
(* not overwritten it, however many requests interleave, fail or deadlock. *)
THEOREM LedgerAlwaysAgrees == Spec => []LedgerAgrees
<1>1. Inv => LedgerAgrees
  BY DEF Inv, StockInv
<1> QED
  BY <1>1, SpecInv, PTL

(* No transaction leaves an uncommitted change on a row it has not locked. *)
THEOREM UncommittedStaysLocked == Spec => []UncommittedUnderLock
<1>1. Inv => UncommittedUnderLock
  BY DEF Inv, StockInv
<1> QED
  BY <1>1, SpecInv, PTL

(* Status column and workflow instance agree, although neither the engine  *)
(* nor the hook re-reads the state it resolved before BEGIN.               *)
THEOREM StatusAlwaysFollows == Spec => []StatusFollowsInstance
<1>1. Inv => StatusFollowsInstance
  BY DEF Inv, SyncInv
<1> QED
  BY <1>1, SpecInv, PTL

(* No order above its buyer's limit is confirmed without order.approve.    *)
THEOREM ApprovalAlwaysNeeded == Spec => []OverLimitNeedsApproval
<1>1. Inv => OverLimitNeedsApproval
  BY DEF Inv, ApprovalInv
<1> QED
  BY <1>1, SpecInv, PTL

-----------------------------------------------------------------------------
(* What a list of stock lines moves of a row.                              *)

StockRow(lines, k) == [i \in DOMAIN lines |-> IF lines[i].key = k THEN lines[i].qty ELSE 0]
StockOf(lines, k)  == SumOf(StockRow(lines, k))

LEMMA StockLineFacts ==
  ASSUME NEW lines \in StockLines
  PROVE  /\ Len(lines) \in Nat /\ DOMAIN lines = 1..Len(lines) /\ IsFiniteSet(DOMAIN lines)
         /\ \A i \in DOMAIN lines : lines[i].key \in Keys /\ lines[i].qty \in Nat
         /\ \A k : StockRow(lines, k) \in [DOMAIN lines -> Nat] /\ StockOf(lines, k) \in Nat
<1> DEFINE R == [key : Keys, qty : Nat]
<1>1. lines \in Seq(R)
  BY DEF StockLines
<1>2. /\ Len(lines) \in Nat /\ DOMAIN lines = 1..Len(lines)
      /\ \A i \in DOMAIN lines : lines[i] \in R
  <2> HIDE DEF R
  <2> QED BY <1>1, LenProperties, ElementOfSeq
<1>3. IsFiniteSet(DOMAIN lines)
  BY <1>2, FS_Interval
<1>4. ASSUME NEW k PROVE StockRow(lines, k) \in [DOMAIN lines -> Nat] /\ StockOf(lines, k) \in Nat
  <2>1. StockRow(lines, k) \in [DOMAIN lines -> Nat]
    BY <1>2 DEF StockRow
  <2> QED BY <1>3, <2>1, SumNat DEF StockOf
<1> QED BY <1>2, <1>3, <1>4

LEMMA StockOfNone == \A k : StockOf(<<>>, k) = 0
<1>1. \A k : DOMAIN StockRow(<<>>, k) = {}
  BY DEF StockRow
<1> QED BY <1>1, SumEmpty DEF StockOf

LEMMA StockOfHead ==
  ASSUME NEW lines \in StockLines, lines # <<>>, NEW k
  PROVE  StockOf(lines, k) =
           (IF Head(lines).key = k THEN Head(lines).qty ELSE 0) + StockOf(Tail(lines), k)
<1> DEFINE R == [key : Keys, qty : Nat]
           t == Tail(lines)
           n == Len(t)
           f == StockRow(lines, k)
           g == StockRow(t, k)
<1>1. /\ t \in StockLines /\ n \in Nat /\ Len(lines) = n + 1 /\ Head(lines) = lines[1]
      /\ \A i \in 1..n : t[i] = lines[i + 1]
  <2>1. lines \in Seq(R)
    BY DEF StockLines
  <2> HIDE DEF R
  <2> QED BY <2>1, HeadTailProperties DEF StockLines, R
<1>2. DOMAIN lines = 1..(n + 1) /\ DOMAIN t = 1..n
  BY <1>1, StockLineFacts
<1>3. f \in [1..(n + 1) -> Int] /\ g \in [1..n -> Int]
  <2>1. f \in [DOMAIN lines -> Nat] /\ g \in [DOMAIN t -> Nat]
    <3> HIDE DEF t
    <3> QED BY <1>1, StockLineFacts
  <2> HIDE DEF f, g, t, n
  <2> QED BY <1>2, <2>1
<1>4. (\A i \in 1..n : g[i] = f[i + 1]) /\ f[1] = IF Head(lines).key = k THEN Head(lines).qty ELSE 0
  <2>1. 1 \in 1..(n + 1) /\ \A i \in 1..n : i + 1 \in 1..(n + 1)
    BY <1>1
  <2> HIDE DEF t, n
  <2> QED BY <1>1, <1>2, <2>1 DEF StockRow
<1>5. SumOf(f) = f[1] + SumOf(g)
  <2> HIDE DEF f, g, n
  <2> QED BY <1>1, <1>3, <1>4, SumShift
<1> QED BY <1>4, <1>5 DEF StockOf

(* Confirming an order moves what it orders, at the default warehouse.     *)
LEMMA ConfirmMoves ==
  ASSUME NEW o \in Orders, NEW k \in Keys
  PROVE  /\ Ordered(o, k[1]) \in Nat
         /\ StockOf(HookLines(o, "confirmed"), k) =
              IF k[2] = DefaultWh THEN Ordered(o, k[1]) ELSE 0
<1> DEFINE L == Lines[o]
           R == [product : Products, qty : Nat]
           h == HookLines(o, "confirmed")
           f == [i \in DOMAIN L |-> IF L[i].product = k[1] THEN L[i].qty ELSE 0]
<1>1. /\ DOMAIN L = 1..Len(L) /\ Len(L) \in Nat /\ IsFiniteSet(DOMAIN L)
      /\ \A i \in DOMAIN L : L[i] \in R
  <2>1. L \in Seq(R)
    BY FulfilmentAssumption
  <2>2. DOMAIN L = 1..Len(L) /\ Len(L) \in Nat /\ \A i \in DOMAIN L : L[i] \in R
    <3> HIDE DEF L, R
    <3> QED BY <2>1, LenProperties, ElementOfSeq
  <2>3. IsFiniteSet(1..Len(L))
    BY <2>2, FS_Interval
  <2> QED BY <2>2, <2>3
<1>2. f \in [DOMAIN L -> Nat]
  BY <1>1
<1>3. SumOf(f) \in Nat
  <2> HIDE DEF f, L
  <2> QED BY <1>1, <1>2, SumNat
<1>4. h = [i \in DOMAIN L |-> [key |-> <<L[i].product, DefaultWh>>, qty |-> L[i].qty]]
  BY DEF HookLines
<1>5. StockRow(h, k) = [i \in DOMAIN L |-> IF <<L[i].product, DefaultWh>> = k THEN L[i].qty ELSE 0]
  BY <1>4 DEF StockRow
<1>6. CASE k[2] = DefaultWh
  <2>1. \A x : <<x, DefaultWh>> = k <=> x = k[1]
    BY <1>6 DEF Keys
  <2>2. StockRow(h, k) = f
    BY <1>5, <2>1
  <2> QED BY <1>3, <1>6, <2>2 DEF StockOf, Ordered
<1>7. CASE k[2] # DefaultWh
  <2> DEFINE g == StockRow(h, k)
  <2>1. \A x : <<x, DefaultWh>> # k
    BY <1>7
  <2>2. g \in [DOMAIN L -> Int] /\ \A i \in DOMAIN L : g[i] = 0
    BY <1>5, <2>1
  <2>3. SumOf(g) = 0
    <3> HIDE DEF g, L
    <3> QED BY <1>1, <2>2, SumZero
  <2> QED BY <1>3, <1>7, <2>3 DEF StockOf, Ordered
<1> QED BY <1>6, <1>7

(* Shipping moves what was packed, at the shipment's warehouse.            *)
LEMMA ShipMoves ==
  ASSUME TypeOK, PackedLinesExist, NEW s \in Shipments, NEW k \in Keys
  PROVE  /\ PackedOf(s, k[1]) \in Nat
         /\ StockOf(HookLines(s, "shipped"), k) =
              IF k[2] = shipment[s].wh THEN PackedOf(s, k[1]) ELSE 0
<1> DEFINE L == shipment[s].items
           o == shipment[s].order
           wh == shipment[s].wh
           R == [line : Nat, qty : Nat]
           h == HookLines(s, "shipped")
           f == [i \in DOMAIN L |-> IF Lines[o][L[i].line].product = k[1] THEN L[i].qty ELSE 0]
<1>1. /\ DOMAIN L = 1..Len(L) /\ Len(L) \in Nat /\ IsFiniteSet(DOMAIN L)
      /\ \A i \in DOMAIN L : L[i] \in R
  <2>1. L \in Seq(R)
    <3>1. L \in Packings \cup {<<>>}
      BY DEF TypeOK, TablesType, ShipmentRow
    <3> QED BY <3>1, FulfilmentAssumption, EmptySeq
  <2>2. DOMAIN L = 1..Len(L) /\ Len(L) \in Nat /\ \A i \in DOMAIN L : L[i] \in R
    <3> HIDE DEF L, R
    <3> QED BY <2>1, LenProperties, ElementOfSeq
  <2>3. IsFiniteSet(1..Len(L))
    BY <2>2, FS_Interval
  <2> QED BY <2>2, <2>3
<1>2. f \in [DOMAIN L -> Nat]
  BY <1>1
<1>3. SumOf(f) \in Nat
  <2> HIDE DEF f, L
  <2> QED BY <1>1, <1>2, SumNat
<1>4. h = [i \in DOMAIN L |-> [key |-> <<Lines[o][L[i].line].product, wh>>, qty |-> L[i].qty]]
  BY FulfilmentAssumption DEF HookLines
<1>5. StockRow(h, k) = [i \in DOMAIN L |-> IF <<Lines[o][L[i].line].product, wh>> = k
                                          THEN L[i].qty ELSE 0]
  BY <1>4 DEF StockRow
<1>6. CASE k[2] = wh
  <2>1. \A x : <<x, wh>> = k <=> x = k[1]
    BY <1>6 DEF Keys
  <2>2. StockRow(h, k) = f
    <3> HIDE DEF wh
    <3> QED BY <1>5, <2>1
  <2> QED BY <1>3, <1>6, <2>2 DEF StockOf, PackedOf
<1>7. CASE k[2] # wh
  <2> DEFINE g == StockRow(h, k)
  <2>1. \A x : <<x, wh>> # k
    BY <1>7
  <2>2. g \in [DOMAIN L -> Int] /\ \A i \in DOMAIN L : g[i] = 0
    <3> HIDE DEF wh
    <3> QED BY <1>5, <2>1
  <2>3. SumOf(g) = 0
    <3> HIDE DEF g, L
    <3> QED BY <1>1, <2>2, SumZero
  <2> QED BY <1>3, <1>7, <2>3 DEF StockOf, PackedOf
<1> QED BY <1>6, <1>7

(* A logged move counts once.                                              *)
LEMMA EnteredAppend ==
  ASSUME NEW l \in Seq(LogRow), NEW row \in LogRow, NEW to
  PROVE  LET n(t) == Cardinality({i \in DOMAIN t : t[i].to = to})
         IN  n(l) \in Nat /\ n(Append(l, row)) = n(l) + IF row.to = to THEN 1 ELSE 0
<1> DEFINE m == Append(l, row)
           x == Len(l) + 1
           A == {i \in DOMAIN l : l[i].to = to}
           B == {i \in DOMAIN m : m[i].to = to}
<1>1. /\ Len(l) \in Nat /\ DOMAIN l = 1..Len(l) /\ DOMAIN m = 1..x
      /\ m[x] = row /\ \A i \in 1..Len(l) : m[i] = l[i]
  <2> HIDE DEF LogRow
  <2>1. Len(m) = x /\ m \in Seq(LogRow)
    BY AppendProperties
  <2> QED BY <2>1, LenProperties, AppendProperties
<1>2. IsFiniteSet(A) /\ Cardinality(A) \in Nat
  <2>1. IsFiniteSet(1..Len(l))
    BY <1>1, FS_Interval
  <2>2. A \subseteq 1..Len(l)
    BY <1>1
  <2> HIDE DEF A
  <2> QED BY <2>1, <2>2, FS_Subset, FS_CardinalityType
<1>3. B = (IF row.to = to THEN A \cup {x} ELSE A) /\ x \notin A
  <2>1. \A i : i \in 1..x <=> i \in 1..Len(l) \/ i = x
    BY <1>1
  <2>2. x \notin 1..Len(l)
    BY <1>1
  <2> HIDE DEF x, m
  <2> QED BY <1>1, <2>1, <2>2
<1>4. Cardinality(B) = Cardinality(A) + IF row.to = to THEN 1 ELSE 0
  <2>1. Cardinality(A \cup {x}) = Cardinality(A) + 1
    <3> HIDE DEF A, x
    <3> QED BY <1>2, <1>3, FS_AddElement
  <2> HIDE DEF A, B, x
  <2> QED BY <1>2, <1>3, <2>1
<1> QED BY <1>2, <1>4

-----------------------------------------------------------------------------
(* The inductive invariant of the movements.                               *)

Signed(e, n) == IF e \in Orders THEN n ELSE -n

(* What a transaction has moved so far is what its hook walks less what is *)
(* still to do; nobody else has anything uncommitted.                      *)
MovesFit(w) ==
  /\ pc[w] \in {"resolve", "begin", "line", "adjust"} => status[req[w].ent] # NoState
  /\ IF pc[w] \in {"line", "adjust"}
     THEN \A k \in InitTracked :
            dMoved[w][k][RefType(req[w].ent)] =
              Signed(req[w].ent, StockOf(HookLines(req[w].ent, req[w].to), k)
                                   - StockOf(req[w].todo, k))
     ELSE dMoved[w] = NoMove

(* What is committed is what was logged; a shipment that does not exist    *)
(* has moved nothing.                                                      *)
MovedInv ==
  /\ InitTracked \subseteq tracked
  /\ ReservedPerConfirm /\ FulfilledPerShip
  /\ \A s \in Shipments : ~Exists(s) => refMoved[s] = NoDelta /\ log[s] = <<>>

MoveInv == MovedInv /\ \A w \in Workers : MovesFit(w)

\* A worker the step does not touch.
LEMMA OtherMoves ==
  ASSUME TypeOK, NEW v \in Workers, MovesFit(v),
         pc'[v] = pc[v], req'[v] = req[v], dMoved'[v] = dMoved[v],
         \A s \in Shipments : status[s] # NoState => shipment'[s] = shipment[s],
         \A e \in Entities : status[e] # NoState => status'[e] # NoState
  PROVE  MovesFit(v)'
<1> DEFINE e == req[v].ent
           h == HookLines(e, req[v].to)
<1>1. pc[v] \in {"resolve", "begin", "line", "adjust"} => req[v] \in StatusRequest /\ e \in Entities
  BY DEF TypeOK, WorkersType, RequestFits, StatusRequest
<1>2. pc[v] \in {"line", "adjust"} => h' = h
  BY <1>1 DEF MovesFit, HookLines, Entities
<1>3. pc[v] \in {"resolve", "begin", "line", "adjust"} => status'[e] # NoState
  BY <1>1 DEF MovesFit
<1> QED BY <1>2, <1>3 DEF MovesFit

\* The committed movements, when a step commits none.
LEMMA MovedKept ==
  ASSUME MovedInv, UNCHANGED <<refMoved, log, shipment>>, tracked \subseteq tracked',
         \A s \in Shipments : status'[s] = NoState <=> status[s] = NoState
  PROVE  MovedInv'
<1>1. ReservedPerConfirm'
  BY DEF MovedInv, ReservedPerConfirm, Entered
<1>2. FulfilledPerShip'
  BY DEF MovedInv, FulfilledPerShip, Entered, PackedOf, Exists
<1> QED BY <1>1, <1>2 DEF MovedInv, Exists

\* One worker moves, the committed movements stay.
LEMMA WorkerMoves ==
  ASSUME TypeOK, MoveInv, NEW w \in Workers, NEW label \in Stages, NEW r,
         pc' = [pc EXCEPT ![w] = label], req' = [req EXCEPT ![w] = r],
         \A v \in Workers \ {w} : dMoved'[v] = dMoved[v],
         UNCHANGED <<refMoved, log, shipment>>, tracked \subseteq tracked',
         \A s \in Shipments : status'[s] = NoState <=> status[s] = NoState,
         \A e \in Entities : status[e] # NoState => status'[e] # NoState,
         label \in {"resolve", "begin", "line", "adjust"} => status'[r.ent] # NoState,
         IF label \in {"line", "adjust"}
           THEN \A k \in InitTracked :
                  dMoved'[w][k][RefType(r.ent)] =
                    Signed(r.ent, StockOf(HookLines(r.ent, r.to)', k) - StockOf(r.todo, k))
           ELSE dMoved'[w] = NoMove
  PROVE  MoveInv'
<1>1. pc'[w] = label /\ req'[w] = r
      /\ \A v \in Workers \ {w} : pc'[v] = pc[v] /\ req'[v] = req[v]
  BY DEF TypeOK, WorkersType
<1>2. MovesFit(w)'
  BY <1>1 DEF MovesFit
<1>3. ASSUME NEW v \in Workers \ {w} PROVE MovesFit(v)'
  BY <1>1, OtherMoves DEF MoveInv
<1>4. MovedInv'
  BY MovedKept DEF MoveInv
<1> QED BY <1>2, <1>3, <1>4 DEF MoveInv

LEMMA RollbackMoves ==
  ASSUME TypeOK, MoveInv, NEW w \in Workers, Rollback(w)
  PROVE  MoveInv'
<1>1. /\ pc' = [pc EXCEPT ![w] = "idle"] /\ req' = [req EXCEPT ![w] = NoReq]
      /\ dMoved' = [dMoved EXCEPT ![w] = NoMove]
      /\ UNCHANGED <<refMoved, log, shipment, tracked, status>>
  BY DEF Rollback, RollbackStock, Release, Done, Goto, committed
<1>2. dMoved'[w] = NoMove /\ (\A v \in Workers \ {w} : dMoved'[v] = dMoved[v]) /\ "idle" \in Stages
  BY <1>1 DEF TypeOK, StockType, Stages
<1> QED BY <1>1, <1>2, WorkerMoves

LEMMA ReceiveMoves ==
  ASSUME TypeOK, MoveInv, NEW w \in Workers, Receive(w)
  PROVE  MoveInv'
<1>1. pc[w] = "idle" /\ UNCHANGED <<dMoved, refMoved, log, shipment, tracked, status>>
  BY DEF Receive, LoadEntity, PackShipment, LoadHeldOrder, ErpInbound, Arrive, flowVars, stockVars
<1>2. dMoved'[w] = NoMove
  BY <1>1 DEF MoveInv, MovesFit
<1>3. \E label \in {"resolve", "pack", "decide", "erpApply"} : \E r :
        /\ pc' = [pc EXCEPT ![w] = label] /\ req' = [req EXCEPT ![w] = r]
        /\ label = "resolve" => status'[r.ent] # NoState
  <2>1. CASE LoadEntity(w)
    <3>1. PICK e \in Entities, to \in OrderTargets \cup ShipTargets, approve \in BOOLEAN :
             /\ status[e] # NoState
             /\ Arrive(w, "resolve",
                  [kind |-> "status", ent |-> e, to |-> to, seen |-> status[e],
                   from |-> NoState, approve |-> approve, todo |-> <<>>])
      BY <2>1 DEF LoadEntity
    <3> DEFINE r == [kind |-> "status", ent |-> e, to |-> to, seen |-> status[e],
                     from |-> NoState, approve |-> approve, todo |-> <<>>]
    <3>2. r.ent = e
      OBVIOUS
    <3>3. pc' = [pc EXCEPT ![w] = "resolve"] /\ req' = [req EXCEPT ![w] = r]
      BY <3>1 DEF Arrive, Goto
    <3> HIDE DEF r
    <3> QED BY <1>1, <3>1, <3>2, <3>3
  <2>2. CASE PackShipment(w)
    <3>1. \E r : Arrive(w, "pack", r)
      BY <2>2 DEF PackShipment
    <3> QED BY <3>1 DEF Arrive, Goto
  <2>3. CASE LoadHeldOrder(w)
    <3>1. \E r : Arrive(w, "decide", r)
      BY <2>3 DEF LoadHeldOrder
    <3> QED BY <3>1 DEF Arrive, Goto
  <2>4. CASE ErpInbound(w)
    <3>1. \E r : Arrive(w, "erpApply", r)
      BY <2>4 DEF ErpInbound
    <3> QED BY <3>1 DEF Arrive, Goto
  <2> QED BY <2>1, <2>2, <2>3, <2>4 DEF Receive
<1>4. PICK label \in {"resolve", "pack", "decide", "erpApply"} : \E r :
        /\ pc' = [pc EXCEPT ![w] = label] /\ req' = [req EXCEPT ![w] = r]
        /\ label = "resolve" => status'[r.ent] # NoState
  BY <1>3
<1>5. PICK r : /\ pc' = [pc EXCEPT ![w] = label] /\ req' = [req EXCEPT ![w] = r]
               /\ label = "resolve" => status'[r.ent] # NoState
  BY <1>4
<1>6. label \in Stages /\ tracked \subseteq tracked'
  BY <1>1 DEF Stages
<1> QED BY <1>1, <1>2, <1>5, <1>6, WorkerMoves

\* The line is moved as it leaves the list.
LEMMA AdjustMoves ==
  ASSUME TypeOK, PackedLinesExist, MoveInv, NEW w \in Workers, AdjustLine(w)
  PROVE  MoveInv'
<1> DEFINE e == req[w].ent
           key == Head(req[w].todo).key
           qty == Head(req[w].todo).qty
           type == RefType(e)
           next == [req[w] EXCEPT !.todo = Tail(@)]
           h(k) == StockOf(HookLines(e, req[w].to), k)
<1>1. pc[w] = "adjust" /\ req[w].todo # <<>>
  BY DEF AdjustLine, TypeOK, WorkersType, RequestFits
<1>2. /\ req[w] \in StatusRequest /\ e \in Entities /\ req[w].to \in States
      /\ req[w].todo \in StockLines /\ key \in Keys /\ qty \in Nat
      /\ Tail(req[w].todo) \in StockLines
  BY <1>1, HeadLine DEF StatusRequest
<1>3. \A k \in Keys : h(k) \in Nat /\ StockOf(req[w].todo, k) \in Nat
                      /\ StockOf(Tail(req[w].todo), k) \in Nat
  BY <1>2, HookLinesType, StockLineFacts
<1>4. next.ent = e /\ next.to = req[w].to /\ next.todo = Tail(req[w].todo)
  BY <1>2 DEF StatusRequest
<1>5. \E on, res \in Int : AdjustAndLog(w, key, on, res, type, Signed(e, qty))
  <2>1. CASE e \in Orders
    <3>1. AdjustAndLog(w, key, 0, qty, "reservation", qty) /\ 0 \in Int /\ qty \in Int
      BY <1>2, <2>1 DEF AdjustLine, ReserveLine
    <3>2. type = "reservation" /\ Signed(e, qty) = qty
      BY <2>1 DEF RefType, Signed
    <3> HIDE DEF type, qty, e, key
    <3> QED BY <3>1, <3>2
  <2>2. CASE e \notin Orders
    <3>1. AdjustAndLog(w, key, -qty, -qty, "fulfillment", -qty) /\ -qty \in Int
      BY <1>2, <2>2 DEF AdjustLine, FulfilLine
    <3> QED BY <2>2, <3>1 DEF RefType, Signed
  <2> QED BY <2>1, <2>2
<1>6. /\ dMoved' = [dMoved EXCEPT ![w][key][type] = @ + Signed(e, qty)]
      /\ UNCHANGED <<refMoved, log, shipment, tracked, status>>
      /\ pc' = [pc EXCEPT ![w] = "line"] /\ req' = [req EXCEPT ![w] = next]
  BY <1>5 DEF AdjustAndLog, AdjustLine, flowVars, committed, Goto, TypeOK, WorkersType
<1>7. type \in MoveTypes /\ Signed(e, qty) \in Int
  BY <1>2 DEF RefType, MoveTypes, Signed
<1>8. /\ \A v \in Workers \ {w} : dMoved'[v] = dMoved[v]
      /\ \A k \in Keys : /\ dMoved[w][k][type] \in Int
                         /\ dMoved'[w][k][type] = dMoved[w][k][type] + IF k = key THEN Signed(e, qty) ELSE 0
  <2>1. dMoved \in [Workers -> [Keys -> [MoveTypes -> Int]]]
    BY DEF TypeOK, StockType
  <2> HIDE DEF key, type, qty
  <2> QED BY <1>2, <1>6, <1>7, <2>1
<1>9. ASSUME NEW k \in InitTracked
      PROVE  dMoved'[w][k][type] = Signed(e, h(k) - StockOf(next.todo, k))
  <2>1. k \in Keys
    BY InventoryAssumption
  <2>2. dMoved[w][k][type] = Signed(e, h(k) - StockOf(req[w].todo, k))
    BY <1>1 DEF MoveInv, MovesFit
  <2>3. StockOf(req[w].todo, k) = (IF key = k THEN qty ELSE 0) + StockOf(next.todo, k)
    BY <1>1, <1>2, <1>4, StockOfHead
  <2>4. /\ h(k) \in Nat /\ StockOf(req[w].todo, k) \in Nat /\ StockOf(next.todo, k) \in Nat
        /\ dMoved'[w][k][type] = dMoved[w][k][type] + IF k = key THEN Signed(e, qty) ELSE 0
    BY <1>3, <1>4, <1>8, <2>1
  <2> HIDE DEF e, key, qty, type, next, h
  <2> QED BY <1>2, <2>2, <2>3, <2>4 DEF Signed
<1>10. HookLines(e, req[w].to)' = HookLines(e, req[w].to)
  BY <1>6 DEF HookLines
<1>11. status[e] # NoState /\ "line" \in Stages
  BY <1>1 DEF MoveInv, MovesFit, Stages
<1> HIDE DEF next
<1>12. PICK r : r = next
  OBVIOUS
<1>13. r.ent = e /\ r.to = req[w].to /\ r.todo = next.todo
  BY <1>4, <1>12
<1>14. ASSUME NEW k \in InitTracked
       PROVE  dMoved'[w][k][RefType(r.ent)] =
                Signed(r.ent, StockOf(HookLines(r.ent, r.to)', k) - StockOf(r.todo, k))
  <2>1. HookLines(r.ent, r.to)' = HookLines(e, req[w].to)
    BY <1>6, <1>13 DEF HookLines
  <2> QED BY <1>9, <1>13, <2>1
<1>15. status'[r.ent] # NoState /\ req' = [req EXCEPT ![w] = r] /\ tracked \subseteq tracked'
  BY <1>6, <1>11, <1>12, <1>13
<1>16. /\ status' = status /\ UNCHANGED <<refMoved, log, shipment>>
       /\ pc' = [pc EXCEPT ![w] = "line"] /\ "line" \in Stages
  BY <1>6, <1>11
<1>17. \A v \in Workers \ {w} : dMoved'[v] = dMoved[v]
  BY <1>8
<1> HIDE DEF e, key, qty, type, h
<1> QED BY <1>14, <1>15, <1>16, <1>17, WorkerMoves

\* A hook other than confirm's and ship's walks nothing.
LEMMA OtherHooks ==
  ASSUME NEW e \in Entities, NEW to,
         ~(e \in Orders /\ to = "confirmed"), ~(e \in Shipments /\ to = "shipped")
  PROVE  HookLines(e, to) = <<>>
BY DEF HookLines

LEMMA OnceMore == \A n, q \in Nat : (n + 1) * q = n * q + q /\ (n + 0) * q = n * q /\ n * q \in Nat
OBVIOUS

\* The commit adds to the entity's movements what its hook walked.
LEMMA CommitMoves ==
  ASSUME TypeOK, PackedLinesExist, MoveInv, NEW w \in Workers, CommitTransition(w)
  PROVE  MoveInv'
<1>0. PICK e, to : e = req[w].ent /\ to = req[w].to
  OBVIOUS
<1> DEFINE row == [from |-> req[w].from, to |-> to, approve |-> req[w].approve]
           h(k) == StockOf(HookLines(e, to), k)
<1>1. pc[w] = "line" /\ req[w].todo = <<>>
  BY DEF CommitTransition
<1>2. /\ req[w] \in StatusRequest /\ req[w].from # NoState /\ e \in Entities
      /\ to \in States /\ to # NoState /\ row \in LogRow
  <2>1. req[w] \in StatusRequest /\ req[w].from # NoState
    BY <1>1 DEF TypeOK, WorkersType, RequestFits
  <2> QED BY <1>0, <2>1, FulfilmentAssumption DEF StatusRequest, LogRow
<1>3. /\ status' = [status EXCEPT ![e] = to]
      /\ log' = [log EXCEPT ![e] = Append(@, row)]
      /\ refMoved' = [refMoved EXCEPT ![e] = [k \in Keys |-> @[k] + dMoved[w][k][RefType(e)]]]
      /\ dMoved' = [dMoved EXCEPT ![w] = NoMove]
      /\ UNCHANGED <<tracked, shipment>>
      /\ pc' = [pc EXCEPT ![w] = "idle"] /\ req' = [req EXCEPT ![w] = NoReq]
  BY <1>0 DEF CommitTransition, CommitStock, Release, Done, Goto
<1>4. /\ status'[e] = to /\ log'[e] = Append(log[e], row)
      /\ \A k \in Keys : refMoved'[e][k] = refMoved[e][k] + dMoved[w][k][RefType(e)]
      /\ \A f \in Entities : f # e =>
           /\ status'[f] = status[f] /\ log'[f] = log[f]
           /\ refMoved'[f] = refMoved[f]
  <2> HIDE DEF row
  <2> QED BY <1>2, <1>3 DEF TypeOK, TablesType
<1>5. ASSUME NEW k \in InitTracked
      PROVE  k \in Keys /\ h(k) \in Nat /\ dMoved[w][k][RefType(e)] = Signed(e, h(k))
  <2>1. k \in Keys
    BY InventoryAssumption
  <2>2. dMoved[w][k][RefType(e)] = Signed(e, h(k) - StockOf(<<>>, k))
    BY <1>0, <1>1 DEF MoveInv, MovesFit
  <2>3. h(k) \in Nat
    BY <1>2, HookLinesType, StockLineFacts
  <2>4. StockOf(<<>>, k) = 0
    BY StockOfNone
  <2> HIDE DEF h
  <2>5. h(k) - 0 = h(k)
    BY <2>3
  <2> QED BY <2>1, <2>2, <2>3, <2>4, <2>5
<1>6. ASSUME NEW s
      PROVE  /\ Entered(e, s) \in Nat
             /\ Entered(e, s)' = Entered(e, s) + IF to = s THEN 1 ELSE 0
  <2>1. log[e] \in Seq(LogRow)
    BY <1>2 DEF TypeOK, TablesType
  <2>2. row.to = to
    OBVIOUS
  <2> HIDE DEF row
  <2>3. row \in LogRow
    BY <1>2
  <2>4. LET n(t) == Cardinality({i \in DOMAIN t : t[i].to = s})
        IN  n(log[e]) \in Nat /\ n(Append(log[e], row)) = n(log[e]) + IF row.to = s THEN 1 ELSE 0
    <3> DEFINE l == log[e]
    <3>1. l \in Seq(LogRow)
      BY <2>1
    <3> HIDE DEF l
    <3>2. LET n(t) == Cardinality({i \in DOMAIN t : t[i].to = s})
          IN  n(l) \in Nat /\ n(Append(l, row)) = n(l) + IF row.to = s THEN 1 ELSE 0
      BY <3>1, <2>3, EnteredAppend
    <3> QED BY <3>2 DEF l
  <2> QED BY <1>4, <2>2, <2>4 DEF Entered
<1>7. \A f \in Entities : \A s : f # e => Entered(f, s)' = Entered(f, s)
  BY <1>4 DEF Entered
<1>8. status[e] # NoState
  BY <1>0, <1>1 DEF MoveInv, MovesFit
<1>9. ReservedPerConfirm'
  <2> SUFFICES ASSUME NEW o \in Orders, NEW k \in InitTracked
               PROVE  refMoved'[o][k] = IF k[2] = DefaultWh
                        THEN Entered(o, "confirmed")' * Ordered(o, k[1]) ELSE 0
    BY DEF ReservedPerConfirm, Ordered
  <2>1. refMoved[o][k] = IF k[2] = DefaultWh THEN Entered(o, "confirmed") * Ordered(o, k[1]) ELSE 0
    BY DEF MoveInv, MovedInv, ReservedPerConfirm
  <2>2. CASE o # e
    BY <1>4, <1>7, <2>1, <2>2 DEF Entities
  <2>3. CASE o = e
    <3> DEFINE n == Entered(o, "confirmed")
               q == Ordered(o, k[1])
    <3>1. q \in Nat /\ (to = "confirmed" => h(k) = IF k[2] = DefaultWh THEN q ELSE 0)
      BY <1>5, <2>3, ConfirmMoves
    <3>2. to # "confirmed" => h(k) = 0
      BY <1>2, <2>3, OtherHooks, StockOfNone, FulfilmentAssumption
    <3>3. refMoved'[o][k] = refMoved[o][k] + h(k)
      BY <1>4, <1>5, <2>3 DEF Signed
    <3>4. n \in Nat /\ n' = n + IF to = "confirmed" THEN 1 ELSE 0
      BY <1>6, <2>3
    <3>5. (n + 1) * q = n * q + q /\ (n + 0) * q = n * q /\ n * q \in Nat
      BY <3>1, <3>4, OnceMore
    <3> HIDE DEF n, q, h
    <3>6. refMoved[o][k] = IF k[2] = DefaultWh THEN n * q ELSE 0
      BY <2>1 DEF n, q
    <3>7. refMoved'[o][k] = IF k[2] = DefaultWh THEN n' * q ELSE 0
      <4>1. CASE to = "confirmed"
        BY <3>1, <3>3, <3>4, <3>5, <3>6, <4>1
      <4>2. CASE to # "confirmed"
        <5>1. refMoved'[o][k] = refMoved[o][k] /\ n' = n + 0
          BY <3>2, <3>3, <3>5, <3>6, <4>2, <3>4
        <5> QED BY <3>5, <3>6, <5>1
      <4> QED BY <4>1, <4>2
    <3> QED BY <3>7 DEF n, q
  <2> QED BY <2>2, <2>3
<1>10. FulfilledPerShip'
  <2>0. shipment' = shipment /\ \A s, p : PackedOf(s, p)' = PackedOf(s, p)
    BY <1>3 DEF PackedOf
  <2> SUFFICES ASSUME NEW s \in Shipments, NEW k \in InitTracked, status'[s] # NoState
               PROVE  refMoved'[s][k] = IF k[2] = shipment[s].wh
                        THEN -(Entered(s, "shipped")' * PackedOf(s, k[1])) ELSE 0
    BY <2>0 DEF FulfilledPerShip, Exists
  <2>1. status[s] # NoState
    BY <1>4, <1>8 DEF Entities
  <2>2. refMoved[s][k] = IF k[2] = shipment[s].wh
                        THEN -(Entered(s, "shipped") * PackedOf(s, k[1])) ELSE 0
    BY <2>1 DEF MoveInv, MovedInv, FulfilledPerShip, Exists
  <2>3. CASE s # e
    BY <1>4, <1>7, <2>2, <2>3 DEF Entities
  <2>4. CASE s = e
    <3> DEFINE n == Entered(s, "shipped")
               q == PackedOf(s, k[1])
               here == k[2] = shipment[s].wh
    <3>0. s \notin Orders
      BY FulfilmentAssumption
    <3>1. q \in Nat /\ (to = "shipped" => h(k) = IF here THEN q ELSE 0)
      BY <1>5, <2>4, ShipMoves
    <3>2. to # "shipped" => h(k) = 0
      BY <1>2, <2>4, <3>0, OtherHooks, StockOfNone
    <3>3. refMoved'[s][k] = refMoved[s][k] + (-h(k)) /\ h(k) \in Nat
      BY <1>4, <1>5, <2>4, <3>0 DEF Signed
    <3>4. n \in Nat /\ n' = n + IF to = "shipped" THEN 1 ELSE 0
      BY <1>6, <2>4
    <3>5. (n + 1) * q = n * q + q /\ (n + 0) * q = n * q /\ n * q \in Nat
      BY <3>1, <3>4, OnceMore
    <3>6. refMoved[s][k] = IF here THEN -(n * q) ELSE 0
      BY <2>2
    <3> HIDE DEF n, q, h, here
    <3>7. refMoved'[s][k] = IF here THEN -(n' * q) ELSE 0
      <4>1. CASE to = "shipped"
        BY <3>1, <3>3, <3>4, <3>5, <3>6, <4>1
      <4>2. CASE to # "shipped"
        <5>1. refMoved'[s][k] = refMoved[s][k] /\ n' = n + 0
          BY <3>2, <3>3, <3>5, <3>6, <4>2, <3>4
        <5> QED BY <3>5, <3>6, <5>1
      <4> QED BY <4>1, <4>2
    <3> QED BY <3>7 DEF n, q, here
  <2> QED BY <2>3, <2>4
<1>11. MovedInv'
  <2>1. ASSUME NEW s \in Shipments, status'[s] = NoState
        PROVE  refMoved'[s] = NoDelta /\ log'[s] = <<>>
    <3>1. s # e /\ s \in Entities
      BY <1>2, <1>4, <2>1 DEF Entities
    <3> QED BY <1>4, <2>1, <3>1 DEF MoveInv, MovedInv, Exists
  <2> QED BY <1>3, <1>9, <1>10, <2>1 DEF MoveInv, MovedInv, Exists
<1>12. ASSUME NEW v \in Workers PROVE MovesFit(v)'
  <2>1. CASE v = w
    BY <1>3, <2>1 DEF MovesFit, TypeOK, WorkersType, StockType
  <2>2. CASE v # w
    <3>1. pc'[v] = pc[v] /\ req'[v] = req[v] /\ dMoved'[v] = dMoved[v]
      BY <1>3, <2>2
    <3>2. \A f \in Entities : status[f] # NoState => status'[f] # NoState
      BY <1>2, <1>4
    <3> QED BY <1>3, <3>1, <3>2, OtherMoves DEF MoveInv
  <2> QED BY <2>1, <2>2
<1> QED BY <1>11, <1>12 DEF MoveInv

\* A transaction starts with everything its hook walks still to do.
LEMMA BeginMoves ==
  ASSUME TypeOK, PackedLinesExist, MoveInv, NEW w \in Workers, Begin(w)
  PROVE  MoveInv'
<1>0. PICK e, to, r : /\ e = req[w].ent /\ to = req[w].to
                      /\ r = [req[w] EXCEPT !.todo = HookLines(e, to)]
  OBVIOUS
<1>1. pc[w] = "begin" /\ req[w] \in StatusRequest
  BY DEF Begin, TypeOK, WorkersType, RequestFits
<1>2. e \in Entities /\ to \in States /\ r.ent = e /\ r.to = to /\ r.todo = HookLines(e, to)
  BY <1>0, <1>1 DEF StatusRequest
<1>3. /\ pc' = [pc EXCEPT ![w] = "line"] /\ req' = [req EXCEPT ![w] = r]
      /\ UNCHANGED <<dMoved, refMoved, log, shipment, tracked, status>>
  BY <1>0 DEF Begin, Goto, stockVars, TypeOK, WorkersType
<1>4. status[e] # NoState /\ dMoved[w] = NoMove /\ "line" \in Stages
  BY <1>0, <1>1 DEF MoveInv, MovesFit, Stages
<1>5. ASSUME NEW k \in InitTracked
      PROVE  dMoved'[w][k][RefType(r.ent)] =
               Signed(r.ent, StockOf(HookLines(r.ent, r.to)', k) - StockOf(r.todo, k))
  <2>1. k \in Keys /\ RefType(e) \in MoveTypes
    BY InventoryAssumption DEF RefType, MoveTypes
  <2>2. dMoved'[w][k][RefType(e)] = 0
    BY <1>3, <1>4, <2>1 DEF NoMove
  <2>3. HookLines(e, to)' = HookLines(e, to)
    BY <1>3 DEF HookLines
  <2>4. StockOf(HookLines(e, to), k) \in Nat
    BY <1>2, HookLinesType, StockLineFacts
  <2> DEFINE x == StockOf(HookLines(e, to), k)
  <2>5. x - x = 0
    <3> HIDE DEF x
    <3> QED BY <2>4 DEF x
  <2> QED BY <1>2, <2>2, <2>3, <2>5 DEF Signed
<1>6. tracked \subseteq tracked' /\ status' = status /\ status'[r.ent] # NoState
  BY <1>2, <1>3, <1>4
<1> QED BY <1>3, <1>4, <1>5, <1>6, WorkerMoves

\* A line without a row is passed over: no row that was there at the start.
LEMMA ReadMoves ==
  ASSUME TypeOK, PackedLinesExist, MoveInv, NEW w \in Workers, ReadLevel(w)
  PROVE  MoveInv'
<1> DEFINE line == Head(req[w].todo)
<1>0. PICK e, to : e = req[w].ent /\ to = req[w].to
  OBVIOUS
<1>1. pc[w] = "line" /\ req[w].todo # <<>>
  BY DEF ReadLevel
<1>2. /\ req[w] \in StatusRequest /\ e \in Entities /\ to \in States
      /\ req[w].todo \in StockLines /\ Tail(req[w].todo) \in StockLines
  BY <1>0, <1>1, HeadLine DEF StatusRequest
<1>3. status[e] # NoState /\ {"line", "adjust"} \subseteq Stages
  BY <1>0, <1>1 DEF MoveInv, MovesFit, Stages
<1>4. ASSUME NEW label \in {"line", "adjust"}, NEW r,
             r.ent = e, r.to = to, \A k \in InitTracked : StockOf(r.todo, k) = StockOf(req[w].todo, k),
             pc' = [pc EXCEPT ![w] = label], req' = [req EXCEPT ![w] = r],
             UNCHANGED <<stockVars, flowVars>>
      PROVE  MoveInv'
  <2>1. UNCHANGED <<dMoved, refMoved, log, shipment, tracked, status>>
    BY <1>4 DEF stockVars, flowVars
  <2>2. ASSUME NEW k \in InitTracked
        PROVE  dMoved'[w][k][RefType(r.ent)] =
                 Signed(r.ent, StockOf(HookLines(r.ent, r.to)', k) - StockOf(r.todo, k))
    <3>1. dMoved[w][k][RefType(e)] = Signed(e, StockOf(HookLines(e, to), k) - StockOf(req[w].todo, k))
      BY <1>0, <1>1 DEF MoveInv, MovesFit
    <3>2. HookLines(e, to)' = HookLines(e, to)
      BY <2>1 DEF HookLines
    <3> QED BY <1>4, <2>1, <3>1, <3>2
  <2>3. tracked \subseteq tracked' /\ status' = status /\ status'[r.ent] # NoState /\ label \in Stages
    BY <1>3, <1>4, <2>1
  <2> QED BY <1>4, <2>1, <2>2, <2>3, WorkerMoves
<1>5. CASE line.key \notin tracked /\ req' = [req EXCEPT ![w].todo = Tail(@)]
           /\ UNCHANGED <<stockVars, flowVars, pc>>
  <2>1. PICK r : r = [req[w] EXCEPT !.todo = Tail(@)]
    OBVIOUS
  <2>2. r.ent = e /\ r.to = to /\ r.todo = Tail(req[w].todo)
    BY <1>0, <1>2, <2>1 DEF StatusRequest
  <2>3. ASSUME NEW k \in InitTracked PROVE StockOf(r.todo, k) = StockOf(req[w].todo, k)
    <3>1. line.key # k
      BY <1>5 DEF MoveInv, MovedInv
    <3>2. StockOf(req[w].todo, k) = (IF line.key = k THEN line.qty ELSE 0) + StockOf(Tail(req[w].todo), k)
      BY <1>1, <1>2, StockOfHead
    <3>3. StockOf(Tail(req[w].todo), k) \in Nat
      BY <1>2, StockLineFacts
    <3> QED BY <2>2, <3>1, <3>2, <3>3
  <2>4. pc' = [pc EXCEPT ![w] = "line"] /\ req' = [req EXCEPT ![w] = r]
    BY <1>1, <1>5, <2>1 DEF TypeOK, WorkersType
  <2> QED BY <1>4, <1>5, <2>2, <2>3, <2>4
<1>6. CASE Goto(w, "adjust") /\ UNCHANGED <<stockVars, flowVars, req>>
  <2>1. pc' = [pc EXCEPT ![w] = "adjust"] /\ req' = [req EXCEPT ![w] = req[w]]
    BY <1>6 DEF Goto, TypeOK, WorkersType
  <2>2. PICK r : r = req[w]
    OBVIOUS
  <2> QED BY <1>0, <1>4, <1>6, <2>1, <2>2
<1>7. CASE Rollback(w)
  BY <1>7, RollbackMoves
<1> QED BY <1>5, <1>6, <1>7 DEF ReadLevel

\* What a list packs of a product is a quantity, whatever its lines are.
LEMMA PackedIsNat ==
  ASSUME NEW items \in Seq([line : Nat, qty : Nat]), NEW S
  PROVE  SumOf([i \in DOMAIN items |-> IF i \in S THEN items[i].qty ELSE 0]) \in Nat
<1> DEFINE R == [line : Nat, qty : Nat]
           f == [i \in DOMAIN items |-> IF i \in S THEN items[i].qty ELSE 0]
<1>1. /\ Len(items) \in Nat /\ DOMAIN items = 1..Len(items)
      /\ \A i \in DOMAIN items : items[i] \in R
  <2>1. items \in Seq(R)
    OBVIOUS
  <2> HIDE DEF R
  <2> QED BY <2>1, LenProperties, ElementOfSeq
<1>2. IsFiniteSet(DOMAIN items)
  BY <1>1, FS_Interval
<1>3. f \in [DOMAIN items -> Nat]
  BY <1>1
<1> HIDE DEF f
<1>4. SumOf(f) \in Nat
  BY <1>2, <1>3, SumNat
<1> QED BY <1>4 DEF f

\* A new shipment has moved nothing.
LEMMA CreateMoves ==
  ASSUME TypeOK, MoveInv, NEW w \in Workers, CreateShipment(w)
  PROVE  MoveInv'
<1>1. PICK s \in Shipments :
        /\ status[s] = NoState
        /\ status' = [status EXCEPT ![s] = "pending"]
        /\ shipment' = [shipment EXCEPT ![s] =
             [order |-> req[w].order, wh |-> req[w].wh, items |-> req[w].items]]
  BY DEF CreateShipment, Exists
<1>2. /\ pc[w] = "pack"
      /\ UNCHANGED <<dMoved, refMoved, log, tracked>>
      /\ pc' = [pc EXCEPT ![w] = "idle"] /\ req' = [req EXCEPT ![w] = NoReq]
  BY DEF CreateShipment, stockVars, Done, Goto
<1>3. "pending" # NoState /\ s \in Entities /\ s \notin Orders
  BY FulfilmentAssumption DEF States, OrderStates, Entities
<1>4. /\ status'[s] # NoState /\ \A e \in Entities : e # s => status'[e] = status[e]
      /\ \A t \in Shipments : t # s => shipment'[t] = shipment[t]
  BY <1>1, <1>3 DEF TypeOK, TablesType
<1>5. refMoved[s] = NoDelta /\ log[s] = <<>>
  BY <1>1 DEF MoveInv, MovedInv, Exists
<1>6. ReservedPerConfirm'
  BY <1>2 DEF MoveInv, MovedInv, ReservedPerConfirm, Entered
<1>7. FulfilledPerShip'
  <2> SUFFICES ASSUME NEW t \in Shipments, NEW k \in InitTracked, status'[t] # NoState
               PROVE  refMoved'[t][k] = IF k[2] = shipment'[t].wh
                        THEN -(Entered(t, "shipped")' * PackedOf(t, k[1])') ELSE 0
    BY DEF FulfilledPerShip, Exists
  <2>1. Entered(t, "shipped")' = Entered(t, "shipped")
    BY <1>2 DEF Entered
  <2>2. CASE t # s
    <3>1. shipment'[t] = shipment[t] /\ status[t] # NoState
      BY <1>4, <2>2 DEF Entities
    <3>2. PackedOf(t, k[1])' = PackedOf(t, k[1])
      BY <3>1 DEF PackedOf
    <3> QED BY <1>2, <2>1, <3>1, <3>2 DEF MoveInv, MovedInv, FulfilledPerShip, Exists
  <2>3. CASE t = s
    <3>1. k \in Keys /\ refMoved'[t][k] = 0
      BY <1>2, <1>5, <2>3, InventoryAssumption DEF NoDelta
    <3>2. Entered(t, "shipped") = 0
      <4>1. {i \in DOMAIN log[t] : log[t][i].to = "shipped"} = {}
        BY <1>5, <2>3
      <4> QED BY <4>1, FS_EmptySet DEF Entered
    <3>3. PackedOf(t, k[1])' \in Nat
      <4> DEFINE items == shipment'[t].items
                 o == shipment'[t].order
                 S == {i \in DOMAIN items : Lines[o][items[i].line].product = k[1]}
      <4>1. shipment'[t].items \in Packings
        <5>1. req[w] \in PackRequest
          BY <1>2 DEF TypeOK, WorkersType, RequestFits
        <5> QED BY <1>1, <2>3, <5>1 DEF PackRequest, TypeOK, TablesType
      <4>2. items \in Seq([line : Nat, qty : Nat])
        BY <4>1, FulfilmentAssumption
      <4>3. PackedOf(t, k[1])' = SumOf([i \in DOMAIN items |-> IF i \in S THEN items[i].qty ELSE 0])
        BY DEF PackedOf
      <4> HIDE DEF items, S
      <4> QED BY <4>2, <4>3, PackedIsNat
    <3> QED BY <2>1, <3>1, <3>2, <3>3
  <2> QED BY <2>2, <2>3
<1>8. MovedInv'
  <2>1. ASSUME NEW t \in Shipments, status'[t] = NoState
        PROVE  refMoved'[t] = NoDelta /\ log'[t] = <<>>
    BY <1>2, <1>4, <2>1 DEF MoveInv, MovedInv, Exists, Entities
  <2> QED BY <1>2, <1>6, <1>7, <2>1 DEF MoveInv, MovedInv, Exists
<1>9. ASSUME NEW v \in Workers PROVE MovesFit(v)'
  <2>1. CASE v = w
    BY <1>2, <2>1 DEF MoveInv, MovesFit, TypeOK, WorkersType
  <2>2. CASE v # w
    <3>1. pc'[v] = pc[v] /\ req'[v] = req[v] /\ dMoved'[v] = dMoved[v]
      BY <1>2, <2>2
    <3>2. /\ \A f \in Entities : status[f] # NoState => status'[f] # NoState
          /\ \A t \in Shipments : status[t] # NoState => shipment'[t] = shipment[t]
      BY <1>1, <1>4
    <3> QED BY <3>1, <3>2, OtherMoves DEF MoveInv
  <2> QED BY <2>1, <2>2
<1> QED BY <1>8, <1>9 DEF MoveInv

LEMMA MoveStep ==
  ASSUME TypeOK, PackedLinesExist, MoveInv, [Next]_vars
  PROVE  MoveInv'
<1>1. ASSUME UNCHANGED <<refMoved, log, shipment, dMoved, pc, req, status>>, tracked \subseteq tracked'
      PROVE  MoveInv'
  <2>1. MovedInv'
    BY <1>1, MovedKept DEF MoveInv
  <2>2. ASSUME NEW v \in Workers PROVE MovesFit(v)'
    BY <1>1, OtherMoves DEF MoveInv
  <2> QED BY <2>1, <2>2 DEF MoveInv
<1>2. ASSUME NEW w \in Workers, pc[w] \notin {"line", "adjust"},
             UNCHANGED <<refMoved, log, shipment, dMoved>>, tracked \subseteq tracked',
             \A e \in Entities : status[e] # NoState => status'[e] # NoState,
             \A s \in Shipments : status'[s] = NoState <=> status[s] = NoState,
             NEW label \in Stages \ {"line", "adjust"}, NEW r,
             pc' = [pc EXCEPT ![w] = label], req' = [req EXCEPT ![w] = r],
             label \in {"resolve", "begin"} => status'[r.ent] # NoState
      PROVE  MoveInv'
  <2>1. dMoved'[w] = NoMove
    BY <1>2 DEF MoveInv, MovesFit
  <2> QED BY <1>2, <2>1, WorkerMoves
<1>3. "idle" \in Stages /\ "begin" \in Stages /\ "erpLog" \in Stages
  BY DEF Stages
<1>4. ASSUME NEW w \in Workers, Serve(w) PROVE MoveInv'
  <2>1. CASE Resolve(w)
    <3>1. /\ pc[w] = "resolve"
          /\ UNCHANGED <<refMoved, log, shipment, dMoved, tracked, status>>
      BY <2>1 DEF Resolve, stockVars
    <3>2. status[req[w].ent] # NoState /\ req[w] \in StatusRequest
      BY <3>1 DEF MoveInv, MovesFit, TypeOK, WorkersType, RequestFits
    <3>3. CASE Goto(w, "begin") /\ \E from : req' = [req EXCEPT ![w].from = from]
      <4>1. PICK from : req' = [req EXCEPT ![w].from = from]
        BY <3>3
      <4>2. PICK r : r = [req[w] EXCEPT !.from = from]
        OBVIOUS
      <4>3. r.ent = req[w].ent
        BY <3>2, <4>2 DEF StatusRequest
      <4>4. pc' = [pc EXCEPT ![w] = "begin"] /\ req' = [req EXCEPT ![w] = r]
        BY <3>3, <4>1, <4>2 DEF Goto, TypeOK, WorkersType
      <4>5. status' = status /\ status'[r.ent] # NoState /\ tracked \subseteq tracked'
        BY <3>1, <3>2, <4>3
      <4> QED BY <1>2, <1>3, <3>1, <4>4, <4>5
    <3>4. CASE Done(w)
      <4>1. pc' = [pc EXCEPT ![w] = "idle"] /\ req' = [req EXCEPT ![w] = NoReq]
            /\ status' = status /\ tracked \subseteq tracked'
        BY <3>1, <3>4 DEF Done, Goto
      <4> QED BY <1>2, <1>3, <3>1, <4>1
    <3> QED BY <2>1, <3>3, <3>4 DEF Resolve
  <2>2. CASE Begin(w)
    BY <2>2, BeginMoves
  <2>3. CASE ReadLevel(w)
    BY <2>3, ReadMoves
  <2>4. CASE AdjustLine(w)
    BY <2>4, AdjustMoves
  <2>5. CASE CommitTransition(w)
    BY <2>5, CommitMoves
  <2>6. CASE DeadlockVictim(w)
    BY <2>6, RollbackMoves DEF DeadlockVictim
  <2>7. CASE CreateShipment(w)
    BY <2>7, CreateMoves
  <2>8. CASE DecideOrder(w)
    <3>1. /\ pc[w] = "decide"
          /\ UNCHANGED <<refMoved, log, shipment, dMoved, tracked>>
          /\ pc' = [pc EXCEPT ![w] = "idle"] /\ req' = [req EXCEPT ![w] = NoReq]
      BY <2>8 DEF DecideOrder, stockVars, Done, Goto
    <3>2. /\ req[w].ent \in Orders /\ req[w].to # NoState
          /\ status' = [status EXCEPT ![req[w].ent] = req[w].to]
      BY <2>8, FulfilmentAssumption
         DEF DecideOrder, TypeOK, WorkersType, RequestFits, DecideRequest, States, OrderStates
    <3>3. /\ \A e \in Entities : status[e] # NoState => status'[e] # NoState
          /\ \A s \in Shipments : status'[s] = NoState <=> status[s] = NoState
      BY <3>2, FulfilmentAssumption DEF TypeOK, TablesType, Entities
    <3> QED BY <1>2, <1>3, <3>1, <3>3
  <2>9. CASE ErpApply(w) \/ ErpRecord(w)
    <3>1. /\ pc[w] \in {"erpApply", "erpLog"} /\ UNCHANGED <<refMoved, log, shipment, dMoved, status>>
          /\ tracked \subseteq tracked'
      BY <2>9 DEF ErpApply, ErpRecord, SetInventoryOnHand, stockVars, flowVars, inFlight
    <3>2. \E label \in {"idle", "erpLog"} : \E r : pc' = [pc EXCEPT ![w] = label] /\ req' = [req EXCEPT ![w] = r]
      <4>1. CASE ErpApply(w)
        <5>1. pc' = [pc EXCEPT ![w] = "erpLog"] /\ req' = [req EXCEPT ![w] = req[w]]
          BY <4>1 DEF ErpApply, Goto, TypeOK, WorkersType
        <5> QED BY <5>1
      <4>2. CASE ErpRecord(w)
        BY <4>2 DEF ErpRecord, Done, Goto
      <4> QED BY <2>9, <4>1, <4>2
    <3>3. PICK label \in {"idle", "erpLog"} : \E r : pc' = [pc EXCEPT ![w] = label] /\ req' = [req EXCEPT ![w] = r]
      BY <3>2
    <3>4. PICK r : pc' = [pc EXCEPT ![w] = label] /\ req' = [req EXCEPT ![w] = r]
      BY <3>3
    <3>5. label \in Stages /\ status' = status
      BY <1>3, <3>1
    <3> QED BY <1>2, <3>1, <3>4, <3>5
  <2> QED
    BY <1>4, <2>1, <2>2, <2>3, <2>4, <2>5, <2>6, <2>7, <2>8, <2>9 DEF Serve
<1>5. ASSUME NEW w \in Workers, Receive(w) PROVE MoveInv'
  BY <1>5, ReceiveMoves
<1>6. ASSUME NEW w \in Workers, Fail(w) PROVE MoveInv'
  BY <1>6, RollbackMoves DEF Fail
<1>7. CASE Correct \/ Configure \/ Rest \/ UNCHANGED vars
  <2>1. UNCHANGED <<refMoved, log, shipment, dMoved, pc, req, status>>
    BY <1>7 DEF Correct, Configure, Rest, Adjust, SetLevelConfig, vars, flowVars, inFlight, stockVars
  <2>2. tracked \subseteq tracked'
    BY <1>7 DEF Correct, Configure, Rest, Adjust, SetLevelConfig, vars, stockVars
  <2> QED BY <1>1, <2>1, <2>2
<1> QED
  BY <1>4, <1>5, <1>6, <1>7 DEF Next

LEMMA MoveInit == Init => MoveInv
<1> SUFFICES ASSUME Init PROVE MoveInv
  OBVIOUS
<1>1. \A e \in Entities : refMoved[e] = NoDelta /\ log[e] = <<>>
  BY DEF Init
<1>2. \A e \in Entities : \A s : Entered(e, s) = 0
  <2> SUFFICES ASSUME NEW e \in Entities, NEW s PROVE Entered(e, s) = 0
    OBVIOUS
  <2>1. {i \in DOMAIN log[e] : log[e][i].to = s} = {}
    BY <1>1
  <2> QED BY <2>1, FS_EmptySet DEF Entered
<1>3. ReservedPerConfirm
  <2> SUFFICES ASSUME NEW o \in Orders, NEW k \in InitTracked
               PROVE refMoved[o][k] = IF k[2] = DefaultWh
                       THEN Entered(o, "confirmed") * Ordered(o, k[1]) ELSE 0
    BY DEF ReservedPerConfirm
  <2>1. k \in Keys
    BY InventoryAssumption
  <2>2. Ordered(o, k[1]) \in Nat /\ Entered(o, "confirmed") = 0 /\ refMoved[o][k] = 0
    BY <1>1, <1>2, <2>1, ConfirmMoves DEF NoDelta, Entities
  <2> QED BY <2>2
<1>4. \A s \in Shipments : ~Exists(s)
  BY FulfilmentAssumption DEF Init, Exists, Entities
<1>5. \A w \in Workers : pc[w] = "idle" /\ dMoved[w] = NoMove
  BY DEF Init, StockInit
<1> QED BY <1>1, <1>3, <1>4, <1>5 DEF MoveInv, MovedInv, MovesFit, FulfilledPerShip, Init, StockInit, Entities

LEMMA SpecMoves == Spec => []MoveInv
<1>1. Inv /\ MoveInv /\ [Next]_vars => MoveInv'
  BY MoveStep DEF Inv
<1> QED BY <1>1, MoveInit, SpecInv, PTL DEF Spec

(* Confirming an order is all or nothing: for every row that existed from  *)
(* the start, the reservations that name an order are its lines once per   *)
(* logged confirmation (ReserveForOrder in patchOrderStatus's hook).       *)
THEOREM ReservedPerConfirmAlways == Spec => []ReservedPerConfirm
<1>1. MoveInv => ReservedPerConfirm
  BY DEF MoveInv, MovedInv
<1> QED BY <1>1, SpecMoves, PTL

-----------------------------------------------------------------------------
(* What is packed of an order line.                                        *)

PackRow(items, line) == [j \in DOMAIN items |-> IF items[j].line = line THEN items[j].qty ELSE 0]

LEMMA PackedFacts ==
  ASSUME NEW items \in Seq([line : Nat, qty : Nat]), NEW line
  PROVE  /\ Packed(items, line) \in Nat
         /\ (\A j \in DOMAIN items : items[j].line # line) => Packed(items, line) = 0
         /\ ~NamesTwice(items) =>
              \A j \in DOMAIN items : items[j].line = line => Packed(items, line) = items[j].qty
<1> DEFINE R == [line : Nat, qty : Nat]
           f == PackRow(items, line)
<1>1. /\ Len(items) \in Nat /\ DOMAIN items = 1..Len(items)
      /\ \A j \in DOMAIN items : items[j] \in R
  <2>1. items \in Seq(R)
    OBVIOUS
  <2> HIDE DEF R
  <2> QED BY <2>1, LenProperties, ElementOfSeq
<1>2. IsFiniteSet(DOMAIN items)
  BY <1>1, FS_Interval
<1>3. f \in [DOMAIN items -> Nat] /\ f \in [DOMAIN items -> Int]
  BY <1>1 DEF PackRow
<1>4. Packed(items, line) = SumOf(f)
  BY DEF Packed, PackRow
<1>5. SumOf(f) \in Nat
  <2> HIDE DEF f
  <2> QED BY <1>2, <1>3, SumNat
<1>6. ASSUME \A j \in DOMAIN items : items[j].line # line PROVE SumOf(f) = 0
  <2>1. \A j \in DOMAIN items : f[j] = 0
    BY <1>6 DEF PackRow
  <2> HIDE DEF f
  <2> QED BY <1>2, <1>3, <2>1, SumZero
<1>7. ASSUME ~NamesTwice(items), NEW j \in DOMAIN items, items[j].line = line
      PROVE  SumOf(f) = items[j].qty
  <2>1. (\A i \in DOMAIN items \ {j} : f[i] = 0) /\ f[j] = items[j].qty
    BY <1>7 DEF PackRow, NamesTwice
  <2> HIDE DEF f
  <2> QED BY <1>2, <1>3, <2>1, SumSingle
<1> QED BY <1>4, <1>5, <1>6, <1>7

\* One share may grow up to what the total leaves of one limit.
LEMMA OneMoreFits ==
  ASSUME NEW S, IsFiniteSet(S), NEW f \in [S -> Int], NEW w \in S, NEW m \in Int, NEW q \in Int,
         \A v \in S : f[v] <= q, m + f[w] <= q
  PROVE  m + SumOf(f) <= q * Cardinality(S)
<1> DEFINE g == [v \in S |-> IF v = w THEN m + f[w] ELSE f[v]]
<1>1. /\ g \in [S -> Int] /\ g[w] = m + f[w]
      /\ \A v \in S : g[v] <= q
      /\ \A v \in S \ {w} : g[v] = f[v]
  OBVIOUS
<1>2. SumOf(f) \in Int
  BY SumInt
<1> HIDE DEF g
<1>3. SumOf(g) = SumOf(f) - f[w] + g[w]
  BY <1>1, SumChange
<1>4. SumOf(g) <= q * Cardinality(S)
  BY <1>1, SumBound
<1>5. f[w] \in Int /\ q * Cardinality(S) \in Int
  BY FS_CardinalityType
<1> QED BY <1>1, <1>2, <1>3, <1>4, <1>5

(* The requests between the check of createShipment and its insert.        *)
Pending(stage, r, o, i) ==
  IF stage = "pack" /\ r.order = o /\ ~NamesTwice(r.items) THEN Packed(r.items, i) ELSE 0
PendRow(o, i) == [w \in Workers |-> Pending(pc[w], req[w], o, i)]
ShipRow(o, i) ==
  [s \in Shipments |-> IF shipment[s].order = o THEN Packed(shipment[s].items, i) ELSE 0]

Clean(o) == \A s \in Shipments : shipment[s].order = o => ~NamesTwice(shipment[s].items)

(* Each such request alone fits the line, and all of them together with    *)
(* what is shipped fit one line for every worker.                          *)
LineInv(o, i) ==
  /\ \A w \in Workers : PendRow(o, i)[w] <= Lines[o][i].qty
  /\ Clean(o) => Shipped(o, i) + SumOf(PendRow(o, i)) <= Lines[o][i].qty * Cardinality(Workers)

PackInv ==
  /\ \A s \in Shipments : ~Exists(s) => shipment[s].items = <<>>
  /\ \A o \in Orders : \A i \in DOMAIN Lines[o] : LineInv(o, i)

LEMMA LineQty ==
  ASSUME NEW o \in Orders, NEW i \in DOMAIN Lines[o]
  PROVE  Lines[o][i].qty \in Nat
<1> DEFINE R == [product : Products, qty : Nat]
<1>1. Lines[o] \in Seq(R)
  BY FulfilmentAssumption
<1>2. Lines[o][i] \in R
  <2> HIDE DEF R
  <2> QED BY <1>1, LenProperties, ElementOfSeq
<1> QED BY <1>2

PackTyped ==
  /\ \A s \in Shipments : shipment[s].items \in Seq([line : Nat, qty : Nat])
  /\ \A w \in Workers : pc[w] = "pack" =>
       req[w].items \in Seq([line : Nat, qty : Nat]) /\ req[w].order \in Orders
  /\ \A o, i : PendRow(o, i) \in [Workers -> Nat] /\ ShipRow(o, i) \in [Shipments -> Nat]

LEMMA PackTypes == TypeOK => PackTyped
<1> SUFFICES ASSUME TypeOK PROVE PackTyped
  OBVIOUS
<1>1. \A s \in Shipments : shipment[s].items \in Seq([line : Nat, qty : Nat])
  <2>1. \A s \in Shipments : shipment[s].items \in Packings \cup {<<>>}
    BY DEF TypeOK, TablesType, ShipmentRow
  <2> DEFINE R == [line : Nat, qty : Nat]
  <2>2. Packings \subseteq Seq(R)
    BY FulfilmentAssumption
  <2>3. <<>> \in Seq(R)
    <3> HIDE DEF R
    <3> QED BY EmptySeq
  <2> HIDE DEF R
  <2>4. \A s \in Shipments : shipment[s].items \in Seq(R)
    BY <2>1, <2>2, <2>3, Zenon
  <2> QED BY <2>4 DEF R
<1>2. ASSUME NEW w \in Workers, pc[w] = "pack"
      PROVE  req[w].items \in Seq([line : Nat, qty : Nat]) /\ req[w].order \in Orders
  <2>1. req[w] \in PackRequest
    BY <1>2 DEF TypeOK, WorkersType, RequestFits
  <2> QED BY <2>1, FulfilmentAssumption DEF PackRequest
<1>3. ASSUME NEW o, NEW i PROVE PendRow(o, i) \in [Workers -> Nat]
  <2>1. ASSUME NEW w \in Workers PROVE Pending(pc[w], req[w], o, i) \in Nat
    BY <1>2, PackedFacts DEF Pending
  <2> QED BY <2>1 DEF PendRow
<1>4. ASSUME NEW o, NEW i PROVE ShipRow(o, i) \in [Shipments -> Nat]
  <2>1. ASSUME NEW s \in Shipments PROVE Packed(shipment[s].items, i) \in Nat
    BY <1>1, PackedFacts
  <2> QED BY <2>1 DEF ShipRow
<1> QED BY <1>1, <1>2, <1>3, <1>4 DEF PackTyped

LEMMA PackTypesNext == TypeOK' => PackTyped'
BY PackTypes, PTL

LEMMA ShippedIsSum == \A o, i : Shipped(o, i) = SumOf(ShipRow(o, i))
BY DEF Shipped, ShipRow

\* Requests that end give back what they would have packed.
LEMMA LineKept ==
  ASSUME PackTyped, PackTyped', NEW o \in Orders, NEW i \in DOMAIN Lines[o], LineInv(o, i),
         UNCHANGED shipment,
         \A v \in Workers : PendRow(o, i)'[v] <= PendRow(o, i)[v]
  PROVE  LineInv(o, i)'
<1> DEFINE q == Lines[o][i].qty
           F == PendRow(o, i)
           G == PendRow(o, i)'
<1>1. q \in Nat
  BY LineQty
<1>2. F \in [Workers -> Nat] /\ G \in [Workers -> Nat] /\ IsFiniteSet(Workers)
  BY FulfilmentAssumption DEF PackTyped
<1>3. F \in [Workers -> Int] /\ G \in [Workers -> Int] /\ \A v \in Workers : G[v] <= F[v]
  BY <1>2
<1>4. SumOf(F) \in Nat /\ SumOf(G) \in Nat /\ SumOf(G) <= SumOf(F)
  <2> HIDE DEF F, G
  <2> QED BY <1>2, <1>3, SumNat, SumMonotone
<1>5. Shipped(o, i)' = Shipped(o, i) /\ Clean(o)' = Clean(o)
  BY DEF Shipped, Clean
<1>6. Shipped(o, i) \in Nat
  <2> DEFINE H == ShipRow(o, i)
  <2>1. H \in [Shipments -> Nat] /\ IsFiniteSet(Shipments)
    BY FulfilmentAssumption DEF PackTyped
  <2>2. SumOf(H) \in Nat
    <3> HIDE DEF H
    <3> QED BY <2>1, SumNat
  <2> QED BY <2>2, ShippedIsSum
<1>7. \A v \in Workers : F[v] <= q
  BY DEF LineInv
<1>8. \A v \in Workers : G[v] <= q
  <2> HIDE DEF F, G, q
  <2> QED BY <1>1, <1>2, <1>3, <1>7
<1>9. Clean(o)' => Shipped(o, i)' + SumOf(G) <= q * Cardinality(Workers)
  <2>1. Clean(o) => Shipped(o, i) + SumOf(F) <= q * Cardinality(Workers)
    BY DEF LineInv
  <2>2. q * Cardinality(Workers) \in Int
    BY <1>1, FulfilmentAssumption, FS_CardinalityType
  <2> DEFINE m == q * Cardinality(Workers)
  <2> HIDE DEF F, G, m
  <2>3. Clean(o)' => Shipped(o, i)' + SumOf(G) <= m
    BY <1>4, <1>5, <1>6, <2>1, <2>2 DEF m
  <2> QED BY <2>3 DEF m
<1> QED BY <1>8, <1>9 DEF LineInv

\* The check leaves room for what it lets through.
LEMMA LinePacked ==
  ASSUME TypeOK, PackTyped, PackTyped', PackInv, NEW w \in Workers, PackShipment(w),
         NEW o \in Orders, NEW i \in DOMAIN Lines[o]
  PROVE  LineInv(o, i)'
<1> DEFINE q == Lines[o][i].qty
           F == PendRow(o, i)
           G == PendRow(o, i)'
<1>1. PICK p \in Orders, wh \in Warehouses, items \in Packings :
        /\ \A j \in DOMAIN items : items[j].qty <= Lines[p][items[j].line].qty - Shipped(p, items[j].line)
        /\ Arrive(w, "pack", [kind |-> "pack", order |-> p, wh |-> wh, items |-> items])
        /\ UNCHANGED flowVars
  BY DEF PackShipment
<1>2. /\ UNCHANGED shipment
      /\ pc'[w] = "pack" /\ req'[w].order = p /\ req'[w].items = items
      /\ \A v \in Workers : v # w => pc'[v] = pc[v] /\ req'[v] = req[v]
  BY <1>1 DEF Arrive, Goto, flowVars, TypeOK, WorkersType
<1>3. items \in Seq([line : Nat, qty : Nat])
  BY FulfilmentAssumption
<1>4. /\ G[w] = IF p = o /\ ~NamesTwice(items) THEN Packed(items, i) ELSE 0
      /\ \A v \in Workers : v # w => G[v] = F[v]
  BY <1>2 DEF PendRow, Pending
<1>5. LineInv(o, i)
  BY DEF PackInv
<1>6. CASE G[w] = 0
  <2>1. \A v \in Workers : G[v] <= F[v]
    <3>1. F \in [Workers -> Nat] /\ G \in [Workers -> Nat]
      BY DEF PackTyped
    <3> HIDE DEF F, G
    <3> QED BY <1>4, <1>6, <3>1
  <2> QED BY <1>2, <1>5, <2>1, LineKept
<1>7. CASE G[w] # 0
  <2>1. p = o /\ ~NamesTwice(items) /\ G[w] = Packed(items, i)
    BY <1>4, <1>7
  <2>2. PICK j \in DOMAIN items : items[j].line = i
    BY <1>3, <1>7, <2>1, PackedFacts
  <2>3. G[w] = items[j].qty /\ items[j].qty <= q - Shipped(o, i)
    BY <1>1, <1>3, <2>1, <2>2, PackedFacts
  <2>4. q \in Nat
    BY LineQty
  <2>5. /\ F \in [Workers -> Nat] /\ G \in [Workers -> Nat] /\ G \in [Workers -> Int]
        /\ IsFiniteSet(Workers)
    BY FulfilmentAssumption DEF PackTyped
  <2>6. Shipped(o, i) \in Nat /\ Shipped(o, i)' = Shipped(o, i)
    <3> DEFINE H == ShipRow(o, i)
    <3>1. H \in [Shipments -> Nat] /\ IsFiniteSet(Shipments)
      BY FulfilmentAssumption DEF PackTyped
    <3>2. SumOf(H) \in Nat
      <4> HIDE DEF H
      <4> QED BY <3>1, SumNat
    <3>3. Shipped(o, i)' = Shipped(o, i)
      BY <1>2 DEF Shipped
    <3> QED BY <3>2, <3>3, ShippedIsSum
  <2>7. \A v \in Workers : F[v] <= q
    BY <1>5 DEF LineInv
  <2> DEFINE m == Shipped(o, i)
  <2> HIDE DEF F, G, q, m
  <2>8. m \in Int /\ q \in Int /\ m + G[w] <= q /\ \A v \in Workers : G[v] <= q
    BY <1>4, <2>3, <2>4, <2>5, <2>6, <2>7 DEF m
  <2>9. m + SumOf(G) <= q * Cardinality(Workers)
    BY <2>5, <2>8, OneMoreFits
  <2> QED BY <2>6, <2>8, <2>9 DEF LineInv, m, q, G
<1> QED BY <1>6, <1>7

\* The insert turns what was pending into what is shipped.
LEMMA LineCreated ==
  ASSUME TypeOK, PackTyped, PackTyped', PackInv, NEW w \in Workers, CreateShipment(w),
         NEW o \in Orders, NEW i \in DOMAIN Lines[o]
  PROVE  LineInv(o, i)'
<1> DEFINE q == Lines[o][i].qty
           F == PendRow(o, i)
           G == PendRow(o, i)'
           H == ShipRow(o, i)
           K == ShipRow(o, i)'
<1>1. PICK s \in Shipments :
        /\ status[s] = NoState
        /\ shipment' = [shipment EXCEPT ![s] =
             [order |-> req[w].order, wh |-> req[w].wh, items |-> req[w].items]]
  BY DEF CreateShipment, Exists
<1>2. /\ pc[w] = "pack" /\ pc'[w] = "idle"
      /\ \A v \in Workers : v # w => pc'[v] = pc[v] /\ req'[v] = req[v]
  BY DEF CreateShipment, Done, Goto, TypeOK, WorkersType
<1>3. /\ shipment'[s].order = req[w].order /\ shipment'[s].items = req[w].items
      /\ \A t \in Shipments : t # s => shipment'[t] = shipment[t]
  BY <1>1 DEF TypeOK, TablesType
<1>4. shipment[s].items = <<>>
  BY <1>1 DEF PackInv, Exists
<1>5. /\ G[w] = 0 /\ F[w] = IF req[w].order = o /\ ~NamesTwice(req[w].items)
                             THEN Packed(req[w].items, i) ELSE 0
      /\ \A v \in Workers : v # w => G[v] = F[v]
  BY <1>2 DEF PendRow, Pending
<1>6. /\ K[s] = IF req[w].order = o THEN Packed(req[w].items, i) ELSE 0
      /\ \A t \in Shipments : t # s => K[t] = H[t]
  BY <1>3 DEF ShipRow
<1>7. H[s] = 0
  <2>1. <<>> \in Seq([line : Nat, qty : Nat]) /\ DOMAIN <<>> = {}
    BY EmptySeq
  <2>2. Packed(<<>>, i) = 0
    BY <2>1, PackedFacts
  <2> QED BY <1>4, <2>2 DEF ShipRow
<1>8. Clean(o)' => /\ Clean(o)
                   /\ req[w].order = o => ~NamesTwice(req[w].items)
  <2>1. ~NamesTwice(shipment[s].items)
    BY <1>4 DEF NamesTwice
  <2> QED BY <1>3, <2>1 DEF Clean
<1>9. /\ F \in [Workers -> Nat] /\ G \in [Workers -> Nat]
      /\ F \in [Workers -> Int] /\ G \in [Workers -> Int]
      /\ H \in [Shipments -> Int] /\ K \in [Shipments -> Int]
      /\ IsFiniteSet(Workers) /\ IsFiniteSet(Shipments)
  <2>1. /\ F \in [Workers -> Nat] /\ G \in [Workers -> Nat]
        /\ H \in [Shipments -> Nat] /\ K \in [Shipments -> Nat]
    BY DEF PackTyped
  <2> HIDE DEF F, G, H, K
  <2> QED BY <2>1, FulfilmentAssumption
<1>10. /\ q \in Nat /\ \A v \in Workers : F[v] <= q
       /\ Clean(o) => Shipped(o, i) + SumOf(F) <= q * Cardinality(Workers)
  BY LineQty DEF PackInv, LineInv
<1>11. Shipped(o, i) = SumOf(H) /\ Shipped(o, i)' = SumOf(K)
  BY DEF Shipped, ShipRow
<1>12. LineInv(o, i)' <=> /\ \A v \in Workers : G[v] <= q
                          /\ Clean(o)' => Shipped(o, i)' + SumOf(G) <= q * Cardinality(Workers)
  BY DEF LineInv
<1> HIDE DEF F, G, H, K, q
<1>13. \A v \in Workers : G[v] <= q
  BY <1>5, <1>9, <1>10
<1>14. /\ SumOf(G) = SumOf(F) - F[w] + G[w] /\ SumOf(K) = SumOf(H) - H[s] + K[s]
       /\ SumOf(F) \in Int /\ SumOf(H) \in Int /\ F[w] \in Int /\ K[s] \in Int
  <2>1. \A v \in Workers \ {w} : G[v] = F[v]
    BY <1>5
  <2>2. \A t \in Shipments \ {s} : K[t] = H[t]
    BY <1>6
  <2>3. SumOf(G) = SumOf(F) - F[w] + G[w]
    BY <1>9, <2>1, SumChange
  <2>4. SumOf(K) = SumOf(H) - H[s] + K[s]
    BY <1>9, <2>2, SumChange
  <2>5. SumOf(F) \in Int /\ SumOf(H) \in Int
    BY <1>9, SumInt
  <2> QED BY <1>9, <2>3, <2>4, <2>5
<1>15. ASSUME Clean(o)' PROVE Shipped(o, i)' + SumOf(G) <= q * Cardinality(Workers)
  <2>1. F[w] = K[s]
    BY <1>5, <1>6, <1>8, <1>15
  <2>2. SumOf(H) + SumOf(F) <= q * Cardinality(Workers)
    BY <1>8, <1>10, <1>11, <1>15
  <2>3. SumOf(K) + SumOf(G) = SumOf(H) + SumOf(F)
    BY <1>5, <1>7, <1>14, <2>1
  <2> QED BY <1>11, <2>2, <2>3
<1> QED BY <1>12, <1>13, <1>15

LEMMA PackStep ==
  ASSUME TypeOK, TypeOK', PackInv, [Next]_vars
  PROVE  PackInv'
<1>0. PackTyped /\ PackTyped' /\ DOMAIN pc = Workers /\ DOMAIN req = Workers
  BY PackTypes, PackTypesNext DEF TypeOK, WorkersType
<1>1. ASSUME UNCHANGED shipment, \A s \in Shipments : status'[s] = NoState => status[s] = NoState,
             \A v \in Workers : pc'[v] = "pack" => pc[v] = "pack" /\ req'[v] = req[v]
      PROVE  PackInv'
  <2>1. ASSUME NEW o \in Orders, NEW i \in DOMAIN Lines[o] PROVE LineInv(o, i)'
    <3>1. ASSUME NEW v \in Workers PROVE PendRow(o, i)'[v] <= PendRow(o, i)[v]
      <4>1. PendRow(o, i)[v] \in Nat
        BY <1>0 DEF PackTyped
      <4>2. PendRow(o, i)'[v] \in {0, PendRow(o, i)[v]}
        BY <1>1 DEF PendRow, Pending
      <4> DEFINE x == PendRow(o, i)[v]
                 y == PendRow(o, i)'[v]
      <4> HIDE DEF x, y
      <4>3. y <= x
        BY <4>1, <4>2 DEF x, y
      <4> QED BY <4>3 DEF x, y
    <3>2. LineInv(o, i)
      BY DEF PackInv
    <3> QED BY <1>0, <1>1, <3>1, <3>2, LineKept
  <2> QED BY <1>1, <2>1 DEF PackInv, Exists
<1>2. ASSUME NEW w \in Workers, Rollback(w) PROVE PackInv'
  <2>1. /\ UNCHANGED <<shipment, status>>
        /\ \A v \in Workers : pc'[v] = "pack" => pc[v] = "pack" /\ req'[v] = req[v]
    BY <1>0, <1>2 DEF Rollback, Done, Goto
  <2> QED BY <1>1, <2>1
<1>3. ASSUME NEW w \in Workers, CreateShipment(w) PROVE PackInv'
  <2>1. ASSUME NEW t \in Shipments, status'[t] = NoState PROVE shipment'[t].items = <<>>
    <3>1. PICK s \in Shipments :
            /\ status' = [status EXCEPT ![s] = "pending"]
            /\ shipment' = [shipment EXCEPT ![s] =
                 [order |-> req[w].order, wh |-> req[w].wh, items |-> req[w].items]]
      BY <1>3 DEF CreateShipment
    <3>2. "pending" # NoState /\ s \in Entities /\ t \in Entities
      BY FulfilmentAssumption DEF States, OrderStates, Entities
    <3> QED BY <2>1, <3>1, <3>2 DEF PackInv, Exists, TypeOK, TablesType
  <2>2. ASSUME NEW o \in Orders, NEW i \in DOMAIN Lines[o] PROVE LineInv(o, i)'
    BY <1>0, <1>3, LineCreated
  <2> QED BY <2>1, <2>2 DEF PackInv, Exists
<1>4. ASSUME NEW w \in Workers, PackShipment(w) PROVE PackInv'
  <2>1. UNCHANGED <<shipment, status>>
    BY <1>4 DEF PackShipment, flowVars
  <2>2. ASSUME NEW o \in Orders, NEW i \in DOMAIN Lines[o] PROVE LineInv(o, i)'
    BY <1>0, <1>4, LinePacked
  <2> QED BY <2>1, <2>2 DEF PackInv, Exists
<1>5. ASSUME NEW w \in Workers, Serve(w) PROVE PackInv'
  <2>1. CASE CommitTransition(w)
    <3>1. /\ UNCHANGED shipment /\ status' = [status EXCEPT ![req[w].ent] = req[w].to]
          /\ \A v \in Workers : pc'[v] = "pack" => pc[v] = "pack" /\ req'[v] = req[v]
      BY <2>1 DEF CommitTransition, Done, Goto
    <3>2. req[w].to # NoState
      BY <2>1, FulfilmentAssumption DEF CommitTransition, TypeOK, WorkersType, RequestFits, StatusRequest
    <3>3. \A s \in Shipments : status'[s] = NoState => status[s] = NoState
      BY <3>1, <3>2 DEF TypeOK, TablesType, Entities
    <3> QED BY <1>1, <3>1, <3>3
  <2>2. CASE DecideOrder(w)
    <3>1. /\ UNCHANGED shipment /\ status' = [status EXCEPT ![req[w].ent] = req[w].to]
          /\ \A v \in Workers : pc'[v] = "pack" => pc[v] = "pack" /\ req'[v] = req[v]
      BY <2>2 DEF DecideOrder, Done, Goto
    <3>2. req[w].to # NoState
      BY <2>2, FulfilmentAssumption
         DEF DecideOrder, TypeOK, WorkersType, RequestFits, DecideRequest, States, OrderStates
    <3>3. \A s \in Shipments : status'[s] = NoState => status[s] = NoState
      BY <3>1, <3>2 DEF TypeOK, TablesType, Entities
    <3> QED BY <1>1, <3>1, <3>3
  <2>3. CASE ReadLevel(w)
    <3>1. CASE ~Rollback(w)
      <4>1. /\ UNCHANGED <<shipment, status>>
            /\ \A v \in Workers : pc'[v] = "pack" => pc[v] = "pack" /\ req'[v] = req[v]
        BY <1>0, <2>3, <3>1 DEF ReadLevel, Goto, flowVars
      <4> QED BY <1>1, <4>1
    <3> QED BY <3>1, <1>2
  <2>4. CASE DeadlockVictim(w)
    BY <2>4, <1>2 DEF DeadlockVictim
  <2>5. CASE Resolve(w) \/ Begin(w) \/ AdjustLine(w) \/ ErpApply(w) \/ ErpRecord(w)
    <3>1. /\ UNCHANGED <<shipment, status>>
          /\ \A v \in Workers : pc'[v] = "pack" => pc[v] = "pack" /\ req'[v] = req[v]
      BY <1>0, <2>5 DEF Resolve, Begin, AdjustLine, ErpApply, ErpRecord, Done, Goto, flowVars
    <3> QED BY <1>1, <3>1
  <2> QED BY <1>3, <1>5, <2>1, <2>2, <2>3, <2>4, <2>5 DEF Serve
<1>6. ASSUME NEW w \in Workers, Receive(w) PROVE PackInv'
  <2>1. CASE LoadEntity(w) \/ LoadHeldOrder(w) \/ ErpInbound(w)
    <3>1. /\ UNCHANGED <<shipment, status>>
          /\ \A v \in Workers : pc'[v] = "pack" => pc[v] = "pack" /\ req'[v] = req[v]
      BY <1>0, <2>1 DEF LoadEntity, LoadHeldOrder, ErpInbound, Arrive, Goto, flowVars
    <3> QED BY <1>1, <3>1
  <2> QED BY <1>4, <1>6, <2>1 DEF Receive
<1>7. ASSUME NEW w \in Workers, Fail(w) PROVE PackInv'
  BY <1>7, <1>2 DEF Fail
<1>8. CASE Correct \/ Configure \/ Rest \/ UNCHANGED vars
  BY <1>8, <1>1 DEF Correct, Configure, Rest, vars, flowVars
<1> QED BY <1>5, <1>6, <1>7, <1>8 DEF Next

LEMMA PackInit == Init => PackInv
<1> SUFFICES ASSUME Init PROVE PackInv
  OBVIOUS
<1>1. \A s \in Shipments : shipment[s].items = <<>>
  BY DEF Init, NoShipment
<1>2. \A w \in Workers : pc[w] = "idle"
  BY DEF Init
<1>3. IsFiniteSet(Workers) /\ IsFiniteSet(Shipments) /\ Cardinality(Workers) \in Nat
  BY FulfilmentAssumption, FS_CardinalityType
<1>4. ASSUME NEW o \in Orders, NEW i \in DOMAIN Lines[o] PROVE LineInv(o, i)
  <2> DEFINE F == PendRow(o, i)
             H == ShipRow(o, i)
             q == Lines[o][i].qty
  <2>1. <<>> \in Seq([line : Nat, qty : Nat]) /\ DOMAIN <<>> = {}
    BY EmptySeq
  <2>2. Packed(<<>>, i) = 0
    BY <2>1, PackedFacts
  <2>3. F \in [Workers -> Int] /\ \A w \in Workers : F[w] = 0
    BY <1>2 DEF PendRow, Pending
  <2>4. H \in [Shipments -> Int] /\ \A s \in Shipments : H[s] = 0
    BY <1>1, <2>2 DEF ShipRow
  <2>5. SumOf(F) = 0 /\ SumOf(H) = 0
    <3> HIDE DEF F, H
    <3> QED BY <1>3, <2>3, <2>4, SumZero
  <2>6. q \in Nat /\ Shipped(o, i) = SumOf(H)
    BY LineQty, ShippedIsSum
  <2>7. q * Cardinality(Workers) \in Nat
    <3> HIDE DEF q
    <3> QED BY <1>3, <2>6
  <2> DEFINE m == q * Cardinality(Workers)
  <2> HIDE DEF F, H, q, m
  <2>8. (\A w \in Workers : F[w] <= q) /\ Shipped(o, i) + SumOf(F) <= m
    BY <2>3, <2>5, <2>6, <2>7 DEF m
  <2> QED BY <2>8 DEF LineInv, F, q, m
<1> QED BY <1>1, <1>4 DEF PackInv

LEMMA SpecPacks == Spec => []PackInv
<1>1. Inv => TypeOK
  BY DEF Inv
<1>2. TypeOK /\ TypeOK' /\ PackInv /\ [Next]_vars => PackInv'
  BY PackStep
<1> QED BY <1>1, <1>2, PackInit, SpecInv, PTL DEF Spec

LEMMA PackBound ==
  ASSUME TypeOK, PackInv
  PROVE  OverShipmentBounded
<1> SUFFICES ASSUME NEW o \in Orders, NEW i \in DOMAIN Lines[o],
                    \A s \in Shipments : ~(shipment[s].order = o /\ NamesTwice(shipment[s].items))
             PROVE  Shipped(o, i) <= Cardinality(Workers) * Lines[o][i].qty
  BY DEF OverShipmentBounded
<1> DEFINE F == PendRow(o, i)
           H == ShipRow(o, i)
           q == Lines[o][i].qty
<1>1. Shipped(o, i) + SumOf(F) <= q * Cardinality(Workers)
  BY DEF PackInv, LineInv, Clean
<1>2. F \in [Workers -> Nat] /\ H \in [Shipments -> Nat] /\ q \in Nat
  BY PackTypes, LineQty DEF PackTyped
<1>3. IsFiniteSet(Workers) /\ IsFiniteSet(Shipments) /\ Cardinality(Workers) \in Nat
  BY FulfilmentAssumption, FS_CardinalityType
<1>4. Shipped(o, i) = SumOf(H)
  BY ShippedIsSum
<1> HIDE DEF F, H, q
<1>5. SumOf(F) \in Nat /\ SumOf(H) \in Nat
  BY <1>2, <1>3, SumNat
<1> DEFINE c == Cardinality(Workers)
<1>6. c \in Nat
  BY <1>3
<1>7. q * Cardinality(Workers) = c * q
  <2> HIDE DEF c
  <2>1. q * c = c * q /\ q * c \in Nat
    BY <1>2, <1>6
  <2> QED BY <2>1 DEF c
<1>8. c * q \in Int
  <2> HIDE DEF c
  <2> QED BY <1>2, <1>6
<1> DEFINE m == c * q
<1> HIDE DEF c, m
<1>9. SumOf(H) <= m
  BY <1>1, <1>4, <1>5, <1>7, <1>8 DEF m
<1> QED BY <1>4, <1>9 DEF m, c, q

(* Stock leaves as it was packed, once per logged departure, and what is   *)
(* packed of a line is at most the line once for every request that can    *)
(* overlap (otc/shipments.go checks before its transaction).               *)
THEOREM ShipmentsAreRightAlways == Spec => []ShipmentsAreRight
<1>1. TypeOK /\ MoveInv /\ PackInv => ShipmentsAreRight
  BY PackBound DEF MoveInv, MovedInv, ShipmentsAreRight
<1>2. Inv => TypeOK
  BY DEF Inv
<1> QED BY <1>1, <1>2, SpecInv, SpecMoves, SpecPacks, PTL

-----------------------------------------------------------------------------
(* A webhook request that is about to record an event has applied it.      *)

ErpInv ==
  /\ ErpSeenWasApplied
  /\ \A w \in Workers : pc[w] = "erpLog" => erpApplied[req[w].event] >= 1

LEMMA ErpStep ==
  ASSUME TypeOK, ErpInv, [Next]_vars
  PROVE  ErpInv'
<1>0. DOMAIN pc = Workers /\ DOMAIN req = Workers /\ erpApplied \in [ErpEvents -> Nat]
  BY DEF TypeOK, WorkersType, TablesType
<1>1. ASSUME UNCHANGED <<erpSeen, erpApplied>>,
             \A v \in Workers : pc'[v] = "erpLog" => pc[v] = "erpLog" /\ req'[v] = req[v]
      PROVE  ErpInv'
  BY <1>1 DEF ErpInv, ErpSeenWasApplied
<1>2. ASSUME NEW w \in Workers, Rollback(w) PROVE ErpInv'
  <2>1. /\ UNCHANGED <<erpSeen, erpApplied>>
        /\ \A v \in Workers : pc'[v] = "erpLog" => pc[v] = "erpLog" /\ req'[v] = req[v]
    BY <1>0, <1>2 DEF Rollback, Done, Goto, erpVars
  <2> QED BY <1>1, <2>1
<1>3. ASSUME NEW w \in Workers, Serve(w) PROVE ErpInv'
  <2>1. CASE ErpApply(w)
    <3> DEFINE ev == req[w].event
    <3>1. ev \in ErpEvents
      BY <2>1 DEF ErpApply, TypeOK, WorkersType, RequestFits, ErpRequest
    <3>2. /\ erpApplied' = [erpApplied EXCEPT ![ev] = @ + 1] /\ UNCHANGED <<erpSeen, req>>
          /\ \A v \in Workers : v # w => pc'[v] = pc[v]
      BY <1>0, <2>1 DEF ErpApply, Goto
    <3>3. \A v \in Workers : pc[v] = "erpLog" => req[v].event \in ErpEvents
      BY DEF TypeOK, WorkersType, RequestFits, ErpRequest
    <3>4. erpApplied'[ev] >= 1 /\ \A x \in ErpEvents : erpApplied[x] >= 1 => erpApplied'[x] >= 1
      <4> HIDE DEF ev
      <4> QED BY <1>0, <3>1, <3>2
    <3> QED BY <3>2, <3>3, <3>4 DEF ErpInv, ErpSeenWasApplied
  <2>2. CASE ErpRecord(w)
    <3>1. /\ erpSeen' = erpSeen \cup {req[w].event.id} /\ UNCHANGED erpApplied
          /\ pc[w] = "erpLog"
          /\ \A v \in Workers : pc'[v] = "erpLog" => pc[v] = "erpLog" /\ req'[v] = req[v]
      BY <1>0, <2>2 DEF ErpRecord, Done, Goto
    <3>2. req[w].event \in ErpEvents /\ erpApplied[req[w].event] >= 1
      BY <3>1 DEF ErpInv, TypeOK, WorkersType, RequestFits, ErpRequest
    <3> QED BY <3>1, <3>2 DEF ErpInv, ErpSeenWasApplied
  <2>3. CASE ReadLevel(w)
    <3>1. CASE ~Rollback(w)
      <4>1. /\ UNCHANGED <<erpSeen, erpApplied>>
            /\ \A v \in Workers : pc'[v] = "erpLog" => pc[v] = "erpLog" /\ req'[v] = req[v]
        BY <1>0, <2>3, <3>1 DEF ReadLevel, Goto, erpVars
      <4> QED BY <1>1, <4>1
    <3> QED BY <3>1, <1>2
  <2>4. CASE DeadlockVictim(w)
    BY <2>4, <1>2 DEF DeadlockVictim
  <2>5. CASE Resolve(w) \/ Begin(w) \/ AdjustLine(w) \/ CommitTransition(w)
             \/ CreateShipment(w) \/ DecideOrder(w)
    <3>1. /\ UNCHANGED <<erpSeen, erpApplied>>
          /\ \A v \in Workers : pc'[v] = "erpLog" => pc[v] = "erpLog" /\ req'[v] = req[v]
      BY <1>0, <2>5 DEF Resolve, Begin, AdjustLine, CommitTransition, CreateShipment, DecideOrder,
                        Done, Goto, erpVars
    <3> QED BY <1>1, <3>1
  <2> QED BY <1>3, <2>1, <2>2, <2>3, <2>4, <2>5 DEF Serve
<1>4. ASSUME NEW w \in Workers, Receive(w) PROVE ErpInv'
  <2>1. /\ UNCHANGED <<erpSeen, erpApplied>>
        /\ \A v \in Workers : pc'[v] = "erpLog" => pc[v] = "erpLog" /\ req'[v] = req[v]
    BY <1>0, <1>4 DEF Receive, LoadEntity, PackShipment, LoadHeldOrder, ErpInbound, Arrive, Goto, erpVars
  <2> QED BY <1>1, <2>1
<1>5. ASSUME NEW w \in Workers, Fail(w) PROVE ErpInv'
  BY <1>5, <1>2 DEF Fail
<1>6. CASE Correct \/ Configure \/ Rest \/ UNCHANGED vars
  BY <1>6, <1>1 DEF Correct, Configure, Rest, vars, erpVars
<1> QED BY <1>3, <1>4, <1>5, <1>6 DEF Next

(* Wherever a delivery was cut off, an event whose id is recorded has been *)
(* applied: refusing its repeats loses nothing (erp.inbound).              *)
THEOREM ErpSeenAlwaysApplied == Spec => []ErpSeenWasApplied
<1>1. Init => ErpInv
  BY DEF Init, ErpInv, ErpSeenWasApplied
<1>2. TypeOK /\ ErpInv /\ [Next]_vars => ErpInv'
  BY ErpStep
<1>3. (Inv => TypeOK) /\ (ErpInv => ErpSeenWasApplied)
  BY DEF Inv, ErpInv
<1> QED BY <1>1, <1>2, <1>3, SpecInv, PTL DEF Spec

-----------------------------------------------------------------------------
(* How far a row can be oversold.  The check of ReserveForOrder reads the  *)
(* level before it locks the row, so it may let a line through on stock    *)
(* that others are about to take; but each request has at most one line    *)
(* checked and not yet applied, and once a request holds the row its next  *)
(* check sees everything.                                                  *)

Left(k) == onHand[k] - reserved[k]

\* What w's transaction has taken of the row, and what it was told it may.
Taken(w, k) == dReserved[w][k] - dOnHand[w][k]
Asking(w, k) == pc[w] = "adjust" /\ req[w].ent \in Orders /\ Head(req[w].todo).key = k
Asked(w, k) == IF Asking(w, k) THEN Head(req[w].todo).qty ELSE 0
Load(k) == [w \in Workers |-> Taken(w, k) + Asked(w, k)]

(* All that is taken or asked for together exceeds what is left by at most *)
(* one line for every worker but one.  A transaction that took more than a *)
(* line took what is there; one that asks for more of a row it holds is    *)
(* sure of it.                                                             *)
RowInv(k, q) ==
  /\ \A w \in Workers :
       /\ Taken(w, k) >= 0
       /\ Taken(w, k) <= q \/ Taken(w, k) <= Left(k)
       /\ rowLock[k] = w /\ Asking(w, k) => Taken(w, k) + Asked(w, k) <= Left(k)
  /\ SumOf(Load(k)) <= Left(k) + (Cardinality(Workers) - 1) * q

\* No line still to do is larger than q.
LinesWithin(q) ==
  \A w \in Workers : pc[w] \in {"line", "adjust"} /\ req[w].ent \in Orders =>
    req[w].todo \in Seq([key : Keys, qty : 0..q])

OversellInv(q) ==
  /\ tracked = InitTracked /\ backorder = InitBackorder
  /\ LinesWithin(q)
  /\ \A k \in InitTracked \ InitBackorder : RowInv(k, q)

\* One share within the total, every other within the limit.
LEMMA OneLarge ==
  ASSUME NEW S, IsFiniteSet(S), NEW f \in [S -> Int], NEW x \in S, NEW m \in Int, NEW q \in Int,
         f[x] <= m, \A v \in S \ {x} : f[v] <= q
  PROVE  SumOf(f) <= m + (Cardinality(S) - 1) * q
<1> DEFINE g == [v \in S |-> IF v = x THEN q ELSE f[v]]
           c == Cardinality(S)
<1>1. /\ g \in [S -> Int] /\ g[x] = q
      /\ \A v \in S : g[v] <= q
      /\ \A v \in S \ {x} : g[v] = f[v]
  OBVIOUS
<1>2. SumOf(f) \in Int /\ c \in Int /\ f[x] \in Int
  BY SumInt, FS_CardinalityType
<1> HIDE DEF g
<1>3. SumOf(g) = SumOf(f) - f[x] + g[x]
  BY <1>1, SumChange
<1>4. SumOf(g) <= q * c
  BY <1>1, SumBound
<1> HIDE DEF c
<1>5. (c - 1) * q = q * c - q /\ q * c \in Int
  BY <1>2
<1>6. SumOf(f) <= m + (q * c - q)
  <2> DEFINE z == q * c
  <2> HIDE DEF z
  <2>1. z \in Int /\ SumOf(g) <= z
    BY <1>4, <1>5 DEF z
  <2>2. SumOf(f) <= m + (z - q)
    BY <1>1, <1>2, <1>3, <2>1
  <2> QED BY <2>2 DEF z
<1> QED BY <1>5, <1>6 DEF c

RowTyped ==
  \A k \in Keys :
    /\ Left(k) \in Int
    /\ \A w \in Workers : Taken(w, k) \in Int /\ Asked(w, k) \in Nat
    /\ Load(k) \in [Workers -> Int]

LEMMA RowTypes == TypeOK => RowTyped
<1> SUFFICES ASSUME TypeOK, NEW k \in Keys
             PROVE  /\ Left(k) \in Int
                    /\ \A w \in Workers : Taken(w, k) \in Int /\ Asked(w, k) \in Nat
                    /\ Load(k) \in [Workers -> Int]
  BY DEF RowTyped
<1>1. Left(k) \in Int
  BY DEF Left, TypeOK, StockType
<1>2. ASSUME NEW w \in Workers PROVE Taken(w, k) \in Int /\ Asked(w, k) \in Nat
  <2>1. Taken(w, k) \in Int
    BY DEF Taken, TypeOK, StockType
  <2>2. Asking(w, k) => Head(req[w].todo).qty \in Nat
    <3>1. pc[w] = "adjust" => req[w].todo # <<>>
      BY DEF TypeOK, WorkersType, RequestFits
    <3> QED BY <3>1, HeadLine DEF Asking
  <2> QED BY <2>1, <2>2 DEF Asked
<1>3. Load(k) \in [Workers -> Int]
  BY <1>2 DEF Load
<1> QED BY <1>1, <1>2, <1>3

LEMMA RowTypesNext == TypeOK' => RowTyped'
BY RowTypes, PTL

\* A step of one worker that gives back, applies or commits what it had.
LEMMA RowMoves ==
  ASSUME RowTyped, RowTyped', NEW k \in Keys, NEW q \in Nat, RowInv(k, q),
         NEW w \in Workers, NEW x \in Nat, Left(k)' = Left(k) - x,
         \A v \in Workers \ {w} :
           /\ Taken(v, k)' = Taken(v, k)
           /\ Asking(v, k)' <=> Asking(v, k)
           /\ Asked(v, k)' = Asked(v, k)
           /\ rowLock'[k] = v => rowLock[k] = v
           /\ x # 0 => Taken(v, k) = 0 /\ rowLock'[k] # v,
         Taken(w, k)' >= 0,
         Taken(w, k)' <= q \/ Taken(w, k)' <= Left(k)',
         ~(rowLock'[k] = w /\ Asking(w, k)'),
         Taken(w, k)' + Asked(w, k)' <= Taken(w, k) + Asked(w, k) - x
  PROVE  RowInv(k, q)'
<1> DEFINE F == Load(k)
           G == Load(k)'
           c == (Cardinality(Workers) - 1) * q
<1>1. /\ F \in [Workers -> Int] /\ G \in [Workers -> Int] /\ IsFiniteSet(Workers)
      /\ Left(k) \in Int /\ Left(k)' \in Int
  BY FulfilmentAssumption DEF RowTyped
<1>2. /\ \A v \in Workers \ {w} : G[v] = F[v]
      /\ G[w] <= F[w] - x
  <2>1. \A v \in Workers : F[v] = Taken(v, k) + Asked(v, k) /\ G[v] = Taken(v, k)' + Asked(v, k)'
    BY DEF Load
  <2>2. \A v \in Workers : /\ Taken(v, k) \in Int /\ Asked(v, k) \in Int
                           /\ Taken(v, k)' \in Int /\ Asked(v, k)' \in Int
    BY DEF RowTyped
  <2> HIDE DEF F, G
  <2>3. ASSUME NEW v \in Workers \ {w} PROVE G[v] = F[v]
    BY <2>1
  <2>4. G[w] = Taken(w, k)' + Asked(w, k)' /\ F[w] = Taken(w, k) + Asked(w, k)
    BY <2>1
  <2>5. G[w] <= F[w] - x
    BY <2>2, <2>4
  <2> QED BY <2>3, <2>5
<1>3. SumOf(F) <= Left(k) + c
  BY DEF RowInv
<1>4. SumOf(G) <= Left(k)' + c
  <2> HIDE DEF F, G
  <2>1. SumOf(G) = SumOf(F) - F[w] + G[w] /\ SumOf(F) \in Int
    BY <1>1, <1>2, SumChange, SumInt
  <2>2. Cardinality(Workers) \in Int
    BY <1>1, FS_CardinalityType
  <2>3. c \in Int
    BY <2>2
  <2> HIDE DEF c
  <2> QED BY <1>1, <1>2, <1>3, <2>1, <2>3
<1>5. ASSUME NEW v \in Workers
      PROVE  /\ Taken(v, k)' >= 0
             /\ Taken(v, k)' <= q \/ Taken(v, k)' <= Left(k)'
             /\ rowLock'[k] = v /\ Asking(v, k)' => Taken(v, k)' + Asked(v, k)' <= Left(k)'
  <2>1. CASE v = w
    BY <2>1
  <2>2. CASE v # w
    <3>1. /\ Taken(v, k) >= 0
          /\ Taken(v, k) <= q \/ Taken(v, k) <= Left(k)
          /\ rowLock[k] = v /\ Asking(v, k) => Taken(v, k) + Asked(v, k) <= Left(k)
      BY DEF RowInv
    <3>2. CASE x = 0
      BY <1>1, <2>2, <3>1, <3>2
    <3>3. CASE x # 0
      BY <1>1, <2>2, <3>1, <3>3
    <3> QED BY <3>2, <3>3
  <2> QED BY <2>1, <2>2
<1> QED BY <1>4, <1>5 DEF RowInv

\* A step that leaves the row and all that is taken or asked of it alone.
LEMMA RowKept ==
  ASSUME NEW k \in Keys, NEW q \in Nat, RowInv(k, q),
         UNCHANGED <<onHand, reserved, rowLock, dOnHand, dReserved>>,
         \A v \in Workers : (Asking(v, k)' <=> Asking(v, k)) /\ Asked(v, k)' = Asked(v, k)
  PROVE  RowInv(k, q)'
<1>1. Left(k)' = Left(k) /\ \A v \in Workers : Taken(v, k)' = Taken(v, k)
  BY DEF Left, Taken
<1>2. Load(k)' = Load(k)
  BY <1>1 DEF Load
<1> QED BY <1>1, <1>2 DEF RowInv

LEMMA AskingSame ==
  ASSUME NEW v \in Workers, NEW k, pc'[v] = pc[v], req'[v] = req[v]
  PROVE  (Asking(v, k)' <=> Asking(v, k)) /\ Asked(v, k)' = Asked(v, k)
BY DEF Asking, Asked

LEMMA RowRollback ==
  ASSUME TypeOK, RowTyped, RowTyped', NEW k \in Keys, NEW q \in Nat, RowInv(k, q),
         NEW w \in Workers, Rollback(w)
  PROVE  RowInv(k, q)'
<1>1. /\ UNCHANGED <<onHand, reserved>>
      /\ rowLock' = [j \in Keys |-> IF rowLock[j] = w THEN NoWorker ELSE rowLock[j]]
      /\ dOnHand' = [dOnHand EXCEPT ![w] = NoDelta] /\ dReserved' = [dReserved EXCEPT ![w] = NoDelta]
      /\ pc' = [pc EXCEPT ![w] = "idle"] /\ req' = [req EXCEPT ![w] = NoReq]
  BY DEF Rollback, RollbackStock, Release, Done, Goto, committed
<1>2. Left(k)' = Left(k) /\ Left(k) \in Int
  BY <1>1 DEF Left, RowTyped
<1>3. Taken(w, k)' = 0
  BY <1>1 DEF Taken, NoDelta, TypeOK, StockType
<1>4. ~Asking(w, k)' /\ Asked(w, k)' = 0
  BY <1>1 DEF Asking, Asked, TypeOK, WorkersType
<1>5. Taken(w, k) >= 0 /\ Taken(w, k) \in Int /\ Asked(w, k) \in Nat
  BY DEF RowInv, RowTyped
<1>6. ASSUME NEW v \in Workers \ {w}
      PROVE  /\ Taken(v, k)' = Taken(v, k)
             /\ Asking(v, k)' <=> Asking(v, k)
             /\ Asked(v, k)' = Asked(v, k)
             /\ rowLock'[k] = v => rowLock[k] = v
  <2>1. Taken(v, k)' = Taken(v, k)
    BY <1>1 DEF Taken
  <2>2. pc'[v] = pc[v] /\ req'[v] = req[v]
    BY <1>1
  <2>3. rowLock'[k] = v => rowLock[k] = v
    BY <1>1, InventoryAssumption
  <2> QED BY <2>1, <2>2, <2>3, AskingSame
<1>7. Left(k)' = Left(k) - 0 /\ Taken(w, k)' + Asked(w, k)' <= Taken(w, k) + Asked(w, k) - 0
  BY <1>2, <1>3, <1>4, <1>5
<1>8. Taken(w, k)' >= 0 /\ Taken(w, k)' <= q
  BY <1>3
<1> QED BY <1>4, <1>6, <1>7, <1>8, RowMoves

LEMMA RowAdjust ==
  ASSUME TypeOK, RowTyped, RowTyped', UncommittedUnderLock, NEW k \in Keys, NEW q \in Nat,
         RowInv(k, q), LinesWithin(q), NEW w \in Workers, AdjustLine(w)
  PROVE  RowInv(k, q)'
<1> DEFINE key == Head(req[w].todo).key
           qty == Head(req[w].todo).qty
           taken == IF req[w].ent \in Orders /\ key = k THEN qty ELSE 0
<1>1. pc[w] = "adjust" /\ req[w].todo # <<>>
  BY DEF AdjustLine, TypeOK, WorkersType, RequestFits
<1>2. key \in Keys /\ qty \in Nat
  BY <1>1, HeadLine
<1>3. req[w].ent \in Orders => qty <= q
  <2> SUFFICES ASSUME req[w].ent \in Orders PROVE qty <= q
    OBVIOUS
  <2> DEFINE R == [key : Keys, qty : 0..q]
  <2>1. req[w].todo \in Seq(R)
    BY <1>1 DEF LinesWithin
  <2>2. Head(req[w].todo) \in R
    <3> HIDE DEF R
    <3> QED BY <1>1, <2>1, HeadTailProperties
  <2> QED BY <2>2
<1>4. /\ UNCHANGED <<onHand, reserved>> /\ CanLock(w, key)
      /\ rowLock' = [rowLock EXCEPT ![key] = w]
      /\ pc' = [pc EXCEPT ![w] = "line"] /\ \A v \in Workers \ {w} : req'[v] = req[v]
  <2>1. pc' = [pc EXCEPT ![w] = "line"] /\ \A v \in Workers \ {w} : req'[v] = req[v]
    BY DEF AdjustLine, Goto
  <2>2. \E on, res, type, n : AdjustAndLog(w, key, on, res, type, n)
    BY DEF AdjustLine, ReserveLine, FulfilLine
  <2> HIDE DEF key
  <2>3. /\ UNCHANGED <<onHand, reserved>> /\ CanLock(w, key)
        /\ rowLock' = [rowLock EXCEPT ![key] = w]
    BY <2>2 DEF AdjustAndLog, committed
  <2> QED BY <2>1, <2>3
<1>5. \E on, res \in Int :
        /\ dOnHand' = [dOnHand EXCEPT ![w][key] = @ + on]
        /\ dReserved' = [dReserved EXCEPT ![w][key] = @ + res]
        /\ res - on = IF req[w].ent \in Orders THEN qty ELSE 0
  <2>1. CASE req[w].ent \in Orders
    <3>1. /\ dOnHand' = [dOnHand EXCEPT ![w][key] = @ + 0]
          /\ dReserved' = [dReserved EXCEPT ![w][key] = @ + qty]
      BY <2>1 DEF AdjustLine, ReserveLine, AdjustAndLog
    <3>2. qty - 0 = qty /\ 0 \in Int /\ qty \in Int
      BY <1>2
    <3> HIDE DEF key, qty
    <3> QED BY <2>1, <3>1, <3>2
  <2>2. CASE req[w].ent \notin Orders
    <3>1. /\ dOnHand' = [dOnHand EXCEPT ![w][key] = @ + (-qty)]
          /\ dReserved' = [dReserved EXCEPT ![w][key] = @ + (-qty)]
      BY <2>2 DEF AdjustLine, FulfilLine, AdjustAndLog
    <3>2. (-qty) - (-qty) = 0 /\ -qty \in Int
      BY <1>2
    <3> HIDE DEF key, qty
    <3> QED BY <2>2, <3>1, <3>2
  <2> QED BY <2>1, <2>2
<1>6. PICK on \in Int, res \in Int :
        /\ dOnHand' = [dOnHand EXCEPT ![w][key] = @ + on]
        /\ dReserved' = [dReserved EXCEPT ![w][key] = @ + res]
        /\ res - on = IF req[w].ent \in Orders THEN qty ELSE 0
  BY <1>5
<1>7. /\ Taken(w, k)' = Taken(w, k) + taken
      /\ \A v \in Workers \ {w} : Taken(v, k)' = Taken(v, k)
  <2> HIDE DEF key, qty
  <2>1. dOnHand \in [Workers -> [Keys -> Int]] /\ dReserved \in [Workers -> [Keys -> Int]]
    BY DEF TypeOK, StockType
  <2>2. ASSUME NEW v \in Workers \ {w} PROVE Taken(v, k)' = Taken(v, k)
    BY <1>6, <2>1 DEF Taken
  <2>3. /\ dOnHand'[w][k] = dOnHand[w][k] + IF key = k THEN on ELSE 0
        /\ dReserved'[w][k] = dReserved[w][k] + IF key = k THEN res ELSE 0
    BY <1>2, <1>6, <2>1
  <2>4. dOnHand[w][k] \in Int /\ dReserved[w][k] \in Int
    BY <2>1
  <2>5. Taken(w, k)' = Taken(w, k) + taken
    <3>1. CASE key = k
      BY <1>2, <1>6, <2>3, <2>4, <3>1 DEF Taken
    <3>2. CASE key # k
      BY <2>3, <2>4, <3>2 DEF Taken
    <3> QED BY <3>1, <3>2
  <2> QED BY <2>2, <2>5
<1>8. Left(k)' = Left(k) /\ Left(k) \in Int /\ Taken(w, k) \in Int
  BY <1>4 DEF Left, RowTyped
<1>9. /\ ~Asking(w, k)' /\ Asked(w, k)' = 0
      /\ Asked(w, k) = taken
      /\ Asking(w, k) <=> req[w].ent \in Orders /\ key = k
  BY <1>1, <1>4 DEF Asking, Asked, TypeOK, WorkersType
<1>10. ASSUME NEW v \in Workers \ {w}
       PROVE  /\ Taken(v, k)' = Taken(v, k)
              /\ Asking(v, k)' <=> Asking(v, k)
              /\ Asked(v, k)' = Asked(v, k)
              /\ rowLock'[k] = v => rowLock[k] = v
  <2>1. pc'[v] = pc[v] /\ req'[v] = req[v]
    BY <1>4
  <2>2. rowLock'[k] = v => rowLock[k] = v
    <3> HIDE DEF key
    <3> QED BY <1>2, <1>4 DEF TypeOK, StockType
  <2> QED BY <1>7, <2>1, <2>2, AskingSame
<1>11. /\ Taken(w, k) >= 0
       /\ Taken(w, k) <= q \/ Taken(w, k) <= Left(k)
       /\ rowLock[k] = w /\ Asking(w, k) => Taken(w, k) + Asked(w, k) <= Left(k)
  BY DEF RowInv
<1>12. rowLock[k] # w => Taken(w, k) = 0
  BY DEF UncommittedUnderLock, Taken
<1>13. Taken(w, k)' >= 0 /\ (Taken(w, k)' <= q \/ Taken(w, k)' <= Left(k)')
  <2>1. CASE taken = 0
    BY <1>7, <1>8, <1>11, <2>1
  <2>2. CASE taken # 0
    <3>1. Asking(w, k) /\ taken = qty /\ qty <= q
      BY <1>3, <1>9, <2>2
    <3> HIDE DEF taken, qty
    <3> QED BY <1>2, <1>7, <1>8, <1>9, <1>11, <1>12, <3>1
  <2> QED BY <2>1, <2>2
<1>14. Left(k)' = Left(k) - 0 /\ Taken(w, k)' + Asked(w, k)' <= Taken(w, k) + Asked(w, k) - 0
  <2>1. taken \in Int
    BY <1>2
  <2> HIDE DEF taken
  <2> QED BY <1>7, <1>8, <1>9, <2>1
<1> QED BY <1>9, <1>10, <1>13, <1>14, RowMoves

LEMMA RowCommit ==
  ASSUME TypeOK, RowTyped, RowTyped', UncommittedUnderLock, NEW k \in Keys, NEW q \in Nat,
         RowInv(k, q), NEW w \in Workers, CommitTransition(w)
  PROVE  RowInv(k, q)'
<1>1. /\ pc[w] = "line"
      /\ onHand' = [j \in Keys |-> onHand[j] + dOnHand[w][j]]
      /\ reserved' = [j \in Keys |-> reserved[j] + dReserved[w][j]]
      /\ rowLock' = [j \in Keys |-> IF rowLock[j] = w THEN NoWorker ELSE rowLock[j]]
      /\ dOnHand' = [dOnHand EXCEPT ![w] = NoDelta] /\ dReserved' = [dReserved EXCEPT ![w] = NoDelta]
      /\ pc' = [pc EXCEPT ![w] = "idle"] /\ req' = [req EXCEPT ![w] = NoReq]
  BY DEF CommitTransition, CommitStock, Release, Done, Goto
<1>2. Left(k)' = Left(k) - Taken(w, k) /\ Taken(w, k) \in Nat
  <2>1. /\ onHand[k] \in Int /\ reserved[k] \in Int
        /\ dOnHand[w][k] \in Int /\ dReserved[w][k] \in Int
    BY DEF TypeOK, StockType
  <2>2. Taken(w, k) >= 0
    BY DEF RowInv
  <2> QED BY <1>1, <2>1, <2>2 DEF Left, Taken
<1>3. Taken(w, k)' = 0
  BY <1>1 DEF Taken, NoDelta, TypeOK, StockType
<1>4. ~Asking(w, k)' /\ Asked(w, k)' = 0 /\ Asked(w, k) = 0
  BY <1>1 DEF Asking, Asked, TypeOK, WorkersType
<1>5. ASSUME NEW v \in Workers \ {w}
      PROVE  /\ Taken(v, k)' = Taken(v, k)
             /\ Asking(v, k)' <=> Asking(v, k)
             /\ Asked(v, k)' = Asked(v, k)
             /\ rowLock'[k] = v => rowLock[k] = v
             /\ Taken(w, k) # 0 => Taken(v, k) = 0 /\ rowLock'[k] # v
  <2>1. Taken(v, k)' = Taken(v, k)
    BY <1>1 DEF Taken
  <2>2. pc'[v] = pc[v] /\ req'[v] = req[v]
    BY <1>1
  <2>3. rowLock'[k] = v => rowLock[k] = v
    BY <1>1, InventoryAssumption
  <2>4. Taken(w, k) # 0 => rowLock[k] = w
    BY DEF Taken, UncommittedUnderLock
  <2>5. rowLock[k] = w => Taken(v, k) = 0 /\ rowLock'[k] # v
    BY <1>1, InventoryAssumption DEF Taken, UncommittedUnderLock
  <2> QED BY <2>1, <2>2, <2>3, <2>4, <2>5, AskingSame
<1>6. Taken(w, k)' + Asked(w, k)' <= Taken(w, k) + Asked(w, k) - Taken(w, k)
  BY <1>2, <1>3, <1>4
<1>7. Taken(w, k)' >= 0 /\ Taken(w, k)' <= q
  BY <1>3
<1> QED BY <1>2, <1>4, <1>5, <1>6, <1>7, RowMoves

\* The check is what bounds the total anew.
LEMMA RowRead ==
  ASSUME TypeOK, RowTyped, RowTyped', UncommittedUnderLock, NEW k \in Keys, NEW q \in Nat,
         k \notin backorder, RowInv(k, q), LinesWithin(q),
         \A v \in Workers : Asked(v, k) <= q,
         NEW w \in Workers, pc[w] = "line", req[w].todo # <<>>,
         req[w].ent \in Orders, Head(req[w].todo).key = k, Head(req[w].todo).qty <= q,
         EnoughFor(w, k, Head(req[w].todo).qty),
         pc' = [pc EXCEPT ![w] = "adjust"], UNCHANGED <<stockVars, req>>
  PROVE  RowInv(k, q)'
<1> DEFINE qty == Head(req[w].todo).qty
           G == Load(k)'
<1>1. UNCHANGED <<onHand, reserved, rowLock, dOnHand, dReserved, req>>
  BY DEF stockVars
<1>2. Left(k)' = Left(k) /\ \A v \in Workers : Taken(v, k)' = Taken(v, k)
  BY <1>1 DEF Left, Taken
<1>3. /\ ~Asking(w, k) /\ Asked(w, k) = 0
      /\ Asking(w, k)' /\ Asked(w, k)' = qty
  BY <1>1 DEF Asking, Asked, TypeOK, WorkersType
<1>4. \A v \in Workers \ {w} : (Asking(v, k)' <=> Asking(v, k)) /\ Asked(v, k)' = Asked(v, k)
  BY <1>1, AskingSame
<1>5. qty \in Nat /\ Left(k) \in Int
      /\ \A v \in Workers : Taken(v, k) \in Int /\ Asked(v, k) \in Nat
  BY <1>1, HeadLine DEF RowTyped
<1>6. Taken(w, k) + qty <= Left(k)
  <2>1. /\ onHand[k] \in Int /\ reserved[k] \in Int
        /\ dOnHand[w][k] \in Int /\ dReserved[w][k] \in Int
    BY DEF TypeOK, StockType
  <2>2. qty <= (onHand[k] + dOnHand[w][k]) - (reserved[k] + dReserved[w][k])
    BY DEF EnoughFor, Available
  <2> HIDE DEF qty
  <2> QED BY <1>5, <2>1, <2>2 DEF Taken, Left
<1>7. \A v \in Workers : rowLock[k] # v => Taken(v, k) = 0
  BY DEF UncommittedUnderLock, Taken
<1>8. /\ G \in [Workers -> Int] /\ G[w] = Taken(w, k) + qty
      /\ \A v \in Workers \ {w} : G[v] = Taken(v, k) + Asked(v, k)
  <2>1. G \in [Workers -> Int]
    BY DEF RowTyped
  <2>2. G = [v \in Workers |-> Taken(v, k)' + Asked(v, k)']
    BY DEF Load
  <2> HIDE DEF G
  <2> QED BY <1>2, <1>3, <1>4, <2>1, <2>2
<1>9. \E x \in Workers : G[x] <= Left(k) /\ \A v \in Workers \ {x} : G[v] <= q
  <2> HIDE DEF G, qty
  <2>1. CASE \A v \in Workers \ {w} : Taken(v, k) = 0
    <3>1. G[w] <= Left(k) /\ \A v \in Workers \ {w} : G[v] <= q
      BY <1>5, <1>6, <1>8, <2>1
    <3> QED BY <3>1
  <2>2. CASE \E h \in Workers \ {w} : Taken(h, k) # 0
    <3>1. PICK h \in Workers \ {w} : Taken(h, k) # 0
      BY <2>2
    <3>2. rowLock[k] = h /\ \A v \in Workers \ {h} : Taken(v, k) = 0
      BY <1>7, <3>1
    <3>3. G[w] = qty /\ G[w] <= q /\ G[w] <= Left(k)
      BY <1>5, <1>6, <1>8, <3>1, <3>2 DEF qty
    <3>4. \A v \in Workers \ {w, h} : G[v] <= q
      BY <1>5, <1>8, <3>2
    <3>5. /\ Taken(h, k) <= q \/ Taken(h, k) <= Left(k)
          /\ Asking(h, k) => Taken(h, k) + Asked(h, k) <= Left(k)
      BY <3>2 DEF RowInv
    <3>6. CASE Asking(h, k)
      <4>1. G[h] <= Left(k)
        BY <1>8, <3>1, <3>5, <3>6
      <4> QED BY <3>3, <3>4, <4>1
    <3>7. CASE ~Asking(h, k)
      <4>1. G[h] = Taken(h, k)
        BY <1>5, <1>8, <3>1, <3>7 DEF Asked
      <4>2. CASE Taken(h, k) <= q
        BY <3>3, <3>4, <4>1, <4>2
      <4>3. CASE Taken(h, k) <= Left(k)
        BY <3>3, <3>4, <4>1, <4>3
      <4> QED BY <3>5, <4>2, <4>3
    <3> QED BY <3>6, <3>7
  <2> QED BY <2>1, <2>2
<1>10. PICK x \in Workers : G[x] <= Left(k) /\ \A v \in Workers \ {x} : G[v] <= q
  BY <1>9
<1>11. SumOf(G) <= Left(k)' + (Cardinality(Workers) - 1) * q
  <2>1. IsFiniteSet(Workers) /\ q \in Int
    BY FulfilmentAssumption
  <2> DEFINE m == Left(k)
  <2>2. m \in Int /\ G[x] <= m /\ \A v \in Workers \ {x} : G[v] <= q
    BY <1>5, <1>10
  <2>3. G \in [Workers -> Int]
    BY <1>8
  <2> HIDE DEF G, m
  <2>4. SumOf(G) <= m + (Cardinality(Workers) - 1) * q
    BY <2>1, <2>2, <2>3, OneLarge
  <2> QED BY <1>2, <2>4 DEF m
<1>12. ASSUME NEW v \in Workers
       PROVE  /\ Taken(v, k)' >= 0
              /\ Taken(v, k)' <= q \/ Taken(v, k)' <= Left(k)'
              /\ rowLock'[k] = v /\ Asking(v, k)' => Taken(v, k)' + Asked(v, k)' <= Left(k)'
  <2>1. /\ Taken(v, k) >= 0
        /\ Taken(v, k) <= q \/ Taken(v, k) <= Left(k)
        /\ rowLock[k] = v /\ Asking(v, k) => Taken(v, k) + Asked(v, k) <= Left(k)
    BY DEF RowInv
  <2>2. rowLock'[k] = v /\ Asking(v, k)' => Taken(v, k)' + Asked(v, k)' <= Left(k)'
    <3>1. CASE v = w
      BY <1>2, <1>3, <1>6, <3>1
    <3>2. CASE v # w
      BY <1>1, <1>2, <1>4, <2>1, <3>2
    <3> QED BY <3>1, <3>2
  <2> QED BY <1>2, <2>1, <2>2
<1> QED BY <1>11, <1>12 DEF RowInv

\* The head of a list of lines within q is within q, and so is the rest.
LEMMA WithinHead ==
  ASSUME NEW q \in Nat, NEW l \in Seq([key : Keys, qty : 0..q]), l # <<>>
  PROVE  Head(l).qty <= q /\ Tail(l) \in Seq([key : Keys, qty : 0..q])
<1> DEFINE R == [key : Keys, qty : 0..q]
<1>1. l \in Seq(R)
  OBVIOUS
<1>2. Head(l) \in R /\ Tail(l) \in Seq(R)
  <2> HIDE DEF R
  <2> QED BY <1>1, HeadTailProperties
<1> QED BY <1>2

\* What a confirmation walks is within the largest line.
LEMMA WithinHook ==
  ASSUME NEW e \in Orders, NEW to, NEW q \in Nat, \A p \in LineQtys : p <= q
  PROVE  HookLines(e, to) \in Seq([key : Keys, qty : 0..q])
<1> DEFINE R == [key : Keys, qty : 0..q]
           S == [product : Products, qty : Nat]
           L == Lines[e]
           h == [i \in DOMAIN L |-> [key |-> <<L[i].product, DefaultWh>>, qty |-> L[i].qty]]
<1>1. CASE to = "confirmed"
  <2>1. L \in Seq(S)
    BY FulfilmentAssumption
  <2>2. DOMAIN L = 1..Len(L) /\ Len(L) \in Nat /\ \A i \in DOMAIN L : L[i] \in S
    <3> HIDE DEF L, S
    <3> QED BY <2>1, LenProperties, ElementOfSeq
  <2>3. ASSUME NEW i \in DOMAIN L PROVE h[i] \in R
    <3>1. L[i].qty \in LineQtys
      BY DEF LineQtys
    <3>2. L[i].qty \in 0..q /\ <<L[i].product, DefaultWh>> \in Keys
      BY <2>2, <3>1, InventoryAssumption DEF Keys
    <3> QED BY <3>2
  <2>4. h \in [1..Len(L) -> R]
    <3> DEFINE n == Len(L)
    <3>1. DOMAIN L = 1..n
      BY <2>2
    <3> HIDE DEF R, n, L
    <3> QED BY <2>3, <3>1 DEF n
  <2>5. h \in Seq(R)
    <3> HIDE DEF h, R, L
    <3> QED BY <2>2, <2>4, FunctionIsSeq
  <2>6. HookLines(e, to) = h
    BY <1>1 DEF HookLines
  <2> QED BY <2>5, <2>6
<1>2. CASE to # "confirmed"
  <2>1. HookLines(e, to) = <<>>
    BY <1>2, FulfilmentAssumption DEF HookLines
  <2> QED BY <2>1, EmptySeq
<1> QED BY <1>1, <1>2

LEMMA WithinStep ==
  ASSUME TypeOK, PackedLinesExist, NEW q \in Nat, \A p \in LineQtys : p <= q,
         LinesWithin(q), [Next]_vars
  PROVE  LinesWithin(q)'
<1>0. DOMAIN pc = Workers /\ DOMAIN req = Workers
  BY DEF TypeOK, WorkersType
<1>1. ASSUME \A v \in Workers : pc'[v] \in {"line", "adjust"} =>
                pc[v] \in {"line", "adjust"} /\ req'[v] = req[v]
      PROVE  LinesWithin(q)'
  BY <1>1 DEF LinesWithin
<1>2. ASSUME NEW w \in Workers, pc[w] \in {"line", "adjust"}, req[w].todo # <<>>,
             req' = [req EXCEPT ![w].todo = Tail(@)], \A v \in Workers \ {w} : pc'[v] = pc[v]
      PROVE  LinesWithin(q)'
  <2>1. req[w] \in StatusRequest
    BY <1>2 DEF TypeOK, WorkersType, RequestFits
  <2>2. /\ req'[w].ent = req[w].ent /\ req'[w].todo = Tail(req[w].todo)
        /\ \A v \in Workers \ {w} : req'[v] = req[v]
    BY <1>0, <1>2, <2>1 DEF StatusRequest
  <2>3. req[w].ent \in Orders => Tail(req[w].todo) \in Seq([key : Keys, qty : 0..q])
    BY <1>2, WithinHead DEF LinesWithin
  <2> QED BY <1>2, <2>2, <2>3 DEF LinesWithin
<1>3. ASSUME NEW w \in Workers, Rollback(w) PROVE LinesWithin(q)'
  <2>1. \A v \in Workers : pc'[v] \in {"line", "adjust"} =>
                pc[v] \in {"line", "adjust"} /\ req'[v] = req[v]
    BY <1>0, <1>3 DEF Rollback, Done, Goto
  <2> QED BY <1>1, <2>1
<1>4. ASSUME NEW w \in Workers, Serve(w) PROVE LinesWithin(q)'
  <2>1. CASE Begin(w)
    <3>1. req[w] \in StatusRequest
      BY <2>1 DEF Begin, TypeOK, WorkersType, RequestFits
    <3>2. /\ req'[w].ent = req[w].ent /\ req'[w].todo = HookLines(req[w].ent, req[w].to)
          /\ \A v \in Workers \ {w} : req'[v] = req[v] /\ pc'[v] = pc[v]
      BY <1>0, <2>1, <3>1 DEF Begin, Goto, StatusRequest
    <3>3. req[w].ent \in Orders => req'[w].todo \in Seq([key : Keys, qty : 0..q])
      BY <3>2, WithinHook
    <3> QED BY <3>2, <3>3 DEF LinesWithin
  <2>2. CASE ReadLevel(w)
    <3>1. pc[w] = "line" /\ req[w].todo # <<>>
      BY <2>2 DEF ReadLevel
    <3>2. CASE req' = [req EXCEPT ![w].todo = Tail(@)] /\ UNCHANGED pc
      BY <1>2, <3>1, <3>2
    <3>3. CASE Goto(w, "adjust") /\ UNCHANGED req
      <4>1. \A v \in Workers : pc'[v] \in {"line", "adjust"} => pc[v] \in {"line", "adjust"} /\ req'[v] = req[v]
        BY <3>1, <3>3 DEF Goto
      <4> QED BY <1>1, <4>1
    <3>4. CASE Rollback(w)
      BY <1>3, <3>4
    <3> QED BY <2>2, <3>2, <3>3, <3>4 DEF ReadLevel
  <2>3. CASE AdjustLine(w)
    <3>1. pc[w] = "adjust" /\ req[w].todo # <<>> /\ \A v \in Workers \ {w} : pc'[v] = pc[v]
      BY <2>3 DEF AdjustLine, Goto, TypeOK, WorkersType, RequestFits
    <3> QED BY <1>2, <2>3, <3>1 DEF AdjustLine
  <2>4. CASE DeadlockVictim(w)
    BY <1>3, <2>4 DEF DeadlockVictim
  <2>5. CASE Resolve(w) \/ CommitTransition(w) \/ CreateShipment(w) \/ DecideOrder(w)
             \/ ErpApply(w) \/ ErpRecord(w)
    <3>1. \A v \in Workers : pc'[v] \in {"line", "adjust"} => pc[v] \in {"line", "adjust"} /\ req'[v] = req[v]
      BY <1>0, <2>5 DEF Resolve, CommitTransition, CreateShipment, DecideOrder, ErpApply, ErpRecord, Done, Goto
    <3> QED BY <1>1, <3>1
  <2> QED BY <1>4, <2>1, <2>2, <2>3, <2>4, <2>5 DEF Serve
<1>5. ASSUME NEW w \in Workers, Receive(w) PROVE LinesWithin(q)'
  <2>1. \A v \in Workers : pc'[v] \in {"line", "adjust"} => pc[v] \in {"line", "adjust"} /\ req'[v] = req[v]
    BY <1>0, <1>5 DEF Receive, LoadEntity, PackShipment, LoadHeldOrder, ErpInbound, Arrive, Goto
  <2> QED BY <1>1, <2>1
<1>6. ASSUME NEW w \in Workers, Fail(w) PROVE LinesWithin(q)'
  BY <1>3, <1>6 DEF Fail
<1>7. CASE Correct \/ Configure \/ Rest \/ UNCHANGED vars
  BY <1>7, <1>1 DEF Correct, Configure, Rest, vars
<1> QED BY <1>4, <1>5, <1>6, <1>7 DEF Next

LEMMA OversellStep ==
  ASSUME Corrections = {}, Configs = {}, ErpEvents = {},
         NEW q \in Nat, \A p \in LineQtys : p <= q,
         Inv, TypeOK', OversellInv(q), [Next]_vars
  PROVE  OversellInv(q)'
<1> USE DEF Inv, StockInv
<1>0. RowTyped /\ RowTyped' /\ DOMAIN pc = Workers /\ DOMAIN req = Workers
  BY RowTypes, RowTypesNext DEF TypeOK, WorkersType
<1>1. LinesWithin(q)'
  BY WithinStep DEF OversellInv
<1>2. ASSUME UNCHANGED <<tracked, backorder>>,
             \A k \in InitTracked \ InitBackorder : k \in Keys /\ k \notin backorder /\ RowInv(k, q) => RowInv(k, q)'
      PROVE  OversellInv(q)'
  BY <1>1, <1>2, InventoryAssumption DEF OversellInv
<1>3. ASSUME UNCHANGED stockVars,
             \A v \in Workers, k \in Keys : (Asking(v, k)' <=> Asking(v, k)) /\ Asked(v, k)' = Asked(v, k)
      PROVE  OversellInv(q)'
  <2>1. UNCHANGED <<onHand, reserved, rowLock, dOnHand, dReserved>> /\ UNCHANGED <<tracked, backorder>>
    BY <1>3 DEF stockVars
  <2> QED BY <1>2, <1>3, <2>1, RowKept
<1>4. ASSUME NEW w \in Workers, UNCHANGED stockVars, pc[w] # "adjust", pc'[w] # "adjust",
             \A v \in Workers \ {w} : pc'[v] = pc[v] /\ req'[v] = req[v]
      PROVE  OversellInv(q)'
  <2>1. ASSUME NEW v \in Workers, NEW k \in Keys
        PROVE  (Asking(v, k)' <=> Asking(v, k)) /\ Asked(v, k)' = Asked(v, k)
    <3>1. CASE v = w
      BY <1>4, <3>1 DEF Asking, Asked
    <3>2. CASE v # w
      BY <1>4, <3>2, AskingSame
    <3> QED BY <3>1, <3>2
  <2> QED BY <1>3, <1>4, <2>1
<1>5. ASSUME NEW w \in Workers, Rollback(w) PROVE OversellInv(q)'
  <2>1. UNCHANGED <<tracked, backorder>>
    BY <1>5 DEF Rollback, RollbackStock, committed
  <2> QED BY <1>0, <1>2, <1>5, <2>1, RowRollback
<1>6. ASSUME NEW w \in Workers, Serve(w) PROVE OversellInv(q)'
  <2>1. CASE Resolve(w) \/ Begin(w) \/ CreateShipment(w) \/ DecideOrder(w)
    <3>1. /\ UNCHANGED stockVars /\ pc[w] # "adjust" /\ pc'[w] # "adjust"
          /\ \A v \in Workers \ {w} : pc'[v] = pc[v] /\ req'[v] = req[v]
      BY <1>0, <2>1 DEF Resolve, Begin, CreateShipment, DecideOrder, Done, Goto
    <3> QED BY <1>4, <3>1
  <2>2. CASE ReadLevel(w)
    <3> DEFINE line == Head(req[w].todo)
    <3>1. pc[w] = "line" /\ req[w].todo # <<>> /\ pc[w] # "adjust"
      BY <2>2 DEF ReadLevel
    <3>2. CASE req' = [req EXCEPT ![w].todo = Tail(@)] /\ UNCHANGED <<stockVars, pc>>
      <4>1. pc'[w] # "adjust" /\ \A v \in Workers \ {w} : pc'[v] = pc[v] /\ req'[v] = req[v]
        BY <3>1, <3>2
      <4> QED BY <1>4, <3>1, <3>2, <4>1
    <3>3. CASE /\ req[w].ent \in Orders => EnoughFor(w, line.key, line.qty)
               /\ Goto(w, "adjust") /\ UNCHANGED <<stockVars, req>>
      <4>1. pc' = [pc EXCEPT ![w] = "adjust"]
        BY <3>3 DEF Goto
      <4>2. \A v \in Workers \ {w} : pc'[v] = pc[v] /\ req'[v] = req[v]
        BY <3>3, <4>1
      <4>3. UNCHANGED <<onHand, reserved, rowLock, dOnHand, dReserved>> /\ UNCHANGED <<tracked, backorder>>
        BY <3>3 DEF stockVars
      <4>4. ASSUME NEW k \in Keys, k \notin backorder, RowInv(k, q) PROVE RowInv(k, q)'
        <5>1. CASE req[w].ent \in Orders /\ line.key = k
          <6>1. line.qty <= q /\ \A v \in Workers : Asked(v, k) <= q
            <7>1. line.qty <= q
              BY <3>1, <5>1, WithinHead DEF OversellInv, LinesWithin
            <7>2. ASSUME NEW v \in Workers PROVE Asked(v, k) <= q
              <8>1. CASE Asking(v, k)
                <9>1. req[v].todo # <<>>
                  BY <8>1 DEF Asking, TypeOK, WorkersType, RequestFits
                <9> QED BY <8>1, <9>1, WithinHead DEF Asking, Asked, OversellInv, LinesWithin
              <8>2. CASE ~Asking(v, k)
                BY <8>2 DEF Asked
              <8> QED BY <8>1, <8>2
            <7> QED BY <7>1, <7>2
          <6>2. LinesWithin(q) /\ EnoughFor(w, k, line.qty)
            BY <3>3, <5>1 DEF OversellInv
          <6> QED BY <1>0, <3>1, <3>3, <4>1, <4>4, <5>1, <6>1, <6>2, RowRead
        <5>2. CASE ~(req[w].ent \in Orders /\ line.key = k)
          <6>1. ASSUME NEW v \in Workers
                PROVE  (Asking(v, k)' <=> Asking(v, k)) /\ Asked(v, k)' = Asked(v, k)
            <7>1. CASE v = w
              BY <3>3, <5>2, <7>1 DEF Asking, Asked
            <7>2. CASE v # w
              BY <4>2, <7>2, AskingSame
            <7> QED BY <7>1, <7>2
          <6> QED BY <4>3, <4>4, <6>1, RowKept
        <5> QED BY <5>1, <5>2
      <4> QED BY <1>2, <4>3, <4>4
    <3>4. CASE Rollback(w)
      BY <1>5, <3>4
    <3> QED BY <2>2, <3>2, <3>3, <3>4 DEF ReadLevel
  <2>3. CASE AdjustLine(w)
    <3>1. \E key, on, res, type, n : AdjustAndLog(w, key, on, res, type, n)
      BY <2>3 DEF AdjustLine, ReserveLine, FulfilLine
    <3>2. UNCHANGED <<tracked, backorder>> /\ LinesWithin(q)
      BY <3>1 DEF AdjustAndLog, committed, OversellInv
    <3> QED BY <1>0, <1>2, <2>3, <3>2, RowAdjust
  <2>4. CASE CommitTransition(w)
    <3>1. UNCHANGED <<tracked, backorder>>
      BY <2>4 DEF CommitTransition, CommitStock
    <3> QED BY <1>0, <1>2, <2>4, <3>1, RowCommit
  <2>5. CASE DeadlockVictim(w)
    BY <1>5, <2>5 DEF DeadlockVictim
  <2>6. CASE ErpApply(w) \/ ErpRecord(w)
    <3>1. req[w] \in ErpRequest
      BY <2>6 DEF ErpApply, ErpRecord, TypeOK, WorkersType, RequestFits
    <3> QED BY <3>1 DEF ErpRequest
  <2> QED BY <1>6, <2>1, <2>2, <2>3, <2>4, <2>5, <2>6 DEF Serve
<1>7. ASSUME NEW w \in Workers, Receive(w) PROVE OversellInv(q)'
  <2>1. /\ UNCHANGED stockVars /\ pc[w] # "adjust" /\ pc'[w] # "adjust"
        /\ \A v \in Workers \ {w} : pc'[v] = pc[v] /\ req'[v] = req[v]
    BY <1>0, <1>7 DEF Receive, LoadEntity, PackShipment, LoadHeldOrder, ErpInbound, Arrive, Goto
  <2> QED BY <1>4, <2>1
<1>8. ASSUME NEW w \in Workers, Fail(w) PROVE OversellInv(q)'
  BY <1>5, <1>8 DEF Fail
<1>9. CASE Correct \/ Configure
  BY <1>9 DEF Correct, Configure
<1>10. CASE Rest \/ UNCHANGED vars
  <2>1. UNCHANGED <<stockVars, pc, req>>
    BY <1>10 DEF Rest, vars
  <2> QED BY <1>3, <2>1, AskingSame
<1> QED BY <1>6, <1>7, <1>8, <1>9, <1>10 DEF Next

LEMMA OversellInit ==
  ASSUME Workers # {}, NEW q \in Nat, Init
  PROVE  OversellInv(q)
<1>1. \A w \in Workers : pc[w] = "idle" /\ dOnHand[w] = NoDelta /\ dReserved[w] = NoDelta
  BY DEF Init, StockInit
<1>2. ASSUME NEW k \in Keys PROVE RowInv(k, q)
  <2> DEFINE F == Load(k)
             n == Cardinality(Workers)
  <2>1. \A w \in Workers : Taken(w, k) = 0 /\ Asked(w, k) = 0 /\ ~Asking(w, k)
    BY <1>1 DEF Taken, Asked, Asking, NoDelta
  <2>2. Left(k) \in Nat
    BY InventoryAssumption DEF Left, Init, StockInit, NoDelta
  <2>3. IsFiniteSet(Workers) /\ n \in Nat /\ n # 0
    BY FulfilmentAssumption, FS_CardinalityType, FS_EmptySet
  <2>4. F \in [Workers -> Int] /\ \A w \in Workers : F[w] = 0
    BY <2>1 DEF Load
  <2>5. SumOf(F) = 0
    <3> HIDE DEF F
    <3> QED BY <2>3, <2>4, SumZero
  <2>6. (n - 1) * q \in Nat
    <3> HIDE DEF n
    <3>1. n - 1 \in Nat
      BY <2>3
    <3> QED BY <3>1
  <2> DEFINE m == (n - 1) * q
  <2> HIDE DEF m, F, n
  <2>7. SumOf(F) <= Left(k) + m
    BY <2>2, <2>5, <2>6 DEF m
  <2>8. \A w \in Workers : Taken(w, k) >= 0 /\ Taken(w, k) <= q /\ ~Asking(w, k)
    BY <2>1
  <2> QED BY <2>7, <2>8 DEF RowInv, F, m, n
<1>3. LinesWithin(q)
  BY <1>1 DEF LinesWithin
<1> QED BY <1>2, <1>3, InventoryAssumption DEF OversellInv, Init, StockInit

\* Nobody's share is negative, so what is left bears the whole bound.
LEMMA OversellBound ==
  ASSUME NEW q \in LineQtys, q \in Nat, \A p \in LineQtys : p <= q, TypeOK, OversellInv(q)
  PROVE  OversellBounded
<1> SUFFICES ASSUME NEW k \in tracked \ backorder
             PROVE  onHand[k] - reserved[k] >= -((Cardinality(Workers) - 1) * q)
  BY DEF OversellBounded
<1> DEFINE F == Load(k)
           n == Cardinality(Workers)
           m == (n - 1) * q
<1>1. k \in Keys /\ RowInv(k, q)
  BY InventoryAssumption DEF OversellInv
<1>2. Left(k) \in Int /\ \A w \in Workers : Taken(w, k) \in Int /\ Asked(w, k) \in Nat /\ Taken(w, k) >= 0
  BY <1>1, RowTypes DEF RowTyped, RowInv
<1>3. F \in [Workers -> Nat] /\ IsFiniteSet(Workers) /\ n \in Int
  BY <1>2, FulfilmentAssumption, FS_CardinalityType DEF Load
<1>4. SumOf(F) \in Nat
  <2> HIDE DEF F
  <2> QED BY <1>3, SumNat
<1>5. m \in Int
  <2> HIDE DEF n
  <2> QED BY <1>3
<1>6. SumOf(F) <= Left(k) + m
  BY <1>1 DEF RowInv
<1>7. Left(k) >= -m
  <2> HIDE DEF m, F
  <2> QED BY <1>2, <1>4, <1>5, <1>6
<1> QED BY <1>7 DEF Left, m, n

(* ReserveForOrder checks the level before it locks the row, so requests   *)
(* that run together can oversell it -- by at most the largest order line  *)
(* for each of them but one, as long as nobody corrects the level, changes *)
(* its configuration or overwrites it from the ERP.                        *)
THEOREM OversellAlwaysBounded ==
  ASSUME Workers # {}, Corrections = {}, Configs = {}, ErpEvents = {},
         NEW q \in LineQtys, \A p \in LineQtys : p <= q
  PROVE  Spec => []OversellBounded
<1>0. q \in Nat
  BY LineQty DEF LineQtys
<1>1. Init => OversellInv(q)
  BY <1>0, OversellInit
<1>2. Inv /\ Inv' /\ OversellInv(q) /\ [Next]_vars => OversellInv(q)'
  <2> SUFFICES ASSUME Inv, Inv', OversellInv(q), [Next]_vars PROVE OversellInv(q)'
    OBVIOUS
  <2>1. TypeOK'
    BY DEF Inv
  <2> QED BY <1>0, <2>1, OversellStep
<1>3. Inv /\ OversellInv(q) => OversellBounded
  BY <1>0, OversellBound DEF Inv
<1> QED BY <1>1, <1>2, <1>3, SpecInv, PTL DEF Spec

=============================================================================
