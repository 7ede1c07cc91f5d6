--------------------------- MODULE OrderFulfilment ---------------------------
(***************************************************************************)
(* From a placed order to shipped stock: the workflow engine               *)
(* (internal/workflow), the order and shipment status endpoints that drive *)
(* it (sales/order.go, otc/shipments.go), the company approver's decision  *)
(* (account/handler.go), and the ERP's inventory webhook                   *)
(* (erp/inbound.go), all over one stock (Inventory).                       *)
(*                                                                         *)
(* A worker serves one request at a time.  pc[w] is where its handler is   *)
(* and req[w] holds what the handler has read so far: reads made on the    *)
(* pool are steps of their own, because the transaction that follows does  *)
(* not repeat them.  Entities are the orders and the shipments; both have  *)
(* a status column and a workflow instance.                                *)
(***************************************************************************)
EXTENDS Inventory, Sums, Sequences

CONSTANTS
  Orders,
  Lines,         \* order -> its items, in the order ListOrderItems returns them
  OverLimit,     \* orders whose grand total exceeds the buyer's spending limit
  Shipments,     \* ids shipments may get
  NoState,       \* no workflow instance / shipment row does not exist yet
  OrderTargets,  \* states a rep asks for in PATCH /orders/{id}/status
  ShipTargets,   \* the same for shipments
  Packings,      \* item lists a createShipment request may carry
  Decisions,     \* what a company approver decides: "pending", "cancelled"
  Corrections,   \* manual movements: [key, type, qty]
  Configs,       \* level configurations: [key, allow]
  ErpEvents,     \* inventory webhook events: [id, product, qty]
  MaxRequests    \* bound: requests started in a behaviour

Entities == Orders \cup Shipments

OrderStates == {"pending", "confirmed", "processing", "shipped", "delivered",
                "closed", "on_hold", "cancelled"}
ShipStates  == {"pending", "shipped", "delivered", "returned"}
States      == OrderStates \cup ShipStates

\* workflow_transitions of order_default and shipment_default.
OrderEdges ==
  {<<"pending", "confirmed">>, <<"on_hold", "confirmed">>,
   <<"confirmed", "processing">>, <<"processing", "shipped">>,
   <<"shipped", "delivered">>, <<"delivered", "closed">>}
  \cup ({"pending", "confirmed", "processing"} \X {"on_hold"})
  \cup ({"pending", "confirmed", "processing", "on_hold"} \X {"cancelled"})
ShipEdges ==
  {<<"pending", "shipped">>, <<"shipped", "delivered">>}
  \cup ({"pending", "shipped", "delivered"} \X {"returned"})

Final(e) == IF e \in Orders THEN {"closed", "cancelled"} ELSE {"returned"}
Edges(e) == IF e \in Orders THEN OrderEdges ELSE ShipEdges

ASSUME FulfilmentAssumption ==
  /\ Orders \cap Shipments = {}
  /\ IsFiniteSet(Workers) /\ IsFiniteSet(Shipments)
  /\ NoState \notin States
  /\ NoWorker \notin Entities
  /\ OverLimit \subseteq Orders
  /\ Lines \in [Orders -> Seq([product : Products, qty : Nat])]
  /\ Packings \subseteq Seq([line : Nat, qty : Nat])
  /\ OrderTargets \subseteq OrderStates
  /\ ShipTargets \subseteq ShipStates
  /\ Decisions \subseteq {"pending", "cancelled"}
  /\ Corrections \subseteq [key : Keys, type : MoveTypes, qty : Int]
  /\ Configs \subseteq [key : Keys, allow : BOOLEAN]
  /\ ErpEvents \subseteq [id : STRING, product : Products, qty : Int]
  /\ MaxRequests \in Nat

VARIABLES
  status,    \* orders.status / shipments.status
  inst,      \* workflow_instances.current_state
  log,       \* workflow_transition_log of the instance, oldest first
  entLock,   \* who holds the row locks of the instance and of its entity
  decided,   \* orders a company approver has decided
  shipment,  \* the shipments rows: order, warehouse, items
  refMoved,  \* movements by reference: order -> reserved, shipment -> fulfilled
  erpSeen,   \* inbound sync_logs: event ids with an idempotency key
  erpApplied,\* how many times each event was applied
  pc, req, started

flowVars == <<status, inst, log, entLock, decided, shipment, refMoved>>
erpVars  == <<erpSeen, erpApplied>>
vars == <<stockVars, flowVars, erpVars, pc, req, started>>

NoReq == [kind |-> "none"]
NoShipment == [order |-> NoState, wh |-> DefaultWh, items |-> <<>>]

Init ==
  /\ StockInit
  /\ status = [e \in Entities |-> IF e \in Orders THEN "pending" ELSE NoState]
  /\ inst = [e \in Entities |-> NoState]
  /\ log = [e \in Entities |-> <<>>]
  /\ entLock = [e \in Entities |-> NoWorker]
  /\ decided = {}
  /\ shipment = [s \in Shipments |-> NoShipment]
  /\ refMoved = [e \in Entities |-> NoDelta]
  /\ erpSeen = {}
  /\ erpApplied = [ev \in ErpEvents |-> 0]
  /\ pc = [w \in Workers |-> "idle"]
  /\ req = [w \in Workers |-> NoReq]
  /\ started = 0

Goto(w, label) == pc' = [pc EXCEPT ![w] = label]
Done(w) == Goto(w, "idle") /\ req' = [req EXCEPT ![w] = NoReq]

\* A request arrives at an idle worker.
Arrive(w, label, r) ==
  /\ pc[w] = "idle" /\ started < MaxRequests
  /\ started' = started + 1
  /\ req' = [req EXCEPT ![w] = r]
  /\ Goto(w, label)

-----------------------------------------------------------------------------
(* The workflow engine, as patchOrderStatus and patchShipmentStatus use it *)

\* The handler loads the entity (seen is its status column) and parses the
\* target.  approve: the rep's role has the order.approve permission.
LoadEntity(w) ==
  \E e \in Entities, to \in OrderTargets \cup ShipTargets, approve \in BOOLEAN :
    /\ status[e] # NoState
    /\ to \in (IF e \in Orders THEN OrderTargets ELSE ShipTargets)
    /\ e \in Shipments => ~approve
    /\ Arrive(w, "resolve",
         [kind |-> "status", ent |-> e, to |-> to, seen |-> status[e],
          from |-> NoState, approve |-> approve, todo |-> <<>>])
    /\ UNCHANGED <<stockVars, flowVars, erpVars>>

\* (slip) upsert instead of get-or-create
EnsuredByUpsert(e, seen) == seen

\* The state an instance has once EnsureInstance has returned.
Ensured(e, seen) == IF inst[e] = NoState THEN seen ELSE inst[e]

\* (slip) the has_permission guard is not configured on resume
GuardsWithoutPermission(e, from, to, approve) ==
  <<from, to>> = <<"pending", "confirmed">> => e \notin OverLimit

\* amount_lte_limit on confirm, has_permission on resume.
GuardsAllow(e, from, to, approve) ==
  /\ <<from, to>> = <<"pending", "confirmed">> => e \notin OverLimit
  /\ <<from, to>> = <<"on_hold", "confirmed">> => approve

MayTransition(e, from, to, approve) ==
  /\ from \notin Final(e)
  /\ <<from, to>> \in Edges(e)
  /\ GuardsAllow(e, from, to, approve)

\* EnsureInstance creates the instance in the state the handler read; then
\* ApplyTransitionTo reads it and checks edge and guards, before any BEGIN.
Resolve(w) ==
  /\ pc[w] = "resolve"
  /\ LET r == req[w]
         from == Ensured(r.ent, r.seen)
     IN  /\ inst' = [inst EXCEPT ![r.ent] = from]
         /\ IF MayTransition(r.ent, from, r.to, r.approve)
            THEN Goto(w, "begin") /\ req' = [req EXCEPT ![w].from = from]
            ELSE Done(w)
  /\ UNCHANGED <<stockVars, status, log, entLock, decided, shipment, refMoved,
                 erpVars, started>>

\* (slip) the walk starts at the second order line
HookLinesFromSecond(e, to) ==
  IF e \in Orders /\ to = "confirmed"
  THEN [i \in 1..(Len(Lines[e]) - 1) |->
          [key |-> <<Lines[e][i + 1].product, DefaultWh>>, qty |-> Lines[e][i + 1].qty]]
  ELSE <<>>

\* (slip) shipments always draw from the default warehouse
HookLinesDefaultWh(e, to) ==
  IF e \in Shipments /\ to = "shipped"
  THEN LET s == shipment[e] IN
       [i \in DOMAIN s.items |-> [key |-> <<Lines[s.order][s.items[i].line].product, DefaultWh>>,
                                   qty |-> s.items[i].qty]]
  ELSE <<>>

\* The stock lines the commit hook walks: the order's items at the default
\* warehouse, the shipment's at the warehouse stored on it.
HookLines(e, to) ==
  CASE e \in Orders /\ to = "confirmed" ->
         [i \in DOMAIN Lines[e] |->
            [key |-> <<Lines[e][i].product, DefaultWh>>, qty |-> Lines[e][i].qty]]
    [] e \in Shipments /\ to = "shipped" ->
         LET s == shipment[e] IN
         [i \in DOMAIN s.items |->
            [key |-> <<Lines[s.order][s.items[i].line].product, s.wh>>,
             qty |-> s.items[i].qty]]
    [] OTHER -> <<>>

\* SetWorkflowInstanceState and SetOrderStatus / SetShipmentStatus: the
\* updates name the row by id only, they take the locks and wait for them.
Begin(w) ==
  /\ pc[w] = "begin"
  /\ entLock[req[w].ent] = NoWorker
  /\ entLock' = [entLock EXCEPT ![req[w].ent] = w]
  /\ req' = [req EXCEPT ![w].todo = HookLines(req[w].ent, req[w].to)]
  /\ Goto(w, "line")
  /\ UNCHANGED <<stockVars, status, inst, log, decided, shipment, refMoved,
                 erpVars, started>>

\* End of a transaction: the worker's row locks go.
FreeEntity(w) ==
  entLock' = [e \in Entities |-> IF entLock[e] = w THEN NoWorker ELSE entLock[e]]

Rollback(w) ==
  /\ RollbackStock(w)
  /\ FreeEntity(w)
  /\ Done(w)
  /\ UNCHANGED <<status, inst, log, decided, shipment, refMoved, erpVars, started>>

\* GetInventoryLevel for the next line: an untracked product is skipped, a
\* reservation that does not fit ends the transaction (ErrInsufficientStock).
ReadLevel(w) ==
  /\ pc[w] = "line" /\ req[w].todo # <<>>
  /\ LET line == Head(req[w].todo) IN
     \/ /\ line.key \notin tracked
        /\ req' = [req EXCEPT ![w].todo = Tail(@)]
        /\ UNCHANGED <<stockVars, flowVars, erpVars, pc, started>>
     \/ /\ line.key \in tracked
        /\ req[w].ent \in Orders => EnoughFor(w, line.key, line.qty)
        /\ Goto(w, "adjust")
        /\ UNCHANGED <<stockVars, flowVars, erpVars, req, started>>
     \/ /\ line.key \in tracked
        /\ req[w].ent \in Orders /\ ~EnoughFor(w, line.key, line.qty)
        /\ Rollback(w)

\* AdjustInventoryLevel + AddInventoryMovement for the line just read.
AdjustLine(w) ==
  /\ pc[w] = "adjust"
  /\ LET line == Head(req[w].todo) IN
     IF req[w].ent \in Orders THEN ReserveLine(w, line.key, line.qty)
                              ELSE FulfilLine(w, line.key, line.qty)
  /\ req' = [req EXCEPT ![w].todo = Tail(@)]
  /\ Goto(w, "line")
  /\ UNCHANGED <<flowVars, erpVars, started>>

RefType(e) == IF e \in Orders THEN "reservation" ELSE "fulfillment"

\* tx.Commit: instance, status, log row and stock become visible together.
CommitTransition(w) ==
  /\ pc[w] = "line" /\ req[w].todo = <<>>
  /\ LET r == req[w] IN
     /\ inst' = [inst EXCEPT ![r.ent] = r.to]
     /\ status' = [status EXCEPT ![r.ent] = r.to]
     /\ log' = [log EXCEPT ![r.ent] = Append(@,
                  [from |-> r.from, to |-> r.to, approve |-> r.approve])]
     /\ refMoved' = [refMoved EXCEPT ![r.ent] =
                       [k \in Keys |-> @[k] + dMoved[w][k][RefType(r.ent)]]]
  /\ CommitStock(w)
  /\ FreeEntity(w)
  /\ Done(w)
  /\ UNCHANGED <<decided, shipment, erpVars, started>>

\* The client goes away or a statement fails: the handler returns and the
\* deferred tx.Rollback runs.  An autocommitted statement stays.
Fail(w) == pc[w] # "idle" /\ Rollback(w)

-----------------------------------------------------------------------------
(* Postgres's deadlock detector aborts one transaction of a cycle.         *)

Blocked(w) == pc[w] = "adjust" /\ ~CanLock(w, Head(req[w].todo).key)
Holder(w)  == rowLock[Head(req[w].todo).key]

InCycle(w) ==
  \E C \in SUBSET Workers :
    /\ w \in C
    /\ \A c \in C : Blocked(c)
    /\ {Holder(c) : c \in C} = C

DeadlockVictim(w) == InCycle(w) /\ Rollback(w)

-----------------------------------------------------------------------------
(* otc.createShipment                                                      *)

Exists(s) == status[s] # NoState

\* ShippedQtyForOrderItem: every shipment of the line counts.
Packed(items, line) ==
  SumOf([i \in DOMAIN items |-> IF items[i].line = line THEN items[i].qty ELSE 0])
Shipped(o, line) ==
  SumOf([s \in Shipments |->
           IF shipment[s].order = o THEN Packed(shipment[s].items, line) ELSE 0])

\* Bound: an id for every shipment created or about to be.
IdsLeft ==
  Cardinality({s \in Shipments : Exists(s)}) + Cardinality({v \in Workers : pc[v] = "pack"})
    < Cardinality(Shipments)

\* (slip) what other shipments hold is not subtracted
PackWithinOrder(w) ==
  IdsLeft /\ \E o \in Orders, wh \in Warehouses, items \in Packings :
    /\ \A i \in DOMAIN items :
         /\ items[i].line \in DOMAIN Lines[o]
         /\ items[i].qty <= Lines[o][items[i].line].qty
    /\ Arrive(w, "pack", [kind |-> "pack", order |-> o, wh |-> wh, items |-> items])
    /\ UNCHANGED <<stockVars, flowVars, erpVars>>

\* Each item is compared with what is left, before anything is written.
PackShipment(w) ==
  IdsLeft /\ \E o \in Orders, wh \in Warehouses, items \in Packings :
    /\ \A i \in DOMAIN items :
         /\ items[i].line \in DOMAIN Lines[o]
         /\ items[i].qty <= Lines[o][items[i].line].qty - Shipped(o, items[i].line)
    /\ Arrive(w, "pack", [kind |-> "pack", order |-> o, wh |-> wh, items |-> items])
    /\ UNCHANGED <<stockVars, flowVars, erpVars>>

\* The insert; the row gets an id nobody has used.
CreateShipment(w) ==
  /\ pc[w] = "pack"
  /\ \E s \in Shipments :
       /\ ~Exists(s)
       /\ status' = [status EXCEPT ![s] = "pending"]
       /\ shipment' = [shipment EXCEPT ![s] =
            [order |-> req[w].order, wh |-> req[w].wh, items |-> req[w].items]]
  /\ Done(w)
  /\ UNCHANGED <<stockVars, inst, log, entLock, decided, refMoved, erpVars, started>>

-----------------------------------------------------------------------------
(* account.decideOrder: the company approver releases or rejects a held    *)
(* order; the update does not go through the workflow engine.              *)

LoadHeldOrder(w) ==
  \E o \in Orders, to \in Decisions :
    /\ status[o] = "on_hold"
    /\ Arrive(w, "decide", [kind |-> "decide", ent |-> o, to |-> to])
    /\ UNCHANGED <<stockVars, flowVars, erpVars>>

DecideOrder(w) ==
  /\ pc[w] = "decide"
  /\ entLock[req[w].ent] = NoWorker
  /\ status' = [status EXCEPT ![req[w].ent] = req[w].to]
  /\ decided' = decided \cup {req[w].ent}
  /\ Done(w)
  /\ UNCHANGED <<stockVars, inst, log, entLock, shipment, refMoved, erpVars, started>>

-----------------------------------------------------------------------------
(* erp.inbound: the event is applied first, then its id is recorded; the   *)
(* unique index refuses the second record of an id.                        *)

ErpInbound(w) ==
  \E ev \in ErpEvents :
    /\ Arrive(w, "erpApply", [kind |-> "erp", event |-> ev])
    /\ UNCHANGED <<stockVars, flowVars, erpVars>>

\* (slip) an error of applyInventory is not noticed
ErpApplyUnchecked(w) ==
  /\ pc[w] = "erpApply"
  /\ LET ev == req[w].event IN
     \/ /\ SetInventoryOnHand(<<ev.product, DefaultWh>>, ev.qty)
        /\ erpApplied' = [erpApplied EXCEPT ![ev] = @ + 1]
     \/ UNCHANGED <<stockVars, erpApplied>>
  /\ Goto(w, "erpLog")
  /\ UNCHANGED <<flowVars, erpSeen, req, started>>

ErpApply(w) ==
  /\ pc[w] = "erpApply"
  /\ LET ev == req[w].event IN
     /\ SetInventoryOnHand(<<ev.product, DefaultWh>>, ev.qty)
     /\ erpApplied' = [erpApplied EXCEPT ![ev] = @ + 1]
  /\ Goto(w, "erpLog")
  /\ UNCHANGED <<flowVars, erpSeen, req, started>>

ErpRecord(w) ==
  /\ pc[w] = "erpLog"
  /\ erpSeen' = erpSeen \cup {req[w].event.id}
  /\ Done(w)
  /\ UNCHANGED <<stockVars, flowVars, erpApplied, started>>

-----------------------------------------------------------------------------
(* The inventory admin's own requests, one step each.                      *)

Correct ==
  /\ started < MaxRequests /\ started' = started + 1
  /\ \E c \in Corrections : Adjust(c.key, c.type, c.qty)
  /\ UNCHANGED <<flowVars, erpVars, pc, req>>

Configure ==
  /\ started < MaxRequests /\ started' = started + 1
  /\ \E c \in Configs : SetLevelConfig(c.key, c.allow)
  /\ UNCHANGED <<flowVars, erpVars, pc, req>>

Serve(w) ==
  \/ Resolve(w) \/ Begin(w) \/ ReadLevel(w) \/ AdjustLine(w)
  \/ CommitTransition(w) \/ DeadlockVictim(w)
  \/ CreateShipment(w) \/ DecideOrder(w) \/ ErpApply(w) \/ ErpRecord(w)

Receive(w) ==
  LoadEntity(w) \/ PackShipment(w) \/ LoadHeldOrder(w) \/ ErpInbound(w)

\* Every request is answered and nobody need send another.
Rest == (\A w \in Workers : pc[w] = "idle") /\ UNCHANGED vars

Next ==
  \/ \E w \in Workers : Receive(w) \/ Serve(w) \/ Fail(w)
  \/ Correct \/ Configure \/ Rest

Spec == Init /\ [][Next]_vars

(* The server keeps executing a request it has started: goroutines are     *)
(* scheduled, statements return and the database breaks deadlocks.         *)
(* Nothing makes requests arrive, clients leave or statements fail.        *)
FairSpec == Spec /\ \A w \in Workers : WF_vars(Serve(w))

-----------------------------------------------------------------------------
StockLines == Seq([key : Keys, qty : Nat])
StatusRequest == [kind : {"status"}, ent : Entities, to : States, seen : States,
                  from : States \cup {NoState}, approve : BOOLEAN, todo : StockLines]
PackRequest   == [kind : {"pack"}, order : Orders, wh : Warehouses, items : Packings]
DecideRequest == [kind : {"decide"}, ent : Orders, to : Decisions]
ErpRequest    == [kind : {"erp"}, event : ErpEvents]

Stages == {"idle", "resolve", "begin", "line", "adjust", "pack", "decide",
           "erpApply", "erpLog"}

AnyRequest == {NoReq} \cup StatusRequest \cup PackRequest \cup DecideRequest
                \cup ErpRequest

\* What a worker holds at each stage of its handler.
RequestFits(stage, r) ==
  /\ stage = "idle" => r = NoReq
  /\ stage \in {"resolve", "begin", "line", "adjust"} => r \in StatusRequest
  /\ stage \in {"begin", "line", "adjust"} => r.from # NoState
  /\ stage = "adjust" => r.todo # <<>>
  /\ stage = "pack" => r \in PackRequest
  /\ stage = "decide" => r \in DecideRequest
  /\ stage \in {"erpApply", "erpLog"} => r \in ErpRequest

WorkersType ==
  /\ pc \in [Workers -> Stages]
  /\ req \in [Workers -> AnyRequest]
  /\ \A w \in Workers : RequestFits(pc[w], req[w])
  /\ started \in Nat

LogRow == [from : States, to : States, approve : BOOLEAN]
ShipmentRow == [order : Orders \cup {NoState}, wh : Warehouses,
                items : Packings \cup {<<>>}]

TablesType ==
  /\ status \in [Entities -> States \cup {NoState}]
  /\ inst \in [Entities -> States \cup {NoState}]
  /\ log \in [Entities -> Seq(LogRow)]
  /\ entLock \in [Entities -> Workers \cup {NoWorker}]
  /\ decided \subseteq Orders
  /\ shipment \in [Shipments -> ShipmentRow]
  /\ refMoved \in [Entities -> [Keys -> Int]]
  /\ erpSeen \subseteq {ev.id : ev \in ErpEvents}
  /\ erpApplied \in [ErpEvents -> Nat]

(* The shape of every table and of every request in flight, stage by stage *)
(* of the handlers.                                                        *)
TypeOK == StockType /\ TablesType /\ WorkersType

Entered(e, s) == Cardinality({i \in DOMAIN log[e] : log[e][i].to = s})
Ordered(o, p) ==
  SumOf([i \in DOMAIN Lines[o] |-> IF Lines[o][i].product = p THEN Lines[o][i].qty ELSE 0])
PackedOf(s, p) ==
  LET o == shipment[s].order
         items == shipment[s].items
  IN  SumOf([i \in DOMAIN items |-> IF Lines[o][items[i].line].product = p THEN items[i].qty ELSE 0])

(* Confirming is all or nothing: the reservation movements that name an    *)
(* order are, row by row, those of its confirmations -- every tracked line *)
(* once per logged confirmation, at the default warehouse, and nothing of  *)
(* a confirmation that was refused, interrupted or chosen as deadlock      *)
(* victim (patchOrderStatus's hook, ReserveForOrder).                      *)
ReservedPerConfirm ==
  \A o \in Orders : \A k \in InitTracked :
    refMoved[o][k] =
      IF k[2] = DefaultWh THEN Entered(o, "confirmed") * Ordered(o, k[1]) ELSE 0

(* The same for shipments: stock leaves the warehouse stored on the        *)
(* shipment, in full, once per logged move to shipped (FulfilShipment).    *)
FulfilledPerShip ==
  \A s \in Shipments : \A k \in InitTracked :
    Exists(s) => refMoved[s][k] =
      IF k[2] = shipment[s].wh THEN -(Entered(s, "shipped") * PackedOf(s, k[1])) ELSE 0

NamesTwice(items) == \E i, j \in DOMAIN items : i # j /\ items[i].line = items[j].line

(* What the check of createShipment does guarantee, though it reads the    *)
(* shipments before the transaction that inserts the next one: requests    *)
(* that overlap may each ship all of a line, later ones nothing more.  An  *)
(* item list that names a line twice has each item pass the check alone.   *)
OverShipmentBounded ==
  \A o \in Orders : \A i \in DOMAIN Lines[o] :
    (\E s \in Shipments : shipment[s].order = o /\ NamesTwice(shipment[s].items))
      \/ Shipped(o, i) <= Cardinality(Workers) * Lines[o][i].qty

(* Stock leaves as it was packed, and what is packed stays within what the *)
(* check of createShipment allows (otc/shipments.go).                      *)
ShipmentsAreRight == FulfilledPerShip /\ OverShipmentBounded

(* The status column and the workflow instance never disagree, however     *)
(* transitions race and fail, for an entity no company approver decided.   *)
StatusFollowsInstance ==
  \A e \in Entities \ decided : inst[e] # NoState => status[e] = inst[e]

(* migrations/0019: an order above its buyer's limit is confirmed only by  *)
(* somebody with order.approve -- also when two requests race and one of   *)
(* them applies a transition it resolved from a state that is gone.        *)
OverLimitNeedsApproval ==
  \A o \in OverLimit : \A i \in DOMAIN log[o] :
    log[o][i].to = "confirmed" => log[o][i].approve

LineQtys == UNION {{Lines[o][i].qty : i \in DOMAIN Lines[o]} : o \in Orders}

(* What the unlocked check in ReserveForOrder does guarantee: a row can be *)
(* oversold by at most one line for each other request running at the      *)
(* time.  (For runs with no correction, configuration or ERP write.)       *)
OversellBounded ==
  \A k \in tracked \ backorder : \E q \in LineQtys :
    /\ \A p \in LineQtys : p <= q
    /\ onHand[k] - reserved[k] >= -((Cardinality(Workers) - 1) * q)

(* Every request is answered: no lock outlives its transaction and no two  *)
(* confirmations wait for each other for ever.                             *)
EveryRequestEnds == \A w \in Workers : pc[w] # "idle" ~> pc[w] = "idle"

(* An ERP event whose id is recorded has been applied, so refusing its     *)
(* repeats loses nothing, wherever a delivery was cut off (erp.inbound).   *)
ErpSeenWasApplied ==
  \A id \in erpSeen : \E ev \in ErpEvents : ev.id = id /\ erpApplied[ev] >= 1

=============================================================================
