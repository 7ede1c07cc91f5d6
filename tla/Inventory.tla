------------------------------ MODULE Inventory ------------------------------
(***************************************************************************)
(* Stock: internal/inventory (service.go, handler.go) over the tables of   *)
(* migrations/0010_inventory.sql, and the ERP webhook's direct write.      *)
(*                                                                         *)
(* Postgres runs every transaction at READ COMMITTED: a statement sees     *)
(* what is committed and what its own transaction wrote; an UPDATE takes   *)
(* the row's lock and keeps it until commit or rollback.  A transaction of *)
(* worker w therefore keeps its uncommitted effects in dOnHand, dReserved  *)
(* and dMoved, and the rows it updated in rowLock.                         *)
(*                                                                         *)
(* Quantities are whole units; the ledger is kept as the total of each     *)
(* movement type per (product, warehouse), which is all that the cache can *)
(* be compared with.                                                       *)
(***************************************************************************)
EXTENDS Integers, FiniteSets

CONSTANTS
  Workers,        \* requests the server handles at the same time
  NoWorker,       \* "nobody holds this row's lock"
  Products,
  Warehouses,     \* active warehouses of the organization
  DefaultWh,      \* the one with the smallest id (GetDefaultWarehouse)
  InitTracked,    \* rows of inventory_levels that exist at the start
  InitStock,      \* what was received there
  InitBackorder   \* rows with allow_backorder

Keys == Products \X Warehouses

MoveTypes == {"receipt", "reservation", "release", "fulfillment",
              "adjustment", "return"}

ASSUME InventoryAssumption ==
  /\ NoWorker \notin Workers
  /\ DefaultWh \in Warehouses
  /\ InitTracked \subseteq Keys
  /\ InitBackorder \subseteq InitTracked
  /\ InitStock \in [Keys -> Nat]
  /\ \A k \in Keys \ InitTracked : InitStock[k] = 0

VARIABLES
  tracked,    \* keys that have a row in inventory_levels
  onHand,     \* quantity_on_hand
  reserved,   \* quantity_reserved
  backorder,  \* allow_backorder
  moved,      \* inventory_movements: signed total per key and type
  erpWritten, \* keys whose on-hand the ERP has overwritten
  rowLock,    \* who holds the lock of the row
  dOnHand, dReserved, dMoved   \* uncommitted effects, per worker

committed == <<tracked, onHand, reserved, backorder, moved, erpWritten>>
inFlight  == <<rowLock, dOnHand, dReserved, dMoved>>
stockVars == <<tracked, onHand, reserved, backorder, moved, erpWritten,
               rowLock, dOnHand, dReserved, dMoved>>

NoDelta == [k \in Keys |-> 0]
NoMove  == [k \in Keys |-> [t \in MoveTypes |-> 0]]

StockType ==
  /\ tracked \subseteq Keys
  /\ onHand \in [Keys -> Int]
  /\ reserved \in [Keys -> Int]
  /\ backorder \subseteq Keys
  /\ moved \in [Keys -> [MoveTypes -> Int]]
  /\ erpWritten \subseteq Keys
  /\ rowLock \in [Keys -> Workers \cup {NoWorker}]
  /\ dOnHand \in [Workers -> [Keys -> Int]]
  /\ dReserved \in [Workers -> [Keys -> Int]]
  /\ dMoved \in [Workers -> [Keys -> [MoveTypes -> Int]]]

StockInit ==
  /\ tracked = InitTracked
  /\ onHand = InitStock
  /\ reserved = NoDelta
  /\ backorder = InitBackorder
  /\ moved = [k \in Keys |-> [t \in MoveTypes |->
                IF t = "receipt" THEN InitStock[k] ELSE 0]]
  /\ erpWritten = {}
  /\ rowLock = [k \in Keys |-> NoWorker]
  /\ dOnHand = [w \in Workers |-> NoDelta]
  /\ dReserved = [w \in Workers |-> NoDelta]
  /\ dMoved = [w \in Workers |-> NoMove]

-----------------------------------------------------------------------------
(* Statements of a transaction.                                            *)

\* available as worker w's transaction reads it: committed plus its own.
Available(w, k) ==
  (onHand[k] + dOnHand[w][k]) - (reserved[k] + dReserved[w][k])

\* (slip) what is already reserved is not taken off
EnoughOnHand(w, k, q) == q <= onHand[k] + dOnHand[w][k] \/ k \in backorder

\* The check ReserveForOrder makes on the level it read.
EnoughFor(w, k, q) == q <= Available(w, k) \/ k \in backorder

CanLock(w, k) == rowLock[k] \in {NoWorker, w}

\* AdjustInventoryLevel followed by AddInventoryMovement, in w's transaction.
AdjustAndLog(w, k, on, res, type, q) ==
  /\ CanLock(w, k)
  /\ rowLock' = [rowLock EXCEPT ![k] = w]
  /\ dOnHand' = [dOnHand EXCEPT ![w][k] = @ + on]
  /\ dReserved' = [dReserved EXCEPT ![w][k] = @ + res]
  /\ dMoved' = [dMoved EXCEPT ![w][k][type] = @ + q]
  /\ UNCHANGED committed

ReserveLine(w, k, q) == AdjustAndLog(w, k, 0, q, "reservation", q)
FulfilLine(w, k, q)  == AdjustAndLog(w, k, -q, -q, "fulfillment", -q)

Release(w) ==
  /\ rowLock' = [k \in Keys |-> IF rowLock[k] = w THEN NoWorker ELSE rowLock[k]]
  /\ dOnHand' = [dOnHand EXCEPT ![w] = NoDelta]
  /\ dReserved' = [dReserved EXCEPT ![w] = NoDelta]
  /\ dMoved' = [dMoved EXCEPT ![w] = NoMove]

CommitStock(w) ==
  /\ onHand' = [k \in Keys |-> onHand[k] + dOnHand[w][k]]
  /\ reserved' = [k \in Keys |-> reserved[k] + dReserved[w][k]]
  /\ moved' = [k \in Keys |-> [t \in MoveTypes |-> moved[k][t] + dMoved[w][k][t]]]
  /\ Release(w)
  /\ UNCHANGED <<tracked, backorder, erpWritten>>

\* (slip) an error return forgets the rollback: the locks stay
ReturnWithoutRollback(w) == UNCHANGED <<committed, inFlight>>

RollbackStock(w) == Release(w) /\ UNCHANGED committed

-----------------------------------------------------------------------------
(* Requests that touch one row only: a transaction that takes its single   *)
(* lock and commits is one step.                                           *)

\* (slip) a correction without its movement
AdjustNoMovement(k, type, q) ==
  /\ rowLock[k] = NoWorker
  /\ tracked' = tracked \cup {k}
  /\ onHand' = [onHand EXCEPT ![k] = @ + q]
  /\ UNCHANGED <<reserved, backorder, moved, erpWritten, inFlight>>

\* handler.adjust: a manual receipt, return or adjustment of on-hand.
Adjust(k, type, q) ==
  /\ type \in {"receipt", "return", "adjustment"}
  /\ rowLock[k] = NoWorker
  /\ tracked' = tracked \cup {k}
  /\ onHand' = [onHand EXCEPT ![k] = @ + q]
  /\ moved' = [moved EXCEPT ![k][type] = @ + q]
  /\ UNCHANGED <<reserved, backorder, erpWritten, inFlight>>

\* handler.setLevelConfig: upsert of allow_backorder.
SetLevelConfig(k, allow) ==
  /\ rowLock[k] = NoWorker
  /\ tracked' = tracked \cup {k}
  /\ backorder' = IF allow THEN backorder \cup {k} ELSE backorder \ {k}
  /\ UNCHANGED <<onHand, reserved, moved, erpWritten, inFlight>>

\* erp.applyInventory: SetInventoryOnHand writes the cache and no movement.
SetInventoryOnHand(k, q) ==
  /\ rowLock[k] = NoWorker
  /\ tracked' = tracked \cup {k}
  /\ onHand' = [onHand EXCEPT ![k] = q]
  /\ erpWritten' = erpWritten \cup {k}
  /\ UNCHANGED <<reserved, backorder, moved, inFlight>>

-----------------------------------------------------------------------------
OnHandOf(m)   == m["receipt"] + m["adjustment"] + m["return"] + m["fulfillment"]
ReservedOf(m) == m["reservation"] + m["fulfillment"] - m["release"]

(* The cache is the ledger's sum: reserved always, on-hand for every key   *)
(* the ERP never overwrote -- whatever transactions interleave, fail or    *)
(* roll back (migrations/0010: levels are "a cache ... kept in step within *)
(* the same transaction").                                                 *)
LedgerAgrees ==
  \A k \in Keys :
    /\ reserved[k] = ReservedOf(moved[k])
    /\ k \notin erpWritten => onHand[k] = OnHandOf(moved[k])

(* An uncommitted change to a row is seen only by the one transaction that *)
(* holds the row's lock.                                                   *)
UncommittedUnderLock ==
  \A w \in Workers, k \in Keys :
    rowLock[k] # w => /\ dOnHand[w][k] = 0 /\ dReserved[w][k] = 0
                      /\ dMoved[w][k] = NoMove[k]

=============================================================================
