\* Shipments from either warehouse beside its order's confirmation, the inventory desk,
\* the ERP and a company approver.
SPECIFICATION Spec
CONSTANTS
  w1 = w1
  w2 = w2
  o1 = o1
  o2 = o2
  p1 = p1
  p2 = p2
  hub = hub
  east = east
  s1 = s1
  s2 = s2
  s3 = s3
  NoWorker = NoWorker
  NoState = NoState
  Workers = {w1, w2}
  Products = {p1}
  Warehouses = {hub, east}
  DefaultWh = hub
  InitTracked <- P1Rows
  InitStock <- HubAndEast
  InitBackorder = {}
  Orders = {o1}
  Lines <- OneOfTwo
  OverLimit = {}
  Shipments = {s1, s2, s3}
  OrderTargets = {"confirmed", "on_hold"}
  ShipTargets = {"shipped", "delivered", "returned"}
  Packings <- PackSome
  Decisions = {"pending", "cancelled"}
  Corrections <- Receipts
  Configs <- Flags
  ErpEvents <- Events
  MaxRequests = 4
SYMMETRY AnyNames
INVARIANTS
  LedgerAgrees
  
  ErpSeenWasApplied
