\* Concurrent confirmations of two orders whose lines cross, one over its limit, beside a
\* company approver's decision.
SPECIFICATION FairSpec
CONSTANTS
  w1 = w1
  w2 = w2
  o1 = o1
  o2 = o2
  p1 = p1
  p2 = p2
  hub = hub
  east = east
  s1 = s1
  s2 = s2
  s3 = s3
  NoWorker = NoWorker
  NoState = NoState
  Workers = {w1, w2}
  Products = {p1, p2}
  Warehouses = {hub, east}
  DefaultWh = hub
  InitTracked <- HubRows
  InitStock <- OneEach
  InitBackorder = {}
  Orders = {o1, o2}
  Lines <- CrossLines
  OverLimit = {o2}
  Shipments = {}
  OrderTargets = {"confirmed", "on_hold"}
  ShipTargets = {}
  Packings = {}
  Decisions = {"pending"}
  Corrections = {}
  Configs = {}
  ErpEvents = {}
  MaxRequests = 4
INVARIANTS
  ReservedPerConfirm
  StatusFollowsInstance
  OverLimitNeedsApproval
  OversellBounded
PROPERTIES
  EveryRequestEnds
