\* The instance of Subscriptions.cfg: an order is materialised and its usage is not recorded.
SPECIFICATION SubSpec
CONSTANTS
  w1 = w1  w2 = w2  api = api  free = free  scale = scale  p = p  q = q
  NoPlan = NoPlan
  Threads = {w1, w2}
  Node <- OneNode
  Codes = {free, scale}
  FirstPlans <- TwoPlans
  Edits <- NewFree
  FirstDay = 2
  LastDay = 3
  MonthLength = 3
  Subs = {1, 2}
  Terms <- TwoTerms
  Priced = {p}
  Cadences <- ShortOrLong
  MaxRedemptions = 1
  Mixes <- FiveMixes
INVARIANTS
  MaterialisedAreMetered
