\* Two subscriptions, one that cannot be priced, run, skipped and changed over two days
\* behind the gate of one node, beside buyers' orders and the operator's plan changes.
SPECIFICATION FairSpec
CONSTANTS
  w1 = w1  w2 = w2  api = api  free = free  scale = scale  p = p  q = q
  NoPlan = NoPlan
  Threads = {w1, w2}
  Node <- OneNode
  Codes = {free, scale}
  FirstPlans <- TwoPlans
  Edits <- NewFree
  FirstDay = 2
  LastDay = 3
  MonthLength = 3
  Subs = {1, 2}
  Terms <- TwoTerms
  Priced = {p}
  Cadences <- ShortOrLong
  MaxRedemptions = 1
  Mixes <- FiveMixes
INVARIANTS
  OrdersAreAccounted
  AnsweredNodeIsFresh
  OverrunBounded
  OncePerDayUnlessStale
PROPERTIES
  EarlierOnlyByOverlap
  EveryDueIsRun
