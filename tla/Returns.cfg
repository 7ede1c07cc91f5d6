\* Two returns of two products, one of them tracked, by two workers; a line may
\* ask for less than nothing.
SPECIFICATION Spec
CONSTANTS
  w1 = w1  w2 = w2  a = a  b = b
  Workers = {w1, w2}
  Items = {a, b}
  Ordered <- Bought
  UnitPrice <- Prices
  Tracked = {a}
  Quantities <- Asks
  MaxLines = 2
  MaxReturns = 2
  MaxRequests = 5
SYMMETRY Clerks
INVARIANTS
  CreditsFollowReceipts
  ReturnedWasBought
