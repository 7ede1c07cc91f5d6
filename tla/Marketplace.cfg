\* Two orders of two vendors' goods, one other change.
SPECIFICATION MarketSpec
CONSTANTS
  w1 = w1  w2 = w2  v1 = v1  v2 = v2
  a = a  b = b  c = c  d = d  h = h
  Handlers = {w1, w2}
  Vendors = {v1, v2}
  Products = {a, b, c, d, h}
  House = House
  VendorOf <- Owners
  RowTotal <- Rows
  Rates = {25}
  FirstRate = 10
  FirstApproval <- First
  Kinds = {"list", "submit", "moderate", "rate", "delete", "reorder", "behalf", "paid"}
  MaxSales = 2
  MaxParts = 2
  MaxRequests = 7
  MaxEdits = 1
SYMMETRY Sellers
INVARIANTS
  OrdersAreWhole
  PayoutsAreRight
PROPERTIES
  EarningsAreFrozen
