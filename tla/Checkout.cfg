SPECIFICATION Spec
CONSTANTS
  w1 = w1
  w2 = w2
  c1 = c1
  c2 = c2
  p1 = p1
  p2 = p2
  Automatic = Automatic
  NoCode = NoCode
  Unlimited = Unlimited
  OnRequest = OnRequest
  NoBudget = NoBudget
  Workers = {w1, w2}
  Customers = {c1, c2}
  Products = {p1, p2}
  Absent = Absent
  Quantities <- Sizes
  Bulks <- BulkLines
  Price <- Tiers
  VatPercent <- Vat
  PromoList <- Offers
  CostCenters = {""}
  Budget <- Limits
  Shippings <- Shipped
  FirstCarts <- OneEach
  FirstList <- Listed
  Kinds <- AnyKind
  MaxRequests = 3
SYMMETRY SameWorkers
INVARIANTS
  BooksAgree
  OrderedOnceUnlessRaced
  LimitsHold
  BestPromotionWins
