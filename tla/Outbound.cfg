SPECIFICATION FairSpec
CONSTANTS
  w1 = w1
  w2 = w2
  Threads = {w1, w2}
  Orders <- MCOrders
  Invoices <- MCInvoices
  Rules = {1, 2}
  ActionsOf <- MCActionsOf
  MatchedBy <- MCMatchedBy
  Mixes <- MCMixes
  ErpId <- MCErpId
  Refused <- MCRefused
  SweepBatch = 2
INVARIANTS
  RecordsAreTrue
  RepeatsHaveReasons
PROPERTIES
  WorkGetsDone
