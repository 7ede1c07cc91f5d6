SPECIFICATION FairSpec

CONSTANTS
  w1 = w1
  w2 = w2
  o1 = o1
  o2 = o2
  Workers = {w1, w2}
  Orders = {o1, o2}
  Lines <- OneEmpty
  Terms = 30
  CreditLimit = 2
  Manual <- Mixed
  Kinds <- AllKinds
  MaxRequests = 4

INVARIANTS
  BooksAreReal
  
  SecondInvoiceOnlyByOverlap

  
  
