SPECIFICATION Spec

CONSTANTS
  w1 = w1
  w2 = w2
  q1 = q1
  q2 = q2
  r1 = r1
  NoWorker = NoWorker
  NoRfq = NoRfq
  Workers = {w1, w2}
  Rfqs = {r1}
  Quotes = {q1, q2}
  Drafts <- OneLine
  Contents <- Editions
  MaxRequests = 3

SYMMETRY Sym

INVARIANTS
  LinesAddUp
  DecisionsHold
  NoWaitCycle
