SPECIFICATION Spec

CONSTANTS
  w1 = w1
  w2 = w2
  d1 = d1
  d2 = d2
  ann = ann
  bob = bob
  all = all
  NoBase = NoBase
  Workers = {w1, w2}
  Devices = {d1, d2}
  Reps = {ann, bob}
  Global = all
  Rep <- OneRep
  Batch = 1
  Pushes <- MixedPushes
  Writes = {bob, all}
  MaxRequests = 4

SYMMETRY Sym

INVARIANTS
  FeedIsWhole
  RepeatsHaveOneOutcome
  StaleOnlyByOverlap
