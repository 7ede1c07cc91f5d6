\* Two settlement jobs on two workers; the months are March and April.
SPECIFICATION FairSpec
CONSTANTS
  w1 = w1  w2 = w2  c1 = c1  c2 = c2
  Workers = {w1, w2}
  Customers = {c1, c2}
  Tiers <- Ladder
  FirstTiers <- Lowest
  Frequencies = {"quarterly", "monthly"}
  Carts <- Another
  FirstMonth = 2
  LastMonth = 3
  FirstOrders <- TwoOrders
  MaxOrders = 3
  MaxJobs = 2
  MaxChanges = 1
  MaxFailures = 1
INVARIANTS
  SettlementsAreSound
PROPERTIES
  SettlesOnce
  EveryJobCompletes
