SPECIFICATION FairSpec
CONSTANTS
  a = a
  b = b
  c = c
  g1 = g1
  g2 = g2
  Requests = {a, b, c}
  Guards = {g1, g2}
  HomeOf <- MCHomeOf
  LeaseTicks = 3
  NoRow = NoRow
  Gone = Gone
INVARIANTS
  ExclusionUnlessRaced
  LeaseInv
PROPERTY
  AbandonedLeaseExpires
