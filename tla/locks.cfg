SPECIFICATION FairSpec
CONSTANTS
  r1 = r1  r2 = r2  r3 = r3  r4 = r4
  c1 = c1  c2 = c2
  l1 = l1  l2 = l2  l3 = l3  l4 = l4  l5 = l5
  None = None
  Requests = {r1, r2, r3}
  Codes = {c1, c2}
  Locks = {l1, l2, l3, l4}
  Disconnects = TRUE
INVARIANTS
  LocksInv
  MutualExclusion
PROPERTIES
  ImplementsMutex
  WaitersAreServed
