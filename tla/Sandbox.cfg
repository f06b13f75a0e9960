\* Two handlers, the cleanup and a clone on two sandboxes, with fair scheduling.
SPECIFICATION FairSpec
CONSTANTS
  Clusters = {c1, c2}
  Ids = {i1, i2}
  NoId = NoId
  Requests = {r1, r2}
  Cleaner = cleaner
  Places = {p1}
  MaxCount = 2
  MaxOps = 3
  MaxStops = 1
INVARIANTS
  CloningOwned
  DirsMatchRows
PROPERTY
  CloneSettles
CHECK_DEADLOCK FALSE
