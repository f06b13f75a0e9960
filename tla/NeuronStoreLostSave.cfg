\* Two saves that overlap.
SPECIFICATION Spec
CONSTANTS
  Workers = {w1, w2}
  Scheduler = scheduler
  Contents = {c1, c2}
  PatchContents = {}
  Marks = {}
  RevIds <- MCRevIds
  NoRev = NoRev
  MaxRevisions = 1
  Overlap = TRUE
  MaxRequests = 2
  MaxRestarts = 0
PROPERTY
  NoLostSave
CHECK_DEADLOCK FALSE
