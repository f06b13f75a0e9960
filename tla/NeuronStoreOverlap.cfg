\* Request threads and the scheduler whose transactions interleave freely, PATCHes with content, a restart, fair scheduling.
SPECIFICATION FairSpec
CONSTANTS
  Workers = {w1, w2}
  Scheduler = scheduler
  Contents = {c1, c2}
  PatchContents = {c2}
  Marks = {"title"}
  RevIds <- MCRevIds
  NoRev = NoRev
  MaxRevisions = 1
  Overlap = TRUE
  MaxRequests = 3
  MaxRestarts = 1
INVARIANT
  SnapshotOwed
PROPERTY
  SnapshotTaken
CHECK_DEADLOCK FALSE
