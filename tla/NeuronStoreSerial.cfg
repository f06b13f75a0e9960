\* One request at a time, with a restart of the server.
SPECIFICATION Spec
CONSTANTS
  Workers = {w1}
  Scheduler = scheduler
  Contents = {c1, c2}
  PatchContents = {c2}
  Marks = {"favorite"}
  RevIds <- MCRevIds
  NoRev = NoRev
  MaxRevisions = 2
  Overlap = FALSE
  MaxRequests = 5
  MaxRestarts = 1
INVARIANT
  RevisionsKept
PROPERTY
  ImplementsCell
CHECK_DEADLOCK FALSE
