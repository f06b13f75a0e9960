\* The date of a task is set and cleared in its editor.
SPECIFICATION Spec
CONSTANTS
  Ids = {"t1"}
  First = {"t1"}
  MaxSteps = 4
INVARIANT
  DueCleared
CHECK_DEADLOCK FALSE
