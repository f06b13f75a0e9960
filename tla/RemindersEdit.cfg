\* Two reminders on the page of all reminders.
SPECIFICATION Spec
CONSTANTS
  Ids = {"r1", "r2"}
  FirstTypes <- MCFirstTypes
  Limit = 2
  LastTick = 1
  MaxSaves = 1
INVARIANT
  EditedIndependently
CHECK_DEADLOCK FALSE
