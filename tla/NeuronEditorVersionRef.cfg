\* A PATCH that fails after its PUT.
SPECIFICATION Spec
CONSTANTS
  Tabs = {t1}
  Slots = {s1}
  Contents = {c1, c2}
  MaxAttempts = 2
  MaxOps = 1
PROPERTY
  VersionRefUpdated
CHECK_DEADLOCK FALSE
