\* Two mounts of the page, one call each at a time, with fair scheduling.
SPECIFICATION FairSpec
CONSTANTS
  Tabs = {t1, t2}
  Slots = {s1}
  Contents = {c1, c2}
  MaxAttempts = 2
  MaxOps = 2
INVARIANTS
  NoBlindOverwrite
  EditNotForgotten
PROPERTY
  EditSettles
CHECK_DEADLOCK FALSE
