\* The parts of the note page, one after another.
SPECIFICATION Spec
CONSTANTS
  MaxSends = 3
  FirstDocument <- MCFirstDocument
  NewKinds = {"rich-text"}
  MaxSections = 4
  MaxLength = 3
  MaxEdits = 1
  MaxUploads = 1
  MaxRevisions = 1
  MaxRestores = 2
  MaxRecordings = 2
  MaxFiles = 1
  Codes = {"s1", "s2"}
  MaxRuns = 4
  Tabs = {"t1", "t2"}
  MaxNotes = 1
  MaxMounts = 3
  MaxDrops = 1
  FirstRows <- MCFirstRows
  Counts = {5, 8}
  MaxRequests = 4
  MaxReviews = 1
  ReminderIds = {"r1", "r2"}
  FirstTypes <- MCFirstTypes
  Limit = 2
  LastTick = 1
  MaxSaves = 2
INVARIANTS
  TypeOK
  StoredFilesExist
  MicrophoneReleased
  OwnOutput
  OneConnection
  BadgeCounts
  
  NotifiedOnce
  
PROPERTIES
  CancelledIsSilent
  LockedKeepOrder
  StreamComesUp
CHECK_DEADLOCK FALSE
