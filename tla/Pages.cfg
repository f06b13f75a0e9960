\* The pages around the notes, one after another.
SPECIFICATION Spec
CONSTANTS
  Modes = {"rename-brain", "create-cluster", "delete-cluster"}
  Types = {"ai-research"}
  MaxTyped = 1
  MaxSends = 3
  ListedNotes = {"a", "b"}
  FirstTags = {"x"}
  NewTags = {"y"}
  MaxCalls = 3
  Files = {"f", "g"}
  MaxRevs = 1
  MaxClones = 1
  Folders = {"root", "d"}
  Root = "root"
  Nested = {"d", "g"}
  MaxNotes = 1
  Ids = {"t1", "t2"}
  First = {"t1"}
  MaxSteps = 4
  Items = {"a", "b"}
  FirstDue <- MCFirstDue
  WithQuiz = {"b"}
  Topics = {"p", "q"}
  FirstTopics = {"p"}
  Jobs = {1, 2}
  Requests = {1, 2}
  CoreSize = 1
  MaxSize = 1
  QueueCapacity = 1
  MaxRequests = 2
  MaxFaults = 1
INVARIANTS
  TypeOK
  OneResearch
  ListsFollow
  TextIsSaved
  OrderFollows
  TagsFollow
  FileIsCurrent
  StatusFollows
  CodeFromAnchor
  ViewFollows
  RatedAfterSeen
  StatusOwed
  TopicsFollow
CHECK_DEADLOCK FALSE
