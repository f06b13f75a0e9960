SPECIFICATION Spec
CONSTANTS
    Notes = {"n1"}
    Contents = {"a", "b", "short"}
    FirstContent = "a"
    Requests = {w1, w2}
    MaxSaves = 3
    MaxReplaces = 1
    MaxRestarts = 1
    Substantive = {"a", "b"}
    MaxItems = 0
    MaxReviews = 0
    Targets = {"t", "n1"}
    Links <- SomeLinks
    Blank = {"short"}
    CoreSize = 1
    MaxSize = 2
    QueueCapacity = 1
INVARIANTS ReferencesFollow EmbeddingFollows
CHECK_DEADLOCK FALSE
