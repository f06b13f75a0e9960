SPECIFICATION Spec
CONSTANTS
    Notes = {"n1"}
    Contents = {"a", "b", "short"}
    FirstContent = "a"
    Requests = {w1, w2}
    MaxSaves = 2
    MaxReplaces = 1
    MaxRestarts = 1
    Substantive = {"a", "b"}
    MaxItems = 2
    MaxReviews = 1
    Targets = {"t", "n1"}
    Links <- SomeLinks
    Blank = {"short"}
    CoreSize = 0
    MaxSize = 0
    QueueCapacity = 0
INVARIANT ReadyFollows
PROPERTIES KeptUntilReplaced QuestionsCome
CHECK_DEADLOCK FALSE
