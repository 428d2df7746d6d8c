SPECIFICATION SeparateFairSpec
CONSTANTS
    Keys = {a, b}
    Max = 2
    WindowMs = 3
    SweepMs = 2
    SecondMs = 2
    MaxTime = 7
    MaxLines = 3
    MaxKeys = 2
    MaxLate = 1
    MaxLoads = 2
    MaxNames = 2
    MaxLateCalls = 1
    MaxRows = 2
    MaxIds = 2
    MaxChunks = 2
    HistoryMax = 1
    MaxAsks = 1
    Viewers = {v1, v2}
    MaxRefreshes = 2
    MaxPatches = 3
    Askers = {a1, a2}
    FirstPage = 2
    MaxComments = 3
    MaxBridgeRuns = 2
    NFields = 2
    MaxNew = 2
    ListLimit = 2
    Entries = {1, 2}
    MaxFile = 2
    MaxIssues = 2
    Items = {i1, i2, i3}
    PageSize = 1
    MaxPages = 3
    SyncLimit = 2
    MaxUpdates = 4
    Tasks = {1, 2, 3}
    Issues = {1, 2}
    Unknown = 3
    Clones = {k1}
    Ranks = {2, 3}
    MaxEdits = 2
    MaxBody = 4
    MaxBackfills = 1
INVARIANTS
    LessThanTwiceMax
    ProviderInv
    PagesInv
    RunsInv
    QuestionsInv
    BacklogInv
    MetaInv
    MirrorInv
    DepsInv
    
PROPERTIES
    StaleEntriesAreDropped
    ImplementsRateLimit
    ImplementsGenerator
    CallsEnd
CHECK_DEADLOCK FALSE
