SPECIFICATION FairSpec
CONSTANTS
    Wraps = {1, 2}
    Hooks = {11, 12}
    Foreign = {2}
    AudId = 0
    Granters = {0, 1}
    None = None
    Limit = 1
    ExamineFactor = 3
    WrapPageMax = 3
    HookRetention = 1
    PruneBatch = 1
    OverlapSeconds = 1
    LivePollLimit = 1
    LiveTailMaxPages = 2
    ReplayLimit = 2
    CycleSeconds = 1
    Sinces = {0}
    MaxNow = 2
    MaxStored = 3
    MaxBeside = 1
    Readers = {"inbox", "stream"}
INVARIANTS InboxMissesNothing StoredIsKept HookSeenWithinOneCycle
PROPERTY CursorDrains
CHECK_DEADLOCK FALSE
