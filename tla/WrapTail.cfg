SPECIFICATION Spec
CONSTANTS
    Wraps = {1, 2}
    Grants = {1}
    Declarations = {1, 2}
    None = None
    OverlapSeconds = 1
    LivePollLimit = 1
    LiveTailMaxPages = 2
    ReplayLimit = 4
    Sinces = {None, 1}
    MaxNow = 3
    MaxConnections = 1
INVARIANTS SeenWithinOneCycle
CHECK_DEADLOCK FALSE
