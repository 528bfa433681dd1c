SPECIFICATION Spec
CONSTANTS
    Relays <- OneRelay
    Callers = {"alarm", "sweep", "request"}
    Sockets = {1, 2}
    None = None
    Versions = {"v"}
    Window = 2
    MaxTime = 2
    MaxDelay = 0
    MaxFailures = 1
    Published = {1}
    MaxEvents = 2
    MaxEvictions = 1
INVARIANTS TypeOK MapIsLive ReconnectCovered RecoveredInWindow
PROPERTIES CacheNeverRegresses RelayReconnected
