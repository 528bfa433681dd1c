SPECIFICATION FairSpec
CONSTANTS
    Events = {1, 2}
    Relays = {1}
    Walkers = {alarm}
    AlarmHandler = alarm
    None = None
    RetryBaseMs = 1
    RetryMaxMs = 2
    RetryMaxAttempts = 2
    RetryBatch = 1
    RetryListPage = 3
    RelayCooldownMs = 2
    RelayCooldownMaxMs = 4
    RelayCooldownMaxLevel = 1
    ReconnectDelays = {2}
    MaxNow = 21
    MaxLag = 1
    MaxEnqueues = 2
    LastEnqueueAt = 1
    MaxEvictions = 1
INVARIANTS TypeOK
PROPERTIES EveryRecordResolves
CHECK_DEADLOCK FALSE
