SPECIFICATION Spec
CONSTANTS
    Events = {1, 2}
    Relays = {1}
    Walkers = {alarm, sweep}
    AlarmHandler = alarm
    None = None
    RetryBaseMs = 1
    RetryMaxMs = 2
    RetryMaxAttempts = 2
    RetryBatch = 1
    RetryListPage = 1
    RelayCooldownMs = 2
    RelayCooldownMaxMs = 4
    RelayCooldownMaxLevel = 1
    ReconnectDelays = {2}
    MaxNow = 3
    MaxLag = 3
    MaxEnqueues = 2
    LastEnqueueAt = 3
    MaxEvictions = 1
INVARIANTS AlarmCoversQueue EveryPublishCounted
PROPERTIES CooldownOnlyExtended ReturnsOnlyByOverlap
CHECK_DEADLOCK FALSE
