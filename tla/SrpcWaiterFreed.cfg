SPECIFICATION Spec
CONSTANTS
    USHRT = 65536
    ATTEMPTS = 2
    TICKS = 1
    TICKS_BETWEEN_PINGS = 1
    PINGS_BEFORE_PURGE = 2
    SeqnoStart = 1
    SEQNO_LIMIT = 3
    QueryFrags = 1
    ResponseFrags = 1
    MaxCalls = 1
    Capacity = 2
    Ordered = TRUE
    PromptWakeup = FALSE
    NoRecord = NoRecord
    NoResult = NoResult
    Fail = Fail
    Crash = Crash
CHECK_DEADLOCK FALSE
INVARIANT WaiterHasRecord
