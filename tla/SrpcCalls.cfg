SPECIFICATION Spec
CONSTANTS
    USHRT = 65536
    ATTEMPTS = 2
    TICKS = 1
    TICKS_BETWEEN_PINGS = 1
    PINGS_BEFORE_PURGE = 2
    SeqnoStart = 1
    SEQNO_LIMIT = 2
    QueryFrags = 2
    ResponseFrags = 2
    MaxCalls = 2
    Capacity = 2
    Ordered = TRUE
    PromptWakeup = FALSE
    NoRecord = NoRecord
    NoResult = NoResult
    Fail = Fail
    Crash = Crash
CHECK_DEADLOCK FALSE
INVARIANTS TypeOK InStep OwnResponse
PROPERTIES KeepsCallPromise
