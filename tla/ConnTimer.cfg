SPECIFICATION Spec
CONSTANTS
    USHRT = 65536
    ATTEMPTS = 7
    TICKS = 2
    TICKS_BETWEEN_PINGS = 3
    PINGS_BEFORE_PURGE = 3
    Slot = {s1}
    Payload = {p1}
    None = None
INVARIANTS RetrySchedule PingSchedule
PROPERTIES GivesUpAtDeadline SilentTableEmpties
