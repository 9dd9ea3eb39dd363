SPECIFICATION TablesSpec
CONSTANTS
    Address = {1, 3}
    Pid = 5
    PeerSubport = {1, 2}
    CTABLE_SIZE = 2
    CTR_MAX = 3
    PIDS = 4
    CTRS = 4
    ULONG = 64
    Record = {r1, r2, r3}
    MaxConnects = 3
    None = None
    Name <- MCName
    Thread = {t1, t2}
    Service = {s1, s2, s3}
    STABLE_SIZE = 13
    INT_HALF = 1024
SYMMETRY Symmetry
CHECK_DEADLOCK FALSE
INVARIANTS HoldsLive FindsOwnRecord OffersAreFound
