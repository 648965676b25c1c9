\* A window of three seconds, two addresses of one bucket, two callers, four calls.
CONSTANTS
    a = a
    b = b
    t1 = t1
    t2 = t2
    IPs = {a, b}
    Hash <- OneBucket
    Clients = {t1, t2}
    Sizes = {1, 3}
    WindowSize = 3
    MaxBps = 1
    MaxPps = 10
    Absent = Absent
    MaxTime = 5
    MaxCalls = 4
SYMMETRY Callers
SPECIFICATION RateSpec
INVARIANTS WindowExact RateNotUnderstated RateNotStale
PROPERTY VerdictExact
CHECK_DEADLOCK FALSE
