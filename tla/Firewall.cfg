\* Three starts, two IPv4 hosts and an IPv6 host, a tracking set of one entry.
CONSTANTS
    V4Bits = 2
    V6Bits = 3
    Hosts <- TwoFamilies
    Durations = {0, 1}
    MaxSize = 1
    MaxTime = 2
    MaxStarts = 3
    MaxRules = 2
    MaxAllocs = 2
SPECIFICATION Spec
INVARIANTS TrackedHasRule StopRestores
CHECK_DEADLOCK FALSE
