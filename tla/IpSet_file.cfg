\* Ranges and hosts of both families, saved and loaded while other calls go on.
CONSTANTS
    V4Bits = 2
    V6Bits = 3
    MaxSize = 2
    HostAddrs <- OneHost
    CidrLines <- MixedLines
    FileLines <- NoLines
    Ttls = {0, 1}
    MaxTime = 3
    MaxAllocs = 3
    Persist = TRUE
    Absent = Absent
SPECIFICATION Spec
INVARIANTS CountExact ReloadCovers
CHECK_DEADLOCK FALSE
