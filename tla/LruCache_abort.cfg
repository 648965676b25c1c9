\* The second free of an expired entry.
CONSTANTS
    Keys = {k1, k2, k3}
    Proto <- AllTcp
    Blocks = {b1, b2, b3}
    NULL = NULL
    MaxSize = 2
    SynTimeout = 1
    EstablishedTimeout = 2
    FinTimeout = 1
    UdpTimeout = 2
    IcmpTimeout = 1
    SlowAge = 1
    MaxTime = 4
SPECIFICATION Spec
INVARIANT CleanupSurvives
\* the process ends: destroyed, aborted or undefined
CHECK_DEADLOCK FALSE
