\* One connection more than the cache holds, both threads, two timeouts.
CONSTANTS
    Keys = {k1, k2, k3}
    Proto <- AllTcp
    Blocks = {b1, b2, b3}
    NULL = NULL
    MaxSize = 2
    SynTimeout = 0
    EstablishedTimeout = 1
    FinTimeout = 0
    UdpTimeout = 1
    IcmpTimeout = 0
    SlowAge = 0
    MaxTime = 2
SPECIFICATION FairSpec
INVARIANTS SweepOnLiveEntry ListExact Linked RecencySorted HeldFreedOnlyIfStalled
PROPERTIES ImplementsLru ExpiredGoes
\* the process ends: destroyed, aborted or undefined
CHECK_DEADLOCK FALSE
