\* Five configuration files, two signals.
CONSTANTS
    U16 = 65536
    U32 = 1073741824
    MaxWorkers = 64
    Files <- SomeFiles
    MaxSignals = 2
SPECIFICATION FairSpec
INVARIANTS ThreadsGoneBeforeFree SuccessReleasesAll
PROPERTIES LoopersNotice ShutdownCompletes
CHECK_DEADLOCK FALSE
