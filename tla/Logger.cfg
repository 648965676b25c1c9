\* Levels INFO and WARN, with rotations, failed renames and reopens, signals and cleanup.
CONSTANTS
    Writers = {main, stats, cleanup}
    Nobody = Nobody
    Main = main
    Config = {1, 2}
    Levels = {1, 2}
    LineSizes = {1, 2}
    MaxLogSize = 3
    Signals = 2
    MaxLogCalls = 5
SPECIFICATION FairSpec
CHECK_DEADLOCK FALSE
INVARIANTS HeldByWriter SizeBounded QuietNeverHangs
PROPERTIES QuietCallsReturn SignalNoticedUnlessHung
