\* Packets of every rate from one source.
CONSTANTS
    Traffic <- Mixed
    Limit <- Two
    RstFinLimit = 1
    PshLimit = 1
    Wrap = 1000
    EnableHttp = TRUE
    EnableJsChallenge = TRUE
    EnableCaptcha = TRUE
    BlacklistDuration = 0
    FileAckLimit = 3
    Room = {TRUE}
    MaxTime = 2
    MaxRate = 3
SPECIFICATION Spec
CHECK_DEADLOCK FALSE
INVARIANTS FloodNeedsRateAlone ScoreBounded
PROPERTIES FloodCaught
