\* Three sources, two of which share a slot of the statistics table.
CONSTANTS
    IPs = {1, 2, 3}
    Slots = {1, 2}
    Hash <- SharedSlot
    Null = Null
    AutoBlacklist = TRUE
    ScoreWrap = 1000
    MaxPackets = 12
SPECIFICATION PathSpec
CHECK_DEADLOCK FALSE
INVARIANTS StatsFound
