\* Two CPUs, two sources, one change of the maps; one frame of 9 000, or two of six.
CONSTANTS
    a = a
    b = b
    Addrs = {a, b}
    U32 = 1073741824
    U16 = 65536
    c1 = c1
    c2 = c2
    CPUs = {c1, c2}
    Arrivals <- Frames1Or2
    Snaplen = 70
    Idle = Idle
    MaxUpdates = 1
SYMMETRY Cores
SPECIFICATION Spec
INVARIANTS CountersBalance ListsRespected NoLeak VettedReads PayloadInside
CHECK_DEADLOCK FALSE
