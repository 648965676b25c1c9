\* IPv4 hosts through ipset_add, ipset_add_expiring, ipset_remove, purge and clear.
CONSTANTS
    V4Bits = 2
    V6Bits = 3
    MaxSize = 2
    HostAddrs <- V4Hosts
    CidrLines <- NoLines
    FileLines <- NoLines
    Ttls = {0, 1, 2}
    MaxTime = 4
    MaxAllocs = 4
    Persist = FALSE
    Absent = Absent
SPECIFICATION Spec
INVARIANTS CountExact RemoveRemoves
PROPERTY ImplementsTtl
