------------------------------- MODULE IpSet -------------------------------
(***************************************************************************)
(* One ipset shared by threads that call the operations of ipset.c, a      *)
(* clock, a list file and a load of that file in progress.  An operation   *)
(* is one atomic step (rwlock held throughout) except                      *)
(* ipset_load_from_file, which takes the lock once per line.               *)
(***************************************************************************)
EXTENDS IpSetOps, FiniteSetsExt

CONSTANTS MaxSize,      \* set->max_size
          HostAddrs,    \* addresses passed to add, remove and contains
          CidrLines,    \* arguments of ipset_add_cidr
          FileLines,    \* lines of the list file when the program starts
          Ttls,         \* lifetimes callers ask for; 0 = for ever
          MaxTime,      \* bound on the clock
          MaxAllocs,    \* bound on insertions since the last clear
          Persist,      \* whether save and load are called
          Absent        \* IpTtl's value for an address that is not listed

ASSUME IpSetAssumption ==
    /\ MaxSize \in Nat
    /\ HostAddrs \subseteq IpAddr
    /\ CidrLines \subseteq Line /\ FileLines \subseteq Line
    /\ Ttls \subseteq Nat
    /\ MaxTime \in Nat /\ MaxAllocs \in Nat
    /\ Persist \in BOOLEAN

VARIABLES set,      \* the struct ipset
          now,      \* time(NULL)
          file,     \* lines of the list file
          todo      \* lines the load in progress has still to add

vars == <<set, now, file, todo>>

Init == /\ set = ipset_create
        /\ now = 1
        /\ file = FileLines
        /\ todo = {}

CanAlloc == set.allocs < MaxAllocs

(* ipset_add is ipset_add_expiring with expires 0: a lifetime of 0. *)
Expiry(ttl) == IF ttl = 0 THEN 0 ELSE now + ttl

AddExpiring(ip, ttl) ==
    /\ CanAlloc
    /\ set' = ipset_add_expiring(set, MaxSize, ip, Expiry(ttl))
    /\ UNCHANGED <<now, file, todo>>

Remove(ip) == set' = ipset_remove(set, ip) /\ UNCHANGED <<now, file, todo>>

AddCidr(line) == /\ CanAlloc
                 /\ set' = ipset_add_cidr(set, MaxSize, line)
                 /\ UNCHANGED <<now, file, todo>>

CleanupExpired == /\ set' = ipset_cleanup_expired(set, now)
                  /\ UNCHANGED <<now, file, todo>>

Clear == set' = ipset_clear(set) /\ UNCHANGED <<now, file, todo>>

Save == /\ Persist
        /\ file' = ipset_save_to_file(set)
        /\ UNCHANGED <<set, now, todo>>

(* fopen and the first read; short files are buffered as a whole. *)
LoadOpen == /\ Persist /\ todo = {}
            /\ todo' = file
            /\ UNCHANGED <<set, now, file>>

(* One line, whose order in the file the bucket hashes decide. *)
LoadLine(line) == /\ CanAlloc
                  /\ set' = ipset_add_cidr(set, MaxSize, line)
                  /\ todo' = todo \ {line}
                  /\ UNCHANGED <<now, file>>

Tick == now < MaxTime /\ now' = now + 1 /\ UNCHANGED <<set, file, todo>>

Next == \/ \E ip \in HostAddrs, ttl \in Ttls : AddExpiring(ip, ttl)
        \/ \E ip \in HostAddrs : Remove(ip)
        \/ \E line \in CidrLines : AddCidr(line)
        \/ CleanupExpired
        \/ Clear
        \/ Save
        \/ LoadOpen
        \/ \E line \in todo : LoadLine(line)
        \/ Tick

Spec == Init /\ [][Next]_vars

-----------------------------------------------------------------------------
(* Every variable has its type. *)
TypeOK == /\ set \in IpSetType
          /\ now \in Nat
          /\ file \subseteq Line /\ todo \subseteq Line

(* entry_count, which ipset_size reports and the capacity test reads, is    *)
(* the number of linked entries after every sequence of inserts, refreshes, *)
(* removals, purges and clears, and never exceeds max_size.                 *)
CountExact == /\ set.entry_count = Cardinality(set.entries)
              /\ set.entry_count <= MaxSize

(* ipset.h "Remove IP from set": whatever happened before, one ipset_remove *)
(* of an address and ipset_contains no longer reports it.                   *)
RemoveRemoves == \A ip \in HostAddrs :
    ~ipset_contains(ipset_remove(set, ip), ip, now)

(* An IPv4 host added through ipset_add or ipset_add_expiring has one entry *)
(* at most, so that a refresh replaces its deadline (ipset.c:116-126).      *)
V4HostOnce == \A e, f \in set.entries :
    e.ip = f.ip /\ e.ip.family = "v4" => e = f

(* The addresses of either family, and those that a lookup finds. *)
Universe == UNION {[family : {f}, addr : 0..(2^Bits(f) - 1)] : f \in {"v4", "v6"}}
Covered(S) == {ip \in Universe : ipset_contains_cidr(S, ip, now)}

(* What ipset_load_from_file makes of an empty set when nobody interferes. *)
Loaded(lines) ==
    FoldSet(LAMBDA line, S : ipset_add_cidr(S, MaxSize, line), ipset_create, lines)

(* Saving the set, restarting and loading the file never uncovers an        *)
(* address: every address of either family that ipset_contains_cidr reports *)
(* before is reported after, and no line finds the set full                 *)
(* (ipset_save_to_file, ipset_load_from_file).                              *)
ReloadCovers == LET after == Loaded(ipset_save_to_file(set))
                IN  /\ Covered(set) \subseteq Covered(after)
                    /\ after.entry_count = Cardinality(set.entries)

(* The set seen as a map from the hosts it reports to their deadlines       *)
(* (IpTtl): an expired entry that is still linked is not there.             *)

Deadline(ip) == IF ipset_contains(set, ip, now)
                THEN Newest(HostEntries(set, ip)).expires ELSE Absent

(* The expiry times that callers can ask for: see Expiry. *)
CallerDeadlines == {IF ttl = 0 THEN 0 ELSE t + ttl : t \in 0..(MaxTime + 1), ttl \in Ttls}

TtlMap == INSTANCE IpTtl WITH
    Hosts <- HostAddrs, Deadlines <- CallerDeadlines,
    ttl <- [ip \in HostAddrs |-> Deadline(ip)]

(* With IPv4 hosts only, the set implements IpTtl: one listing per address, *)
(* under the last accepted deadline, reported through its last second and   *)
(* no longer; when the purge runs, and over what, callers cannot tell.      *)
ImplementsTtl == TtlMap!Spec
=============================================================================
