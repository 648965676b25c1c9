---------------------------- MODULE IpSetProofs ----------------------------
(***************************************************************************)
(* Theorems about IpSet for every capacity, address width, set of callers' *)
(* addresses and file.  The inductive invariant adds to CountExact that    *)
(* the entries are finitely many and that no two have the same stamp: it   *)
(* says that the set is Good, which IpSetOpsProofs shows every operation   *)
(* to preserve.                                                            *)
(***************************************************************************)
EXTENDS IpSet, IpSetOpsProofs

(* The part of the inductive invariant that CountExact does not say. *)
StampsUnique == /\ IsFiniteSet(set.entries)
                /\ \A e \in set.entries : e.stamp <= set.allocs
                /\ \A e, f \in set.entries : e.stamp = f.stamp => e = f

IInv == TypeOK /\ StampsUnique /\ CountExact

-----------------------------------------------------------------------------
(* IInv in terms of Good. *)
LEMMA IInvIsGood ==
    IInv <=> Good(set, MaxSize) /\ now \in Nat /\ file \subseteq Line /\ todo \subseteq Line
BY DEF IInv, Good, TypeOK, StampsUnique, CountExact

(* The lines ipset_save_to_file writes are lines. *)
LEMMA SavedLines ==
    ASSUME Good(set, MaxSize)
    PROVE  ipset_save_to_file(set) \subseteq Line
<1>1. set.entries \subseteq Entry
  BY DEF Good, IpSetType
<1>2. \A e \in set.entries : [no |-> e.stamp, ip |-> e.ip, slash |-> TRUE,
                               prefix_len |-> e.prefix_len] \in Line
  BY <1>1 DEF Line, Entry
<1> QED BY <1>2 DEF ipset_save_to_file

-----------------------------------------------------------------------------
(* Every step of every caller preserves the inductive invariant. *)
LEMMA IInvInductive == IInv /\ [Next]_vars => IInv'
<1> SUFFICES ASSUME IInv, [Next]_vars
             PROVE  IInv'
  OBVIOUS
<1>0. Good(set, MaxSize) /\ now \in Nat /\ file \subseteq Line /\ todo \subseteq Line
  BY IInvIsGood
<1> SUFFICES Good(set', MaxSize) /\ now' \in Nat /\ file' \subseteq Line /\ todo' \subseteq Line
  BY DEF IInv, Good, TypeOK, StampsUnique, CountExact
<1>1. ASSUME NEW ip \in HostAddrs, NEW ttl \in Ttls, AddExpiring(ip, ttl)
      PROVE  Good(set', MaxSize) /\ UNCHANGED <<now, file, todo>>
  <2>1. ip \in IpAddr /\ Expiry(ttl) \in Nat
    BY <1>0, IpSetAssumption DEF Expiry
  <2> QED BY <1>0, <1>1, <2>1, AddGood, IpSetAssumption DEF AddExpiring
<1>2. ASSUME NEW ip \in HostAddrs, Remove(ip)
      PROVE  Good(set', MaxSize) /\ UNCHANGED <<now, file, todo>>
  BY <1>0, <1>2, RemoveGood, IpSetAssumption DEF Remove
<1>3. ASSUME NEW line \in CidrLines, AddCidr(line)
      PROVE  Good(set', MaxSize) /\ UNCHANGED <<now, file, todo>>
  BY <1>0, <1>3, AddCidrGood, IpSetAssumption DEF AddCidr
<1>4. ASSUME CleanupExpired
      PROVE  Good(set', MaxSize) /\ UNCHANGED <<now, file, todo>>
  BY <1>0, <1>4, CleanupGood, IpSetAssumption DEF CleanupExpired
<1>5. ASSUME Clear
      PROVE  Good(set', MaxSize) /\ UNCHANGED <<now, file, todo>>
  BY <1>5, EmptyGood, IpSetAssumption DEF Clear, ipset_clear
<1>6. CASE Save
  BY <1>0, <1>6, SavedLines DEF Save
<1>7. CASE LoadOpen
  BY <1>0, <1>7 DEF LoadOpen
<1>8. ASSUME NEW line \in todo, LoadLine(line)
      PROVE  Good(set', MaxSize) /\ now' = now /\ file' = file /\ todo' \subseteq todo
  BY <1>0, <1>8, AddCidrGood, IpSetAssumption DEF LoadLine
<1>9. CASE Tick
  BY <1>0, <1>9 DEF Tick
<1>10. CASE UNCHANGED vars
  BY <1>0, <1>10 DEF vars
<1> QED
  BY <1>0, <1>1, <1>2, <1>3, <1>4, <1>5, <1>6, <1>7, <1>8, <1>9, <1>10 DEF Next

(* The inductive invariant holds in every reachable state. *)
THEOREM IInvCorrect == Spec => []IInv
<1>1. Init => IInv
  BY EmptyGood, IInvIsGood, IpSetAssumption DEF Init
<1> QED BY <1>1, IInvInductive, PTL DEF Spec

(* Every variable keeps its type: in particular entry_count never goes      *)
(* below zero, which as a uint32_t would wrap and refuse every later add.   *)
THEOREM TypeCorrect == Spec => []TypeOK
<1>1. IInv => TypeOK
  BY DEF IInv
<1> QED BY <1>1, IInvCorrect, PTL

(* entry_count is exact and bounded by max_size for every capacity, every   *)
(* number of callers, every file and every order of the operations          *)
(* (ipset.c:108, 142, 171, 333, 373, 406).                                  *)
THEOREM CountCorrect == Spec => []CountExact
<1>1. IInv => CountExact
  BY DEF IInv
<1> QED BY <1>1, IInvCorrect, PTL

-----------------------------------------------------------------------------
(* Sets fed by ipset_add and ipset_add_expiring only. *)
HostsOnly == CidrLines = {} /\ Persist = FALSE

(* The invariant of such a set: every IPv4 entry is the only one of its     *)
(* address, no load is in progress, and the clock keeps to its bound.       *)
HInv == IInv /\ V4Single(set) /\ todo = {} /\ now \in 0..(MaxTime + 1)

(* HInv is inductive: a refresh finds the entry it must replace             *)
(* (ipset.c:116-126).                                                       *)
LEMMA HInvInvariant ==
    ASSUME HostsOnly
    PROVE  Spec => []HInv
<1>1. Init => HInv
  BY EmptyGood, IInvIsGood, IpSetAssumption DEF HInv, Init, V4Single, ipset_create
<1>2. ASSUME HInv, [Next]_vars
      PROVE  V4Single(set') /\ todo' = {}
  <2>0. /\ Good(set, MaxSize) /\ now \in Nat
        /\ DOMAIN set = {"entries", "entry_count", "allocs"}
    BY <1>2, IInvIsGood DEF HInv, Good, IpSetType
  <2>1. ASSUME NEW ip \in HostAddrs, NEW ttl \in Ttls, AddExpiring(ip, ttl)
        PROVE  V4Single(set') /\ todo' = todo
    <3>1. ip \in IpAddr /\ Expiry(ttl) \in Nat /\ MaxSize \in Nat
      BY <2>0, IpSetAssumption DEF Expiry
    <3> QED BY <1>2, <2>0, <2>1, <3>1, AddSingle DEF HInv, AddExpiring
  <2>2. ASSUME set'.entries \subseteq set.entries
        PROVE  V4Single(set')
    BY <1>2, <2>2 DEF HInv, V4Single
  <2>3. ASSUME NEW ip \in HostAddrs, Remove(ip)
        PROVE  set'.entries \subseteq set.entries /\ todo' = todo
    BY <2>0, <2>3 DEF Remove, ipset_remove
  <2>4. ASSUME CleanupExpired
        PROVE  set'.entries \subseteq set.entries /\ todo' = todo
    BY <2>0, <2>4 DEF CleanupExpired, ipset_cleanup_expired
  <2>5. ASSUME Clear
        PROVE  set'.entries \subseteq set.entries /\ todo' = todo
    BY <2>5 DEF Clear, ipset_clear, ipset_create
  <2>6. ASSUME Tick \/ UNCHANGED vars
        PROVE  set'.entries \subseteq set.entries /\ todo' = todo
    BY <2>6 DEF Tick, vars
  <2>7. ~Save /\ ~LoadOpen /\ CidrLines = {} /\ todo = {}
    BY <1>2 DEF HInv, HostsOnly, Save, LoadOpen
  <2> QED BY <1>2, <2>1, <2>2, <2>3, <2>4, <2>5, <2>6, <2>7 DEF Next
<1>3. ASSUME HInv, [Next]_vars
      PROVE  now' \in 0..(MaxTime + 1)
  <2>1. now' = now \/ Tick
    BY <1>3 DEF Next, vars, AddExpiring, Remove, AddCidr, CleanupExpired, Clear, Save,
                LoadOpen, LoadLine
  <2> QED BY <1>3, <2>1, IpSetAssumption DEF HInv, Tick
<1>4. HInv /\ [Next]_vars => HInv'
  BY <1>2, <1>3, IInvInductive DEF HInv
<1> QED BY <1>1, <1>4, PTL DEF Spec

(* Every IPv4 host has one entry at most in a set fed by ipset_add and      *)
(* ipset_add_expiring (ipset.c:116-126).                                    *)
THEOREM V4HostOnceCorrect ==
    ASSUME HostsOnly
    PROVE  Spec => []V4HostOnce
<1>1. HInv => V4HostOnce
  BY DEF HInv, V4Single, V4HostOnce
<1> QED BY <1>1, HInvInvariant, PTL

(* With IPv4 addresses, one ipset_remove is enough: no sequence of adds,    *)
(* refreshes and purges leaves a second entry behind (ipset.c:149-182).     *)
THEOREM RemoveCorrect ==
    ASSUME HostsOnly, \A ip \in HostAddrs : ip.family = "v4"
    PROVE  Spec => []RemoveRemoves
<1>1. IInv /\ V4HostOnce => RemoveRemoves
  <2> SUFFICES ASSUME IInv, V4HostOnce, NEW ip \in HostAddrs,
                      NEW e \in HostEntries(ipset_remove(set, ip), ip)
               PROVE  FALSE
    BY DEF RemoveRemoves, ipset_contains
  <2> DEFINE E == HostEntries(set, ip)
  <2>1. set \in IpSetType /\ set.entries \subseteq Entry /\ set.allocs \in Nat
    BY DEF IInv, TypeOK, IpSetType
  <2>2. CASE E = {}
    BY <2>2 DEF ipset_remove
  <2>3. CASE E # {}
    <3>1. Newest(E) \in E
      BY <2>1, <2>3, NewestIsMember DEF HostEntries, IInv, StampsUnique
    <3>2. ipset_remove(set, ip)
            = [set EXCEPT !.entries = @ \ {Newest(E)}, !.entry_count = @ - 1]
      BY <2>3 DEF ipset_remove
    <3>3. e \in set.entries /\ e.ip = ip /\ e # Newest(E)
      BY <2>1, <3>2 DEF HostEntries, IpSetType
    <3>4. Newest(E) \in set.entries /\ Newest(E).ip = ip
      BY <3>1 DEF HostEntries
    <3> QED BY <3>3, <3>4 DEF V4HostOnce
  <2> QED BY <2>2, <2>3
<1> QED BY <1>1, IInvCorrect, V4HostOnceCorrect, PTL

-----------------------------------------------------------------------------
(* The refinement of IpTtl.  Deadline of a set and a time that are given.   *)
DeadlineIn(S, t, ip) == IF ipset_contains(S, ip, t)
                        THEN Newest(HostEntries(S, ip)).expires ELSE Absent

(* Where an address has one entry, its deadline is that entry's until the   *)
(* entry expires; where it has none, it is not listed (ipset.c:184-212).    *)
LEMMA DeadlineOfEntry ==
    ASSUME NEW max \in Nat, NEW S, Good(S, max), V4Single(S), NEW t,
           NEW ip, ip.family = "v4"
    PROVE  /\ HostEntries(S, ip) = {} => DeadlineIn(S, t, ip) = Absent
           /\ \A e \in S.entries : e.ip = ip =>
                DeadlineIn(S, t, ip) = IF Expired(e, t) THEN Absent ELSE e.expires
<1>1. HostEntries(S, ip) = {} => DeadlineIn(S, t, ip) = Absent
  BY DEF DeadlineIn, ipset_contains
<1>2. ASSUME NEW e \in S.entries, e.ip = ip
      PROVE  DeadlineIn(S, t, ip) = IF Expired(e, t) THEN Absent ELSE e.expires
  <2> DEFINE E == HostEntries(S, ip)
  <2>1. E = {e}
    BY <1>2 DEF HostEntries, V4Single
  <2>2. E \subseteq Entry /\ S.allocs \in Nat /\ \A f \in E : f.stamp <= S.allocs
    BY DEF HostEntries, Good, IpSetType
  <2>3. Newest(E) \in E
    <3> HIDE DEF E
    <3> QED BY <2>1, <2>2, NewestIsMember
  <2>4. Newest(E) = e
    BY <2>1, <2>3
  <2>5. ipset_contains(S, ip, t) <=> ~Expired(e, t)
    BY <2>1 DEF ipset_contains
  <2> QED BY <2>4, <2>5 DEF DeadlineIn
<1> QED BY <1>1, <1>2

(* The deadline of an address depends on the entries of that address only.  *)
LEMMA DeadlineLocal ==
    ASSUME NEW S, NEW L, NEW t, NEW ip, HostEntries(S, ip) = HostEntries(L, ip)
    PROVE  DeadlineIn(S, t, ip) = DeadlineIn(L, t, ip)
BY DEF DeadlineIn, ipset_contains

(* An accepted add lists the address under the new deadline, a refused one  *)
(* changes nothing, and no other address is touched (ipset.c:101-147).      *)
LEMMA AddDeadline ==
    ASSUME NEW max \in Nat, NEW S, Good(S, max), V4Single(S),
           NEW ip \in IpAddr, ip.family = "v4", NEW exp \in Nat, NEW t \in Nat,
           exp = 0 \/ t <= exp,
           NEW L, L = ipset_add_expiring(S, max, ip, exp)
    PROVE  \/ L = S
           \/ /\ DeadlineIn(L, t, ip) = exp
              /\ \A other : other # ip => DeadlineIn(L, t, other) = DeadlineIn(S, t, other)
<1> DEFINE same == {e \in HostEntries(S, ip) : e.prefix_len = V4Bits}
           old == Newest(same)
<1>0. /\ S.entries \subseteq Entry /\ S.allocs \in Nat /\ S.entry_count \in Nat
      /\ DOMAIN S = {"entries", "entry_count", "allocs"}
  BY DEF Good, IpSetType
<1>1. Good(L, max) /\ V4Single(L)
  BY AddGood, AddSingle
<1>2. ASSUME NEW new \in L.entries, new.ip = ip, new.expires = exp,
             \A e : e.ip # ip => (e \in L.entries <=> e \in S.entries)
      PROVE  /\ DeadlineIn(L, t, ip) = exp
             /\ \A other : other # ip => DeadlineIn(L, t, other) = DeadlineIn(S, t, other)
  <2>1. ~Expired(new, t)
    BY <1>2 DEF Expired
  <2>2. DeadlineIn(L, t, ip) = exp
    BY <1>1, <1>2, <2>1, DeadlineOfEntry
  <2>3. \A other : other # ip => HostEntries(L, other) = HostEntries(S, other)
    BY <1>2 DEF HostEntries
  <2> QED BY <2>2, <2>3, DeadlineLocal
<1>3. CASE S.entry_count >= max
  BY <1>0, <1>3 DEF ipset_add_expiring
<1>4. CASE S.entry_count < max /\ same # {}
  <2> DEFINE new == [old EXCEPT !.expires = exp]
  <2>1. old \in same
    BY <1>0, <1>4, NewestIsMember DEF HostEntries, Good
  <2>2. L = [S EXCEPT !.entries = (@ \ {old}) \cup {new}]
    BY <1>0, <1>4 DEF ipset_add_expiring
  <2>3. L.entries = (S.entries \ {old}) \cup {new}
    BY <1>0, <2>2
  <2>4. old \in S.entries /\ old.ip = ip /\ old \in Entry
    BY <1>0, <2>1 DEF HostEntries
  <2>5. new.ip = ip /\ new.expires = exp
    BY <2>4 DEF Entry
  <2> HIDE DEF old, new
  <2>6. new \in L.entries /\ \A e : e.ip # ip => (e \in L.entries <=> e \in S.entries)
    BY <2>3, <2>4, <2>5
  <2> QED BY <1>2, <2>5, <2>6
<1>5. CASE S.entry_count < max /\ same = {}
  <2> DEFINE new == [stamp |-> S.allocs + 1, ip |-> ip,
                     prefix_len |-> Bits(ip.family), expires |-> exp]
  <2>1. L = LinkEntry(S, ip, Bits(ip.family), exp)
    BY <1>0, <1>5 DEF ipset_add_expiring
  <2>2. L.entries = S.entries \cup {new} /\ new.ip = ip /\ new.expires = exp
    BY <2>1 DEF LinkEntry
  <2> HIDE DEF new
  <2>3. new \in L.entries /\ \A e : e.ip # ip => (e \in L.entries <=> e \in S.entries)
    BY <2>2
  <2> QED BY <1>2, <2>2, <2>3
<1> QED BY <1>0, <1>3, <1>4, <1>5

(* A removal unlists its address and touches no other (ipset.c:149-182).    *)
LEMMA RemoveDeadline ==
    ASSUME NEW max \in Nat, NEW S, Good(S, max), V4Single(S),
           NEW ip \in IpAddr, ip.family = "v4", NEW t,
           NEW L, L = ipset_remove(S, ip)
    PROVE  /\ DeadlineIn(L, t, ip) = Absent
           /\ \A other : other # ip => DeadlineIn(L, t, other) = DeadlineIn(S, t, other)
<1> DEFINE E == HostEntries(S, ip)
<1>0. /\ S.entries \subseteq Entry /\ S.allocs \in Nat
      /\ DOMAIN S = {"entries", "entry_count", "allocs"}
  BY DEF Good, IpSetType
<1>1. DeadlineIn(L, t, ip) = Absent
  <2>1. \A e \in L.entries : e.ip # ip
    BY RemoveSingle
  <2>2. HostEntries(L, ip) = {}
    BY <2>1 DEF HostEntries
  <2> QED BY <2>2 DEF DeadlineIn, ipset_contains
<1>2. \A e : e.ip # ip => (e \in L.entries <=> e \in S.entries)
  <2>1. CASE E = {}
    BY <2>1 DEF ipset_remove
  <2>2. CASE E # {}
    <3>1. Newest(E) \in E
      BY <1>0, <2>2, NewestIsMember DEF HostEntries, Good
    <3>2. L = [S EXCEPT !.entries = @ \ {Newest(E)}, !.entry_count = @ - 1]
      BY <2>2 DEF ipset_remove
    <3>3. L.entries = S.entries \ {Newest(E)} /\ Newest(E).ip = ip
      BY <1>0, <3>1, <3>2 DEF HostEntries
    <3> HIDE DEF E
    <3> QED BY <3>3
  <2> QED BY <2>1, <2>2
<1>3. \A other : other # ip => HostEntries(L, other) = HostEntries(S, other)
  BY <1>2 DEF HostEntries
<1> QED BY <1>1, <1>3, DeadlineLocal

(* A purge changes no deadline: what it unlinks was no longer reported      *)
(* (ipset.c:378-416).                                                       *)
LEMMA CleanupDeadline ==
    ASSUME NEW max \in Nat, NEW S, Good(S, max), V4Single(S),
           NEW ip, ip.family = "v4", NEW t,
           NEW L, L = ipset_cleanup_expired(S, t)
    PROVE  DeadlineIn(L, t, ip) = DeadlineIn(S, t, ip)
<1>0. DOMAIN S = {"entries", "entry_count", "allocs"}
  BY DEF Good, IpSetType
<1>1. L.entries = S.entries \ {e \in S.entries : Expired(e, t)}
  BY <1>0 DEF ipset_cleanup_expired
<1>2. CASE \E e \in S.entries : e.ip = ip /\ Expired(e, t)
  <2>1. PICK e \in S.entries : e.ip = ip /\ Expired(e, t)
    BY <1>2
  <2>2. DeadlineIn(S, t, ip) = Absent
    BY <2>1, DeadlineOfEntry
  <2>3. HostEntries(L, ip) = {}
    BY <1>1, <2>1 DEF HostEntries, V4Single
  <2> QED BY <2>2, <2>3 DEF DeadlineIn, ipset_contains
<1>3. CASE \A e \in S.entries : e.ip = ip => ~Expired(e, t)
  <2>1. HostEntries(L, ip) = HostEntries(S, ip)
    BY <1>1, <1>3 DEF HostEntries
  <2> QED BY <2>1, DeadlineLocal
<1> QED BY <1>2, <1>3

(* With the next second a deadline that has passed is gone and every other  *)
(* one stays (ipset.c:184-212: the test is now > expires).                  *)
LEMMA TickDeadline ==
    ASSUME NEW max \in Nat, NEW S, Good(S, max), V4Single(S),
           NEW ip, ip.family = "v4", NEW t \in Nat
    PROVE  DeadlineIn(S, t + 1, ip) = IF TtlMap!Over(DeadlineIn(S, t, ip), t + 1)
                                      THEN Absent ELSE DeadlineIn(S, t, ip)
<1>1. CASE HostEntries(S, ip) = {}
  BY <1>1 DEF DeadlineIn, ipset_contains, TtlMap!Over
<1>2. CASE HostEntries(S, ip) # {}
  <2>1. PICK e \in S.entries : e.ip = ip
    BY <1>2 DEF HostEntries
  <2>2. e.expires \in Nat
    BY DEF Good, IpSetType, Entry
  <2>3. /\ DeadlineIn(S, t, ip) = IF Expired(e, t) THEN Absent ELSE e.expires
        /\ DeadlineIn(S, t + 1, ip) = IF Expired(e, t + 1) THEN Absent ELSE e.expires
    BY <2>1, DeadlineOfEntry
  <2> QED BY <2>2, <2>3 DEF Expired, TtlMap!Over
<1> QED BY <1>1, <1>2

(* Every operation of the set is an operation of the map or invisible in    *)
(* it: an accepted add grants, a removal revokes, a clear revokes all, the  *)
(* clock ends what is over; a refused add and a purge are not seen.         *)
LEMMA StepRefines ==
    ASSUME HostsOnly, \A ip \in HostAddrs : ip.family = "v4", HInv, [Next]_vars
    PROVE  [TtlMap!Next]_(TtlMap!vars)
<1> DEFINE map == [ip \in HostAddrs |-> Deadline(ip)]
<1>0. /\ Good(set, MaxSize) /\ V4Single(set) /\ MaxSize \in Nat /\ HostAddrs \subseteq IpAddr
      /\ now \in Nat /\ now \in 0..(MaxTime + 1) /\ MaxTime \in Nat /\ Ttls \subseteq Nat
  BY IInvIsGood, IpSetAssumption DEF HInv
<1>1. /\ map = [ip \in HostAddrs |-> DeadlineIn(set, now, ip)]
      /\ map' = [ip \in HostAddrs |-> DeadlineIn(set', now', ip)]
  BY DEF Deadline, DeadlineIn
<1>2. ASSUME map' = map, now' = now
      PROVE  UNCHANGED TtlMap!vars
  BY <1>2 DEF TtlMap!vars
<1>3. ASSUME NEW ip \in HostAddrs, NEW ttl \in Ttls, AddExpiring(ip, ttl)
      PROVE  [TtlMap!Next]_(TtlMap!vars)
  <2> DEFINE exp == Expiry(ttl)
  <2>1. exp \in Nat /\ (exp = 0 \/ now <= exp) /\ exp \in CallerDeadlines
    BY <1>0 DEF Expiry, CallerDeadlines
  <2>2. set' = ipset_add_expiring(set, MaxSize, ip, exp) /\ now' = now
    BY <1>3 DEF AddExpiring
  <2> HIDE DEF exp
  <2>3. \/ set' = set
        \/ /\ DeadlineIn(set', now, ip) = exp
           /\ \A other : other # ip => DeadlineIn(set', now, other) = DeadlineIn(set, now, other)
    BY <1>0, <2>1, <2>2, AddDeadline
  <2>4. CASE set' = set
    BY <1>1, <1>2, <2>2, <2>4
  <2>5. CASE /\ DeadlineIn(set', now, ip) = exp
             /\ \A other : other # ip =>
                  DeadlineIn(set', now, other) = DeadlineIn(set, now, other)
    <3>1. map' = [map EXCEPT ![ip] = exp]
      BY <1>1, <2>2, <2>5
    <3>2. TtlMap!Grant(ip, exp)
      BY <3>1, <2>2 DEF TtlMap!Grant
    <3> QED BY <3>2, <2>1 DEF TtlMap!Next
  <2> QED BY <2>3, <2>4, <2>5
<1>4. ASSUME NEW ip \in HostAddrs, Remove(ip)
      PROVE  [TtlMap!Next]_(TtlMap!vars)
  <2>1. set' = ipset_remove(set, ip) /\ now' = now
    BY <1>4 DEF Remove
  <2>2. /\ DeadlineIn(set', now, ip) = Absent
        /\ \A other : other # ip => DeadlineIn(set', now, other) = DeadlineIn(set, now, other)
    BY <1>0, <2>1, RemoveDeadline
  <2>3. map' = [map EXCEPT ![ip] = Absent]
    <3>1. now' = now
      BY <2>1
    <3>2. /\ DeadlineIn(set', now', ip) = Absent
          /\ \A other \in HostAddrs \ {ip} :
               DeadlineIn(set', now', other) = DeadlineIn(set, now, other)
      BY <2>2, <3>1
    <3> QED BY <1>1, <3>2
  <2>4. TtlMap!Revoke(ip)
    BY <2>1, <2>3 DEF TtlMap!Revoke
  <2> QED BY <2>4 DEF TtlMap!Next
<1>5. ASSUME CleanupExpired
      PROVE  [TtlMap!Next]_(TtlMap!vars)
  <2>1. set' = ipset_cleanup_expired(set, now) /\ now' = now
    BY <1>5 DEF CleanupExpired
  <2>2. \A ip \in HostAddrs : DeadlineIn(set', now, ip) = DeadlineIn(set, now, ip)
    BY <1>0, <2>1, CleanupDeadline
  <2>3. map' = map
    BY <1>1, <2>1, <2>2
  <2> QED BY <1>2, <2>1, <2>3
<1>6. ASSUME Clear
      PROVE  [TtlMap!Next]_(TtlMap!vars)
  <2>1. set' = ipset_create /\ now' = now
    BY <1>6 DEF Clear, ipset_clear
  <2>2. \A ip \in HostAddrs : DeadlineIn(set', now, ip) = Absent
    BY <2>1 DEF DeadlineIn, ipset_contains, HostEntries, ipset_create
  <2>3. map' = [ip \in HostAddrs |-> Absent]
    BY <1>1, <2>1, <2>2
  <2>4. TtlMap!RevokeAll
    BY <2>1, <2>3 DEF TtlMap!RevokeAll
  <2> QED BY <2>4 DEF TtlMap!Next
<1>7. ASSUME Tick
      PROVE  [TtlMap!Next]_(TtlMap!vars)
  <2>1. set' = set /\ now' = now + 1
    BY <1>7 DEF Tick
  <2>2. \A ip \in HostAddrs :
           DeadlineIn(set, now + 1, ip) = IF TtlMap!Over(DeadlineIn(set, now, ip), now + 1)
                                          THEN Absent ELSE DeadlineIn(set, now, ip)
    BY <1>0, TickDeadline
  <2>3. map' = [ip \in HostAddrs |-> IF TtlMap!Over(map[ip], now') THEN Absent ELSE map[ip]]
    BY <1>1, <2>1, <2>2
  <2>4. TtlMap!Tick
    BY <2>1, <2>3 DEF TtlMap!Tick
  <2> QED BY <2>4 DEF TtlMap!Next
<1>8. ASSUME UNCHANGED vars
      PROVE  [TtlMap!Next]_(TtlMap!vars)
  BY <1>1, <1>2, <1>8 DEF vars
<1>9. ~Save /\ ~LoadOpen /\ CidrLines = {} /\ todo = {}
  BY DEF HInv, HostsOnly, Save, LoadOpen
<1> QED BY <1>3, <1>4, <1>5, <1>6, <1>7, <1>8, <1>9 DEF Next

(* A set of IPv4 hosts implements the map from hosts to deadlines that      *)
(* callers count on, for every capacity, every lifetime and every order of  *)
(* adds, refreshes, removals, purges, clears and seconds (ipset.c:101-416). *)
THEOREM TtlCorrect ==
    ASSUME HostsOnly, \A ip \in HostAddrs : ip.family = "v4"
    PROVE  Spec => ImplementsTtl
<1>1. Init => TtlMap!Init
  BY DEF Init, TtlMap!Init, Deadline, ipset_contains, HostEntries, ipset_create
<1>2. HInv /\ [Next]_vars => [TtlMap!Next]_(TtlMap!vars)
  BY StepRefines
<1> QED BY <1>1, <1>2, HInvInvariant, PTL DEF Spec, ImplementsTtl, TtlMap!Spec

-----------------------------------------------------------------------------
(* Saving, restarting and loading.  Loaded is a fold, defined by a recursive *)
(* function over the sets of lines: what is needed of it is shown first.     *)

Step(line, S) == ipset_add_cidr(S, MaxSize, line)
NextLine(s) == CHOOSE x \in s : TRUE

(* g loads the sets of at most n of the lines, one line after the other. *)
Few(lines, n) == {s \in SUBSET lines : Cardinality(s) <= n}
Loads(g, D) == g = [s \in D |-> IF s = {} THEN ipset_create
                                ELSE Step(NextLine(s), g[s \ {NextLine(s)}])]

(* The library's fold is the value of such a function at lines. *)
LEMMA LoadedIs ==
    ASSUME NEW lines
    PROVE  Loaded(lines) = (CHOOSE g : Loads(g, SUBSET lines))[lines]
BY Zenon DEF Loaded, FoldSet, MapThenFoldSet, Loads, Step, NextLine

(* A set of naturals has a least member. *)
LEMMA Least ==
    ASSUME NEW T, T \subseteq Nat, T # {}
    PROVE  \E n \in T : \A m \in T : n <= m
<1>1. PICK n \in T : \A m \in T : ~(<<m, n>> \in OpToRel(<, Nat))
  BY NatLessThanWellFounded, WFMin
<1>2. ASSUME NEW m \in T
      PROVE  n <= m
  <2>1. m \in Nat /\ n \in Nat
    OBVIOUS
  <2>2. m < n => <<m, n>> \in OpToRel(<, Nat)
    BY <2>1 DEF OpToRel
  <2>3. ~(m < n)
    BY <1>1, <2>2, Zenon
  <2> QED BY <2>1, <2>3
<1> QED BY <1>2

(* Taking the next line off a set leaves one line less. *)
LEMMA OneLess ==
    ASSUME NEW s, IsFiniteSet(s), s # {}
    PROVE  /\ NextLine(s) \in s /\ IsFiniteSet(s \ {NextLine(s)})
           /\ Cardinality(s) \in Nat /\ Cardinality(s \ {NextLine(s)}) \in Nat
           /\ Cardinality(s \ {NextLine(s)}) = Cardinality(s) - 1
<1>1. NextLine(s) \in s
  BY DEF NextLine
<1>2. IsFiniteSet(s \ {NextLine(s)}) /\ Cardinality(s \ {NextLine(s)}) = Cardinality(s) - 1
  BY <1>1, FS_RemoveElement
<1> QED BY <1>1, <1>2, FS_CardinalityType

(* One more line can be loaded than before. *)
LEMMA LoadsMore ==
    ASSUME NEW lines, IsFiniteSet(lines), NEW n \in Nat, NEW g, Loads(g, Few(lines, n))
    PROVE  \E h : Loads(h, Few(lines, n + 1))
<1> DEFINE D == Few(lines, n)
           E == Few(lines, n + 1)
           h == [s \in E |-> IF s = {} THEN ipset_create ELSE Step(NextLine(s), g[s \ {NextLine(s)}])]
<1>1. \A s \in D : g[s] = IF s = {} THEN ipset_create ELSE Step(NextLine(s), g[s \ {NextLine(s)}])
  BY DEF Loads
<1>2. \A s \in E : h[s] = IF s = {} THEN ipset_create ELSE Step(NextLine(s), g[s \ {NextLine(s)}])
  OBVIOUS
<1>3. D \subseteq E
  BY FS_Subset, FS_CardinalityType DEF Few
<1>4. ASSUME NEW s \in E, s # {}
      PROVE  s \ {NextLine(s)} \in D
  <2>1. s \subseteq lines /\ IsFiniteSet(s) /\ Cardinality(s) <= n + 1
    BY FS_Subset DEF Few
  <2>2. /\ Cardinality(s) \in Nat /\ Cardinality(s \ {NextLine(s)}) \in Nat
        /\ Cardinality(s \ {NextLine(s)}) = Cardinality(s) - 1
    BY <1>4, <2>1, OneLess
  <2>3. Cardinality(s \ {NextLine(s)}) <= n
    BY <2>1, <2>2
  <2> QED BY <2>1, <2>3 DEF Few
<1>5. \A s \in D : h[s] = g[s]
  BY <1>1, <1>2, <1>3
<1>6. \A s \in E : h[s] = IF s = {} THEN ipset_create ELSE Step(NextLine(s), h[s \ {NextLine(s)}])
  <2> SUFFICES ASSUME NEW s \in E
               PROVE  h[s] = IF s = {} THEN ipset_create ELSE Step(NextLine(s), h[s \ {NextLine(s)}])
    OBVIOUS
  <2> HIDE DEF h, D, E
  <2>1. CASE s = {}
    BY <1>2, <2>1
  <2>2. CASE s # {}
    <3>1. h[s \ {NextLine(s)}] = g[s \ {NextLine(s)}]
      BY <1>4, <1>5, <2>2
    <3> QED BY <1>2, <2>2, <3>1
  <2> QED BY <2>1, <2>2
<1>7. h = [s \in E |-> h[s]]
  OBVIOUS
<1>8. h = [s \in E |-> IF s = {} THEN ipset_create ELSE Step(NextLine(s), h[s \ {NextLine(s)}])]
  <2> HIDE DEF h, D, E
  <2> QED BY <1>6, <1>7
<1>9. Loads(h, E)
  <2> HIDE DEF h, D, E
  <2> QED BY <1>8 DEF Loads
<1> QED BY <1>9

(* Finitely many lines can be loaded. *)
LEMMA LoadsExist ==
    ASSUME NEW lines, IsFiniteSet(lines)
    PROVE  \E g : Loads(g, SUBSET lines)
<1> DEFINE Can(n) == \E g : Loads(g, Few(lines, n))
<1>1. Can(0)
  <2> DEFINE D == Few(lines, 0)
             g == [s \in D |-> ipset_create]
  <2>1. \A s \in D : s = {}
    <3> SUFFICES ASSUME NEW s \in D
                 PROVE  s = {}
      OBVIOUS
    <3>1. IsFiniteSet(s) /\ Cardinality(s) <= 0
      BY FS_Subset DEF Few
    <3>2. Cardinality(s) = 0
      BY <3>1, FS_CardinalityType
    <3> QED BY <3>1, <3>2, FS_EmptySet
  <2>2. Loads(g, D)
    <3> HIDE DEF D
    <3> QED BY <2>1 DEF Loads
  <2> QED BY <2>2
<1>2. \A n \in Nat : Can(n) => Can(n + 1)
  BY LoadsMore
<1> HIDE DEF Can
<1>3. \A n \in Nat : Can(n)
  <2> SUFFICES ASSUME NEW n0 \in Nat, ~Can(n0)
               PROVE  FALSE
    OBVIOUS
  <2> DEFINE T == {n \in Nat : ~Can(n)}
  <2>1. T \subseteq Nat /\ T # {}
    OBVIOUS
  <2>2. \E n \in T : \A m \in T : n <= m
    <3> HIDE DEF T
    <3> QED BY <2>1, Least
  <2>3. PICK n \in T : \A m \in T : n <= m
    BY <2>2
  <2>4. n # 0 /\ n - 1 \in Nat /\ (n - 1) + 1 = n
    BY <1>1
  <2>5. ~Can(n - 1)
    BY <1>2, <2>4
  <2> QED BY <2>3, <2>4, <2>5
<1>4. Cardinality(lines) \in Nat /\ Few(lines, Cardinality(lines)) = SUBSET lines
  BY FS_CardinalityType, FS_Subset DEF Few
<1>5. Can(Cardinality(lines))
  BY <1>3, <1>4
<1> QED BY <1>4, <1>5 DEF Can

(* The lines of a saved set, or some of them: ranges with a legal prefix,   *)
(* no more than fit.                                                        *)
Fit(lines) == /\ IsFiniteSet(lines) /\ lines \subseteq Line /\ Cardinality(lines) <= MaxSize
              /\ \A l \in lines : l.slash /\ l.prefix_len <= Bits(l.ip.family)

(* R is what such lines load: an entry for each of them, that never expires. *)
Holds(R, l) == \E e \in R.entries : e.ip = l.ip /\ e.prefix_len = l.prefix_len /\ e.expires = 0
FromLines(R, s) == /\ Good(R, MaxSize) /\ R.entry_count = Cardinality(s)
                   /\ \A l \in s : Holds(R, l)

(* ipset_add_cidr takes one more such line. *)
LEMMA StepTakes ==
    ASSUME NEW R, NEW s, IsFiniteSet(s), FromLines(R, s), NEW l \in Line, l \notin s,
           l.slash, l.prefix_len <= Bits(l.ip.family), Cardinality(s) < MaxSize
    PROVE  FromLines(Step(l, R), s \cup {l})
<1> DEFINE X == Step(l, R)
           e == [stamp |-> R.allocs + 1, ip |-> l.ip, prefix_len |-> l.prefix_len, expires |-> 0]
<1>1. /\ Good(R, MaxSize) /\ R.entry_count = Cardinality(s) /\ Cardinality(s) \in Nat
      /\ MaxSize \in Nat /\ Bits(l.ip.family) \in Nat /\ l.prefix_len \in Nat
  BY FS_CardinalityType, IpSetAssumption, WidthAssumption DEF FromLines, Bits, Line
<1>2. LinePrefix(l) = l.prefix_len
  BY DEF LinePrefix
<1>3. X = LinkEntry(R, l.ip, l.prefix_len, 0)
  BY <1>1, <1>2 DEF Step, ipset_add_cidr
<1>4. Good(X, MaxSize)
  BY <1>1, AddCidrGood DEF Step
<1>5. X.entry_count = Cardinality(s) + 1 /\ X.entries = R.entries \cup {e}
  BY <1>1, <1>3 DEF LinkEntry
<1>6. Cardinality(s \cup {l}) = Cardinality(s) + 1
  BY FS_AddElement
<1> HIDE DEF X
<1>7. Holds(X, l)
  <2>1. e \in X.entries /\ e.ip = l.ip /\ e.prefix_len = l.prefix_len /\ e.expires = 0
    BY <1>5
  <2> HIDE DEF e
  <2> QED BY <2>1 DEF Holds
<1>8. \A k \in s : Holds(X, k)
  BY <1>5 DEF Holds, FromLines
<1> QED BY <1>4, <1>5, <1>6, <1>7, <1>8 DEF FromLines, X

(* Loading lines that fit leaves an entry for each. *)
LEMMA LoadedHolds ==
    ASSUME NEW lines, Fit(lines)
    PROVE  FromLines(Loaded(lines), lines)
<1> DEFINE g == CHOOSE g : Loads(g, SUBSET lines)
<1>1. Loads(g, SUBSET lines)
  BY LoadsExist DEF Fit
<1>2. Loaded(lines) = g[lines]
  BY LoadedIs
<1> HIDE DEF g
<1>3. \A s \in SUBSET lines : g[s] = IF s = {} THEN ipset_create
                                     ELSE Step(NextLine(s), g[s \ {NextLine(s)}])
  BY <1>1 DEF Loads
<1>4. IsFiniteSet(lines) /\ MaxSize \in Nat
  BY IpSetAssumption DEF Fit
<1>5. ASSUME NEW s \in SUBSET lines, s # {}, FromLines(g[s \ {NextLine(s)}], s \ {NextLine(s)})
      PROVE  FromLines(g[s], s)
  <2> DEFINE l == NextLine(s)
             r == s \ {l}
  <2>1. IsFiniteSet(s) /\ Cardinality(s) <= Cardinality(lines) /\ Cardinality(lines) \in Nat
    BY <1>4, FS_Subset, FS_CardinalityType
  <2>2. /\ l \in s /\ IsFiniteSet(r) /\ Cardinality(r) = Cardinality(s) - 1
        /\ Cardinality(s) \in Nat /\ Cardinality(r) \in Nat
    BY <1>5, <2>1, OneLess
  <2>3. g[s] = Step(l, g[r])
    BY <1>3, <1>5
  <2>4. FromLines(g[r], r)
    BY <1>5
  <2>5. l \notin r /\ r \cup {l} = s
    BY <2>2
  <2> HIDE DEF l, r
  <2>6. l \in Line /\ l.slash /\ l.prefix_len <= Bits(l.ip.family) /\ Cardinality(lines) <= MaxSize
    BY <2>2 DEF Fit
  <2>7. Cardinality(r) < MaxSize
    BY <1>4, <2>1, <2>2, <2>6
  <2>8. FromLines(Step(l, g[r]), r \cup {l})
    BY <2>2, <2>4, <2>5, <2>6, <2>7, StepTakes
  <2> QED BY <2>3, <2>5, <2>8
<1>6. FromLines(g[{}], {})
  <2>1. g[{}] = ipset_create
    BY <1>3
  <2>2. Good(ipset_create, MaxSize) /\ ipset_create.entry_count = 0
    BY <1>4, EmptyGood DEF ipset_create
  <2> QED BY <2>1, <2>2, FS_EmptySet DEF FromLines
<1>7. \A s \in SUBSET lines : FromLines(g[s], s)
  <2> SUFFICES ASSUME NEW s0 \in SUBSET lines, ~FromLines(g[s0], s0)
               PROVE  FALSE
    OBVIOUS
  <2> DEFINE T == {n \in Nat : \E s \in SUBSET lines : Cardinality(s) = n /\ ~FromLines(g[s], s)}
  <2>1. T \subseteq Nat /\ T # {}
    BY <1>4, FS_Subset, FS_CardinalityType
  <2>2. \E n \in T : \A m \in T : n <= m
    <3> HIDE DEF T
    <3> QED BY <2>1, Least
  <2>3. PICK n \in T : \A m \in T : n <= m
    BY <2>2
  <2>4. PICK s \in SUBSET lines : Cardinality(s) = n /\ ~FromLines(g[s], s)
    OBVIOUS
  <2>5. s # {} /\ IsFiniteSet(s)
    BY <1>4, <1>6, <2>4, FS_Subset
  <2>6. /\ Cardinality(s \ {NextLine(s)}) = n - 1 /\ n - 1 \in Nat /\ n \in Nat
        /\ s \ {NextLine(s)} \in SUBSET lines
    BY <2>4, <2>5, OneLess
  <2>7. ~FromLines(g[s \ {NextLine(s)}], s \ {NextLine(s)})
    BY <1>5, <2>4, <2>5
  <2>8. n - 1 \in T
    BY <2>6, <2>7
  <2> QED BY <2>3, <2>6, <2>8
<1> QED BY <1>2, <1>7

(* No entry has a longer prefix than its family's addresses are, so that    *)
(* its line is accepted again.                                              *)
Prefixes(S) == \A e \in S.entries : e.prefix_len <= Bits(e.ip.family)

(* ipset_add_expiring keeps prefixes legal: a host's prefix is the width.   *)
LEMMA AddPrefixes ==
    ASSUME NEW S, Good(S, MaxSize), Prefixes(S), NEW ip \in IpAddr, NEW exp \in Nat
    PROVE  Prefixes(ipset_add_expiring(S, MaxSize, ip, exp))
<1> DEFINE same == {e \in HostEntries(S, ip) : e.prefix_len = V4Bits}
           old  == Newest(same)
<1>1. /\ S.entries \subseteq Entry /\ S.allocs \in Nat /\ S.entry_count \in Nat /\ MaxSize \in Nat
      /\ S \in IpSetType
  BY IpSetAssumption DEF Good, IpSetType
<1>2. CASE S.entry_count >= MaxSize
  BY <1>1, <1>2 DEF ipset_add_expiring
<1>3. CASE S.entry_count < MaxSize /\ same # {}
  <2>1. old \in same
    BY <1>1, <1>3, NewestIsMember DEF HostEntries, Good
  <2>2. old \in S.entries
    BY <2>1 DEF HostEntries
  <2>3. ipset_add_expiring(S, MaxSize, ip, exp)
          = [S EXCEPT !.entries = (@ \ {old}) \cup {[old EXCEPT !.expires = exp]}]
    BY <1>1, <1>3 DEF ipset_add_expiring
  <2> HIDE DEF old
  <2>4. [old EXCEPT !.expires = exp].prefix_len = old.prefix_len
        /\ [old EXCEPT !.expires = exp].ip = old.ip
    BY <1>1, <2>2 DEF Entry
  <2>5. ipset_add_expiring(S, MaxSize, ip, exp).entries
          = (S.entries \ {old}) \cup {[old EXCEPT !.expires = exp]}
    BY <1>1, <2>3 DEF IpSetType
  <2> QED BY <2>2, <2>4, <2>5 DEF Prefixes
<1>4. CASE S.entry_count < MaxSize /\ same = {}
  <2>1. Bits(ip.family) \in Nat
    BY WidthAssumption DEF Bits
  <2>2. ipset_add_expiring(S, MaxSize, ip, exp) = LinkEntry(S, ip, Bits(ip.family), exp)
    BY <1>1, <1>4 DEF ipset_add_expiring
  <2> QED BY <2>1, <2>2 DEF Prefixes, LinkEntry
<1> QED BY <1>1, <1>2, <1>3, <1>4

(* ipset_add_cidr refuses an illegal prefix. *)
LEMMA AddCidrPrefixes ==
    ASSUME NEW S, Prefixes(S), NEW line \in Line
    PROVE  Prefixes(ipset_add_cidr(S, MaxSize, line))
<1>1. LinePrefix(line) \in Nat /\ Bits(line.ip.family) \in Nat
  BY WidthAssumption DEF LinePrefix, Line, Bits
<1>2. CASE LinePrefix(line) > Bits(line.ip.family) \/ S.entry_count >= MaxSize
  BY <1>2 DEF ipset_add_cidr
<1>3. CASE ~(LinePrefix(line) > Bits(line.ip.family) \/ S.entry_count >= MaxSize)
  <2>1. ipset_add_cidr(S, MaxSize, line) = LinkEntry(S, line.ip, LinePrefix(line), 0)
    BY <1>3 DEF ipset_add_cidr
  <2>2. LinePrefix(line) <= Bits(line.ip.family)
    BY <1>1, <1>3
  <2> QED BY <2>1, <2>2 DEF Prefixes, LinkEntry
<1> QED BY <1>2, <1>3

(* Prefixes stay legal whatever is added, loaded, removed and purged. *)
LEMMA PrefixesInductive ==
    (Init => Prefixes(set)) /\ (IInv /\ Prefixes(set) /\ [Next]_vars => Prefixes(set'))
<1>1. Prefixes(ipset_create)
  BY DEF Prefixes, ipset_create
<1>2. ASSUME NEW S \in IpSetType, NEW R, R.entries \subseteq S.entries, Prefixes(S)
      PROVE  Prefixes(R)
  BY <1>2 DEF Prefixes
<1>3. ASSUME IInv, Prefixes(set), [Next]_vars
      PROVE  Prefixes(set')
  <2>0. /\ Good(set, MaxSize) /\ now \in Nat /\ file \subseteq Line /\ todo \subseteq Line
        /\ set \in IpSetType
    BY <1>3, IInvIsGood DEF Good
  <2>1. ASSUME NEW ip \in HostAddrs, NEW ttl \in Ttls, AddExpiring(ip, ttl)
        PROVE  Prefixes(set')
    <3>1. ip \in IpAddr /\ Expiry(ttl) \in Nat
      BY <2>0, IpSetAssumption DEF Expiry
    <3> QED BY <1>3, <2>0, <2>1, <3>1, AddPrefixes DEF AddExpiring
  <2>2. ASSUME NEW ip \in HostAddrs, Remove(ip)
        PROVE  Prefixes(set')
    <3>1. ipset_remove(set, ip).entries \subseteq set.entries
      BY <2>0 DEF ipset_remove, IpSetType
    <3> QED BY <1>2, <1>3, <2>0, <2>2, <3>1 DEF Remove
  <2>3. ASSUME NEW line \in CidrLines, AddCidr(line)
        PROVE  Prefixes(set')
    BY <1>3, <2>3, AddCidrPrefixes, IpSetAssumption DEF AddCidr
  <2>4. CASE CleanupExpired
    <3>1. ipset_cleanup_expired(set, now).entries \subseteq set.entries
      BY <2>0 DEF ipset_cleanup_expired, IpSetType
    <3> QED BY <1>2, <1>3, <2>0, <2>4, <3>1 DEF CleanupExpired
  <2>5. CASE Clear
    BY <1>1, <2>5 DEF Clear, ipset_clear
  <2>6. ASSUME NEW line \in todo, LoadLine(line)
        PROVE  Prefixes(set')
    BY <1>3, <2>0, <2>6, AddCidrPrefixes DEF LoadLine
  <2>7. CASE Save \/ LoadOpen \/ Tick \/ UNCHANGED vars
    BY <1>3, <2>7 DEF Save, LoadOpen, Tick, vars
  <2> QED BY <1>3, <2>1, <2>2, <2>3, <2>4, <2>5, <2>6, <2>7 DEF Next
<1> QED BY <1>1, <1>3 DEF Init

(* A save writes one line per entry, and the lines fit in an empty set. *)
LEMMA SavedFit ==
    ASSUME IInv, Prefixes(set)
    PROVE  /\ Fit(ipset_save_to_file(set))
           /\ Cardinality(ipset_save_to_file(set)) = Cardinality(set.entries)
<1> DEFINE L(e) == [no |-> e.stamp, ip |-> e.ip, slash |-> TRUE, prefix_len |-> e.prefix_len]
           lines == ipset_save_to_file(set)
           f == [e \in set.entries |-> L(e)]
<1>1. Good(set, MaxSize)
  BY IInvIsGood
<1>2. lines = {L(e) : e \in set.entries}
  BY DEF ipset_save_to_file
<1>3. f \in Bijection(set.entries, lines)
  <2>1. \A a, b \in set.entries : f[a] = f[b] => a = b
    BY <1>1 DEF Good
  <2>2. f \in [set.entries -> lines] /\ \A l \in lines : \E e \in set.entries : f[e] = l
    BY <1>2
  <2> HIDE DEF f, lines
  <2> QED BY <2>1, <2>2 DEF Bijection, Injection, Surjection, IsInjective
<1>4. IsFiniteSet(lines) /\ Cardinality(lines) = Cardinality(set.entries)
  <2>1. ExistsBijection(set.entries, lines)
    BY <1>3 DEF ExistsBijection
  <2> HIDE DEF lines
  <2> QED BY <1>1, <2>1, FS_Bijection DEF Good
<1>5. \A l \in lines : l.slash /\ l.prefix_len <= Bits(l.ip.family)
  BY <1>2 DEF Prefixes
<1>6. lines \subseteq Line /\ Cardinality(lines) <= MaxSize
  BY <1>1, <1>4, SavedLines DEF Good
<1> QED BY <1>4, <1>5, <1>6 DEF Fit

(* For every capacity, both address widths, any list file and any order of  *)
(* the calls before it, saving the set, restarting and loading the file     *)
(* uncovers no address: every entry's prefix is accepted again, no line     *)
(* finds the set full, and the reloaded entries never expire                *)
(* (ipset_save_to_file, ipset_load_from_file, ipset.c:418-477).             *)
THEOREM ReloadCorrect == Spec => []ReloadCovers
<1>1. Init => Prefixes(set)
  BY PrefixesInductive
<1>2. IInv /\ Prefixes(set) /\ [Next]_vars => Prefixes(set)'
  BY PrefixesInductive DEF Prefixes
<1>3. IInv /\ Prefixes(set) => ReloadCovers
  <2> SUFFICES ASSUME IInv, Prefixes(set)
               PROVE  ReloadCovers
    OBVIOUS
  <2> DEFINE lines == ipset_save_to_file(set)
             after == Loaded(lines)
  <2>1. Fit(lines) /\ Cardinality(lines) = Cardinality(set.entries)
    BY SavedFit
  <2>2. FromLines(after, lines)
    <3> HIDE DEF lines
    <3> QED BY <2>1, LoadedHolds
  <2>3. ASSUME NEW ip, ipset_contains_cidr(set, ip, now)
        PROVE  ipset_contains_cidr(after, ip, now)
    <3>1. PICK e \in set.entries : ip_in_cidr(ip, e.ip, e.prefix_len)
      BY <2>3 DEF ipset_contains_cidr
    <3>2. PICK l \in lines : l.ip = e.ip /\ l.prefix_len = e.prefix_len
      <4> DEFINE k == [no |-> e.stamp, ip |-> e.ip, slash |-> TRUE, prefix_len |-> e.prefix_len]
      <4>1. k \in lines /\ k.ip = e.ip /\ k.prefix_len = e.prefix_len
        BY DEF ipset_save_to_file
      <4> HIDE DEF k, lines
      <4> QED BY <4>1
    <3> HIDE DEF after, lines
    <3>3. PICK k \in after.entries : k.ip = l.ip /\ k.prefix_len = l.prefix_len /\ k.expires = 0
      BY <2>2 DEF FromLines, Holds
    <3>4. ip_in_cidr(ip, k.ip, k.prefix_len)
      BY <3>1, <3>2, <3>3
    <3>5. ~Expired(k, now)
      BY <3>3 DEF Expired
    <3> QED BY <3>4, <3>5 DEF ipset_contains_cidr
  <2>4. after.entry_count = Cardinality(set.entries)
    BY <2>1, <2>2 DEF FromLines
  <2>5. Covered(set) \subseteq Covered(after)
    <3> HIDE DEF after, lines
    <3> QED BY <2>3 DEF Covered
  <2> QED BY <2>4, <2>5 DEF ReloadCovers
<1> QED BY <1>1, <1>2, <1>3, IInvCorrect, PTL DEF Spec
=============================================================================
