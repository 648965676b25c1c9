-------------------------- MODULE IpSetOpsProofs --------------------------
(***************************************************************************)
(* Lemmas about the operations of IpSetOps on the value of a set: each one *)
(* keeps a good set good, and with the add calls only an IPv4 host has one *)
(* entry.  IpSetProofs and FirewallProofs build on them.                   *)
(***************************************************************************)
EXTENDS IpSetOps, FiniteSetTheorems, WellFoundedInduction, TLAPS

(* A set whose count is exact and bounded, with finitely many entries of    *)
(* which no two have the same stamp: a refresh replaces an entry by one     *)
(* that is not already there, an insert adds one that is not already there. *)
Good(S, max) == /\ S \in IpSetType
                /\ IsFiniteSet(S.entries)
                /\ \A e \in S.entries : e.stamp <= S.allocs
                /\ \A e, f \in S.entries : e.stamp = f.stamp => e = f
                /\ S.entry_count = Cardinality(S.entries)
                /\ S.entry_count <= max

-----------------------------------------------------------------------------
(* The head of a non-empty bucket exists: a walk that looks for a matching  *)
(* entry meets one of them first (ipset.c:117-126, ipset.c:161-178).        *)
LEMMA NewestIsMember ==
    ASSUME NEW E, E \subseteq Entry, E # {}, NEW n \in Nat,
           \A e \in E : e.stamp <= n
    PROVE  Newest(E) \in E /\ \A f \in E : f.stamp <= Newest(E).stamp
<1> DEFINE T == {n - e.stamp : e \in E}
           R == OpToRel(<, Nat)
<1>1. T \subseteq Nat /\ T # {}
  BY DEF Entry
<1>2. \E x \in T : \A y \in T : ~(<<y, x>> \in R)
  <2> HIDE DEF T
  <2> QED BY <1>1, NatLessThanWellFounded, WFMin
<1>3. PICK x \in T : \A y \in T : ~(<<y, x>> \in R)
  BY <1>2
<1>4. \A y \in T : x <= y
  <2> TAKE y \in T
  <2>1. x \in Nat /\ y \in Nat
    BY <1>1
  <2>2. ~(y < x)
    BY <1>3, <2>1 DEF OpToRel
  <2> QED BY <2>1, <2>2
<1>5. PICK e \in E : x = n - e.stamp
  BY DEF T
<1>6. \A f \in E : f.stamp <= e.stamp
  <2> TAKE f \in E
  <2>1. n - f.stamp \in T
    OBVIOUS
  <2>2. n - e.stamp <= n - f.stamp
    BY <1>4, <1>5, <2>1
  <2>3. f.stamp \in Nat /\ e.stamp \in Nat
    BY DEF Entry
  <2> QED BY <2>2, <2>3
<1> QED BY <1>6 DEF Newest

(* Linking a fresh entry below the capacity keeps a set good. *)
LEMMA LinkGood ==
    ASSUME NEW max \in Nat, NEW S, Good(S, max), S.entry_count < max,
           NEW ip \in IpAddr, NEW plen \in Nat, NEW exp \in Nat
    PROVE  Good(LinkEntry(S, ip, plen, exp), max)
<1> DEFINE e == [stamp |-> S.allocs + 1, ip |-> ip, prefix_len |-> plen, expires |-> exp]
           L == LinkEntry(S, ip, plen, exp)
<1>1. /\ S.entries \in SUBSET Entry /\ S.allocs \in Nat /\ S.entry_count \in Nat
      /\ IsFiniteSet(S.entries)
  BY DEF Good, IpSetType
<1>2. e \in Entry /\ e \notin S.entries /\ e.stamp = S.allocs + 1
  BY <1>1 DEF Entry, Good
<1>3. L.entries = S.entries \cup {e} /\ L.allocs = S.allocs + 1
      /\ L.entry_count = S.entry_count + 1
  BY DEF LinkEntry
<1>4. IsFiniteSet(L.entries) /\ Cardinality(L.entries) = Cardinality(S.entries) + 1
  <2> HIDE DEF e, L
  <2>1. /\ IsFiniteSet(S.entries \cup {e})
        /\ Cardinality(S.entries \cup {e}) = Cardinality(S.entries) + 1
    BY <1>1, <1>2, FS_AddElement
  <2> QED BY <2>1, <1>3
<1>5. L \in IpSetType
  BY <1>1, <1>2 DEF LinkEntry, IpSetType
<1>6. \A f \in L.entries : f.stamp <= L.allocs
  <2> TAKE f \in L.entries
  <2>1. CASE f \in S.entries
    <3>1. f.stamp <= S.allocs /\ f.stamp \in Nat
      BY <2>1, <1>1 DEF Good, Entry
    <3> QED BY <3>1, <1>1, <1>3
  <2>2. CASE f = e
    BY <2>2, <1>1, <1>3
  <2> QED BY <1>3, <2>1, <2>2
<1>7. \A f, g \in L.entries : f.stamp = g.stamp => f = g
  <2>1. \A f \in S.entries : f.stamp # e.stamp
    BY <1>1, <1>2 DEF Good, Entry
  <2> HIDE DEF e, L
  <2> QED BY <2>1, <1>3 DEF Good
<1>8. L.entry_count = Cardinality(L.entries) /\ L.entry_count <= max
  BY <1>1, <1>3, <1>4 DEF Good
<1>9. Good(L, max)
  <2> HIDE DEF L
  <2> QED BY <1>4, <1>5, <1>6, <1>7, <1>8 DEF Good
<1> QED BY <1>9

(* Giving an entry another deadline keeps a set good. *)
LEMMA RefreshGood ==
    ASSUME NEW max \in Nat, NEW S, Good(S, max), NEW old \in S.entries, NEW exp \in Nat
    PROVE  Good([S EXCEPT !.entries = (@ \ {old}) \cup {[old EXCEPT !.expires = exp]}], max)
<1> DEFINE e == [old EXCEPT !.expires = exp]
           rest == S.entries \ {old}
           L == [S EXCEPT !.entries = (@ \ {old}) \cup {e}]
<1>1. /\ S.entries \in SUBSET Entry /\ S.allocs \in Nat /\ S.entry_count \in Nat
      /\ IsFiniteSet(S.entries)
  BY DEF Good, IpSetType
<1>2. e \in Entry /\ e.stamp = old.stamp /\ old \in Entry
  BY <1>1 DEF Entry
<1>3. e \notin rest
  BY <1>2 DEF Good
<1>4. L.entries = rest \cup {e} /\ L.allocs = S.allocs /\ L.entry_count = S.entry_count
  BY DEF Good, IpSetType
<1>5. IsFiniteSet(L.entries) /\ Cardinality(L.entries) = Cardinality(S.entries)
  <2> HIDE DEF e, L
  <2>1. IsFiniteSet(rest) /\ Cardinality(rest) = Cardinality(S.entries) - 1
    BY <1>1, FS_RemoveElement
  <2>2. Cardinality(S.entries) \in Nat
    BY <1>1, FS_CardinalityType
  <2> HIDE DEF rest
  <2>3. IsFiniteSet(rest \cup {e}) /\ Cardinality(rest \cup {e}) = Cardinality(rest) + 1
    BY <2>1, <1>3, FS_AddElement
  <2> QED BY <2>1, <2>2, <2>3, <1>4
<1>6. L \in IpSetType
  BY <1>1, <1>2 DEF Good, IpSetType
<1>7. \A f \in L.entries : f.stamp <= L.allocs
  BY <1>2, <1>4 DEF Good
<1>8. \A f, g \in L.entries : f.stamp = g.stamp => f = g
  <2>1. \A f \in rest : f.stamp # e.stamp
    BY <1>2 DEF Good
  <2>2. \A f, g \in rest : f.stamp = g.stamp => f = g
    BY DEF Good
  <2> HIDE DEF e, rest, L
  <2> QED BY <2>1, <2>2, <1>4
<1>9. Good(L, max)
  <2> HIDE DEF L
  <2> QED BY <1>4, <1>5, <1>6, <1>7, <1>8 DEF Good
<1> QED BY <1>9

(* Unlinking entries and counting them keeps a set good. *)
LEMMA UnlinkGood ==
    ASSUME NEW max \in Nat, NEW S, Good(S, max), NEW D \in SUBSET S.entries
    PROVE  Good([S EXCEPT !.entries = @ \ D, !.entry_count = @ - Cardinality(D)], max)
<1> DEFINE L == [S EXCEPT !.entries = @ \ D, !.entry_count = @ - Cardinality(D)]
<1>1. /\ S.entries \in SUBSET Entry /\ S.allocs \in Nat /\ S.entry_count \in Nat
      /\ IsFiniteSet(S.entries) /\ S.entry_count = Cardinality(S.entries)
  BY DEF Good, IpSetType
<1>2. IsFiniteSet(D) /\ Cardinality(D) \in Nat /\ Cardinality(D) <= Cardinality(S.entries)
  BY <1>1, FS_Subset, FS_CardinalityType
<1>3. /\ IsFiniteSet(S.entries \ D)
      /\ Cardinality(S.entries \ D) = Cardinality(S.entries) - Cardinality(D)
  <2>1. S.entries \cap D = D
    OBVIOUS
  <2>2. /\ IsFiniteSet(S.entries \ D)
        /\ Cardinality(S.entries \ D) = Cardinality(S.entries) - Cardinality(S.entries \cap D)
    BY <1>1, <1>2, FS_Difference
  <2> QED BY <2>1, <2>2
<1>4. L.entries = S.entries \ D /\ L.allocs = S.allocs
      /\ L.entry_count = S.entry_count - Cardinality(D)
  BY DEF Good, IpSetType
<1>5. L \in IpSetType
  <2>1. S.entry_count - Cardinality(D) \in Nat
    BY <1>1, <1>2
  <2> QED BY <1>1, <2>1 DEF Good, IpSetType
<1>6. L.entry_count = Cardinality(L.entries) /\ L.entry_count <= max
  BY <1>1, <1>2, <1>3, <1>4 DEF Good
<1>7. IsFiniteSet(L.entries)
  BY <1>3, <1>4
<1>8. /\ \A f \in L.entries : f.stamp <= L.allocs
      /\ \A f, g \in L.entries : f.stamp = g.stamp => f = g
  BY <1>4 DEF Good
<1>9. Good(L, max)
  <2> HIDE DEF L
  <2> QED BY <1>5, <1>6, <1>7, <1>8 DEF Good
<1> QED BY <1>9

(* The same for the removal of one entry, as ipset_remove counts it. *)
LEMMA UnlinkOneGood ==
    ASSUME NEW max \in Nat, NEW S, Good(S, max), NEW e \in S.entries
    PROVE  Good([S EXCEPT !.entries = @ \ {e}, !.entry_count = @ - 1], max)
<1>1. Cardinality({e}) = 1
  BY FS_Singleton
<1>2. Good([S EXCEPT !.entries = @ \ {e}, !.entry_count = @ - Cardinality({e})], max)
  BY UnlinkGood
<1> QED BY <1>1, <1>2

-----------------------------------------------------------------------------
(* ipset_add_expiring keeps a set good, whether it refuses, refreshes or    *)
(* links (ipset.c:101-147).                                                 *)
LEMMA AddGood ==
    ASSUME NEW max \in Nat, NEW S, Good(S, max), NEW ip \in IpAddr, NEW exp \in Nat
    PROVE  Good(ipset_add_expiring(S, max, ip, exp), max)
<1> DEFINE same == {e \in HostEntries(S, ip) : e.prefix_len = V4Bits}
           old  == Newest(same)
<1>1. S.entries \subseteq Entry /\ S.allocs \in Nat /\ S.entry_count \in Nat
  BY DEF Good, IpSetType
<1>2. CASE S.entry_count >= max
  BY <1>1, <1>2 DEF ipset_add_expiring
<1>3. CASE S.entry_count < max /\ same # {}
  <2>1. old \in same
    BY <1>1, <1>3, NewestIsMember DEF HostEntries, Good
  <2>2. old \in S.entries
    BY <2>1 DEF HostEntries
  <2>3. ipset_add_expiring(S, max, ip, exp)
          = [S EXCEPT !.entries = (@ \ {old}) \cup {[old EXCEPT !.expires = exp]}]
    BY <1>1, <1>3 DEF ipset_add_expiring
  <2> HIDE DEF old
  <2> QED BY <2>2, <2>3, RefreshGood
<1>4. CASE S.entry_count < max /\ same = {}
  <2>1. Bits(ip.family) \in Nat
    BY WidthAssumption DEF Bits
  <2>2. ipset_add_expiring(S, max, ip, exp) = LinkEntry(S, ip, Bits(ip.family), exp)
    BY <1>1, <1>4 DEF ipset_add_expiring
  <2> QED BY <1>4, <2>1, <2>2, LinkGood
<1> QED BY <1>1, <1>2, <1>3, <1>4

(* ipset_remove keeps a set good (ipset.c:149-182). *)
LEMMA RemoveGood ==
    ASSUME NEW max \in Nat, NEW S, Good(S, max), NEW ip
    PROVE  Good(ipset_remove(S, ip), max)
<1> DEFINE E == HostEntries(S, ip)
<1>1. CASE E = {}
  BY <1>1 DEF ipset_remove
<1>2. CASE E # {}
  <2>1. Newest(E) \in E
    BY <1>2, NewestIsMember DEF HostEntries, Good, IpSetType
  <2>2. Newest(E) \in S.entries
    BY <2>1 DEF HostEntries
  <2>3. ipset_remove(S, ip)
          = [S EXCEPT !.entries = @ \ {Newest(E)}, !.entry_count = @ - 1]
    BY <1>2 DEF ipset_remove
  <2> HIDE DEF E
  <2>4. Good([S EXCEPT !.entries = @ \ {Newest(E)}, !.entry_count = @ - 1], max)
    BY <2>2, UnlinkOneGood
  <2> QED BY <2>3, <2>4
<1> QED BY <1>1, <1>2

(* ipset_add_cidr keeps a set good (ipset.c:280-342). *)
LEMMA AddCidrGood ==
    ASSUME NEW max \in Nat, NEW S, Good(S, max), NEW line \in Line
    PROVE  Good(ipset_add_cidr(S, max, line), max)
<1>1. LinePrefix(line) \in Nat /\ line.ip \in IpAddr
  BY WidthAssumption DEF LinePrefix, Line
<1>2. S.entry_count \in Nat
  BY DEF Good, IpSetType
<1>3. CASE LinePrefix(line) > Bits(line.ip.family) \/ S.entry_count >= max
  BY <1>3 DEF ipset_add_cidr
<1>4. CASE ~(LinePrefix(line) > Bits(line.ip.family) \/ S.entry_count >= max)
  <2>1. ipset_add_cidr(S, max, line) = LinkEntry(S, line.ip, LinePrefix(line), 0)
    BY <1>4 DEF ipset_add_cidr
  <2> QED BY <1>1, <1>2, <1>4, <2>1, LinkGood
<1> QED BY <1>3, <1>4

(* ipset_cleanup_expired keeps a set good (ipset.c:378-416). *)
LEMMA CleanupGood ==
    ASSUME NEW max \in Nat, NEW S, Good(S, max), NEW t
    PROVE  Good(ipset_cleanup_expired(S, t), max)
<1> DEFINE D == {e \in S.entries : Expired(e, t)}
<1>1. ipset_cleanup_expired(S, t)
        = [S EXCEPT !.entries = @ \ D, !.entry_count = @ - Cardinality(D)]
  BY DEF ipset_cleanup_expired
<1>2. D \in SUBSET S.entries
  OBVIOUS
<1> HIDE DEF D
<1>3. Good([S EXCEPT !.entries = @ \ D, !.entry_count = @ - Cardinality(D)], max)
  BY <1>2, UnlinkGood
<1> QED BY <1>1, <1>3

(* The empty set is good (ipset_create, ipset_clear). *)
LEMMA EmptyGood == \A max \in Nat : Good(ipset_create, max)
<1>1. IsFiniteSet({}) /\ Cardinality({}) = 0
  BY FS_EmptySet
<1> QED BY <1>1 DEF Good, ipset_create, IpSetType

-----------------------------------------------------------------------------
(* Every IPv4 entry is a host entry, so that the search of                  *)
(* ipset_add_expiring recognises it, and is the only one of its address.    *)
V4Single(S) == /\ \A e \in S.entries : e.ip.family = "v4" => e.prefix_len = V4Bits
               /\ \A e, f \in S.entries : e.ip = f.ip /\ e.ip.family = "v4" => e = f

(* ipset_add_expiring finds the entry it must replace, and lists no address *)
(* but the given one anew (ipset.c:116-142).                                *)
LEMMA AddSingle ==
    ASSUME NEW max \in Nat, NEW S, Good(S, max), V4Single(S),
           NEW ip \in IpAddr, NEW exp \in Nat,
           NEW L, L = ipset_add_expiring(S, max, ip, exp)
    PROVE  /\ V4Single(L)
           /\ \A e \in L.entries : e.ip = ip \/ \E f \in S.entries : f.ip = e.ip
<1> DEFINE same == {e \in HostEntries(S, ip) : e.prefix_len = V4Bits}
           old == Newest(same)
<1>0. /\ S.entries \subseteq Entry /\ S.allocs \in Nat /\ S.entry_count \in Nat
      /\ DOMAIN S = {"entries", "entry_count", "allocs"}
  BY DEF Good, IpSetType
<1>1. CASE S.entry_count >= max
  <2>1. L = S
    BY <1>0, <1>1 DEF ipset_add_expiring
  <2> QED BY <2>1
<1>2. CASE S.entry_count < max /\ same # {}
  <2>1. old \in same
    BY <1>0, <1>2, NewestIsMember DEF HostEntries, Good
  <2>2. L = [S EXCEPT !.entries = (@ \ {old}) \cup {[old EXCEPT !.expires = exp]}]
    BY <1>0, <1>2 DEF ipset_add_expiring
  <2>3. L.entries = (S.entries \ {old}) \cup {[old EXCEPT !.expires = exp]}
    BY <1>0, <2>2
  <2>4. old \in S.entries /\ [old EXCEPT !.expires = exp].ip = old.ip
        /\ [old EXCEPT !.expires = exp].prefix_len = old.prefix_len
    BY <1>0, <2>1 DEF HostEntries, Entry
  <2> DEFINE new == [old EXCEPT !.expires = exp]
  <2>5. /\ L.entries = (S.entries \ {old}) \cup {new}
        /\ old \in S.entries /\ new.ip = old.ip /\ new.prefix_len = old.prefix_len
    BY <2>3, <2>4
  <2> HIDE DEF old, new
  <2>6. \A e \in L.entries : e.ip.family = "v4" => e.prefix_len = V4Bits
    BY <2>5 DEF V4Single
  <2>7. \A e, f \in L.entries : e.ip = f.ip /\ e.ip.family = "v4" => e = f
    BY <2>5 DEF V4Single
  <2> QED BY <2>5, <2>6, <2>7 DEF V4Single
<1>3. CASE S.entry_count < max /\ same = {}
  <2> DEFINE new == [stamp |-> S.allocs + 1, ip |-> ip,
                     prefix_len |-> Bits(ip.family), expires |-> exp]
  <2>1. ip.family = "v4" => \A e \in S.entries : e.ip # ip
    BY <1>3 DEF HostEntries, V4Single
  <2>2. L = LinkEntry(S, ip, Bits(ip.family), exp)
    BY <1>0, <1>3 DEF ipset_add_expiring
  <2>3. L.entries = S.entries \cup {new}
    BY <2>2 DEF LinkEntry
  <2>4. new.ip = ip /\ (ip.family = "v4" => new.prefix_len = V4Bits)
    BY DEF Bits
  <2> HIDE DEF new
  <2> QED BY <2>1, <2>3, <2>4 DEF V4Single
<1> QED BY <1>0, <1>1, <1>2, <1>3

(* ipset_remove only unlinks, and leaves no entry of an IPv4 address behind *)
(* (ipset.c:161-178).                                                       *)
LEMMA RemoveSingle ==
    ASSUME NEW max \in Nat, NEW S, Good(S, max), V4Single(S), NEW ip \in IpAddr,
           NEW L, L = ipset_remove(S, ip)
    PROVE  /\ L.entries \subseteq S.entries
           /\ ip.family = "v4" => \A e \in L.entries : e.ip # ip
<1> DEFINE E == HostEntries(S, ip)
<1>0. /\ S.entries \subseteq Entry /\ S.allocs \in Nat
      /\ DOMAIN S = {"entries", "entry_count", "allocs"}
  BY DEF Good, IpSetType
<1>1. CASE E = {}
  <2>1. L = S
    BY <1>1 DEF ipset_remove
  <2> QED BY <1>1, <2>1 DEF HostEntries
<1>2. CASE E # {}
  <2>1. Newest(E) \in E
    BY <1>0, <1>2, NewestIsMember DEF HostEntries, Good
  <2>2. L = [S EXCEPT !.entries = @ \ {Newest(E)}, !.entry_count = @ - 1]
    BY <1>2 DEF ipset_remove
  <2>3. L.entries = S.entries \ {Newest(E)}
    BY <1>0, <2>2
  <2>4. Newest(E) \in S.entries /\ Newest(E).ip = ip
    BY <2>1 DEF HostEntries
  <2> HIDE DEF E
  <2> QED BY <2>3, <2>4 DEF V4Single
<1> QED BY <1>1, <1>2
=============================================================================
