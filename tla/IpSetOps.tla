------------------------------ MODULE IpSetOps ------------------------------
(***************************************************************************)
(* The operations of src/src/storage/ipset.c as functions on the value of  *)
(* a struct ipset.  Each operation holds set->lock from its first read to  *)
(* its last write, so each one is a single state change; IpSet.tla turns   *)
(* them into actions.                                                      *)
(*                                                                         *)
(* A set is the record [entries, entry_count, allocs].  A bucket is a      *)
(* list whose head is its latest insertion and equal addresses hash to the *)
(* same bucket, so the order in which a walk meets the entries of one      *)
(* address is newest first; an entry's stamp is its place in that order.   *)
(*                                                                         *)
(* Address widths are parameters: 32 and 128 are V4Bits and V6Bits.        *)
(***************************************************************************)
EXTENDS Integers, FiniteSets

CONSTANTS V4Bits, V6Bits

(* The widths are positive and IPv6 addresses are the longer ones. *)
ASSUME WidthAssumption == /\ V4Bits \in Nat \ {0}
                          /\ V6Bits \in Nat \ {0}
                          /\ V4Bits < V6Bits

Bits(family) == IF family = "v4" THEN V4Bits ELSE V6Bits

IpAddr == [family : {"v4", "v6"}, addr : Nat]
Entry  == [stamp : Nat, ip : IpAddr, prefix_len : Nat, expires : Nat]
IpSetType == [entries : SUBSET Entry, entry_count : Nat, allocs : Nat]

ipset_create == [entries |-> {}, entry_count |-> 0, allocs |-> 0]

-----------------------------------------------------------------------------
(* Mutant: an entry is dead from its expiry second on. *)
MutExpiredAtDeadline(e, now) == e.expires > 0 /\ now >= e.expires

(* An entry with expires = 0 never expires. *)
Expired(e, now) == e.expires > 0 /\ now > e.expires

(* Entries for exactly this address, whatever their prefix (ip_addr_compare). *)
HostEntries(S, ip) == {e \in S.entries : e.ip = ip}

(* The one a walk of the bucket meets first. *)
Newest(E) == CHOOSE e \in E : \A f \in E : f.stamp <= e.stamp

(* Link a fresh entry at the head of its bucket. *)
LinkEntry(S, ip, plen, exp) ==
    [entries |-> S.entries \cup {[stamp |-> S.allocs + 1, ip |-> ip,
                                  prefix_len |-> plen, expires |-> exp]},
     entry_count |-> S.entry_count + 1,
     allocs |-> S.allocs + 1]

(* ipset_add_expiring with the allocation succeeding: the capacity test     *)
(* comes before the search, and only an entry with prefix_len = 32 is       *)
(* recognised as the same host.                                             *)
ipset_add_expiring(S, max, ip, exp) ==
    LET same == {e \in HostEntries(S, ip) : e.prefix_len = V4Bits}
        old  == Newest(same)
    IN  CASE S.entry_count >= max -> S
          [] S.entry_count < max /\ same # {} ->
               [S EXCEPT !.entries = (@ \ {old}) \cup {[old EXCEPT !.expires = exp]}]
          [] S.entry_count < max /\ same = {} ->
               LinkEntry(S, ip, Bits(ip.family), exp)

(* Mutant: the entry is unlinked but the count is kept. *)
MutRemoveKeepsCount(S, ip) ==
    LET E == HostEntries(S, ip)
    IN  IF E = {} THEN S ELSE [S EXCEPT !.entries = @ \ {Newest(E)}]

(* Mutant: the walk never unlinks the bucket's head entry. *)
MutRemoveSkipsHead(S, ip) ==
    LET E == {e \in HostEntries(S, ip) : \E f \in S.entries : e.stamp < f.stamp}
    IN  IF E = {} THEN S
        ELSE [S EXCEPT !.entries = @ \ {Newest(E)}, !.entry_count = @ - 1]

(* ipset_remove unlinks the first entry that carries the address. *)
ipset_remove(S, ip) ==
    LET E == HostEntries(S, ip)
    IN  IF E = {} THEN S
        ELSE [S EXCEPT !.entries = @ \ {Newest(E)}, !.entry_count = @ - 1]

(* ipset_contains compares whole addresses and ignores the prefix. *)
ipset_contains(S, ip, now) == \E e \in HostEntries(S, ip) : ~Expired(e, now)

(* Equality of the first plen bits, for addresses of one family. *)
ip_in_cidr(ip, network, plen) ==
    /\ ip.family = network.family
    /\ LET host == 2^(Bits(ip.family) - plen)
       IN  ip.addr \div host = network.addr \div host

ipset_contains_cidr(S, ip, now) ==
    \E e \in S.entries : ~Expired(e, now) /\ ip_in_cidr(ip, e.ip, e.prefix_len)

(* A line of a list file or an argument of ipset_add_cidr: without a slash  *)
(* the prefix is 32, for either family.                                     *)
Line == [no : Nat, ip : IpAddr, slash : BOOLEAN, prefix_len : Nat]
LinePrefix(line) == IF line.slash THEN line.prefix_len ELSE V4Bits

(* ipset_add_cidr, for text that string_to_ip_addr accepts: no search for   *)
(* an existing entry, no expiry.                                            *)
ipset_add_cidr(S, max, line) ==
    IF LinePrefix(line) > Bits(line.ip.family) \/ S.entry_count >= max THEN S
    ELSE LinkEntry(S, line.ip, LinePrefix(line), 0)

ipset_cleanup_expired(S, now) ==
    LET dead == {e \in S.entries : Expired(e, now)}
    IN  [S EXCEPT !.entries = @ \ dead, !.entry_count = @ - Cardinality(dead)]

ipset_clear(S) == ipset_create

(* Mutant: every line is written as a whole host address. *)
MutSaveAsHosts(S) ==
    {[no |-> e.stamp, ip |-> e.ip, slash |-> TRUE, prefix_len |-> Bits(e.ip.family)]
        : e \in S.entries}

(* ipset_save_to_file writes address/prefix of every entry, expired or not; *)
(* the expiry is not written.                                               *)
ipset_save_to_file(S) ==
    {[no |-> e.stamp, ip |-> e.ip, slash |-> TRUE, prefix_len |-> e.prefix_len]
        : e \in S.entries}
=============================================================================
