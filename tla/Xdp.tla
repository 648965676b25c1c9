-------------------------------- MODULE Xdp ---------------------------------
(***************************************************************************)
(* The XDP program of src/ebpf/xdp_filter.c: one invocation per frame, at  *)
(* most one on a CPU.  Its maps are shared with an administrator's tool    *)
(* (the loader of the daemon never opens them), so the two lookups are     *)
(* steps of their own; the counters are per CPU.                           *)
(***************************************************************************)
EXTENDS Parser, Sequences

CONSTANTS CPUs,
          Arrivals,     \* the sequences of frames the wire may deliver
          Idle,
          MaxUpdates    \* bound: changes of the maps

ASSUME XdpAssumption == MaxUpdates \in Nat /\ Arrivals \subseteq Seq(Frame)

Stats == {"total", "dropped", "passed", "syn", "udp", "icmp"}

VARIABLES wire,         \* frames still to arrive
          cpu,          \* the invocation on each CPU, or Idle
          stats,
          whitelist, blacklist,
          stack,        \* frames passed on, in order
          updates,      \* history: changes of the maps
          hits          \* history: blacklist hits of each CPU

xdpVars == <<wire, cpu, stats, whitelist, blacklist, stack, updates, hits>>

-----------------------------------------------------------------------------
Steps == {"whitelist", "blacklist", "protocol", "pass", "drop"}

Answers == {"hit", "miss"}
lookup(map, a) == IF a \in map THEN "hit" ELSE "miss"

(* white, black are history: what the maps said of the source meanwhile.    *)
Invocation == [frame : Frame, step : Steps, vetted : BOOLEAN,
               white : SUBSET Answers, black : SUBSET Answers]
Passed == [frame : Frame, vetted : BOOLEAN]     \* what the kernel's stack gets

ASSUME IdleAssumption == Idle \notin Invocation \cup Passed \cup Packet

XdpInit == /\ wire \in Arrivals /\ cpu = [c \in CPUs |-> Idle]
           /\ stats = [c \in CPUs |-> [k \in Stats |-> 0]]
           /\ whitelist \in SUBSET Addrs /\ blacklist \in SUBSET Addrs
           /\ stack = <<>> /\ updates = 0 /\ hits = [c \in CPUs |-> 0]

parse_eth(f) == f.len >= EthLen
parse_ipv4(f) == f.len >= EthLen + IpLen /\ f.ihl >= 5

At(c, step) == cpu[c] # Idle /\ cpu[c].step = step
Goto(c, step) == cpu' = [cpu EXCEPT ![c].step = step]
update_stat(c, keys) ==
    stats' = [stats EXCEPT ![c] = [k \in Stats |-> @[k] + (IF k \in keys THEN 1 ELSE 0)]]

(* The program up to the address. *)
XdpParse(c) ==
    /\ cpu[c] = Idle /\ wire # <<>>
    /\ LET f == Head(wire)
           step == CASE ~parse_eth(f) \/ f.ethertype # "ip" -> "pass"
                     [] parse_eth(f) /\ f.ethertype = "ip" /\ ~parse_ipv4(f) -> "drop"
                     [] OTHER -> "whitelist"
       IN  cpu' = [cpu EXCEPT ![c] = [frame |-> f, step |-> step, vetted |-> FALSE,
                                      white |-> {lookup(whitelist, f.src)},
                                      black |-> {lookup(blacklist, f.src)}]]
    /\ wire' = Tail(wire) /\ update_stat(c, {"total"})
    /\ UNCHANGED <<whitelist, blacklist, stack, updates, hits>>

(* Mutant: the lookup is made in the other map. *)
MutXdpWhitelist(c) ==
    /\ At(c, "whitelist")
    /\ Goto(c, IF lookup(blacklist, cpu[c].frame.src) = "hit" THEN "pass" ELSE "blacklist")
    /\ UNCHANGED <<wire, stats, whitelist, blacklist, stack, updates, hits>>

XdpWhitelist(c) ==
    /\ At(c, "whitelist")
    /\ Goto(c, IF lookup(whitelist, cpu[c].frame.src) = "hit" THEN "pass" ELSE "blacklist")
    /\ UNCHANGED <<wire, stats, whitelist, blacklist, stack, updates, hits>>

(* A hit is counted here and once more at the label drop. *)
XdpBlacklist(c) ==
    /\ At(c, "blacklist")
    /\ \/ /\ lookup(blacklist, cpu[c].frame.src) = "hit"
          /\ Goto(c, "drop") /\ update_stat(c, {"dropped"}) /\ hits' = [hits EXCEPT ![c] = @ + 1]
       \/ /\ lookup(blacklist, cpu[c].frame.src) = "miss"
          /\ Goto(c, "protocol") /\ UNCHANGED <<stats, hits>>
    /\ UNCHANGED <<wire, whitelist, blacklist, stack, updates>>

HeaderFits(f) == f.len >= EthLen + f.ihl * 4 + HeaderLen[f.protocol]

BadFlags(s) == s = {} \/ ("syn" \in s /\ s \cap {"fin", "rst"} # {})

Reflection == {53, 123, 1900, 11211}
Amplified(f) == f.sport \in Reflection /\ (f.udp_len - HeaderLen["udp"]) % U16 > 512

(* Mutant: the transport header is taken to follow a header without options. *)
MutProtocolDrops(f) ==
    \/ f.len < EthLen + IpLen + HeaderLen[f.protocol]
    \/ f.protocol = "tcp" /\ BadFlags(f.flags)
    \/ f.protocol = "udp" /\ Amplified(f)
    \/ f.protocol = "icmp" /\ (f.redirect \/ f.tot_len > 1500)

ProtocolDrops(f) ==
    \/ f.protocol # "other" /\ ~HeaderFits(f)
    \/ f.protocol = "tcp" /\ BadFlags(f.flags)
    \/ f.protocol = "udp" /\ Amplified(f)
    \/ f.protocol = "icmp" /\ (f.redirect \/ f.tot_len > 1500)

(* The counter of a frame whose header fits, dropped or not. *)
ProtocolCounter(f) ==
    CASE ~HeaderFits(f) \/ f.protocol = "other" -> {}
      [] HeaderFits(f) /\ f.protocol = "tcp" ->
            IF "syn" \in f.flags /\ "ack" \notin f.flags THEN {"syn"} ELSE {}
      [] OTHER -> {f.protocol}

(* The switch on the protocol; the fragment check has no effect. *)
XdpProtocol(c) ==
    /\ At(c, "protocol")
    /\ LET f == cpu[c].frame
       IN  /\ update_stat(c, ProtocolCounter(f))
           /\ cpu' = [cpu EXCEPT ![c].step = IF ProtocolDrops(f) THEN "drop" ELSE "pass",
                                 ![c].vetted = TRUE]
    /\ UNCHANGED <<wire, whitelist, blacklist, stack, updates, hits>>

XdpPass(c) ==
    /\ At(c, "pass")
    /\ update_stat(c, {"passed"}) /\ cpu' = [cpu EXCEPT ![c] = Idle]
    /\ stack' = Append(stack, [frame |-> cpu[c].frame, vetted |-> cpu[c].vetted])
    /\ UNCHANGED <<wire, whitelist, blacklist, updates, hits>>

(* Mutant: the label drop does not count. *)
MutXdpDrop(c) ==
    /\ At(c, "drop")
    /\ cpu' = [cpu EXCEPT ![c] = Idle]
    /\ UNCHANGED <<wire, stats, whitelist, blacklist, stack, updates, hits>>

XdpDrop(c) ==
    /\ At(c, "drop")
    /\ update_stat(c, {"dropped"}) /\ cpu' = [cpu EXCEPT ![c] = Idle]
    /\ UNCHANGED <<wire, whitelist, blacklist, stack, updates, hits>>

(* A tool outside src/ adds to a map or deletes from it, and every frame    *)
(* under way may see that.                                                  *)
MapUpdate(a) ==
    /\ updates < MaxUpdates /\ updates' = updates + 1
    /\ \/ whitelist' \in {whitelist \cup {a}, whitelist \ {a}} /\ UNCHANGED blacklist
       \/ blacklist' \in {blacklist \cup {a}, blacklist \ {a}} /\ UNCHANGED whitelist
    /\ cpu' = [c \in CPUs |-> IF cpu[c] = Idle THEN Idle ELSE
                  [cpu[c] EXCEPT !.white = @ \cup {lookup(whitelist', cpu[c].frame.src)},
                                 !.black = @ \cup {lookup(blacklist', cpu[c].frame.src)}]]
    /\ UNCHANGED <<wire, stats, stack, hits>>

XdpStep(c) == \/ XdpParse(c) \/ XdpWhitelist(c) \/ XdpBlacklist(c)
              \/ XdpProtocol(c) \/ XdpPass(c) \/ XdpDrop(c)

-----------------------------------------------------------------------------
Busy == {c \in CPUs : cpu[c] # Idle}

(* Each CPU's counters, and so their sums, account for every frame: total   *)
(* is passed and dropped, where a blacklisted frame counts twice as dropped *)
(* (:126, :219), and the frame whose invocation is under way.               *)
CountersBalance == \A c \in CPUs :
    stats[c]["total"] + hits[c]
      = stats[c]["passed"] + stats[c]["dropped"] + (IF c \in Busy THEN 1 ELSE 0)

HasAddress(f) == parse_eth(f) /\ f.ethertype = "ip" /\ parse_ipv4(f)

(* A frame with an IPv4 header whose source is on the whitelist and not on  *)
(* the blacklist from its arrival on is passed, one on the blacklist and    *)
(* not on the whitelist is dropped, whatever the tool does with other       *)
(* entries (:116-128).                                                      *)
ListsRespected == \A c \in Busy : HasAddress(cpu[c].frame) =>
    /\ cpu[c].white = {"hit"} /\ cpu[c].black = {"miss"} => cpu[c].step \in {"whitelist", "pass"}
    /\ cpu[c].white = {"miss"} /\ cpu[c].black = {"hit"} =>
          cpu[c].step \in {"whitelist", "blacklist", "drop"}

(* "Blacklist check -> Drop if found", before the whitelist                 *)
(* (ARCHITECTURE.md:233-234): a source on the blacklist is dropped.  The    *)
(* program asks the whitelist first (:118).                                 *)
BlacklistFirst == \A c \in Busy : HasAddress(cpu[c].frame) /\ cpu[c].black = {"hit"} =>
    cpu[c].step \in {"whitelist", "blacklist", "drop"}
=============================================================================
