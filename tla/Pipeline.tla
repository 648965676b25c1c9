------------------------------ MODULE Pipeline ------------------------------
(***************************************************************************)
(* The packet path from the capture callback to the verdict's application: *)
(* packet_handler of src/src/core/main.c, analyzer_process_packet,         *)
(* analyzer_get_ip_stats and analyzer_update_reputation of                 *)
(* src/src/detection/analyzer.c.  One thread, the capture loop, runs it.   *)
(*                                                                         *)
(* The verdict of the protection modules on a packet is an input (Protect  *)
(* models them); expiry of blacklist entries is IpSet's.                   *)
(***************************************************************************)
EXTENDS Integers, FiniteSets

CONSTANTS IPs,
          Slots,            \* indices of ip_table
          Hash,             \* ip_stats_hash
          Null,
          AutoBlacklist,    \* config->auto_blacklist
          ScoreWrap,        \* reputation_score is unsigned modulo this (2^32)
          MaxPackets        \* bound on total_packets

(* What the theorems assume of the constants. *)
PathConstants ==
    /\ Hash \in [IPs -> Slots] /\ AutoBlacklist \in BOOLEAN
    /\ ScoreWrap \in Nat /\ ScoreWrap > 110 /\ MaxPackets \in Nat

VARIABLES table,        \* Slots -> the head of the chain, a stats block or Null
          leaked,       \* stats blocks allocated and reachable from nowhere
          blacklist, whitelist,     \* the addresses of the two IP sets
          global,       \* ctx->stats: total, dropped, rate_limited
          blocked,      \* addresses with a DROP rule by firewall_block_ip
          g_shutdown,
          found,        \* what analyzer_get_ip_stats last returned, and for whom
          starved       \* packets whose stats block could not be allocated

pathVars == <<table, leaked, blacklist, whitelist, global, blocked, g_shutdown, found, starved>>

Judgements == {"ACCEPT", "DROP", "RATE_LIMIT", "CHALLENGE"}
Block == [ip : IPs, score : 0..(ScoreWrap - 1), is_blacklisted : BOOLEAN, is_whitelisted : BOOLEAN]
NewBlock(ip) == [ip |-> ip, score |-> 50, is_blacklisted |-> FALSE, is_whitelisted |-> FALSE]

-----------------------------------------------------------------------------
(* analyzer_init. *)
PathInit == /\ table = [h \in Slots |-> Null] /\ leaked = 0
            /\ blacklist = {} /\ whitelist = {}
            /\ global = [total |-> 0, dropped |-> 0, rate_limited |-> 0]
            /\ blocked = {} /\ g_shutdown = FALSE
            /\ found = [ip |-> Null, stats |-> Null] /\ starved = 0

(* The walk steps from a block to itself: it ends only at an empty slot or  *)
(* a head with this address.  A new block is filled, and then the variable  *)
(* that holds it is overwritten by the head of the chain, which is NULL     *)
(* where this point is reached: the block is lost, the slot stays empty and *)
(* NULL is returned.                                                        *)
get_ip_stats(T, ip, alloc) ==
    LET head == T[Hash[ip]]
    IN  IF head # Null THEN [hangs |-> head.ip # ip, stats |-> head, table |-> T, leak |-> 0]
        ELSE [hangs |-> FALSE, stats |-> head,
              table |-> [T EXCEPT ![Hash[ip]] = head], leak |-> IF alloc THEN 1 ELSE 0]

(* analyzer_update_reputation on the block s: `score < 0` is never true of  *)
(* an unsigned score; a set is_blacklisted is never cleared.                *)
update_reputation(s, delta) ==
    LET sum == (s.score + delta) % ScoreWrap
        score == IF sum > 100 THEN 100 ELSE sum
    IN  [s EXCEPT !.score = score, !.is_blacklisted = @ \/ score < 10]

(* analyzer_process_packet once the statistics are found: the block         *)
(* afterwards, the verdict, and whether the address is newly blacklisted.   *)
Judge(s, v) ==
    LET delta == CASE v = "DROP" -> -10 [] v = "ACCEPT" -> 1 [] OTHER -> 0
        r == IF delta = 0 THEN s ELSE update_reputation(s, delta)
    IN  CASE s.ip \in whitelist -> [stats |-> [s EXCEPT !.is_whitelisted = TRUE],
                                    verdict |-> "ACCEPT", ban |-> FALSE]
          [] s.ip \notin whitelist /\ s.ip \in blacklist ->
                [stats |-> [s EXCEPT !.is_blacklisted = TRUE], verdict |-> "DROP", ban |-> FALSE]
          [] OTHER -> [stats |-> r, verdict |-> v,
                       ban |-> r.is_blacklisted /\ ~s.is_blacklisted]

(* The packet is counted, analyzed and its verdict applied; v is what the   *)
(* protection modules would say of it, alloc whether calloc succeeds.       *)
packet_handler(ip, v, alloc) ==
    LET g == get_ip_stats(table, ip, alloc)
        j == IF g.stats = Null THEN [stats |-> Null, verdict |-> "ACCEPT", ban |-> FALSE]
             ELSE Judge(g.stats, v)
    IN  /\ ~g_shutdown /\ global.total < MaxPackets
        /\ ~g.hangs
        /\ table' = IF g.stats = Null THEN g.table ELSE [g.table EXCEPT ![Hash[ip]] = j.stats]
        /\ leaked' = leaked + g.leak
        /\ starved' = starved + (IF alloc \/ g.stats # Null THEN 0 ELSE 1)
        /\ blacklist' = blacklist \cup (IF j.ban THEN {ip} ELSE {})
        /\ global' = [total |-> global.total + 1,
                      dropped |-> global.dropped + (IF j.verdict = "DROP" THEN 1 ELSE 0),
                      rate_limited |-> global.rate_limited
                                         + (IF j.verdict = "RATE_LIMIT" THEN 1 ELSE 0)]
        /\ blocked' = blocked \cup (IF j.verdict = "DROP" /\ AutoBlacklist THEN {ip} ELSE {})
        /\ found' = [ip |-> ip, stats |-> g.stats]
        /\ UNCHANGED <<whitelist, g_shutdown>>

(* SIGINT or SIGTERM: packets still captured are ignored from here on. *)
signal_handler ==
    /\ ~g_shutdown /\ g_shutdown' = TRUE
    /\ UNCHANGED <<table, leaked, blacklist, whitelist, global, blocked, found, starved>>

PathNext == signal_handler
         \/ \E ip \in IPs, v \in Judgements, alloc \in BOOLEAN : packet_handler(ip, v, alloc)

PathSpec == PathInit /\ [][PathNext]_pathVars

-----------------------------------------------------------------------------
(* Every variable has its type. *)
PathTypeOK == /\ table \in [Slots -> Block \cup {Null}]
              /\ leaked \in Nat /\ starved \in Nat
              /\ blacklist \subseteq IPs /\ whitelist \subseteq IPs /\ blocked \subseteq IPs
              /\ global \in [total : 0..MaxPackets, dropped : Nat, rate_limited : Nat]
              /\ g_shutdown \in BOOLEAN
              /\ found \in [ip : IPs \cup {Null}, stats : Block \cup {Null}]

(* The walk of a chain steps from a block to itself with the slot's lock    *)
(* held (analyzer.c:116-123): no sequence of packets, allocation failures   *)
(* and signals leaves a table in which looking up some address never ends.  *)
LookupEnds == \A ip \in IPs, alloc \in BOOLEAN : ~get_ip_stats(table, ip, alloc).hangs

-----------------------------------------------------------------------------
(* What the header and the status report say and the code does not do.      *)

(* "Get or create IP statistics" (analyzer.h:18): the packet found its      *)
(* source's statistics, unless there was no memory for them.                *)
StatsFound == found.ip # Null /\ starved = 0 => found.stats # Null

(* "Memory leak free" (STATUS.md:176). *)
NothingLeaked == leaked = 0

-----------------------------------------------------------------------------
(* How the code comes to differ, for the proofs.                            *)

(* As analyzer_get_ip_stats is, the pipeline fails open on every packet,    *)
(* whatever the protection modules would say: nothing is dropped, limited,  *)
(* blacklisted or blocked.                                                  *)
FailsOpen == global.dropped = 0 /\ global.rate_limited = 0 /\ blocked = {} /\ blacklist = {}

(* Every packet handled costs one stats block for good, unless there was no *)
(* memory for it: the process grows with the traffic.                       *)
LeakPerPacket == leaked + starved = global.total
=============================================================================
