------------------------------- MODULE Protect -------------------------------
(***************************************************************************)
(* The protection modules of src/src/detection (udp_protect.c,             *)
(* tcp_protect.c, icmp_protect.c, http_protect.c) working on the           *)
(* ip_stats_t of one source, called packet by packet as                    *)
(* analyzer_process_packet does: the blacklist first, then the modules in  *)
(* the order of the protocol, then the reputation.  The four modules count *)
(* in fields of their own but share one field, last_update, for the start  *)
(* of the one-second window.                                               *)
(*                                                                         *)
(* What the modules read from a packet is abstracted to the tests they     *)
(* make on it; the connection table is LruCache's.                         *)
(***************************************************************************)
EXTENDS Integers, FiniteSets

CONSTANTS Traffic,          \* the packets the source may send
          Limit,            \* config: threshold of each rate counter
          RstFinLimit,      \* 5000 in tcp_protect.c
          PshLimit,         \* 1000 in tcp_protect.c
          Wrap,             \* reputation_score is unsigned modulo Wrap (2^32)
          EnableHttp, EnableJsChallenge, EnableCaptcha,     \* config
          BlacklistDuration,    \* config: seconds a source stays on the blacklist
          FileAckLimit,     \* tcp_ack_pps of the configuration file
          Room,             \* what ipset_add_expiring may say: the list takes it or not
          MaxTime, MaxRate  \* bounds: clock, packets per second

Rates == {"udp_pps", "tcp_syn_pps", "tcp_ack_pps", "icmp_pps", "http_rps"}
Totals == {"rst", "fin", "psh"}     \* stats->packets[attack]
Flags == {"SYN", "SYNACK", "ACK", "PSHACK", "RST", "FIN", "other"}
NotHttp == [method |-> "none", agent |-> "none", bad |-> FALSE]
Requests == [method : {"GET", "POST", "other"}, agent : {"browser", "bot", "none"}, bad : BOOLEAN]
Packets == [proto : {"UDP"}, fate : {"ok", "amplified", "bad"}]
      \cup [proto : {"ICMP"}, fate : {"ok", "bad"}, ping : BOOLEAN]
      \cup [proto : {"TCP"}, flags : Flags, fate : {"ok", "bad", "crowded", "noconn"},
            http : Requests \cup {NotHttp}]

(* tcp_ack_pps_threshold is never set from the file: it keeps calloc's 0.  *)
ASSUME ProtectAssumption ==
    /\ Traffic \subseteq Packets
    /\ Limit \in [Rates -> Nat] /\ Limit["tcp_ack_pps"] = 0
    /\ RstFinLimit \in Nat /\ PshLimit \in Nat
    /\ Wrap \in Nat /\ Wrap > 200
    /\ {EnableHttp, EnableJsChallenge, EnableCaptcha} \subseteq BOOLEAN
    /\ {BlacklistDuration, FileAckLimit, MaxTime, MaxRate} \subseteq Nat
    /\ Room \subseteq BOOLEAN

VARIABLES stats,    \* the ip_stats_t: rates, totals, last_update, score
          is_blacklisted,   \* its flag
          listed_until,     \* expires of the source's entry in the blacklist
          now,      \* time(NULL)
          out,      \* the last packet's verdict and the rate judged a flood
          sent,     \* packets of this second
          cur, peak \* per rate: packets judged this second, and the most in one

vars == <<stats, is_blacklisted, listed_until, now, out, sent, cur, peak>>

Verdicts == {"ACCEPT", "DROP", "RATE_LIMIT", "CHALLENGE"}
NoFlood == "none"
NotListed == -1

-----------------------------------------------------------------------------
(* As analyzer_get_ip_stats fills a new block. *)
NewStats == [udp_pps |-> 0, tcp_syn_pps |-> 0, tcp_ack_pps |-> 0, icmp_pps |-> 0,
             http_rps |-> 0, rst |-> 0, fin |-> 0, psh |-> 0,
             last_update |-> 0, score |-> 50]

Result(s, v, f) == [stats |-> s, verdict |-> v, flood |-> f]

Count(s, c) == [s EXCEPT ![c] = @ + 1]
WindowOver(s) == now - s.last_update >= 1

(* Mutant: the threshold is compared with >=. *)
MutFlood(s, c) == WindowOver(s) /\ s[c] >= Limit[c]

(* The verdict returns before the reset: neither the counter nor            *)
(* last_update changes.                                                     *)
Flood(s, c) == WindowOver(s) /\ s[c] > Limit[c]

(* Mutant: the counter restarts with every packet. *)
MutNewWindow(s, c) == [s EXCEPT ![c] = 0, !.last_update = now]

NewWindow(s, c) ==
    IF WindowOver(s) THEN [s EXCEPT ![c] = 0, !.last_update = now] ELSE s

(* fate: amplification or reflection, small fragment or malformed. *)
udp_protect_analyze(s0, p) ==
    LET s == Count(s0, "udp_pps")
    IN  IF p.fate = "amplified" THEN Result(s0, "DROP", NoFlood)
        ELSE IF Flood(s, "udp_pps") THEN Result(s, "DROP", "udp_pps")
        ELSE Result(NewWindow(s, "udp_pps"), IF p.fate = "bad" THEN "DROP" ELSE "ACCEPT", NoFlood)

(* The checks that follow the rate checks.  fate: the connection is a      *)
(* slowloris, the packet malformed or its flags invalid; or the table is   *)
(* nearly full.                                                            *)
TcpChecks(s, p) ==
    Result(s, IF p.fate = "bad" \/ (p.fate = "crowded" /\ p.flags = "SYN" /\ s.score < 50)
              THEN "DROP" ELSE "ACCEPT", NoFlood)

(* An ACK resets its counter when the window is over, but not the window;  *)
(* the PSH+ACK total is compared but never counted up before.              *)
TcpAck(s, p) ==
    IF Flood(s, "tcp_ack_pps") THEN Result(s, "DROP", "tcp_ack_pps")
    ELSE LET r == IF WindowOver(s) THEN [s EXCEPT !.tcp_ack_pps = 0] ELSE s
         IN  IF p.flags = "PSHACK" /\ r.psh > PshLimit
             THEN Result(Count(r, "psh"), "DROP", NoFlood) ELSE TcpChecks(r, p)

(* fate "noconn": lru_cache_get could not allocate the entry. *)
tcp_protect_analyze(s0, p) ==
    IF p.fate = "noconn" THEN Result(s0, "ACCEPT", NoFlood)
    ELSE CASE p.flags = "SYN" ->
                LET s == Count(s0, "tcp_syn_pps")
                IN  IF Flood(s, "tcp_syn_pps") THEN Result(s, "DROP", "tcp_syn_pps")
                    ELSE TcpChecks(NewWindow(s, "tcp_syn_pps"), p)
           [] p.flags \in {"ACK", "PSHACK"} -> TcpAck(Count(s0, "tcp_ack_pps"), p)
           [] p.flags \in {"RST", "FIN"} ->
                LET c == IF p.flags = "RST" THEN "rst" ELSE "fin"
                    s == Count(s0, c)
                IN  IF s[c] > RstFinLimit THEN Result(s, "DROP", NoFlood) ELSE TcpChecks(s, p)
           [] OTHER -> TcpChecks(s0, p)

(* fate: oversized, fragment, redirect or broadcast reply. *)
icmp_protect_analyze(s0, p) ==
    LET s == Count(s0, "icmp_pps")
        r == NewWindow(s, "icmp_pps")
    IN  IF Flood(s, "icmp_pps") THEN Result(s, "DROP", "icmp_pps")
        ELSE IF p.fate = "bad" THEN Result(r, "DROP", NoFlood)
        ELSE IF ~p.ping /\ r.icmp_pps > Limit["icmp_pps"] \div 10
             THEN Result(r, "RATE_LIMIT", NoFlood)
        ELSE Result(r, "ACCEPT", NoFlood)

(* MAX(0, score - n) with an unsigned score: the MAX changes nothing. *)
Lower(s, n) == [s EXCEPT !.score = (@ - n) % Wrap]

(* MIN(100, score + 1) when score < 100. *)
Raise(s) == IF s.score < 100 THEN [s EXCEPT !.score = @ + 1] ELSE s

(* bad: header anomaly or slow POST. *)
http_protect_analyze(s0, q) ==
    LET s == Count(s0, "http_rps")
        r == NewWindow(s, "http_rps")
        a == IF q.agent = "none" THEN Lower(r, 5) ELSE r
    IN  IF ~EnableHttp THEN Result(s0, "ACCEPT", NoFlood)
        ELSE IF Flood(s, "http_rps") /\ q.method \in {"GET", "POST"}
             THEN Result(s, IF EnableJsChallenge THEN "CHALLENGE" ELSE "DROP", "http_rps")
        ELSE IF q.agent = "bot" THEN Result(Lower(r, 10), "DROP", NoFlood)
        ELSE IF q.bad THEN Result(a, "DROP", NoFlood)
        ELSE IF a.score < 20
             THEN Result(a, IF EnableCaptcha THEN "CHALLENGE" ELSE "DROP", NoFlood)
        ELSE Result(Raise(a), "ACCEPT", NoFlood)

(* The switch on the protocol, and HTTP after an accepted TCP segment. *)
Analyze(s, p) ==
    CASE p.proto = "UDP"  -> udp_protect_analyze(s, p)
      [] p.proto = "ICMP" -> icmp_protect_analyze(s, p)
      [] p.proto = "TCP"  -> LET t == tcp_protect_analyze(s, p)
                             IN  IF t.verdict = "ACCEPT" /\ p.http # NotHttp
                                 THEN http_protect_analyze(t.stats, p.http) ELSE t

(* What the verdict is worth: nothing is updated for the other verdicts. *)
Delta(v) == CASE v = "DROP" -> -10 [] v = "ACCEPT" -> 1 [] OTHER -> 0

(* Mutant: the score is not cut to 100. *)
MutReputed(s, v) == [s EXCEPT !.score = (@ + Delta(v)) % Wrap]

(* analyzer_update_reputation on the score: above 100 it is cut, `score <   *)
(* 0` is never true of an unsigned score.                                   *)
Reputed(s, v) ==
    LET sum == (s.score + Delta(v)) % Wrap
    IN  IF Delta(v) = 0 THEN s ELSE [s EXCEPT !.score = IF sum > 100 THEN 100 ELSE sum]

(* An entry of the blacklist that ipset_contains_cidr still counts. *)
Listed == listed_until # NotListed /\ now <= listed_until

-----------------------------------------------------------------------------
Init == /\ stats = NewStats /\ is_blacklisted = FALSE /\ listed_until = NotListed
        /\ now = 0 /\ sent = 0
        /\ out = [verdict |-> "ACCEPT", flood |-> NoFlood]
        /\ cur = [c \in Rates |-> 0] /\ peak = [c \in Rates |-> 0]

(* The rates a packet is counted in. *)
Counted(p) ==
    CASE p.proto = "UDP"  -> IF p.fate = "amplified" THEN {} ELSE {"udp_pps"}
      [] p.proto = "ICMP" -> {"icmp_pps"}
      [] p.proto = "TCP"  -> (IF p.flags = "SYN" THEN {"tcp_syn_pps"} ELSE {})
                        \cup (IF p.flags \in {"ACK", "PSHACK"} THEN {"tcp_ack_pps"} ELSE {})
                        \cup (IF p.http # NotHttp THEN {"http_rps"} ELSE {})

(* A source on the blacklist: no module sees the packet. *)
PacketListed ==
    /\ Listed
    /\ sent < MaxRate /\ sent' = sent + 1
    /\ is_blacklisted' = TRUE
    /\ out' = [verdict |-> "DROP", flood |-> NoFlood]
    /\ UNCHANGED <<stats, listed_until, now, cur, peak>>

(* The modules, then the reputation.  A score below 10 blacklists a source  *)
(* whose flag is not set; room says whether the list takes the address, the *)
(* result of ipset_add_expiring is ignored.                                 *)
Packet(p, room) ==
    LET r == Analyze(stats, p)
        s == Reputed(r.stats, r.verdict)
        ban == Delta(r.verdict) # 0 /\ s.score < 10 /\ ~is_blacklisted
        n == [c \in Rates |-> IF c \in Counted(p) THEN cur[c] + 1 ELSE cur[c]]
    IN  /\ ~Listed
        /\ sent < MaxRate /\ sent' = sent + 1
        /\ stats' = s
        /\ is_blacklisted' = (is_blacklisted \/ ban)
        /\ listed_until' = IF ban /\ room THEN now + BlacklistDuration ELSE listed_until
        /\ out' = [verdict |-> r.verdict, flood |-> r.flood]
        /\ cur' = n
        /\ peak' = [c \in Rates |-> IF n[c] > peak[c] THEN n[c] ELSE peak[c]]
        /\ UNCHANGED now

(* Time counts from the first packet, which creates the block. *)
Tick == /\ now > 0 \/ sent > 0
        /\ now < MaxTime /\ now' = now + 1
        /\ cur' = [c \in Rates |-> 0] /\ sent' = 0
        /\ UNCHANGED <<stats, is_blacklisted, listed_until, out, peak>>

Next == Tick \/ PacketListed \/ \E p \in Traffic, room \in Room : Packet(p, room)

Spec == Init /\ [][Next]_vars

-----------------------------------------------------------------------------
(* Every variable has its type; the score stays an unsigned number. *)
TypeOK == /\ \A c \in Rates \cup Totals : stats[c] \in Nat
          /\ stats.score \in 0..(Wrap - 1) /\ stats.last_update \in 0..now
          /\ is_blacklisted \in BOOLEAN
          /\ listed_until \in Nat \cup {NotListed}
          /\ now \in 0..MaxTime /\ sent \in 0..MaxRate
          /\ out \in [verdict : Verdicts, flood : Rates \cup {NoFlood}]
          /\ cur \in [Rates -> 0..MaxRate] /\ peak \in [Rates -> 0..MaxRate]

(* The source has sent nothing that is counted in another rate. *)
Alone(c) == \A d \in Rates \ {c} : peak[d] = 0

(* The comment "Calculate PPS over last second" (udp_protect.c:177) of a   *)
(* source whose packets are all counted in one rate, with nobody else to   *)
(* restart the window: it is judged a flood only if it sent at least the   *)
(* threshold in some one second.                                           *)
FloodNeedsRateAlone ==
    out.flood # NoFlood /\ Alone(out.flood) => peak[out.flood] >= Limit[out.flood]

(* A source of datagrams alone, or of ICMP messages alone, that sent more  *)
(* than the threshold in one second is not accepted when the next of its   *)
(* seconds begins, however its packets lay in the windows before.          *)
FloodCaught == [][\A p \in Traffic, room \in Room, c \in {"udp_pps", "icmp_pps"} :
    cur[c] = 0 /\ peak[c] > Limit[c] /\ Alone(c) /\ c \in Counted(p) /\ Packet(p, room)
      => out'.verdict # "ACCEPT"]_vars

(* "Per-IP reputation (0-100)" (ARCHITECTURE.md:86): although the HTTP      *)
(* module's subtractions go around at 0 (http_protect.c:205, 217) and some  *)
(* verdicts skip the reputation's cut to 100 (analyzer.c:386-391), the      *)
(* score is never above 100 once a packet is judged.                        *)
ScoreBounded == stats.score \in 0..100

-----------------------------------------------------------------------------
(* What the comments, the documentation and the configuration file say and  *)
(* the code does not do.                                                    *)

(* "Calculate PPS over last second" (udp_protect.c:177) of any source: it is *)
(* judged a flood only if it sent at least the threshold in some one second. *)
FloodNeedsRate == out.flood # NoFlood => peak[out.flood] >= Limit[out.flood]

(* The same comment of a source that was judged a flood: the verdict in a    *)
(* later second is about the last second, not about the window of the first. *)
FloodReconsidered == [][\A p \in Traffic, room \in Room :
    out.flood = "udp_pps" /\ cur["udp_pps"] = 0 /\ Packet(p, room) /\ out'.flood = "udp_pps"
      => now - stats.last_update <= 1]_vars

(* "tcp_ack_pps": 8000 (config/default.conf:13): ACKs are a flood only if    *)
(* that many came in one second.                                             *)
AckLimitKept == out.flood = "tcp_ack_pps" => peak["tcp_ack_pps"] >= FileAckLimit

(* "Lower reputation for bot-like behavior" (http_protect.c:204): a packet   *)
(* that is dropped does not raise the score of its source.                   *)
DropNotRewarded == [][\A p \in Traffic, room \in Room :
    Packet(p, room) /\ out'.verdict = "DROP" => stats'.score <= stats.score]_vars

(* "Auto-blacklist on low scores" (ARCHITECTURE.md:88): a source whose score *)
(* an update leaves below 10 is on the blacklist.                            *)
LowScoreListed == [][\A p \in Traffic, room \in Room :
    Packet(p, room) /\ Delta(out'.verdict) # 0 /\ stats'.score < 10 => Listed']_vars

-----------------------------------------------------------------------------
(* How the code comes to differ, for the proofs.                             *)

(* No packet brings a counter above its threshold down again: the verdict   *)
(* returns before the reset.  HTTP differs: a request that is neither GET   *)
(* nor POST resets its counter.                                             *)
FloodSticks == [][\A c \in Rates \ {"http_rps"} :
    stats[c] > Limit[c] => stats'[c] >= stats[c]]_vars

(* The threshold of ACKs is 0 and an ACK never restarts the window: a       *)
(* source of ACKs alone is shut out from its second second on, however few  *)
(* it sends (tcp_protect.c:153-198).                                        *)
AcksShutOut == [][\A p \in Traffic, room \in Room :
    now > 0 /\ Alone("tcp_ack_pps") /\ Counted(p) = {"tcp_ack_pps"}
         /\ p.fate # "noconn" /\ Packet(p, room)
      => out'.verdict = "DROP"]_vars
=============================================================================
