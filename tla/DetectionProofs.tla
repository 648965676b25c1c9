-------------------------- MODULE DetectionProofs ---------------------------
(***************************************************************************)
(* Theorems about the detection.  Protect: each handler is first reduced   *)
(* to its effect on the fields of ip_stats_t (the lemmas ...Effect); the   *)
(* invariants are then about these effects only.  Pipeline, for            *)
(* any addresses, table size, hash and number of packets: the statistics   *)
(* table stays empty, hence every lookup ends, the packet path fails open  *)
(* and loses one block per packet.                                         *)
(***************************************************************************)
EXTENDS Protect, Pipeline, TLAPS

Fields == Rates \cup Totals \cup {"last_update", "score"}
StatsType == [Fields -> Nat]

(* TypeOK, the shape of the block, and why a rate's count of this second is  *)
(* bounded.                                                                  *)
TypeInv == TypeOK /\ stats \in StatsType /\ \A c \in Rates : cur[c] <= sent

(* What counting a packet in c does when the threshold is tested: the       *)
(* window goes on, or it is over and the verdict is a flood, or it is over  *)
(* and begins anew.                                                         *)
Judged(s, t, f, c) ==
    \/ /\ ~WindowOver(s) /\ f = NoFlood
       /\ t[c] = s[c] + 1 /\ t["last_update"] = s["last_update"]
    \/ /\ WindowOver(s) /\ s[c] + 1 > Limit[c] /\ f = c
       /\ t[c] = s[c] + 1 /\ t["last_update"] = s["last_update"]
    \/ /\ WindowOver(s) /\ s[c] + 1 <= Limit[c] /\ f = NoFlood
       /\ t[c] = 0 /\ t["last_update"] = now

(* The weaker form that covers all handlers: the packet may also be left     *)
(* uncounted, and the reset may come above the threshold (a request that is  *)
(* neither GET nor POST, http_protect.c:168-198).                            *)
MayJudge(s, t, f, c) ==
    \/ /\ f = NoFlood /\ t[c] = s[c] /\ t["last_update"] = s["last_update"]
    \/ /\ ~WindowOver(s) /\ f = NoFlood
       /\ t[c] = s[c] + 1 /\ t["last_update"] = s["last_update"]
    \/ /\ WindowOver(s) /\ s[c] + 1 > Limit[c] /\ f = c
       /\ t[c] = s[c] + 1 /\ t["last_update"] = s["last_update"]
    \/ /\ WindowOver(s) /\ f = NoFlood
       /\ t[c] = 0 /\ t["last_update"] = now

(* t is s except in the fields C. *)
Same(s, t, C) == t \in StatsType /\ \A d \in Fields \ C : t[d] = s[d]

-----------------------------------------------------------------------------
(* The most packets in one second include this second's.                     *)
PeakInv == \A c \in Rates : cur[c] <= peak[c]

(* A source alone in rate c that was never at the threshold in one second:   *)
(* the counter holds no more than one second's packets, and while the window *)
(* is young, no more than this second's.                                     *)
WindowInv == \A c \in Rates : Alone(c) =>
    \/ peak[c] >= Limit[c]
    \/ /\ stats[c] <= peak[c]
       /\ stats["last_update"] = now => stats[c] <= cur[c]

(* A source of ACKs alone never restarted the window. *)
AckInv == Alone("tcp_ack_pps") => stats["last_update"] = 0

(* A source alone in c: the packet that restarts the window is the only one  *)
(* of its second that is not in the counter; a second that did not restart   *)
(* the window found a flood; and what was above the threshold in one second  *)
(* left a counter at the threshold at least.                                 *)
CaughtInv == \A c \in {"udp_pps", "icmp_pps"} : Alone(c) =>
    /\ stats["last_update"] = now => cur[c] <= stats[c] + 1
    /\ stats["last_update"] = now /\ cur[c] = 0 => peak[c] = 0
    /\ stats["last_update"] < now /\ cur[c] > 0 => stats[c] > Limit[c]
    /\ peak[c] > Limit[c] => stats[c] >= Limit[c]

-----------------------------------------------------------------------------
(* Counting in a field changes that field (the ++ of the handlers).          *)
LEMMA CountField ==
    ASSUME NEW s \in StatsType, NEW c \in Rates \cup Totals
    PROVE  Count(s, c) \in StatsType /\ Count(s, c)[c] = s[c] + 1
           /\ \A d \in Fields \ {c} : Count(s, c)[d] = s[d]
  BY DEF Count, StatsType, Fields

(* A window that is over begins anew: the counter and last_update change.    *)
LEMMA NewWindowFields ==
    ASSUME NEW s \in StatsType, NEW c \in Rates, now \in Nat
    PROVE  LET t == NewWindow(s, c)
           IN  /\ Same(s, t, {c, "last_update"})
               /\ WindowOver(s) => t[c] = 0 /\ t["last_update"] = now
               /\ ~WindowOver(s) => t = s
  BY DEF NewWindow, Same, StatsType, Fields, Rates

(* The block of a new address has the shape of ip_stats_t.                   *)
LEMMA NewStatsType == NewStats \in StatsType /\ \A c \in Rates : NewStats[c] = 0
  BY DEF NewStats, StatsType, Fields, Rates, Totals

(* The types of what an analysis returns. *)
ResultOK(r) == /\ r.stats \in StatsType /\ r.stats["last_update"] <= now
               /\ r.verdict \in Verdicts /\ r.flood \in Rates \cup {NoFlood}

(* The pattern all handlers share: count, compare when the window is over,   *)
(* return before the reset or reset (udp_protect.c:175-191 and its copies).  *)
LEMMA CountAndJudge ==
    ASSUME NEW s \in StatsType, s["last_update"] <= now, now \in Nat, NEW c \in Rates,
           NEW u, u = Count(s, c), NEW w, w = NewWindow(u, c)
    PROVE  /\ {u, w} \subseteq StatsType
           /\ u["last_update"] <= now /\ w["last_update"] <= now
           /\ Same(s, u, {c, "last_update"}) /\ Same(s, w, {c, "last_update"})
           /\ u["last_update"] = s["last_update"] /\ u[c] = s[c] + 1
           /\ Flood(u, c) => Judged(s, u, c, c)
           /\ ~Flood(u, c) => Judged(s, w, NoFlood, c)
<1>1. /\ u \in StatsType /\ u[c] = s[c] + 1
      /\ \A d \in Fields \ {c} : u[d] = s[d]
  BY CountField
<1>2. u["last_update"] = s["last_update"] /\ (WindowOver(u) <=> WindowOver(s))
  BY <1>1 DEF Fields, Rates, WindowOver
<1>3. /\ Same(u, w, {c, "last_update"})
      /\ WindowOver(s) => w[c] = 0 /\ w["last_update"] = now
      /\ ~WindowOver(s) => w = u
  BY <1>1, <1>2, NewWindowFields
<1>4. Same(s, u, {c, "last_update"}) /\ Same(s, w, {c, "last_update"})
  BY <1>1, <1>3 DEF Same
<1>5. w \in StatsType /\ u["last_update"] <= now /\ w["last_update"] <= now
  BY <1>1, <1>2, <1>3 DEF Same
<1>6. Flood(u, c) => Judged(s, u, c, c)
  BY <1>1, <1>2 DEF Judged, Flood
<1>7. ~Flood(u, c) => Judged(s, w, NoFlood, c)
  <2>1. Limit[c] \in Nat /\ s[c] \in Nat
    BY ProtectAssumption DEF StatsType, Fields
  <2> QED
    BY <2>1, <1>1, <1>2, <1>3 DEF Judged, Flood
<1> QED
  BY <1>1, <1>2, <1>4, <1>5, <1>6, <1>7

(* The rates are names of fields. *)
LEMMA RateNames == /\ "udp_pps" \in Rates /\ "icmp_pps" \in Rates /\ "http_rps" \in Rates
                   /\ "tcp_syn_pps" \in Rates /\ "tcp_ack_pps" \in Rates
                   /\ NoFlood \notin Rates
  BY DEF Rates, NoFlood

(* udp_protect_analyze (udp_protect.c:157-219): an amplified datagram is     *)
(* dropped uncounted, every other one is judged in udp_pps.                  *)
LEMMA UdpEffect ==
    ASSUME NEW s \in StatsType, s["last_update"] <= now, now \in Nat,
           NEW p \in Packets, p.proto = "UDP",
           NEW r, r = udp_protect_analyze(s, p)
    PROVE  /\ ResultOK(r) /\ Same(s, r.stats, {"udp_pps", "last_update"})
           /\ p.fate = "amplified" => r.stats = s /\ r.flood = NoFlood
           /\ p.fate # "amplified" => Judged(s, r.stats, r.flood, "udp_pps")
           /\ r.flood # NoFlood => r.verdict = "DROP"
<1> DEFINE u == Count(s, "udp_pps")
           w == NewWindow(u, "udp_pps")
           v == IF p.fate = "bad" THEN "DROP" ELSE "ACCEPT"
<1>1. /\ {u, w} \subseteq StatsType /\ u["last_update"] <= now /\ w["last_update"] <= now
      /\ Same(s, u, {"udp_pps", "last_update"}) /\ Same(s, w, {"udp_pps", "last_update"})
      /\ Flood(u, "udp_pps") => Judged(s, u, "udp_pps", "udp_pps")
      /\ ~Flood(u, "udp_pps") => Judged(s, w, NoFlood, "udp_pps")
  BY CountAndJudge, RateNames
<1>2. Same(s, s, {"udp_pps", "last_update"})
  BY DEF Same
<1>3. \/ p.fate = "amplified" /\ r = [stats |-> s, verdict |-> "DROP", flood |-> NoFlood]
      \/ /\ p.fate # "amplified" /\ Flood(u, "udp_pps")
         /\ r = [stats |-> u, verdict |-> "DROP", flood |-> "udp_pps"]
      \/ /\ p.fate # "amplified" /\ ~Flood(u, "udp_pps")
         /\ r = [stats |-> w, verdict |-> v, flood |-> NoFlood]
  BY DEF udp_protect_analyze, Result
<1>4. v \in Verdicts /\ "DROP" \in Verdicts
  BY DEF Verdicts
<1> HIDE DEF u, w, v
<1> QED
  BY <1>1, <1>2, <1>3, <1>4, RateNames DEF ResultOK

(* icmp_protect_analyze (icmp_protect.c): every message is judged in         *)
(* icmp_pps, and a flood is dropped.                                         *)
LEMMA IcmpEffect ==
    ASSUME NEW s \in StatsType, s["last_update"] <= now, now \in Nat,
           NEW p, NEW r, r = icmp_protect_analyze(s, p)
    PROVE  /\ ResultOK(r) /\ Same(s, r.stats, {"icmp_pps", "last_update"})
           /\ Judged(s, r.stats, r.flood, "icmp_pps")
           /\ r.flood # NoFlood => r.verdict = "DROP"
<1> DEFINE u == Count(s, "icmp_pps")
           w == NewWindow(u, "icmp_pps")
<1>1. /\ {u, w} \subseteq StatsType /\ u["last_update"] <= now /\ w["last_update"] <= now
      /\ Same(s, u, {"icmp_pps", "last_update"}) /\ Same(s, w, {"icmp_pps", "last_update"})
      /\ Flood(u, "icmp_pps") => Judged(s, u, "icmp_pps", "icmp_pps")
      /\ ~Flood(u, "icmp_pps") => Judged(s, w, NoFlood, "icmp_pps")
  BY CountAndJudge, RateNames
<1>2. \/ /\ Flood(u, "icmp_pps")
         /\ r = [stats |-> u, verdict |-> "DROP", flood |-> "icmp_pps"]
      \/ /\ ~Flood(u, "icmp_pps")
         /\ \E v \in Verdicts : r = [stats |-> w, verdict |-> v, flood |-> NoFlood]
  BY DEF icmp_protect_analyze, Result, Verdicts
<1>3. "DROP" \in Verdicts
  BY DEF Verdicts
<1> HIDE DEF u, w
<1> QED
  BY <1>1, <1>2, <1>3, RateNames DEF ResultOK

(* What an ACK does: the threshold is 0, so that it is a flood as soon as    *)
(* the window is over, and the window is left alone (tcp_protect.c:175-198). *)
AckJudged(s, t, f) ==
    /\ t["tcp_ack_pps"] = s["tcp_ack_pps"] + 1 /\ t["last_update"] = s["last_update"]
    /\ f = IF WindowOver(s) THEN "tcp_ack_pps" ELSE NoFlood

(* The checks at the end of tcp_protect_analyze change nothing.              *)
LEMMA TcpChecksEffect ==
    \A s, p : \E v \in {"DROP", "ACCEPT"} :
        TcpChecks(s, p) = [stats |-> s, verdict |-> v, flood |-> NoFlood]
  BY DEF TcpChecks, Result

(* The ACK part of tcp_protect_analyze (tcp_protect.c:175-198).              *)
LEMMA TcpAckEffect ==
    ASSUME NEW s \in StatsType, s["last_update"] <= now, now \in Nat,
           NEW p, NEW r, r = TcpAck(Count(s, "tcp_ack_pps"), p)
    PROVE  /\ ResultOK(r) /\ Same(s, r.stats, {"tcp_ack_pps", "psh"})
           /\ AckJudged(s, r.stats, r.flood)
           /\ r.flood # NoFlood => r.verdict = "DROP"
<1> DEFINE u == Count(s, "tcp_ack_pps")
<1>1. /\ u \in StatsType /\ u["tcp_ack_pps"] = s["tcp_ack_pps"] + 1
      /\ \A d \in Fields \ {"tcp_ack_pps"} : u[d] = s[d]
  BY CountField, RateNames
<1>2. s["tcp_ack_pps"] \in Nat /\ Limit["tcp_ack_pps"] = 0
      /\ u["last_update"] = s["last_update"] /\ (WindowOver(u) <=> WindowOver(s))
  BY <1>1, RateNames, ProtectAssumption DEF StatsType, Fields, Rates, WindowOver
<1>3. Flood(u, "tcp_ack_pps") <=> WindowOver(s)
  BY <1>1, <1>2 DEF Flood
<1>4. Same(s, u, {"tcp_ack_pps", "psh"}) /\ AckJudged(s, u, IF WindowOver(s) THEN "tcp_ack_pps" ELSE NoFlood)
  BY <1>1, <1>2 DEF Same, AckJudged
<1>5. "psh" \in Totals /\ "DROP" \in Verdicts /\ "ACCEPT" \in Verdicts /\ "psh" # "tcp_ack_pps"
      /\ "psh" # "last_update" /\ "last_update" \in Fields /\ "tcp_ack_pps" \in Fields
  BY DEF Totals, Verdicts, Fields, Rates
<1> HIDE DEF u
<1>6. CASE WindowOver(s)
  <2>1. r = [stats |-> u, verdict |-> "DROP", flood |-> "tcp_ack_pps"]
    BY <1>3, <1>6 DEF TcpAck, Result, u
  <2> QED
    BY <2>1, <1>1, <1>2, <1>4, <1>5, <1>6, RateNames DEF ResultOK
<1>7. CASE ~WindowOver(s)
  <2> DEFINE x == Count(u, "psh")
  <2>1. x \in StatsType /\ \A d \in Fields \ {"psh"} : x[d] = u[d]
    BY <1>1, <1>5, CountField
  <2>2. x["last_update"] = s["last_update"] /\ x["tcp_ack_pps"] = u["tcp_ack_pps"]
    BY <2>1, <1>2, <1>5
  <2>3. Same(s, x, {"tcp_ack_pps", "psh"}) /\ AckJudged(s, x, NoFlood)
    BY <2>1, <2>2, <1>1, <1>7 DEF Same, AckJudged
  <2>4. \/ r = [stats |-> x, verdict |-> "DROP", flood |-> NoFlood]
        \/ r = TcpChecks(u, p)
    BY <1>2, <1>3, <1>7 DEF TcpAck, Result, u
  <2>5. \E v \in Verdicts : \/ r = [stats |-> x, verdict |-> v, flood |-> NoFlood]
                           \/ r = [stats |-> u, verdict |-> v, flood |-> NoFlood]
    BY <2>4, <1>5, TcpChecksEffect
  <2> HIDE DEF x
  <2> QED
    BY <2>1, <2>2, <2>3, <2>5, <1>1, <1>2, <1>4, <1>7, RateNames DEF ResultOK
<1> QED
  BY <1>6, <1>7

(* tcp_protect_analyze (tcp_protect.c:118-263): a SYN is judged in           *)
(* tcp_syn_pps, an ACK in tcp_ack_pps; no other segment touches a rate.      *)
LEMMA TcpEffect ==
    ASSUME NEW s \in StatsType, s["last_update"] <= now, now \in Nat,
           NEW p \in Packets, p.proto = "TCP",
           NEW r, r = tcp_protect_analyze(s, p)
    PROVE  /\ ResultOK(r)
           /\ r.flood # NoFlood => r.verdict = "DROP"
           /\ p.fate = "noconn" => r.stats = s /\ r.flood = NoFlood
           /\ p.fate # "noconn" /\ p.flags = "SYN" =>
                 /\ Same(s, r.stats, {"tcp_syn_pps", "last_update"})
                 /\ Judged(s, r.stats, r.flood, "tcp_syn_pps")
           /\ p.fate # "noconn" /\ p.flags \in {"ACK", "PSHACK"} =>
                 /\ Same(s, r.stats, {"tcp_ack_pps", "psh"})
                 /\ AckJudged(s, r.stats, r.flood)
           /\ p.flags \notin {"SYN", "ACK", "PSHACK"} =>
                 Same(s, r.stats, {"rst", "fin"}) /\ r.flood = NoFlood
<1>1. "rst" \in Totals /\ "fin" \in Totals /\ "DROP" \in Verdicts /\ "ACCEPT" \in Verdicts
      /\ "last_update" \in Fields \ {"rst", "fin"}
  BY DEF Totals, Verdicts, Fields
<1>2. CASE p.fate = "noconn"
  <2>1. r = [stats |-> s, verdict |-> "ACCEPT", flood |-> NoFlood]
    BY <1>2 DEF tcp_protect_analyze, Result
  <2> QED
    BY <2>1, <1>1, <1>2 DEF ResultOK, Same
<1>3. CASE p.fate # "noconn" /\ p.flags = "SYN"
  <2> DEFINE u == Count(s, "tcp_syn_pps")
             w == NewWindow(u, "tcp_syn_pps")
  <2>1. /\ {u, w} \subseteq StatsType /\ u["last_update"] <= now /\ w["last_update"] <= now
        /\ Same(s, u, {"tcp_syn_pps", "last_update"}) /\ Same(s, w, {"tcp_syn_pps", "last_update"})
        /\ Flood(u, "tcp_syn_pps") => Judged(s, u, "tcp_syn_pps", "tcp_syn_pps")
        /\ ~Flood(u, "tcp_syn_pps") => Judged(s, w, NoFlood, "tcp_syn_pps")
    BY CountAndJudge, RateNames
  <2>2. \/ /\ Flood(u, "tcp_syn_pps")
           /\ r = [stats |-> u, verdict |-> "DROP", flood |-> "tcp_syn_pps"]
        \/ ~Flood(u, "tcp_syn_pps") /\ r = TcpChecks(w, p)
    BY <1>3 DEF tcp_protect_analyze, Result
  <2>3. \/ /\ Flood(u, "tcp_syn_pps")
           /\ r = [stats |-> u, verdict |-> "DROP", flood |-> "tcp_syn_pps"]
        \/ /\ ~Flood(u, "tcp_syn_pps")
           /\ \E v \in Verdicts : r = [stats |-> w, verdict |-> v, flood |-> NoFlood]
    BY <2>2, <1>1, TcpChecksEffect
  <2> HIDE DEF u, w
  <2> QED
    BY <2>1, <2>3, <1>1, <1>3, RateNames DEF ResultOK
<1>4. CASE p.fate # "noconn" /\ p.flags \in {"ACK", "PSHACK"}
  <2>1. r = TcpAck(Count(s, "tcp_ack_pps"), p)
    BY <1>4 DEF tcp_protect_analyze
  <2> QED
    BY <2>1, <1>4, TcpAckEffect
<1>5. CASE p.fate # "noconn" /\ p.flags \in {"RST", "FIN"}
  <2> DEFINE c == IF p.flags = "RST" THEN "rst" ELSE "fin"
             u == Count(s, c)
  <2>1. u \in StatsType /\ \A d \in Fields \ {c} : u[d] = s[d]
    BY <1>1, CountField
  <2>2. Same(s, u, {"rst", "fin"}) /\ u["last_update"] = s["last_update"]
    BY <2>1, <1>1 DEF Same
  <2>3. \/ r = [stats |-> u, verdict |-> "DROP", flood |-> NoFlood]
        \/ r = TcpChecks(u, p)
    BY <1>5 DEF tcp_protect_analyze, Result
  <2>4. \E v \in Verdicts : r = [stats |-> u, verdict |-> v, flood |-> NoFlood]
    BY <2>3, <1>1, TcpChecksEffect
  <2> HIDE DEF u
  <2> QED
    BY <2>1, <2>2, <2>4, <1>5 DEF ResultOK
<1>6. CASE p.fate # "noconn" /\ p.flags \notin {"SYN", "ACK", "PSHACK", "RST", "FIN"}
  <2>1. r = TcpChecks(s, p)
    BY <1>6 DEF tcp_protect_analyze
  <2>2. \E v \in Verdicts : r = [stats |-> s, verdict |-> v, flood |-> NoFlood]
    BY <2>1, <1>1, TcpChecksEffect
  <2> QED
    BY <2>2, <1>6 DEF ResultOK, Same
<1> QED
  BY <1>2, <1>3, <1>4, <1>5, <1>6

-----------------------------------------------------------------------------
(* What an analysis may do to a score: it stays an unsigned number, and a    *)
(* verdict that the reputation skips leaves no score that went around.       *)
ScoreKept(a, b, v) ==
    /\ a \in 0..(Wrap - 1) => b \in 0..(Wrap - 1)
    /\ Delta(v) = 0 /\ a \in 0..100 => b <= 100

(* Lowering the score keeps the block's shape and changes nothing else       *)
(* (http_protect.c:205, 217).                                                *)
LEMMA LowerFields ==
    ASSUME NEW s \in StatsType, NEW n \in {5, 10}
    PROVE  /\ Same(s, Lower(s, n), {"score"})
           /\ Lower(s, n)["score"] = (s["score"] - n) % Wrap
<1>1. s["score"] \in Nat /\ Wrap \in Nat /\ Wrap > 200 /\ "score" \in Fields
  BY ProtectAssumption DEF StatsType, Fields
<1>2. (s["score"] - n) % Wrap \in Nat
  BY <1>1, SMT
<1> DEFINE x == (s["score"] - n) % Wrap
<1>3. Lower(s, n) = [s EXCEPT !["score"] = x]
  BY DEF Lower
<1> HIDE DEF x
<1>4. [s EXCEPT !["score"] = x] \in StatsType /\ [s EXCEPT !["score"] = x]["score"] = x
      /\ \A d \in Fields \ {"score"} : [s EXCEPT !["score"] = x][d] = s[d]
  BY <1>1, <1>2 DEF StatsType, x
<1> QED
  BY <1>3, <1>4 DEF Same, x

(* Raising it does too (http_protect.c:266).                                 *)
LEMMA RaiseFields ==
    ASSUME NEW s \in StatsType
    PROVE  /\ Same(s, Raise(s), {"score"})
           /\ Raise(s)["score"] = IF s["score"] < 100 THEN s["score"] + 1 ELSE s["score"]
  BY DEF Raise, Same, StatsType, Fields

(* http_protect_analyze (http_protect.c:155-271).                            *)
LEMMA HttpEffect ==
    ASSUME NEW s \in StatsType, s["last_update"] <= now, now \in Nat,
           NEW q, NEW r, r = http_protect_analyze(s, q)
    PROVE  /\ ResultOK(r) /\ Same(s, r.stats, {"http_rps", "last_update", "score"})
           /\ MayJudge(s, r.stats, r.flood, "http_rps")
           /\ ScoreKept(s["score"], r.stats["score"], r.verdict)
<1> DEFINE u == Count(s, "http_rps")
           w == NewWindow(u, "http_rps")
           a == IF q.agent = "none" THEN Lower(w, 5) ELSE w
           C == {"http_rps", "last_update", "score"}
<1>1. /\ u \in StatsType /\ w \in StatsType /\ u["last_update"] <= now /\ w["last_update"] <= now
      /\ Same(s, u, {"http_rps", "last_update"}) /\ Same(s, w, {"http_rps", "last_update"})
      /\ u["last_update"] = s["last_update"] /\ u["http_rps"] = s["http_rps"] + 1
      /\ Flood(u, "http_rps") => Judged(s, u, "http_rps", "http_rps")
  BY CountAndJudge, RateNames
<1>2. (WindowOver(u) <=> WindowOver(s)) /\ s["http_rps"] \in Nat
  BY <1>1, RateNames DEF WindowOver, StatsType, Fields
<1>3. /\ WindowOver(s) => w["http_rps"] = 0 /\ w["last_update"] = now
      /\ ~WindowOver(s) => w = u
  BY <1>1, <1>2, RateNames, NewWindowFields
<1>4. /\ "score" \in Fields \ {"http_rps", "last_update"}
      /\ {"http_rps", "last_update"} \subseteq Fields \ {"score"}
  BY RateNames DEF Fields
<1>5. MayJudge(s, s, NoFlood, "http_rps") /\ MayJudge(s, w, NoFlood, "http_rps")
      /\ (Flood(u, "http_rps") => MayJudge(s, u, "http_rps", "http_rps"))
  BY <1>1, <1>2, <1>3 DEF MayJudge, Flood
<1>6. Same(s, s, C) /\ Same(s, u, C) /\ Same(s, w, C)
      /\ u["score"] = s["score"] /\ w["score"] = s["score"]
  BY <1>1, <1>4 DEF Same
<1> HIDE DEF w, u
<1>7. ASSUME NEW t \in StatsType, NEW b, Same(t, b, {"score"}), Same(s, t, C),
             MayJudge(s, t, NoFlood, "http_rps"), t["last_update"] <= now
      PROVE  b \in StatsType /\ Same(s, b, C) /\ MayJudge(s, b, NoFlood, "http_rps") /\ b["last_update"] <= now
  <2>1. b \in StatsType /\ b["last_update"] = t["last_update"] /\ b["http_rps"] = t["http_rps"]
    BY <1>4, <1>7 DEF Same
  <2>2. Same(s, b, C)
    BY <2>1, <1>7 DEF Same
  <2> QED
    BY <2>1, <2>2, <1>7 DEF MayJudge
<1>8. /\ Same(w, Lower(w, 10), {"score"}) /\ Lower(w, 10)["score"] = (s["score"] - 10) % Wrap
      /\ Same(w, Lower(w, 5), {"score"}) /\ Lower(w, 5)["score"] = (s["score"] - 5) % Wrap
  BY <1>1, <1>6, LowerFields
<1>9. /\ Same(w, a, {"score"})
      /\ a["score"] = s["score"] \/ a["score"] = (s["score"] - 5) % Wrap
  BY <1>1, <1>6, <1>8 DEF Same
<1>10. a \in StatsType /\ Same(s, a, C) /\ MayJudge(s, a, NoFlood, "http_rps") /\ a["last_update"] <= now
  BY <1>1, <1>5, <1>6, <1>7, <1>9
<1>11. /\ Same(a, Raise(a), {"score"})
       /\ Raise(a)["score"] = IF a["score"] < 100 THEN a["score"] + 1 ELSE a["score"]
  BY <1>10, RaiseFields
<1>12. /\ Raise(a) \in StatsType /\ Same(s, Raise(a), C) /\ MayJudge(s, Raise(a), NoFlood, "http_rps")
       /\ Raise(a)["last_update"] <= now
  BY <1>7, <1>10, <1>11
<1>13. /\ Lower(w, 10) \in StatsType /\ Same(s, Lower(w, 10), C)
       /\ MayJudge(s, Lower(w, 10), NoFlood, "http_rps") /\ Lower(w, 10)["last_update"] <= now
  BY <1>1, <1>5, <1>6, <1>7, <1>8
<1>14. /\ \A v : ScoreKept(s["score"], s["score"], v) /\ ScoreKept(s["score"], u["score"], v)
       /\ ScoreKept(s["score"], a["score"], "DROP")
       /\ a["score"] < 20 => ScoreKept(s["score"], a["score"], "CHALLENGE")
       /\ ScoreKept(s["score"], Raise(a)["score"], "ACCEPT")
       /\ ScoreKept(s["score"], Lower(w, 10)["score"], "DROP")
  <2>1. Wrap \in Nat /\ Wrap > 200 /\ Delta("DROP") = -10 /\ Delta("ACCEPT") = 1
    BY ProtectAssumption DEF Delta
  <2>2. (s["score"] - 5) % Wrap \in 0..(Wrap - 1) /\ (s["score"] - 10) % Wrap \in 0..(Wrap - 1)
    <3>1. s["score"] \in Nat
      BY <1>4 DEF StatsType
    <3> QED
      BY <3>1, <2>1
  <2>3. \A v : ScoreKept(s["score"], s["score"], v) /\ ScoreKept(s["score"], u["score"], v)
    BY <1>6, <2>1 DEF ScoreKept
  <2>4. s["score"] \in 0..(Wrap - 1) => a["score"] \in 0..(Wrap - 1)
    BY <1>9, <2>2
  <2>5. s["score"] \in 0..(Wrap - 1) => Raise(a)["score"] \in 0..(Wrap - 1)
    BY <2>1, <2>4, <1>11
  <2> HIDE DEF a
  <2> QED
    BY <1>8, <2>1, <2>2, <2>3, <2>4, <2>5 DEF ScoreKept
<1>15. \/ r = [stats |-> s, verdict |-> "ACCEPT", flood |-> NoFlood]
       \/ /\ Flood(u, "http_rps")
          /\ \E v \in Verdicts : r = [stats |-> u, verdict |-> v, flood |-> "http_rps"]
       \/ r = [stats |-> Lower(w, 10), verdict |-> "DROP", flood |-> NoFlood]
       \/ r = [stats |-> a, verdict |-> "DROP", flood |-> NoFlood]
       \/ a["score"] < 20 /\ r = [stats |-> a, verdict |-> "CHALLENGE", flood |-> NoFlood]
       \/ r = [stats |-> Raise(a), verdict |-> "ACCEPT", flood |-> NoFlood]
  BY DEF http_protect_analyze, Result, Verdicts, u, w
<1>16. {"ACCEPT", "DROP", "CHALLENGE"} \subseteq Verdicts
  BY DEF Verdicts
<1> HIDE DEF a, C
<1>17. ResultOK(r) /\ Same(s, r.stats, C)
  BY <1>1, <1>6, <1>10, <1>12, <1>13, <1>15, <1>16, RateNames DEF ResultOK
<1>18. MayJudge(s, r.stats, r.flood, "http_rps") /\ ScoreKept(s["score"], r.stats["score"], r.verdict)
  BY <1>5, <1>10, <1>12, <1>13, <1>14, <1>15
<1> QED
  BY <1>17, <1>18 DEF C

-----------------------------------------------------------------------------
(* All that the invariants need to know of analyzer_process_packet's switch. *)
Effect(s, p, r) ==
    /\ ResultOK(r)
    /\ \A c \in Rates \ {"http_rps"} : s[c] > Limit[c] => r.stats[c] >= s[c]
    /\ \A c \in Rates : Counted(p) \subseteq {c} =>
          /\ MayJudge(s, r.stats, r.flood, c)
          /\ c \notin Counted(p) => r.stats[c] = s[c] /\ r.stats["last_update"] = s["last_update"]
    /\ \A c \in {"udp_pps", "icmp_pps"} : c \in Counted(p) =>
          Judged(s, r.stats, r.flood, c) /\ (r.flood # NoFlood => r.verdict = "DROP")
    /\ Counted(p) \subseteq {"tcp_ack_pps"} => r.stats["last_update"] = s["last_update"]
    /\ Counted(p) = {"tcp_ack_pps"} /\ p.fate # "noconn" =>
          AckJudged(s, r.stats, r.flood) /\ (r.flood # NoFlood => r.verdict = "DROP")

(* Judged is one of the ways of MayJudge, and never lowers a counter that is *)
(* above its threshold.                                                      *)
LEMMA JudgedMay ==
    ASSUME NEW s \in StatsType, NEW t, NEW f, NEW c \in Rates, Judged(s, t, f, c)
    PROVE  MayJudge(s, t, f, c) /\ (s[c] > Limit[c] => t[c] >= s[c])
<1>1. Limit[c] \in Nat /\ s[c] \in Nat
  BY ProtectAssumption DEF StatsType, Fields
<1> QED
  BY <1>1 DEF Judged, MayJudge

(* A UDP datagram or an ICMP message: one handler, one rate.                 *)
LEMMA DatagramEffect ==
    ASSUME NEW s \in StatsType, s["last_update"] <= now, now \in Nat,
           NEW p \in Packets, p.proto \in {"UDP", "ICMP"}, NEW r, r = Analyze(s, p)
    PROVE  Effect(s, p, r) /\ ScoreKept(s["score"], r.stats["score"], r.verdict)
<1>1. \A c \in Rates : s[c] \in Nat /\ c \in Fields /\ c # "last_update" /\ c # "score"
  BY DEF StatsType, Fields, Rates
<1>2. "score" \in Fields /\ "last_update" \in Fields
  BY DEF Fields
<1>3. CASE p.proto = "UDP"
  <2>1. r = udp_protect_analyze(s, p)
    BY <1>3 DEF Analyze
  <2>2. Counted(p) = IF p.fate = "amplified" THEN {} ELSE {"udp_pps"}
    BY <1>3 DEF Counted
  <2>3. /\ ResultOK(r) /\ Same(s, r.stats, {"udp_pps", "last_update"})
        /\ p.fate = "amplified" => r.stats = s /\ r.flood = NoFlood
        /\ p.fate # "amplified" => Judged(s, r.stats, r.flood, "udp_pps")
        /\ r.flood # NoFlood => r.verdict = "DROP"
    BY <2>1, <1>3, UdpEffect
  <2>4. \A c \in Rates \ {"udp_pps"} : r.stats[c] = s[c]
    BY <2>3, <1>1 DEF Same
  <2>5. r.stats["score"] = s["score"]
    BY <2>3, <1>2, RateNames DEF Same
  <2>6. CASE p.fate = "amplified"
    BY <2>2, <2>3, <2>5, <2>6, <1>1, RateNames DEF Effect, ScoreKept, MayJudge
  <2>7. CASE p.fate # "amplified"
    <3>1. MayJudge(s, r.stats, r.flood, "udp_pps")
          /\ (s["udp_pps"] > Limit["udp_pps"] => r.stats["udp_pps"] >= s["udp_pps"])
      BY <2>3, <2>7, RateNames, JudgedMay
    <3> QED
      BY <3>1, <2>2, <2>3, <2>4, <2>5, <2>7, <1>1, RateNames DEF Effect, ScoreKept
  <2> QED
    BY <2>6, <2>7
<1>4. CASE p.proto = "ICMP"
  <2>1. r = icmp_protect_analyze(s, p)
    BY <1>4 DEF Analyze
  <2>2. Counted(p) = {"icmp_pps"}
    BY <1>4 DEF Counted
  <2>3. /\ ResultOK(r) /\ Same(s, r.stats, {"icmp_pps", "last_update"})
        /\ Judged(s, r.stats, r.flood, "icmp_pps")
        /\ r.flood # NoFlood => r.verdict = "DROP"
    BY <2>1, IcmpEffect
  <2>4. \A c \in Rates \ {"icmp_pps"} : r.stats[c] = s[c]
    BY <2>3, <1>1 DEF Same
  <2>5. r.stats["score"] = s["score"]
    BY <2>3, <1>2, RateNames DEF Same
  <2>6. MayJudge(s, r.stats, r.flood, "icmp_pps")
        /\ (s["icmp_pps"] > Limit["icmp_pps"] => r.stats["icmp_pps"] >= s["icmp_pps"])
    BY <2>3, RateNames, JudgedMay
  <2> QED
    BY <2>2, <2>3, <2>4, <2>5, <2>6, <1>1, RateNames DEF Effect, ScoreKept
<1> QED
  BY <1>3, <1>4

(* A TCP segment: tcp_protect_analyze, and http_protect_analyze on what it   *)
(* left when it accepts a request.                                           *)
LEMMA SegmentEffect ==
    ASSUME NEW s \in StatsType, s["last_update"] <= now, now \in Nat,
           NEW p \in Packets, p.proto = "TCP", NEW r, r = Analyze(s, p)
    PROVE  Effect(s, p, r) /\ ScoreKept(s["score"], r.stats["score"], r.verdict)
<1> DEFINE t == tcp_protect_analyze(s, p)
           x == t.stats
           TcpRate == {"SYN", "ACK", "PSHACK"}
<1>1. \A c \in Rates : /\ s[c] \in Nat /\ Limit[c] \in Nat /\ c \in Fields
                       /\ c # "last_update" /\ c # "score" /\ c \notin {"rst", "fin", "psh"}
  BY ProtectAssumption DEF StatsType, Fields, Rates
<1>2. /\ "score" \in Fields /\ "last_update" \in Fields
      /\ "score" \notin Rates \cup {"last_update", "rst", "fin", "psh"}
      /\ "last_update" \notin Rates \cup {"rst", "fin", "psh"}
  BY DEF Fields, Rates
<1>3. /\ p.flags = "SYN" => Counted(p) \cap {"tcp_syn_pps", "tcp_ack_pps"} = {"tcp_syn_pps"}
      /\ p.flags \in {"ACK", "PSHACK"} => Counted(p) \cap {"tcp_syn_pps", "tcp_ack_pps"} = {"tcp_ack_pps"}
      /\ p.flags \notin TcpRate => Counted(p) \cap {"tcp_syn_pps", "tcp_ack_pps"} = {}
      /\ "http_rps" \in Counted(p) <=> p.http # NotHttp
      /\ Counted(p) \subseteq {"tcp_syn_pps", "tcp_ack_pps", "http_rps"}
  BY DEF Counted
<1>4. /\ ResultOK(t)
      /\ t.flood # NoFlood => t.verdict = "DROP"
      /\ p.fate = "noconn" => x = s /\ t.flood = NoFlood
      /\ p.fate # "noconn" /\ p.flags = "SYN" =>
             Same(s, x, {"tcp_syn_pps", "last_update"}) /\ Judged(s, x, t.flood, "tcp_syn_pps")
      /\ p.fate # "noconn" /\ p.flags \in {"ACK", "PSHACK"} =>
             Same(s, x, {"tcp_ack_pps", "psh"}) /\ AckJudged(s, x, t.flood)
      /\ p.flags \notin TcpRate => Same(s, x, {"rst", "fin"}) /\ t.flood = NoFlood
  BY TcpEffect
<1> HIDE DEF t
<1>5. x \in StatsType /\ x["last_update"] <= now
  BY <1>4 DEF ResultOK
<1>6. p.flags \notin TcpRate => x["last_update"] = s["last_update"] /\ \A c \in Rates : x[c] = s[c]
  BY <1>1, <1>2, <1>4 DEF Same
<1>7. /\ x["score"] = s["score"] /\ x["http_rps"] = s["http_rps"]
      /\ x["udp_pps"] = s["udp_pps"] /\ x["icmp_pps"] = s["icmp_pps"]
  BY <1>1, <1>2, <1>4, RateNames DEF Same
<1>8. p.flags = "SYN" =>
         /\ MayJudge(s, x, t.flood, "tcp_syn_pps")
         /\ s["tcp_syn_pps"] > Limit["tcp_syn_pps"] => x["tcp_syn_pps"] >= s["tcp_syn_pps"]
         /\ x["tcp_ack_pps"] = s["tcp_ack_pps"]
  <2>1. CASE p.fate = "noconn"
    BY <2>1, <1>1, <1>4, RateNames DEF MayJudge
  <2>2. CASE p.fate # "noconn" /\ p.flags = "SYN"
    BY <2>2, <1>1, <1>4, JudgedMay, RateNames DEF Same
  <2> QED
    BY <2>1, <2>2
<1>9. p.flags \in {"ACK", "PSHACK"} =>
         /\ MayJudge(s, x, t.flood, "tcp_ack_pps")
         /\ x["tcp_ack_pps"] >= s["tcp_ack_pps"]
         /\ x["tcp_syn_pps"] = s["tcp_syn_pps"]
         /\ x["last_update"] = s["last_update"]
  <2>1. CASE p.fate = "noconn"
    BY <2>1, <1>1, <1>4, RateNames DEF MayJudge
  <2>2. CASE p.fate # "noconn" /\ p.flags \in {"ACK", "PSHACK"}
    <3>1. Limit["tcp_ack_pps"] = 0
      BY ProtectAssumption
    <3>2. AckJudged(s, x, t.flood) /\ x["tcp_syn_pps"] = s["tcp_syn_pps"]
      BY <2>2, <1>1, <1>4, RateNames DEF Same
    <3> QED
      BY <3>1, <3>2, <1>1, RateNames DEF AckJudged, MayJudge
  <2> QED
    BY <2>1, <2>2
<1>10. \A c \in Rates \ {"http_rps"} : s[c] > Limit[c] => x[c] >= s[c]
  <2>1. CASE p.flags \in TcpRate
    <3>1. \A c \in Rates : c \in {"udp_pps", "icmp_pps", "http_rps", "tcp_syn_pps", "tcp_ack_pps"}
      BY DEF Rates
    <3> QED
      BY <3>1, <2>1, <1>1, <1>7, <1>8, <1>9
  <2>2. CASE p.flags \notin TcpRate
    BY <2>2, <1>1, <1>6
  <2> QED
    BY <2>1, <2>2
<1>11. CASE ~(t.verdict = "ACCEPT" /\ p.http # NotHttp)
  <2>1. r = t
    BY <1>11 DEF Analyze, t
  <2>2. ScoreKept(s["score"], x["score"], t.verdict)
    BY <1>7 DEF ScoreKept
  <2>3. ASSUME NEW c \in Rates, Counted(p) \subseteq {c}
        PROVE  /\ MayJudge(s, x, t.flood, c)
               /\ c \notin Counted(p) => x[c] = s[c] /\ x["last_update"] = s["last_update"]
    <3>1. CASE p.flags \notin TcpRate
      BY <3>1, <1>4, <1>6 DEF MayJudge
    <3>2. CASE p.flags = "SYN"
      <4>1. c = "tcp_syn_pps" /\ c \in Counted(p)
        BY <3>2, <2>3, <1>3
      <4> QED
        BY <4>1, <3>2, <1>8
    <3>3. CASE p.flags \in {"ACK", "PSHACK"}
      <4>1. c = "tcp_ack_pps" /\ c \in Counted(p)
        BY <3>3, <2>3, <1>3
      <4> QED
        BY <4>1, <3>3, <1>9
    <3> QED
      BY <3>1, <3>2, <3>3
  <2>4. Counted(p) \subseteq {"tcp_ack_pps"} => x["last_update"] = s["last_update"]
    BY <1>3, <1>6, <1>9
  <2>5. Counted(p) = {"tcp_ack_pps"} /\ p.fate # "noconn" => AckJudged(s, x, t.flood)
    BY <1>3, <1>4
  <2>6. "udp_pps" \notin Counted(p) /\ "icmp_pps" \notin Counted(p)
    BY <1>3
  <2> QED
    BY <2>1, <2>2, <2>3, <2>4, <2>5, <2>6, <1>4, <1>10 DEF Effect
<1>12. CASE t.verdict = "ACCEPT" /\ p.http # NotHttp
  <2>1. r = http_protect_analyze(x, p.http) /\ t.flood = NoFlood
    BY <1>4, <1>12 DEF Analyze, t
  <2>2. /\ ResultOK(r) /\ Same(x, r.stats, {"http_rps", "last_update", "score"})
        /\ MayJudge(x, r.stats, r.flood, "http_rps")
        /\ ScoreKept(x["score"], r.stats["score"], r.verdict)
    BY <2>1, <1>5, HttpEffect
  <2>3. "http_rps" \in Counted(p) /\ "udp_pps" \notin Counted(p) /\ "icmp_pps" \notin Counted(p)
    BY <1>3, <1>12
  <2>4. \A c \in Rates \ {"http_rps"} : r.stats[c] = x[c]
    BY <2>2, <1>1 DEF Same
  <2>5. ASSUME NEW c \in Rates, Counted(p) \subseteq {c}
        PROVE  MayJudge(s, r.stats, r.flood, c) /\ c \in Counted(p)
    <3>1. c = "http_rps" /\ p.flags \notin TcpRate
      BY <2>3, <2>5, <1>3
    <3>2. x["last_update"] = s["last_update"] /\ (WindowOver(x) <=> WindowOver(s))
      BY <3>1, <1>6 DEF WindowOver
    <3> QED
      BY <3>1, <3>2, <2>2, <2>3, <1>7 DEF MayJudge
  <2> QED
    BY <2>2, <2>3, <2>4, <2>5, <1>7, <1>10, RateNames DEF Effect
<1> QED
  BY <1>11, <1>12

-----------------------------------------------------------------------------
(* analyzer_update_reputation (analyzer.c:143-172) changes the score only,   *)
(* and leaves it at 100 at most when it is called at all.                    *)
LEMMA ReputedFields ==
    ASSUME NEW s \in StatsType, NEW v \in Verdicts
    PROVE  /\ Same(s, Reputed(s, v), {"score"})
           /\ Delta(v) # 0 => Reputed(s, v)["score"] \in 0..100
           /\ Delta(v) = 0 => Reputed(s, v) = s
<1>1. s["score"] \in Nat /\ Wrap \in Nat /\ Wrap > 200 /\ "score" \in Fields /\ Delta(v) \in Int
  BY ProtectAssumption DEF StatsType, Fields, Delta
<1> DEFINE sum == (s["score"] + Delta(v)) % Wrap
           x == IF sum > 100 THEN 100 ELSE sum
<1>2. sum \in Nat
  BY <1>1, SMT
<1>3. x \in 0..100
  BY <1>2
<1>4. Reputed(s, v) = IF Delta(v) = 0 THEN s ELSE [s EXCEPT !["score"] = x]
  BY DEF Reputed
<1> HIDE DEF x
<1>5. /\ [s EXCEPT !["score"] = x] \in StatsType /\ [s EXCEPT !["score"] = x]["score"] = x
      /\ \A d \in Fields \ {"score"} : [s EXCEPT !["score"] = x][d] = s[d]
  BY <1>1, <1>3 DEF StatsType
<1> QED
  BY <1>3, <1>4, <1>5 DEF Same

(* The effect of a judged packet, on the variables: that of the modules, and *)
(* a score in its range again.                                               *)
LEMMA PacketEffect ==
    ASSUME TypeInv, NEW p \in Traffic, NEW room \in Room, Packet(p, room)
    PROVE  \E r : /\ Effect(stats, p, r) /\ stats' = r.stats
                  /\ out' = [verdict |-> r.verdict, flood |-> r.flood]
                  /\ stats'["score"] \in 0..(Wrap - 1)
                  /\ stats["score"] \in 0..100 => stats'["score"] <= 100
<1> DEFINE r == Analyze(stats, p)
           t == Reputed(r.stats, r.verdict)
           q == [stats |-> t, verdict |-> r.verdict, flood |-> r.flood]
<1>1. p \in Packets
  BY ProtectAssumption
<1>2. p.proto \in {"UDP", "ICMP", "TCP"}
  BY <1>1 DEF Packets
<1>3. now \in Nat /\ stats \in StatsType /\ stats["last_update"] <= now
      /\ stats["score"] \in 0..(Wrap - 1)
  BY ProtectAssumption DEF TypeInv, TypeOK
<1>4. Effect(stats, p, r) /\ ScoreKept(stats["score"], r.stats["score"], r.verdict)
  BY <1>1, <1>2, <1>3, DatagramEffect, SegmentEffect
<1>5. stats' = t /\ out' = [verdict |-> r.verdict, flood |-> r.flood]
  BY DEF Packet
<1> HIDE DEF r
<1>6. r.stats \in StatsType /\ r.verdict \in Verdicts
  BY <1>4 DEF Effect, ResultOK
<1>7. /\ Same(r.stats, t, {"score"})
      /\ Delta(r.verdict) # 0 => t["score"] \in 0..100
      /\ Delta(r.verdict) = 0 => t = r.stats
  BY <1>6, ReputedFields
<1>8. t["score"] \in 0..(Wrap - 1) /\ (stats["score"] \in 0..100 => t["score"] <= 100)
  BY <1>3, <1>4, <1>7, ProtectAssumption DEF ScoreKept
<1> HIDE DEF t
<1>9. t \in StatsType /\ t["last_update"] = r.stats["last_update"]
      /\ \A c \in Rates : t[c] = r.stats[c]
  BY <1>7 DEF Same, Fields, Rates
<1>10. q.stats = t /\ q.verdict = r.verdict /\ q.flood = r.flood
  OBVIOUS
<1> HIDE DEF q
<1>11. Effect(stats, p, q)
  BY <1>4, <1>9, <1>10, RateNames DEF Effect, ResultOK, MayJudge, Judged, AckJudged
<1> QED
  BY <1>5, <1>8, <1>10, <1>11

(* A packet of a listed source (analyzer.c:361-364) touches nothing that the *)
(* invariants read.                                                          *)
LEMMA ListedEffect ==
    ASSUME TypeInv, PacketListed
    PROVE  /\ stats' = stats /\ now' = now /\ cur' = cur /\ peak' = peak
           /\ listed_until' = listed_until /\ is_blacklisted' = TRUE
           /\ out' = [verdict |-> "DROP", flood |-> NoFlood] /\ out'.flood = NoFlood
           /\ sent' = sent + 1 /\ sent < MaxRate /\ sent \in Nat /\ MaxRate \in Nat
           /\ \A c \in Rates : Alone(c)' <=> Alone(c)
  BY ProtectAssumption DEF PacketListed, TypeInv, TypeOK, Alone

(* The rates a packet is counted in are rates.                               *)
LEMMA CountedRates == \A p \in Packets : Counted(p) \subseteq Rates
  BY DEF Counted, Packets, Rates

(* The histories of a packet's step.                                         *)
LEMMA PacketHistory ==
    ASSUME TypeInv, NEW p \in Traffic, NEW room \in Room, Packet(p, room)
    PROVE  /\ now' = now /\ sent' = sent + 1 /\ sent < MaxRate
           /\ \A c \in Rates :
                 /\ cur'[c] = IF c \in Counted(p) THEN cur[c] + 1 ELSE cur[c]
                 /\ peak'[c] = IF cur'[c] > peak[c] THEN cur'[c] ELSE peak[c]
           /\ DOMAIN cur' = Rates /\ DOMAIN peak' = Rates
           /\ cur' = [c \in Rates |-> cur'[c]] /\ peak' = [c \in Rates |-> peak'[c]]
           /\ \A c \in Rates : cur[c] \in Nat /\ peak[c] \in Nat /\ cur'[c] \in Nat /\ peak'[c] \in Nat
  BY ProtectAssumption DEF Packet, TypeInv, TypeOK

(* A source that is alone in c after a packet was so before it, and the      *)
(* packet counts in no other rate.                                           *)
LEMMA AloneBefore ==
    ASSUME TypeInv, NEW p \in Traffic, NEW room \in Room, Packet(p, room), NEW c \in Rates, Alone(c)'
    PROVE  Alone(c) /\ Counted(p) \subseteq {c}
<1>1. \A d \in Rates \ {c} : peak[d] = 0 /\ d \notin Counted(p)
  <2> SUFFICES ASSUME NEW d \in Rates \ {c} PROVE peak[d] = 0 /\ d \notin Counted(p)
    OBVIOUS
  <2>1. peak'[d] = 0
    BY DEF Alone
  <2> QED
    BY <2>1, PacketHistory
<1> QED
  BY <1>1, CountedRates, ProtectAssumption DEF Alone

(* The initial state and every step keep the types.                          *)
LEMMA TypeInductive == (Init => TypeInv) /\ (TypeInv /\ [Next]_vars => TypeInv')
<1>1. Init => TypeInv
  <2> SUFFICES ASSUME Init PROVE TypeInv
    OBVIOUS
  <2>1. stats \in StatsType /\ stats["last_update"] = 0 /\ stats["score"] = 50
    BY NewStatsType DEF Init, NewStats
  <2>2. \A c \in Rates \cup Totals : stats[c] \in Nat
    BY <2>1 DEF StatsType, Fields
  <2>3. out \in [verdict : Verdicts, flood : Rates \cup {NoFlood}]
    BY DEF Init, Verdicts
  <2>4. /\ now \in 0..MaxTime /\ sent \in 0..MaxRate /\ \A c \in Rates : cur[c] <= sent
        /\ cur \in [Rates -> 0..MaxRate] /\ peak \in [Rates -> 0..MaxRate]
    BY ProtectAssumption DEF Init
  <2>5. stats["score"] \in 0..(Wrap - 1) /\ stats["last_update"] \in 0..now
    BY <2>1, ProtectAssumption DEF Init
  <2>6. is_blacklisted \in BOOLEAN /\ listed_until \in Nat \cup {NotListed}
    BY DEF Init
  <2> QED
    BY <2>1, <2>2, <2>3, <2>4, <2>5, <2>6 DEF TypeInv, TypeOK
<1>2. ASSUME TypeInv, NEW p \in Traffic, NEW room \in Room, Packet(p, room) PROVE TypeInv'
  <2>1. PICK r : /\ Effect(stats, p, r) /\ stats' = r.stats
                 /\ out' = [verdict |-> r.verdict, flood |-> r.flood]
                 /\ stats'["score"] \in 0..(Wrap - 1)
    BY <1>2, PacketEffect
  <2>2. stats' \in StatsType /\ stats'["last_update"] <= now
        /\ out' \in [verdict : Verdicts, flood : Rates \cup {NoFlood}]
    BY <2>1 DEF Effect, ResultOK
  <2>3. \A c \in Rates \cup Totals : stats'[c] \in Nat
    BY <2>2 DEF StatsType, Fields
  <2>4. stats'["last_update"] \in 0..now
    BY <2>2 DEF StatsType, Fields
  <2>5. stats'["score"] \in 0..(Wrap - 1)
    BY <2>1
  <2>6. /\ now' = now /\ sent' \in 0..MaxRate
        /\ \A c \in Rates : cur'[c] \in 0..MaxRate /\ peak'[c] \in 0..MaxRate /\ cur'[c] <= sent'
    BY <1>2, PacketHistory, ProtectAssumption DEF TypeInv, TypeOK
  <2>7. cur' \in [Rates -> 0..MaxRate] /\ peak' \in [Rates -> 0..MaxRate]
    BY <1>2, <2>6, PacketHistory
  <2>8. is_blacklisted' \in BOOLEAN /\ listed_until' \in Nat \cup {NotListed}
    BY <1>2, ProtectAssumption DEF Packet, TypeInv, TypeOK
  <2> QED
    BY <1>2, <2>2, <2>3, <2>4, <2>5, <2>6, <2>7, <2>8 DEF TypeInv, TypeOK
<1>3. TypeInv /\ Tick => TypeInv'
  <2> SUFFICES ASSUME TypeInv, Tick PROVE TypeInv'
    OBVIOUS
  <2>1. stats' = stats /\ out' = out /\ peak' = peak /\ sent' = 0 /\ cur' = [c \in Rates |-> 0]
        /\ now' = now + 1 /\ now < MaxTime
        /\ is_blacklisted' = is_blacklisted /\ listed_until' = listed_until
    BY DEF Tick
  <2>2. stats["last_update"] \in 0..now' /\ now' \in 0..MaxTime /\ 0 \in 0..MaxRate
    BY <2>1, ProtectAssumption DEF TypeInv, TypeOK
  <2> QED
    BY <2>1, <2>2 DEF TypeInv, TypeOK
<1>4. TypeInv /\ UNCHANGED vars => TypeInv'
  BY DEF TypeInv, TypeOK, vars
<1>5. ASSUME TypeInv, PacketListed PROVE TypeInv'
  <2>1. /\ stats' = stats /\ now' = now /\ cur' = cur /\ peak' = peak
        /\ listed_until' = listed_until /\ is_blacklisted' = TRUE
        /\ sent' = sent + 1 /\ sent < MaxRate /\ sent \in Nat /\ MaxRate \in Nat
    BY <1>5, ListedEffect
  <2>2. out' \in [verdict : Verdicts, flood : Rates \cup {NoFlood}]
    BY <1>5 DEF PacketListed, Verdicts
  <2>3. sent' \in 0..MaxRate /\ \A c \in Rates : cur'[c] <= sent'
    BY <1>5, <2>1 DEF TypeInv, TypeOK
  <2> QED
    BY <1>5, <2>1, <2>2, <2>3 DEF TypeInv, TypeOK
<1> QED
  BY <1>1, <1>2, <1>3, <1>4, <1>5 DEF Next

(* The counters are natural numbers, the score is an unsigned number below   *)
(* Wrap whatever requests lower it, and last_update is never in the future.  *)
THEOREM TypeCorrect == Spec => []TypeOK
<1>1. Spec => []TypeInv
  BY TypeInductive, PTL DEF Spec
<1>2. TypeInv => TypeOK
  BY DEF TypeInv
<1> QED
  BY <1>1, <1>2, PTL

-----------------------------------------------------------------------------
(* The step of the clock, on what the invariants below read.                 *)
LEMMA TickEffect ==
    ASSUME TypeInv, Tick
    PROVE  /\ stats' = stats /\ out' = out /\ peak' = peak /\ sent' = 0 /\ now' = now + 1
           /\ \A c \in Rates : cur'[c] = 0 /\ (Alone(c)' <=> Alone(c))
           /\ stats["last_update"] < now' /\ stats["last_update"] \in Nat /\ now \in Nat
           /\ now < MaxTime
           /\ \A c \in Rates : stats[c] \in Nat /\ peak[c] \in Nat /\ cur[c] \in Nat /\ Limit[c] \in Nat
  BY ProtectAssumption DEF TypeInv, TypeOK, Tick, Alone

(* This second's packets never exceed the peak.                              *)
LEMMA PeakInductive == (Init => PeakInv) /\ (TypeInv /\ PeakInv /\ [Next]_vars => PeakInv')
<1>1. Init => PeakInv
  BY DEF Init, PeakInv
<1>2. ASSUME TypeInv, PeakInv, NEW p \in Traffic, NEW room \in Room, Packet(p, room) PROVE PeakInv'
  BY <1>2, PacketHistory DEF PeakInv
<1>3. TypeInv /\ PeakInv /\ Tick => PeakInv'
  BY TickEffect DEF PeakInv
<1>4. PeakInv /\ UNCHANGED vars => PeakInv'
  BY DEF PeakInv, vars
<1>5. TypeInv /\ PeakInv /\ PacketListed => PeakInv'
  BY ListedEffect DEF PeakInv
<1> QED
  BY <1>1, <1>2, <1>3, <1>4, <1>5 DEF Next

(* One packet of a source alone in c, on the counter, the window and the     *)
(* histories: the arithmetic of WindowInv and of FloodNeedsRateAlone.        *)
LEMMA WindowStep ==
    ASSUME TypeInv, PeakInv, WindowInv, NEW p \in Traffic, NEW room \in Room, Packet(p, room), NEW c \in Rates, Alone(c)'
    PROVE  /\ out'.flood # NoFlood => peak'[c] >= Limit[c]
           /\ \/ peak'[c] >= Limit[c]
              \/ stats'[c] <= peak'[c] /\ (stats'["last_update"] = now' => stats'[c] <= cur'[c])
<1>1. PICK r : /\ Effect(stats, p, r) /\ stats' = r.stats
               /\ out' = [verdict |-> r.verdict, flood |-> r.flood]
  BY PacketEffect
<1>2. Alone(c) /\ Counted(p) \subseteq {c}
  BY AloneBefore
<1>3. /\ MayJudge(stats, stats', out'.flood, c)
      /\ c \notin Counted(p) => stats'[c] = stats[c] /\ stats'["last_update"] = stats["last_update"]
  BY <1>1, <1>2 DEF Effect
<1>4. /\ stats[c] \in Nat /\ stats["last_update"] \in Nat /\ now \in Nat /\ Limit[c] \in Nat
      /\ stats["last_update"] <= now
  BY ProtectAssumption DEF TypeInv, TypeOK
<1>5. /\ cur[c] <= peak[c] /\ now' = now
      /\ \/ peak[c] >= Limit[c]
         \/ /\ stats[c] <= peak[c]
            /\ stats["last_update"] = now => stats[c] <= cur[c]
  BY <1>2, PacketHistory DEF PeakInv, WindowInv
<1>6. /\ cur'[c] = IF c \in Counted(p) THEN cur[c] + 1 ELSE cur[c]
      /\ peak'[c] = IF cur'[c] > peak[c] THEN cur'[c] ELSE peak[c]
      /\ cur[c] \in Nat /\ peak[c] \in Nat
  BY PacketHistory
<1> QED
  BY <1>3, <1>4, <1>5, <1>6 DEF MayJudge, WindowOver

(* The counter of a source alone never runs ahead of its peak.               *)
LEMMA WindowInductive ==
    /\ Init => WindowInv
    /\ TypeInv /\ PeakInv /\ WindowInv /\ [Next]_vars => WindowInv'
<1>1. Init => WindowInv
  BY NewStatsType DEF Init, WindowInv
<1>2. ASSUME TypeInv, PeakInv, WindowInv, NEW p \in Traffic, NEW room \in Room, Packet(p, room) PROVE WindowInv'
  BY <1>2, WindowStep DEF WindowInv
<1>3. ASSUME TypeInv, PeakInv, WindowInv, Tick PROVE WindowInv'
  <2> SUFFICES ASSUME NEW c \in Rates, Alone(c)'
               PROVE  \/ peak'[c] >= Limit[c]
                      \/ stats'[c] <= peak'[c] /\ (stats'["last_update"] = now' => stats'[c] <= cur'[c])
    BY DEF WindowInv
  <2> QED
    BY <1>3, TickEffect DEF WindowInv
<1>4. WindowInv /\ UNCHANGED vars => WindowInv'
  BY DEF WindowInv, vars, Alone
<1>5. ASSUME TypeInv, PeakInv, WindowInv, PacketListed PROVE WindowInv'
  BY <1>5, ListedEffect DEF WindowInv
<1> QED
  BY <1>1, <1>2, <1>3, <1>4, <1>5 DEF Next

(* The comment "Calculate PPS over last second" (udp_protect.c:177 and its   *)
(* copies), for every threshold and traffic: a source whose packets all      *)
(* count in one rate is judged a flood only if it sent at least the          *)
(* threshold in some one second.                                             *)
THEOREM FloodNeedsRateCorrect == Spec => []FloodNeedsRateAlone
<1> DEFINE Inv == TypeInv /\ PeakInv /\ WindowInv /\ FloodNeedsRateAlone
<1>1. Init => Inv
  BY TypeInductive, PeakInductive, WindowInductive DEF FloodNeedsRateAlone, Init
<1>2. ASSUME TypeInv, PeakInv, WindowInv, NEW p \in Traffic, NEW room \in Room, Packet(p, room)
      PROVE  FloodNeedsRateAlone'
  <2>1. TypeOK'
    BY <1>2, TypeInductive DEF Next, TypeInv
  <2>2. out'.flood \in Rates \cup {NoFlood}
    BY <2>1 DEF TypeOK
  <2>3. ASSUME NEW c \in Rates, c = out'.flood, Alone(out.flood)'
        PROVE  peak'[c] >= Limit[c]
    <3>1. Alone(c)'
      BY <2>3 DEF Alone
    <3> QED
      BY <3>1, <2>3, <1>2, WindowStep, RateNames
  <2> QED
    BY <2>2, <2>3 DEF FloodNeedsRateAlone
<1>3. ASSUME TypeInv, FloodNeedsRateAlone, Tick PROVE FloodNeedsRateAlone'
  BY <1>3, TickEffect DEF FloodNeedsRateAlone, Alone
<1>4. FloodNeedsRateAlone /\ UNCHANGED vars => FloodNeedsRateAlone'
  BY DEF FloodNeedsRateAlone, vars, Alone
<1>5. TypeInv /\ PacketListed => FloodNeedsRateAlone'
  BY ListedEffect DEF FloodNeedsRateAlone
<1>6. Inv /\ [Next]_vars => FloodNeedsRateAlone'
  BY <1>2, <1>3, <1>4, <1>5 DEF Next
<1>7. Inv /\ [Next]_vars => Inv'
  BY <1>6, TypeInductive, PeakInductive, WindowInductive
<1> QED
  BY <1>1, <1>7, PTL DEF Spec

-----------------------------------------------------------------------------
(* The verdict returns before the reset (udp_protect.c:180, tcp_protect.c:   *)
(* 140, 178, icmp_protect.c): for every threshold and traffic, no step       *)
(* brings a counter above its threshold down.                                *)
THEOREM FloodSticksCorrect == Spec => FloodSticks
<1> DEFINE Step == \A c \in Rates \ {"http_rps"} : stats[c] > Limit[c] => stats'[c] >= stats[c]
<1>1. ASSUME TypeInv, NEW p \in Traffic, NEW room \in Room, Packet(p, room) PROVE Step
  BY <1>1, PacketEffect DEF Effect
<1>2. ASSUME TypeInv, Tick \/ PacketListed PROVE Step
  <2>1. stats' = stats /\ \A c \in Rates : stats[c] \in Nat
    BY <1>2, TickEffect, ListedEffect DEF TypeInv, TypeOK
  <2> QED
    BY <2>1
<1>3. TypeInv /\ [Next]_vars => [Step]_vars
  BY <1>1, <1>2 DEF Next
<1>4. Spec => []TypeInv
  BY TypeInductive, PTL DEF Spec
<1> HIDE DEF Step
<1>5. Spec => [][Step]_vars
  BY <1>3, <1>4, PTL DEF Spec
<1> QED
  BY <1>5 DEF FloodSticks, Step

(* The threshold of ACKs is never set and an ACK restarts no window          *)
(* (tcp_protect.c:175-198): with every configuration, a source of ACKs alone *)
(* is shut out from its second second on.                                    *)
THEOREM AcksShutOutCorrect == Spec => AcksShutOut
<1> DEFINE Step == \A p \in Traffic, room \in Room :
               now > 0 /\ Alone("tcp_ack_pps") /\ Counted(p) = {"tcp_ack_pps"}
                 /\ p.fate # "noconn" /\ Packet(p, room) => out'.verdict = "DROP"
           Inv == TypeInv /\ AckInv
<1>1. Init => Inv
  BY TypeInductive DEF Init, NewStats, AckInv
<1>2. ASSUME Inv, NEW p \in Traffic, NEW room \in Room, Packet(p, room) PROVE AckInv'
  <2> SUFFICES ASSUME Alone("tcp_ack_pps")' PROVE stats'["last_update"] = 0
    BY DEF AckInv
  <2>1. Alone("tcp_ack_pps") /\ Counted(p) \subseteq {"tcp_ack_pps"}
    BY <1>2, AloneBefore, RateNames
  <2> QED
    BY <2>1, <1>2, PacketEffect DEF Effect, AckInv
<1>3. Inv /\ (Tick \/ PacketListed) => AckInv'
  BY TickEffect, ListedEffect, RateNames DEF AckInv
<1>4. Inv /\ UNCHANGED vars => AckInv'
  BY DEF AckInv, vars, Alone
<1>5. Inv /\ [Next]_vars => Inv'
  BY <1>2, <1>3, <1>4, TypeInductive DEF Next
<1>6. ASSUME Inv, NEW p \in Traffic, NEW room \in Room, now > 0, Alone("tcp_ack_pps"),
             Counted(p) = {"tcp_ack_pps"}, p.fate # "noconn", Packet(p, room)
      PROVE  out'.verdict = "DROP"
  <2>1. WindowOver(stats)
    BY <1>6 DEF AckInv, WindowOver, TypeInv, TypeOK
  <2>2. PICK r : /\ Effect(stats, p, r)
                 /\ out' = [verdict |-> r.verdict, flood |-> r.flood]
    BY <1>6, PacketEffect
  <2>3. r.flood = "tcp_ack_pps" /\ (r.flood # NoFlood => r.verdict = "DROP")
    BY <2>1, <2>2, <1>6 DEF Effect, AckJudged
  <2> QED
    BY <2>2, <2>3, RateNames
<1>7. Inv => [Step]_vars
  BY <1>6
<1> HIDE DEF Step, Inv
<1>8. Spec => [][Step]_vars
  BY <1>1, <1>5, <1>7, PTL DEF Spec
<1> QED
  BY <1>8 DEF AcksShutOut, Step

(* One packet of a source alone in udp_pps or icmp_pps: the arithmetic of    *)
(* CaughtInv.                                                                *)
LEMMA CaughtStep ==
    ASSUME TypeInv, PeakInv, CaughtInv, NEW p \in Traffic, NEW room \in Room, Packet(p, room),
           NEW c \in {"udp_pps", "icmp_pps"}, Alone(c)'
    PROVE  /\ stats'["last_update"] = now' => cur'[c] <= stats'[c] + 1
           /\ stats'["last_update"] = now' /\ cur'[c] = 0 => peak'[c] = 0
           /\ stats'["last_update"] < now' /\ cur'[c] > 0 => stats'[c] > Limit[c]
           /\ peak'[c] > Limit[c] => stats'[c] >= Limit[c]
<1>1. PICK r : /\ Effect(stats, p, r) /\ stats' = r.stats
               /\ out' = [verdict |-> r.verdict, flood |-> r.flood]
  BY PacketEffect
<1>2. c \in Rates
  BY RateNames
<1>3. Alone(c) /\ Counted(p) \subseteq {c}
  BY <1>2, AloneBefore
<1>4. /\ c \in Counted(p) => Judged(stats, stats', r.flood, c)
      /\ c \notin Counted(p) => stats'[c] = stats[c] /\ stats'["last_update"] = stats["last_update"]
  BY <1>1, <1>2, <1>3 DEF Effect
<1>5. /\ stats[c] \in Nat /\ stats["last_update"] \in Nat /\ now \in Nat /\ Limit[c] \in Nat
      /\ stats["last_update"] <= now
  BY <1>2, ProtectAssumption DEF TypeInv, TypeOK
<1>6. /\ stats["last_update"] = now => cur[c] <= stats[c] + 1
      /\ stats["last_update"] = now /\ cur[c] = 0 => peak[c] = 0
      /\ stats["last_update"] < now /\ cur[c] > 0 => stats[c] > Limit[c]
      /\ peak[c] > Limit[c] => stats[c] >= Limit[c]
  BY <1>3 DEF CaughtInv
<1>7. /\ cur'[c] = IF c \in Counted(p) THEN cur[c] + 1 ELSE cur[c]
      /\ peak'[c] = IF cur'[c] > peak[c] THEN cur'[c] ELSE peak[c]
      /\ cur[c] \in Nat /\ peak[c] \in Nat /\ now' = now /\ cur[c] <= peak[c]
  BY <1>2, PacketHistory DEF PeakInv
<1>8. CASE c \in Counted(p)
  BY <1>8, <1>4, <1>5, <1>6, <1>7 DEF Judged, WindowOver
<1>9. CASE c \notin Counted(p)
  BY <1>9, <1>4, <1>5, <1>6, <1>7
<1> QED
  BY <1>8, <1>9

(* udp_protect.c:175-191 and icmp_protect.c: for every threshold, a source   *)
(* of datagrams alone or of ICMP messages alone that sent more than the      *)
(* threshold in one second is not accepted when its next second begins.      *)
THEOREM FloodCaughtCorrect == Spec => FloodCaught
<1> DEFINE Step == \A p \in Traffic, room \in Room, c \in {"udp_pps", "icmp_pps"} :
               cur[c] = 0 /\ peak[c] > Limit[c] /\ Alone(c) /\ c \in Counted(p) /\ Packet(p, room)
                 => out'.verdict # "ACCEPT"
           Inv == TypeInv /\ PeakInv /\ CaughtInv
<1>1. Init => Inv
  <2>1. Init => CaughtInv
    BY NewStatsType, RateNames, ProtectAssumption DEF Init, CaughtInv, NewStats
  <2> QED
    BY <2>1, TypeInductive, PeakInductive
<1>2. ASSUME Inv, NEW p \in Traffic, NEW room \in Room, Packet(p, room) PROVE CaughtInv'
  BY <1>2, CaughtStep DEF CaughtInv
<1>3. ASSUME Inv, Tick PROVE CaughtInv'
  <2> SUFFICES ASSUME NEW c \in {"udp_pps", "icmp_pps"}, Alone(c)'
               PROVE  /\ stats'["last_update"] = now' => cur'[c] <= stats'[c] + 1
                      /\ stats'["last_update"] = now' /\ cur'[c] = 0 => peak'[c] = 0
                      /\ stats'["last_update"] < now' /\ cur'[c] > 0 => stats'[c] > Limit[c]
                      /\ peak'[c] > Limit[c] => stats'[c] >= Limit[c]
    BY DEF CaughtInv
  <2>1. c \in Rates
    BY RateNames
  <2> QED
    BY <2>1, <1>3, TickEffect DEF CaughtInv
<1>4. Inv /\ UNCHANGED vars => CaughtInv'
  BY DEF CaughtInv, vars, Alone
<1>5. Inv /\ [Next]_vars => Inv'
  <2>1. ASSUME Inv, PacketListed PROVE CaughtInv'
    BY <2>1, ListedEffect, RateNames DEF CaughtInv
  <2> QED
    BY <2>1, <1>2, <1>3, <1>4, TypeInductive, PeakInductive DEF Next
<1>6. ASSUME Inv, NEW p \in Traffic, NEW room \in Room, NEW c \in {"udp_pps", "icmp_pps"},
             cur[c] = 0, peak[c] > Limit[c], Alone(c), c \in Counted(p), Packet(p, room)
      PROVE  out'.verdict # "ACCEPT"
  <2>1. PICK r : /\ Effect(stats, p, r)
                 /\ out' = [verdict |-> r.verdict, flood |-> r.flood] /\ stats' = r.stats
    BY <1>6, PacketEffect
  <2>2. Judged(stats, r.stats, r.flood, c) /\ (r.flood # NoFlood => r.verdict = "DROP")
    BY <2>1, <1>6 DEF Effect
  <2>3. /\ c \in Rates /\ stats[c] \in Nat /\ Limit[c] \in Nat /\ peak[c] \in Nat
        /\ stats["last_update"] \in Nat /\ now \in Nat /\ stats["last_update"] <= now
    BY <1>6, RateNames, ProtectAssumption DEF TypeInv, TypeOK
  <2>4. stats["last_update"] < now /\ stats[c] >= Limit[c]
    BY <2>3, <1>6 DEF CaughtInv
  <2>5. r.flood = c
    BY <2>2, <2>3, <2>4 DEF Judged, WindowOver
  <2> QED
    BY <2>1, <2>2, <2>3, <2>5, RateNames
<1>7. Inv => [Step]_vars
  BY <1>6
<1> HIDE DEF Step, Inv
<1>8. Spec => [][Step]_vars
  BY <1>1, <1>5, <1>7, PTL DEF Spec
<1> QED
  BY <1>8 DEF FloodCaught, Step

-----------------------------------------------------------------------------
(* The score of a source is in 0..100 between packets, for every Wrap, every *)
(* traffic and every configuration: the subtractions that go around at 0     *)
(* (http_protect.c:205, 217) are always followed by the reputation's cut     *)
(* (analyzer.c:156-158), and the verdicts that skip it leave no such score.  *)
THEOREM ScoreCorrect == Spec => []ScoreBounded
<1> DEFINE Inv == TypeInv /\ ScoreBounded
<1>1. Init => Inv
  BY TypeInductive DEF Init, NewStats, ScoreBounded
<1>2. ASSUME Inv, NEW p \in Traffic, NEW room \in Room, Packet(p, room) PROVE ScoreBounded'
  <2>1. stats'["score"] \in 0..(Wrap - 1) /\ stats'["score"] <= 100
    BY <1>2, PacketEffect DEF ScoreBounded
  <2> QED
    BY <2>1, ProtectAssumption DEF ScoreBounded
<1>3. ASSUME Inv, Tick \/ PacketListed PROVE ScoreBounded'
  BY <1>3, TickEffect, ListedEffect DEF ScoreBounded
<1>4. Inv /\ UNCHANGED vars => ScoreBounded'
  BY DEF ScoreBounded, vars
<1>5. Inv /\ [Next]_vars => Inv'
  BY <1>2, <1>3, <1>4, TypeInductive DEF Next
<1> QED
  BY <1>1, <1>5, PTL DEF Spec

-----------------------------------------------------------------------------
(* The packet path.  FailsOpen alone is not inductive: a block in the table *)
(* could be judged and its packet dropped.                                  *)
TableEmpty == \A h \in Slots : table[h] = Null

PathInv == PathTypeOK /\ TableEmpty /\ FailsOpen /\ LeakPerPacket

(* analyzer_get_ip_stats on an empty table returns NULL, leaves the table   *)
(* as it is and loses the block if there was memory for one.                *)
LEMMA LookupFails ==
    ASSUME PathConstants, PathTypeOK, TableEmpty, NEW ip \in IPs, NEW alloc \in BOOLEAN
    PROVE  get_ip_stats(table, ip, alloc)
             = [hangs |-> FALSE, stats |-> Null, table |-> table,
                leak |-> IF alloc THEN 1 ELSE 0]
<1>1. Hash[ip] \in Slots
  BY DEF PathConstants
<1>2. table[Hash[ip]] = Null
  BY <1>1 DEF TableEmpty
<1>3. [table EXCEPT ![Hash[ip]] = Null] = table
  BY <1>1, <1>2 DEF PathTypeOK
<1> QED
  BY <1>2, <1>3 DEF get_ip_stats

(* The verdict on every packet is ACCEPT and only the counters of packets   *)
(* and of lost blocks move.                                                 *)
LEMMA HandlerAccepts ==
    ASSUME PathConstants, PathTypeOK, TableEmpty, NEW ip \in IPs, NEW v \in Judgements, NEW alloc \in BOOLEAN,
           packet_handler(ip, v, alloc)
    PROVE  /\ table' = table /\ blacklist' = blacklist /\ blocked' = blocked
           /\ whitelist' = whitelist /\ g_shutdown' = g_shutdown
           /\ global.total < MaxPackets
           /\ global' = [total |-> global.total + 1, dropped |-> global.dropped + 0,
                         rate_limited |-> global.rate_limited + 0]
           /\ leaked' = leaked + (IF alloc THEN 1 ELSE 0)
           /\ starved' = starved + (IF alloc THEN 0 ELSE 1)
           /\ found' = [ip |-> ip, stats |-> Null]
<1> DEFINE g == get_ip_stats(table, ip, alloc)
<1>1. g = [hangs |-> FALSE, stats |-> Null, table |-> table, leak |-> IF alloc THEN 1 ELSE 0]
  BY LookupFails
<1>2. g.stats = Null /\ g.table = table /\ g.leak = IF alloc THEN 1 ELSE 0
  BY <1>1
<1> HIDE DEF g
<1> QED
  BY <1>2 DEF packet_handler, g

(* The inductive invariant holds at first and is kept by every step. *)
LEMMA PathInvInductive ==
    ASSUME PathConstants
    PROVE  (PathInit => PathInv) /\ (PathInv /\ [PathNext]_pathVars => PathInv')
<1>1. ASSUME PathInit PROVE PathInv
  <2>1. PathTypeOK
    <3>1. global \in [total : 0..MaxPackets, dropped : Nat, rate_limited : Nat]
      BY <1>1 DEF PathInit, PathConstants
    <3>2. table \in [Slots -> Block \cup {Null}]
      BY <1>1 DEF PathInit
    <3>3. found \in [ip : IPs \cup {Null}, stats : Block \cup {Null}]
      BY <1>1 DEF PathInit
    <3>4. leaked \in Nat /\ starved \in Nat
      BY <1>1 DEF PathInit
    <3> QED
      BY <1>1, <3>1, <3>2, <3>3, <3>4 DEF PathInit, PathTypeOK
  <2> QED
    BY <1>1, <2>1 DEF PathInit, PathInv, TableEmpty, FailsOpen, LeakPerPacket
<1>2. ASSUME PathInv, [PathNext]_pathVars PROVE PathInv'
  <2>1. CASE UNCHANGED pathVars
    BY <1>2, <2>1 DEF PathInv, PathTypeOK, TableEmpty, FailsOpen, LeakPerPacket, pathVars
  <2>2. CASE signal_handler
    BY <1>2, <2>2 DEF PathInv, PathTypeOK, TableEmpty, FailsOpen, LeakPerPacket, signal_handler
  <2>3. ASSUME NEW ip \in IPs, NEW v \in Judgements, NEW alloc \in BOOLEAN,
               packet_handler(ip, v, alloc)
        PROVE  PathInv'
    <3>1. /\ table' = table /\ blacklist' = blacklist /\ blocked' = blocked
          /\ whitelist' = whitelist /\ g_shutdown' = g_shutdown
          /\ global.total < MaxPackets
          /\ global' = [total |-> global.total + 1, dropped |-> global.dropped + 0,
                        rate_limited |-> global.rate_limited + 0]
          /\ leaked' = leaked + (IF alloc THEN 1 ELSE 0)
          /\ starved' = starved + (IF alloc THEN 0 ELSE 1)
          /\ found' = [ip |-> ip, stats |-> Null]
      BY <1>2, <2>3, HandlerAccepts DEF PathInv
    <3>2. PathTypeOK'
      <4>1. global' \in [total : 0..MaxPackets, dropped : Nat, rate_limited : Nat]
        BY <1>2, <3>1 DEF PathInv, PathTypeOK, PathConstants
      <4>2. leaked' \in Nat /\ starved' \in Nat
        BY <1>2, <3>1 DEF PathInv, PathTypeOK
      <4> QED
        BY <1>2, <3>1, <4>1, <4>2 DEF PathInv, PathTypeOK
    <3>3. FailsOpen'
      BY <1>2, <3>1 DEF PathInv, FailsOpen
    <3>4. LeakPerPacket'
      BY <1>2, <3>1 DEF PathInv, PathTypeOK, LeakPerPacket
    <3> QED
      BY <1>2, <3>1, <3>2, <3>3, <3>4 DEF PathInv, TableEmpty
  <2> QED
    BY <1>2, <2>1, <2>2, <2>3 DEF PathNext
<1> QED
  BY <1>1, <1>2

(* It holds in every state. *)
LEMMA PathInvariant ==
    ASSUME PathConstants PROVE PathSpec => []PathInv
BY PathInvInductive, PTL DEF PathSpec

(* Every variable of the packet path keeps its type. *)
THEOREM PathTypeCorrect ==
    ASSUME PathConstants PROVE PathSpec => []PathTypeOK
BY PathInvariant, PTL DEF PathInv

(* Although the walk of a chain steps from a block to itself                 *)
(* (analyzer.c:116-123), every lookup ends, for any addresses, hash and      *)
(* traffic: it never meets a block.                                          *)
THEOREM LookupEndsCorrect ==
    ASSUME PathConstants PROVE PathSpec => []LookupEnds
<1>1. PathInv => LookupEnds
  BY LookupFails DEF PathInv, LookupEnds
<1> QED
  BY <1>1, PathInvariant, PTL

(* No packet is ever dropped, limited or blocked, for any traffic and any   *)
(* verdicts of the protection modules.                                      *)
THEOREM FailsOpenCorrect ==
    ASSUME PathConstants PROVE PathSpec => []FailsOpen
BY PathInvariant, PTL DEF PathInv

(* One block is lost per packet handled with memory to spare. *)
THEOREM LeakCorrect ==
    ASSUME PathConstants PROVE PathSpec => []LeakPerPacket
BY PathInvariant, PTL DEF PathInv
=============================================================================
