--------------------------- MODULE IngressProofs ----------------------------
(***************************************************************************)
(* Theorems about Ingress: the XDP program, the capture callback and the   *)
(* parser, for any CPUs, frames, map contents, snaplen and widths.         *)
(***************************************************************************)
EXTENDS Ingress, TLAPS

Allocations == {"packet", "data", "method", "uri", "ua"}

(* TypeOK, and the types of what it leaves open. *)
TypeInv ==
    /\ wire \in Seq(Frame) /\ stack \in Seq(Passed)
    /\ cpu \in [CPUs -> Invocation \cup {Idle}]
    /\ stats \in [CPUs -> [Stats -> Nat]] /\ hits \in [CPUs -> Nat]
    /\ whitelist \subseteq Addrs /\ blacklist \subseteq Addrs
    /\ updates \in 0..MaxUpdates
    /\ taken \in Passed \cup {Idle}

(* The packet and the live allocations, as pcap_callback's progress has them. *)
CallbackInv ==
    /\ pkt # Idle => /\ taken # Idle
                     /\ pkt = packet_parse(taken.frame, caplen(taken.frame))
                     /\ Parsable(taken.frame, caplen(taken.frame))
    /\ heap \subseteq Allocations
    /\ taken = Idle => heap = {}

(* What the program's tests have established of a frame it let through. *)
Sound(f) == parse_ipv4(f) /\ ~ProtocolDrops(f)

(* An invocation that has looked into its frame and passes it found it sound. *)
Vetted(x) ==
    /\ x.step \in {"whitelist", "blacklist", "protocol"} => parse_ipv4(x.frame) /\ ~x.vetted
    /\ x.vetted /\ x.step = "pass" => Sound(x.frame)

(* Only a frame that passed all tests is marked as looked into, from the     *)
(* CPU through the stack to the callback.                                    *)
VettedInv ==
    /\ \A c \in CPUs : cpu[c] # Idle => Vetted(cpu[c])
    /\ \A i \in 1..Len(stack) : stack[i].vetted => Sound(stack[i].frame)
    /\ taken # Idle /\ taken.vetted => Sound(taken.frame)

(* What the maps say now is in the histories, and so is the answer of every  *)
(* lookup that brought an invocation where it is.                            *)
Answered(x, wl, bl) ==
    /\ lookup(wl, x.frame.src) \in x.white /\ lookup(bl, x.frame.src) \in x.black
    /\ HasAddress(x.frame) =>
          /\ x.step \in {"blacklist", "protocol", "drop"} => "miss" \in x.white
          /\ x.step = "protocol" => "miss" \in x.black
          /\ x.step = "pass" => "hit" \in x.white \/ "miss" \in x.black

ListsOf(c) == cpu[c] # Idle => Answered(cpu[c], whitelist, blacklist)
ListsInv == \A c \in CPUs : ListsOf(c)

-----------------------------------------------------------------------------
(* Sizes of the transport headers. *)
LEMMA HeaderSizes ==
    /\ DOMAIN HeaderLen = {"tcp", "udp", "icmp", "other"}
    /\ HeaderLen["tcp"] = 20 /\ HeaderLen["udp"] = 8 /\ HeaderLen["icmp"] = 8 /\ HeaderLen["other"] = 0
    /\ \A p \in DOMAIN HeaderLen : HeaderLen[p] \in Nat
  BY DEF HeaderLen

(* The lengths the parser computes from an IPv4 or IPv6 header are natural   *)
(* numbers, also when tot_len is less than the header (parser.c:98-126).     *)
LEMMA ParserLengths ==
    ASSUME NEW f \in Frame
    PROVE  /\ ip_len(f) \in Nat /\ transport_len(f) \in Nat
           /\ f.protocol \in DOMAIN HeaderLen /\ HeaderLen[f.protocol] \in Nat
           /\ PayloadOffset(f) \in Nat /\ transport_header(f) \in Nat
           /\ f.version = 4 /\ f.tot_len >= ip_len(f) => transport_len(f) = f.tot_len - ip_len(f)
<1>1. /\ f.tot_len \in 0..(U16 - 1) /\ f.ihl \in 0..15 /\ f.doff \in 0..15 /\ f.version \in 0..15
      /\ f.protocol \in DOMAIN HeaderLen
  BY DEF Frame
<1>2. HeaderLen[f.protocol] \in Nat
  BY <1>1, HeaderSizes
<1>3. U32 \in Nat /\ U32 > U16 + 60 /\ U16 \in Nat
  BY WidthAssumption
<1>4. ip_len(f) \in Nat /\ ip_len(f) <= 60
  BY <1>1 DEF ip_len, Ip6Len
<1>5. (f.tot_len - ip_len(f)) % U32 \in Nat
  BY <1>1, <1>3, <1>4
<1>6. f.tot_len >= ip_len(f) => (f.tot_len - ip_len(f)) % U32 = f.tot_len - ip_len(f)
  BY <1>1, <1>3, <1>4
<1>7. transport_len(f) \in Nat
  BY <1>1, <1>5 DEF transport_len
<1>8. PayloadOffset(f) \in Nat /\ transport_header(f) \in Nat
  BY <1>1, <1>2, <1>4 DEF PayloadOffset, transport_header, EthLen
<1> QED
  BY <1>1, <1>2, <1>4, <1>6, <1>7, <1>8 DEF transport_len

(* packet_parse fills every field of packet_t with a value of its type.      *)
LEMMA ParseType ==
    ASSUME NEW f \in Frame, NEW len \in Nat
    PROVE  packet_parse(f, len) \in Packet
<1>1. /\ ip_len(f) \in Nat /\ transport_len(f) \in Nat /\ f.protocol \in DOMAIN HeaderLen
      /\ HeaderLen[f.protocol] \in Nat /\ PayloadOffset(f) \in Nat /\ transport_header(f) \in Nat
  BY ParserLengths
<1>2. f.src \in Addrs /\ f.flags \in SUBSET Flags /\ f.text \in SUBSET {"method", "uri", "ua"}
  BY DEF Frame
<1>3. HasPayload(f) => PayloadLen(f) \in Nat
  BY <1>1 DEF HasPayload, PayloadLen
<1>4. (IF HasPayload(f) THEN transport_header(f) + PayloadOffset(f) ELSE NULL) \in {NULL} \cup Nat
      /\ (IF HasPayload(f) THEN PayloadLen(f) ELSE 0) \in Nat
  BY <1>1, <1>3
<1>5. (IF TextReads(f) > HeaderReads(f) THEN TextReads(f) ELSE HeaderReads(f)) \in Nat
  <2>1. HeaderReads(f) \in Nat
    BY <1>1 DEF HeaderReads, EthLen, IpLen, Ip6Len
  <2>2. f.scan \in Nat
    BY DEF Frame
  <2>3. TextReads(f) \in Nat
    BY <1>1, <2>2 DEF TextReads
  <2> QED
    BY <2>1, <2>3
<1>6. parse_http(f) \in SUBSET {"method", "uri", "ua"}
  BY <1>2 DEF parse_http
<1>7. (IF f.protocol = "tcp" /\ HasTransport(f) THEN f.flags ELSE {}) \in SUBSET Flags
  BY <1>2
<1>8. (f.version = 4) \in BOOLEAN
  OBVIOUS
<1> QED
  BY <1>1, <1>2, <1>4, <1>5, <1>6, <1>7, <1>8 DEF packet_parse, Packet

-----------------------------------------------------------------------------
(* The invocation x gone on to step st. *)
Moved(x, st, v) == [frame |-> x.frame, step |-> st, vetted |-> v, white |-> x.white, black |-> x.black]

(* Going on to the next step of the program changes nothing else of the      *)
(* invocation, and nothing of the other CPUs.                                *)
LEMMA MoveEffect ==
    ASSUME TypeInv, NEW c \in CPUs, cpu[c] # Idle, NEW st \in Steps, NEW v \in BOOLEAN,
           \/ Goto(c, st) /\ v = cpu[c].vetted
           \/ cpu' = [cpu EXCEPT ![c].step = st, ![c].vetted = v]
    PROVE  /\ cpu' = [cpu EXCEPT ![c] = Moved(cpu[c], st, v)]
           /\ cpu' \in [CPUs -> Invocation \cup {Idle}]
           /\ cpu'[c] = Moved(cpu[c], st, v) /\ cpu'[c] # Idle
           /\ \A d \in CPUs \ {c} : cpu'[d] = cpu[d]
<1>1. cpu \in [CPUs -> Invocation \cup {Idle}] /\ cpu[c] \in Invocation
  BY DEF TypeInv
<1>2. /\ cpu[c].frame \in Frame /\ cpu[c].white \in SUBSET Answers /\ cpu[c].black \in SUBSET Answers
  BY <1>1 DEF Invocation
<1>3. Moved(cpu[c], st, v) \in Invocation
  BY <1>2 DEF Moved, Invocation
<1>4. ASSUME Goto(c, st), v = cpu[c].vetted
      PROVE  cpu' = [cpu EXCEPT ![c] = Moved(cpu[c], st, v)]
  <2>1. [cpu[c] EXCEPT !.step = st] = Moved(cpu[c], st, v)
    BY <1>1, <1>4 DEF Moved, Invocation
  <2>2. cpu' = [cpu EXCEPT ![c] = [cpu[c] EXCEPT !.step = st]]
    BY <1>4 DEF Goto
  <2> QED
    BY <2>1, <2>2
<1>5. ASSUME cpu' = [cpu EXCEPT ![c].step = st, ![c].vetted = v]
      PROVE  cpu' = [cpu EXCEPT ![c] = Moved(cpu[c], st, v)]
  <2> DEFINE x == [cpu[c] EXCEPT !.step = st]
  <2>1. x \in Invocation /\ x.frame = cpu[c].frame /\ x.step = st
        /\ x.white = cpu[c].white /\ x.black = cpu[c].black
    BY <1>1 DEF Invocation
  <2>2. cpu' = [cpu EXCEPT ![c] = [x EXCEPT !.vetted = v]]
    BY <1>1, <1>5
  <2> HIDE DEF x
  <2>3. [x EXCEPT !.vetted = v] = Moved(cpu[c], st, v)
    BY <2>1 DEF Moved, Invocation
  <2> QED
    BY <2>2, <2>3
<1>6. cpu' = [cpu EXCEPT ![c] = Moved(cpu[c], st, v)]
  BY <1>4, <1>5
<1> QED
  BY <1>1, <1>3, <1>6, IdleAssumption

(* The answer of a lookup is one of the two.                                 *)
LEMMA LookupType == \A map, a : lookup(map, a) \in Answers
  BY DEF lookup, Answers

(* update_stat adds 1 to the given counters of one CPU (xdp_filter.c:60-66). *)
LEMMA StatEffect ==
    ASSUME TypeInv, NEW c \in CPUs, NEW keys, update_stat(c, keys)
    PROVE  /\ stats' \in [CPUs -> [Stats -> Nat]]
           /\ \A k \in Stats : stats'[c][k] = stats[c][k] + (IF k \in keys THEN 1 ELSE 0)
           /\ \A d \in CPUs \ {c} : stats'[d] = stats[d]
<1> DEFINE row == [k \in Stats |-> stats[c][k] + (IF k \in keys THEN 1 ELSE 0)]
<1>1. stats \in [CPUs -> [Stats -> Nat]]
  BY DEF TypeInv
<1>2. row \in [Stats -> Nat]
  BY <1>1
<1>3. stats' = [stats EXCEPT ![c] = row]
  BY DEF update_stat
<1>4. \A k \in Stats : row[k] = stats[c][k] + (IF k \in keys THEN 1 ELSE 0)
  OBVIOUS
<1> HIDE DEF row
<1> QED
  BY <1>1, <1>2, <1>3, <1>4

(* Where the program stands after reading the headers (xdp_filter.c:84-113). *)
FirstStep(f) == IF ~parse_eth(f) \/ f.ethertype # "ip" THEN "pass"
                ELSE IF ~parse_ipv4(f) THEN "drop" ELSE "whitelist"

(* An invocation begins with the headers and the two maps as they are.       *)
LEMMA ParseEffect ==
    ASSUME TypeInv, NEW c \in CPUs, XdpParse(c), NEW f, f = Head(wire)
    PROVE  /\ f \in Frame /\ wire' \in Seq(Frame)
           /\ cpu' \in [CPUs -> Invocation \cup {Idle}] /\ cpu'[c] # Idle
           /\ cpu'[c] = [frame |-> f, step |-> FirstStep(f), vetted |-> FALSE,
                         white |-> {lookup(whitelist, f.src)}, black |-> {lookup(blacklist, f.src)}]
           /\ \A d \in CPUs \ {c} : cpu'[d] = cpu[d]
<1> DEFINE x == [frame |-> f, step |-> FirstStep(f), vetted |-> FALSE,
                 white |-> {lookup(whitelist, f.src)}, black |-> {lookup(blacklist, f.src)}]
<1>1. f \in Frame /\ wire' \in Seq(Frame)
  BY DEF TypeInv, XdpParse
<1>2. cpu' = [cpu EXCEPT ![c] = x]
  BY DEF XdpParse, FirstStep
<1>3. FirstStep(f) \in Steps
  BY DEF FirstStep, Steps
<1>4. {lookup(whitelist, f.src)} \in SUBSET Answers /\ {lookup(blacklist, f.src)} \in SUBSET Answers
  BY LookupType
<1>5. x \in Invocation
  BY <1>1, <1>3, <1>4 DEF Invocation
<1> HIDE DEF x
<1>6. x # Idle
  BY <1>5, IdleAssumption
<1>7. /\ cpu' \in [CPUs -> Invocation \cup {Idle}] /\ cpu'[c] = x
      /\ \A d \in CPUs \ {c} : cpu'[d] = cpu[d]
  BY <1>2, <1>5 DEF TypeInv
<1> QED
  BY <1>1, <1>6, <1>7 DEF x

(* A change of a map is noted by every invocation under way, and moves none. *)
LEMMA MapEffect ==
    ASSUME TypeInv, NEW a \in Addrs, MapUpdate(a)
    PROVE  /\ whitelist' \subseteq Addrs /\ blacklist' \subseteq Addrs
           /\ cpu' \in [CPUs -> Invocation \cup {Idle}]
           /\ \A c \in CPUs : cpu[c] = Idle => cpu'[c] = Idle
           /\ \A c \in CPUs : cpu[c] # Idle =>
                 /\ cpu'[c] # Idle /\ cpu'[c].frame = cpu[c].frame
                 /\ cpu'[c].step = cpu[c].step /\ cpu'[c].vetted = cpu[c].vetted
                 /\ cpu'[c].white = cpu[c].white \cup {lookup(whitelist', cpu[c].frame.src)}
                 /\ cpu'[c].black = cpu[c].black \cup {lookup(blacklist', cpu[c].frame.src)}
<1>1. whitelist' \subseteq Addrs /\ blacklist' \subseteq Addrs
  BY DEF TypeInv, MapUpdate
<1> DEFINE w(c) == cpu[c].white \cup {lookup(whitelist', cpu[c].frame.src)}
           b(c) == cpu[c].black \cup {lookup(blacklist', cpu[c].frame.src)}
           x(c) == [cpu[c] EXCEPT !.white = w(c)]
           y(c) == [x(c) EXCEPT !.black = b(c)]
<1>2. cpu' = [c \in CPUs |-> IF cpu[c] = Idle THEN Idle ELSE y(c)]
  BY DEF MapUpdate
<1>3. ASSUME NEW c \in CPUs, cpu[c] # Idle
      PROVE  /\ y(c) \in Invocation /\ y(c).frame = cpu[c].frame /\ y(c).step = cpu[c].step
             /\ y(c).vetted = cpu[c].vetted /\ y(c).white = w(c) /\ y(c).black = b(c)
  <2>1. cpu[c] \in Invocation
    BY <1>3 DEF TypeInv
  <2>2. {lookup(whitelist', cpu[c].frame.src)} \subseteq Answers /\ {lookup(blacklist', cpu[c].frame.src)} \subseteq Answers
    BY LookupType
  <2>3. w(c) \in SUBSET Answers /\ b(c) \in SUBSET Answers
    BY <2>1, <2>2 DEF Invocation
  <2> HIDE DEF w, b
  <2>4. x(c) \in Invocation /\ x(c).frame = cpu[c].frame /\ x(c).step = cpu[c].step
        /\ x(c).vetted = cpu[c].vetted /\ x(c).white = w(c)
    BY <2>1, <2>3 DEF Invocation
  <2> HIDE DEF x
  <2> QED
    BY <2>3, <2>4 DEF Invocation
<1> HIDE DEF y
<1>4. \A c \in CPUs : cpu[c] # Idle => cpu'[c] = y(c) /\ y(c) # Idle
  BY <1>2, <1>3, IdleAssumption
<1>5. cpu' \in [CPUs -> Invocation \cup {Idle}] /\ \A c \in CPUs : cpu[c] = Idle => cpu'[c] = Idle
  BY <1>2, <1>3
<1> QED
  BY <1>1, <1>3, <1>4, <1>5

-----------------------------------------------------------------------------
(* The steps of the program on one CPU: types, and nothing of another CPU.   *)
LEMMA XdpFrame ==
    ASSUME TypeInv, NEW c \in CPUs, XdpStep(c)
    PROVE  /\ wire' \in Seq(Frame) /\ stack' \in Seq(Passed)
           /\ cpu' \in [CPUs -> Invocation \cup {Idle}]
           /\ stats' \in [CPUs -> [Stats -> Nat]] /\ hits' \in [CPUs -> Nat]
           /\ UNCHANGED <<whitelist, blacklist, updates>>
           /\ \A d \in CPUs \ {c} : cpu'[d] = cpu[d] /\ stats'[d] = stats[d] /\ hits'[d] = hits[d]
<1>0. /\ wire \in Seq(Frame) /\ stack \in Seq(Passed) /\ hits \in [CPUs -> Nat]
      /\ stats \in [CPUs -> [Stats -> Nat]] /\ cpu \in [CPUs -> Invocation \cup {Idle}]
  BY DEF TypeInv
<1>1. \A st : At(c, st) => cpu[c] # Idle /\ cpu[c] \in Invocation /\ cpu[c].vetted \in BOOLEAN
                            /\ cpu[c].frame \in Frame
  BY <1>0 DEF At, Invocation
<1>2. CASE XdpParse(c)
  BY <1>0, <1>2, ParseEffect, StatEffect DEF XdpParse
<1>3. CASE XdpWhitelist(c)
  <2>1. PICK st \in Steps : Goto(c, st)
    BY <1>3 DEF XdpWhitelist, Steps
  <2> QED
    BY <2>1, <1>0, <1>1, <1>3, MoveEffect DEF XdpWhitelist
<1>4. CASE XdpBlacklist(c)
  <2>1. PICK st \in Steps : Goto(c, st)
    BY <1>4 DEF XdpBlacklist, Steps
  <2>2. /\ cpu' \in [CPUs -> Invocation \cup {Idle}]
        /\ \A d \in CPUs \ {c} : cpu'[d] = cpu[d]
    BY <2>1, <1>1, <1>4, MoveEffect DEF XdpBlacklist
  <2>3. /\ stats' \in [CPUs -> [Stats -> Nat]] /\ hits' \in [CPUs -> Nat]
        /\ \A d \in CPUs \ {c} : stats'[d] = stats[d] /\ hits'[d] = hits[d]
    <3>1. CASE update_stat(c, {"dropped"}) /\ hits' = [hits EXCEPT ![c] = @ + 1]
      BY <3>1, <1>0, StatEffect
    <3>2. CASE UNCHANGED <<stats, hits>>
      BY <3>2, <1>0
    <3> QED
      BY <3>1, <3>2, <1>4 DEF XdpBlacklist
  <2> QED
    BY <2>2, <2>3, <1>0, <1>4 DEF XdpBlacklist
<1>5. CASE XdpProtocol(c)
  <2>1. PICK st \in Steps : cpu' = [cpu EXCEPT ![c].step = st, ![c].vetted = TRUE]
    BY <1>5 DEF XdpProtocol, Steps
  <2>2. /\ cpu' \in [CPUs -> Invocation \cup {Idle}]
        /\ \A d \in CPUs \ {c} : cpu'[d] = cpu[d]
    <3>1. TRUE \in BOOLEAN /\ cpu[c] # Idle
      BY <1>1, <1>5 DEF XdpProtocol
    <3> QED
      BY <2>1, <3>1, MoveEffect
  <2> QED
    BY <2>2, <1>0, <1>5, StatEffect DEF XdpProtocol
<1>6. CASE XdpPass(c)
  <2>1. [frame |-> cpu[c].frame, vetted |-> cpu[c].vetted] \in Passed
    BY <1>1, <1>6 DEF XdpPass, Passed
  <2>2. stack' \in Seq(Passed)
    BY <2>1, <1>0, <1>6 DEF XdpPass
  <2> QED
    BY <2>2, <1>0, <1>6, StatEffect DEF XdpPass
<1>7. CASE XdpDrop(c)
  BY <1>0, <1>7, StatEffect DEF XdpDrop
<1> QED
  BY <1>2, <1>3, <1>4, <1>5, <1>6, <1>7 DEF XdpStep

(* Frames, sequences of frames and lists keep their types.                   *)
LEMMA TypeInductive == (Init => TypeInv) /\ (TypeInv /\ [Next]_vars => TypeInv')
<1>1. Init => TypeInv
  BY XdpAssumption DEF Init, XdpInit, TypeInv, Stats
<1>2. ASSUME TypeInv, NEW c \in CPUs, XdpStep(c), UNCHANGED <<taken, pkt, heap>> PROVE TypeInv'
  BY <1>2, XdpFrame DEF TypeInv
<1>3. ASSUME TypeInv, NEW a \in Addrs, MapUpdate(a), UNCHANGED <<taken, pkt, heap>> PROVE TypeInv'
  <2>1. /\ whitelist' \subseteq Addrs /\ blacklist' \subseteq Addrs
        /\ cpu' \in [CPUs -> Invocation \cup {Idle}]
    BY <1>3, MapEffect
  <2>2. updates \in 0..MaxUpdates /\ updates < MaxUpdates /\ updates' = updates + 1 /\ MaxUpdates \in Nat
    BY <1>3, XdpAssumption DEF TypeInv, MapUpdate
  <2>3. updates' \in 0..MaxUpdates
    BY <2>2
  <2> QED
    BY <2>1, <2>3, <1>3 DEF TypeInv, MapUpdate
<1>4. TypeInv /\ Capture => TypeInv'
  <2> SUFFICES ASSUME TypeInv, Capture PROVE TypeInv'
    OBVIOUS
  <2>1. stack' \in Seq(Passed) /\ Head(stack) \in Passed
    BY DEF TypeInv, Capture
  <2> QED
    BY <2>1 DEF TypeInv, Capture
<1>5. TypeInv /\ (ParseFails \/ Parse \/ Done \/ UNCHANGED vars) => TypeInv'
  BY DEF TypeInv, ParseFails, Parse, Done, vars
<1> QED
  BY <1>1, <1>2, <1>3, <1>4, <1>5 DEF Next

-----------------------------------------------------------------------------
(* Every way through pcap_callback ends with nothing allocated, and while a  *)
(* packet is handed out it is the parse of the frame that was taken          *)
(* (capture.c:121-155).                                                      *)
LEMMA CallbackInductive ==
    (Init => CallbackInv) /\ (TypeInv /\ CallbackInv /\ [Next]_vars => CallbackInv')
<1>1. Init => CallbackInv
  BY DEF Init, CallbackInv
<1>2. ASSUME CallbackInv, UNCHANGED <<taken, pkt, heap>> PROVE CallbackInv'
  BY <1>2 DEF CallbackInv
<1>3. TypeInv /\ CallbackInv /\ Capture => CallbackInv'
  <2> SUFFICES ASSUME TypeInv, CallbackInv, Capture PROVE CallbackInv'
    OBVIOUS
  <2>1. Head(stack) \in Passed
    BY DEF TypeInv, Capture
  <2>2. Head(stack) # Idle
    BY <2>1, IdleAssumption
  <2> QED
    BY <2>2 DEF CallbackInv, Capture, Allocations
<1>4. CallbackInv /\ ParseFails => CallbackInv'
  BY DEF CallbackInv, ParseFails, packet_free, Allocations
<1>5. ASSUME TypeInv, CallbackInv, Parse PROVE CallbackInv'
  <2>1. taken \in Passed /\ taken # Idle /\ taken' = taken
    BY <1>5 DEF TypeInv, Parse
  <2>2. taken.frame \in Frame /\ taken.frame.text \subseteq {"method", "uri", "ua"}
    BY <2>1 DEF Passed, Frame
  <2>3. pkt'.http \subseteq Allocations
    BY <2>2, <1>5 DEF Parse, packet_parse, parse_http, Allocations
  <2>4. caplen(taken.frame)' = caplen(taken.frame)
    BY <2>1 DEF caplen
  <2>5. /\ pkt' = packet_parse(taken.frame, caplen(taken.frame))
        /\ Parsable(taken.frame, caplen(taken.frame)) /\ heap' = heap \cup pkt'.http
    BY <1>5 DEF Parse
  <2> QED
    BY <2>1, <2>3, <2>5, <1>5 DEF CallbackInv
<1>6. CallbackInv /\ Done => CallbackInv'
  BY DEF CallbackInv, Done, packet_free, Allocations
<1> QED
  BY <1>1, <1>2, <1>3, <1>4, <1>5, <1>6 DEF Next, vars

(* capture.c:121-155, 186-196: between two frames nothing of the earlier     *)
(* ones is allocated, whatever frames come and whichever allocations and     *)
(* parses fail.                                                              *)
THEOREM NoLeakCorrect == Spec => []NoLeak
<1>1. Spec => [](TypeInv /\ CallbackInv)
  BY TypeInductive, CallbackInductive, PTL DEF Spec
<1>2. CallbackInv => NoLeak
  BY DEF CallbackInv, NoLeak
<1> QED
  BY <1>1, <1>2, PTL

(* Every variable has its type: the counters count, the program is at one of *)
(* its steps, the packet is a packet_t.                                      *)
THEOREM TypeCorrect == Spec => []TypeOK
<1>1. Spec => [](TypeInv /\ CallbackInv)
  BY TypeInductive, CallbackInductive, PTL DEF Spec
<1>2. TypeInv /\ CallbackInv => TypeOK
  <2> SUFFICES ASSUME TypeInv, CallbackInv PROVE TypeOK
    OBVIOUS
  <2>1. \A c \in Busy : cpu[c].step \in Steps
    BY DEF TypeInv, Busy, Invocation
  <2>2. ASSUME pkt # Idle PROVE pkt \in Packet
    <3>1. taken \in Passed /\ pkt = packet_parse(taken.frame, caplen(taken.frame))
      BY <2>2 DEF TypeInv, CallbackInv
    <3>2. taken.frame \in Frame /\ taken.frame.len \in Nat
      BY <3>1 DEF Passed, Frame
    <3>3. caplen(taken.frame) \in Nat
      BY <3>2, SnaplenAssumption DEF caplen
    <3> QED
      BY <3>1, <3>2, <3>3, ParseType
  <2> QED
    BY <2>1, <2>2 DEF TypeInv, CallbackInv, TypeOK, Allocations
<1> QED
  BY <1>1, <1>2, PTL

-----------------------------------------------------------------------------
(* The counters a step adds to, of those the balance is about, and whether   *)
(* it notes a hit.                                                           *)
Counts(c, keys, hit) ==
    /\ \A k \in {"total", "passed", "dropped"} :
          stats'[c][k] = stats[c][k] + (IF k \in keys THEN 1 ELSE 0)
    /\ hits'[c] = hits[c] + hit

(* CPU c goes on to step st of the program. *)
Goes(c, st, v) == cpu[c] # Idle /\ cpu'[c] # Idle /\ cpu'[c] = Moved(cpu[c], st, v)

(* The four counters of the protocols are none of the balance's.             *)
LEMMA ProtocolCounters ==
    ASSUME NEW f \in Frame
    PROVE  ProtocolCounter(f) \cap {"total", "passed", "dropped"} = {}
<1>1. f.protocol \in {"tcp", "udp", "icmp", "other"}
  BY HeaderSizes DEF Frame
<1> QED
  BY <1>1 DEF ProtocolCounter

(* The program step by step (xdp_filter.c:76-221).                           *)
LEMMA XdpMoves ==
    ASSUME TypeInv, NEW c \in CPUs, XdpStep(c)
    PROVE  \/ /\ cpu[c] = Idle /\ cpu'[c] # Idle /\ stack' = stack /\ Counts(c, {"total"}, 0)
              /\ \E f \in Frame :
                    cpu'[c] = [frame |-> f, step |-> FirstStep(f), vetted |-> FALSE,
                               white |-> {lookup(whitelist, f.src)}, black |-> {lookup(blacklist, f.src)}]
           \/ /\ At(c, "whitelist") /\ stack' = stack /\ Counts(c, {}, 0)
              /\ Goes(c, IF lookup(whitelist, cpu[c].frame.src) = "hit" THEN "pass" ELSE "blacklist", cpu[c].vetted)
           \/ /\ At(c, "blacklist") /\ stack' = stack /\ Counts(c, {"dropped"}, 1)
              /\ lookup(blacklist, cpu[c].frame.src) = "hit" /\ Goes(c, "drop", cpu[c].vetted)
           \/ /\ At(c, "blacklist") /\ stack' = stack /\ Counts(c, {}, 0)
              /\ lookup(blacklist, cpu[c].frame.src) = "miss" /\ Goes(c, "protocol", cpu[c].vetted)
           \/ /\ At(c, "protocol") /\ stack' = stack /\ Counts(c, {}, 0)
              /\ Goes(c, IF ProtocolDrops(cpu[c].frame) THEN "drop" ELSE "pass", TRUE)
           \/ /\ At(c, "pass") /\ Counts(c, {"passed"}, 0) /\ cpu[c] # Idle /\ cpu'[c] = Idle
              /\ stack' = Append(stack, [frame |-> cpu[c].frame, vetted |-> cpu[c].vetted])
           \/ /\ At(c, "drop") /\ Counts(c, {"dropped"}, 0) /\ cpu[c] # Idle /\ cpu'[c] = Idle
              /\ stack' = stack
<1>0. /\ hits \in [CPUs -> Nat] /\ stats \in [CPUs -> [Stats -> Nat]]
      /\ cpu \in [CPUs -> Invocation \cup {Idle}]
  BY DEF TypeInv
<1>1. \A st : At(c, st) => cpu[c] # Idle /\ cpu[c].vetted \in BOOLEAN /\ cpu[c].frame \in Frame
  BY <1>0 DEF At, Invocation
<1>2. {"total", "passed", "dropped"} \subseteq Stats
  BY DEF Stats
<1>3. \A keys : update_stat(c, keys) /\ hits' = hits => Counts(c, keys, 0)
  BY <1>0, <1>2, StatEffect DEF Counts
<1>4. stats' = stats /\ hits' = hits => Counts(c, {}, 0)
  BY <1>0, <1>2 DEF Counts
<1>5. CASE XdpParse(c)
  BY <1>3, <1>5, ParseEffect DEF XdpParse
<1>6. CASE XdpWhitelist(c)
  <2> DEFINE st == IF lookup(whitelist, cpu[c].frame.src) = "hit" THEN "pass" ELSE "blacklist"
  <2>1. st \in Steps /\ Goto(c, st)
    BY <1>6 DEF XdpWhitelist, Steps
  <2>2. Goes(c, st, cpu[c].vetted)
    BY <2>1, <1>1, <1>6, MoveEffect DEF XdpWhitelist, Goes
  <2> QED
    BY <2>2, <1>4, <1>6 DEF XdpWhitelist
<1>7. CASE XdpBlacklist(c)
  <2>1. "drop" \in Steps /\ "protocol" \in Steps
    BY DEF Steps
  <2>2. \A st \in Steps : Goto(c, st) => Goes(c, st, cpu[c].vetted)
    BY <1>1, <1>7, MoveEffect DEF XdpBlacklist, Goes
  <2>3. ASSUME lookup(blacklist, cpu[c].frame.src) = "hit", Goto(c, "drop"), update_stat(c, {"dropped"}),
               hits' = [hits EXCEPT ![c] = @ + 1]
        PROVE  Counts(c, {"dropped"}, 1)
    <3>1. \A k \in Stats : stats'[c][k] = stats[c][k] + (IF k \in {"dropped"} THEN 1 ELSE 0)
      BY <2>3, StatEffect
    <3>2. hits'[c] = hits[c] + 1
      BY <2>3, <1>0
    <3> QED
      BY <3>1, <3>2, <1>2 DEF Counts
  <2> QED
    BY <2>1, <2>2, <2>3, <1>4, <1>7 DEF XdpBlacklist
<1>8. CASE XdpProtocol(c)
  <2> DEFINE st == IF ProtocolDrops(cpu[c].frame) THEN "drop" ELSE "pass"
  <2>1. st \in Steps /\ cpu' = [cpu EXCEPT ![c].step = st, ![c].vetted = TRUE] /\ TRUE \in BOOLEAN
    BY <1>8 DEF XdpProtocol, Steps
  <2>2. Goes(c, st, TRUE)
    <3> HIDE DEF st
    <3>1. cpu[c] # Idle
      BY <1>1, <1>8 DEF XdpProtocol
    <3> QED
      BY <2>1, <3>1, MoveEffect DEF Goes
  <2>3. Counts(c, ProtocolCounter(cpu[c].frame), 0)
    BY <1>3, <1>8 DEF XdpProtocol
  <2>4. ProtocolCounter(cpu[c].frame) \cap {"total", "passed", "dropped"} = {}
    BY <1>1, <1>8, ProtocolCounters DEF XdpProtocol
  <2>5. Counts(c, {}, 0)
    BY <2>3, <2>4 DEF Counts
  <2> QED
    BY <2>2, <2>5, <1>8 DEF XdpProtocol
<1>9. CASE XdpPass(c)
  BY <1>0, <1>1, <1>3, <1>9 DEF XdpPass
<1>10. CASE XdpDrop(c)
  BY <1>0, <1>1, <1>3, <1>10 DEF XdpDrop
<1> QED
  BY <1>5, <1>6, <1>7, <1>8, <1>9, <1>10 DEF XdpStep

-----------------------------------------------------------------------------
(* One CPU's balance. *)
Balanced(c) == stats[c]["total"] + hits[c]
               = stats[c]["passed"] + stats[c]["dropped"] + (IF cpu[c] # Idle THEN 1 ELSE 0)

(* xdp_filter.c:76-221: on any number of CPUs and whatever the tool does to  *)
(* the maps meanwhile, each CPU's counters account for all its frames, a     *)
(* blacklisted one twice.                                                    *)
THEOREM BalanceCorrect == Spec => []CountersBalance
<1> DEFINE Inv == TypeInv /\ \A c \in CPUs : Balanced(c)
<1>1. Init => Inv
  <2>1. Init => \A c \in CPUs : Balanced(c)
    BY DEF Init, XdpInit, Stats, Balanced
  <2> QED
    BY <2>1, TypeInductive
<1>2. ASSUME Inv, NEW c \in CPUs, XdpStep(c), NEW d \in CPUs PROVE Balanced(d)'
  <2>1. CASE d # c
    BY <2>1, <1>2, XdpFrame DEF Balanced
  <2>2. CASE d = c
    <3>1. /\ stats[c]["total"] \in Nat /\ stats[c]["passed"] \in Nat
          /\ stats[c]["dropped"] \in Nat /\ hits[c] \in Nat
      BY <1>2 DEF TypeInv, Stats
    <3>2. Balanced(c)
      BY <1>2
    <3>3. \/ cpu[c] = Idle /\ cpu'[c] # Idle /\ Counts(c, {"total"}, 0)
          \/ cpu[c] # Idle /\ cpu'[c] # Idle /\ Counts(c, {"dropped"}, 1)
          \/ cpu[c] # Idle /\ cpu'[c] # Idle /\ Counts(c, {}, 0)
          \/ cpu[c] # Idle /\ cpu'[c] = Idle /\ Counts(c, {"passed"}, 0)
          \/ cpu[c] # Idle /\ cpu'[c] = Idle /\ Counts(c, {"dropped"}, 0)
      BY <1>2, XdpMoves DEF Goes
    <3> QED
      BY <2>2, <3>1, <3>2, <3>3 DEF Counts, Balanced
  <2> QED
    BY <2>1, <2>2
<1>3. ASSUME Inv, NEW a \in Addrs, MapUpdate(a), NEW d \in CPUs PROVE Balanced(d)'
  <2>1. stats' = stats /\ hits' = hits /\ (cpu'[d] = Idle <=> cpu[d] = Idle)
    BY <1>3, MapEffect DEF MapUpdate
  <2> QED
    BY <2>1, <1>3 DEF Balanced
<1>4. ASSUME Inv, UNCHANGED <<stats, hits, cpu>>, NEW d \in CPUs PROVE Balanced(d)'
  BY <1>4 DEF Balanced
<1>5. Inv /\ [Next]_vars => \A d \in CPUs : Balanced(d)'
  BY <1>2, <1>3, <1>4 DEF Next, Capture, ParseFails, Parse, Done, vars
<1>6. Inv /\ [Next]_vars => Inv'
  BY <1>5, TypeInductive
<1>7. Inv => CountersBalance
  BY DEF Balanced, CountersBalance, Busy
<1> HIDE DEF Inv
<1> QED
  BY <1>1, <1>6, <1>7, PTL DEF Spec

-----------------------------------------------------------------------------
(* A step of the program on the CPU it runs on.                              *)
LEMMA ListsStep ==
    ASSUME TypeInv, NEW c \in CPUs, XdpStep(c), ListsOf(c)
    PROVE  ListsOf(c)'
<1>0. whitelist' = whitelist /\ blacklist' = blacklist
  BY XdpFrame
<1>1. ASSUME NEW f \in Frame,
             cpu'[c] = [frame |-> f, step |-> FirstStep(f), vetted |-> FALSE,
                        white |-> {lookup(whitelist, f.src)}, black |-> {lookup(blacklist, f.src)}]
      PROVE  ListsOf(c)'
  <2> DEFINE w == {lookup(whitelist, f.src)}
             b == {lookup(blacklist, f.src)}
  <2>1. cpu'[c].frame = f /\ cpu'[c].step = FirstStep(f) /\ cpu'[c].white = w /\ cpu'[c].black = b
    BY <1>1
  <2>2. lookup(whitelist, f.src) \in w /\ lookup(blacklist, f.src) \in b
    OBVIOUS
  <2>3. HasAddress(f) => FirstStep(f) = "whitelist"
    BY DEF HasAddress, FirstStep
  <2> HIDE DEF w, b
  <2>4. ASSUME NEW x, x.frame = f, x.step = FirstStep(f), x.white = w, x.black = b
        PROVE  Answered(x, whitelist, blacklist)
    BY <2>2, <2>3, <2>4 DEF Answered
  <2> QED
    BY <2>1, <2>4, <1>0 DEF ListsOf
<1>2. ASSUME NEW st, NEW v, Goes(c, st, v),
             Answered(cpu[c], whitelist, blacklist) => Answered(Moved(cpu[c], st, v), whitelist, blacklist)
      PROVE  ListsOf(c)'
  <2>1. cpu[c] # Idle /\ cpu'[c] = Moved(cpu[c], st, v)
    BY <1>2 DEF Goes
  <2> QED
    BY <2>1, <1>0, <1>2 DEF ListsOf
<1>3. CASE cpu'[c] = Idle
  BY <1>3 DEF ListsOf
<1>4. ASSUME NEW x, NEW st, NEW v, Answered(x, whitelist, blacklist),
             \/ x.step = "whitelist" /\ st = IF lookup(whitelist, x.frame.src) = "hit" THEN "pass" ELSE "blacklist"
             \/ x.step = "blacklist" /\ st = "drop"
             \/ x.step = "blacklist" /\ st = "protocol" /\ lookup(blacklist, x.frame.src) = "miss"
             \/ x.step = "protocol" /\ st \in {"drop", "pass"}
      PROVE  Answered(Moved(x, st, v), whitelist, blacklist)
  <2>1. /\ Moved(x, st, v).frame = x.frame /\ Moved(x, st, v).step = st
        /\ Moved(x, st, v).white = x.white /\ Moved(x, st, v).black = x.black
    BY DEF Moved
  <2> QED
    BY <2>1, <1>4 DEF Answered, lookup
<1>5. \/ cpu'[c] = Idle
      \/ \E f \in Frame :
            cpu'[c] = [frame |-> f, step |-> FirstStep(f), vetted |-> FALSE,
                       white |-> {lookup(whitelist, f.src)}, black |-> {lookup(blacklist, f.src)}]
      \/ \E st, v : /\ Goes(c, st, v)
                    /\ \/ /\ cpu[c].step = "whitelist"
                          /\ st = IF lookup(whitelist, cpu[c].frame.src) = "hit" THEN "pass" ELSE "blacklist"
                       \/ cpu[c].step = "blacklist" /\ st = "drop"
                       \/ cpu[c].step = "blacklist" /\ st = "protocol" /\ lookup(blacklist, cpu[c].frame.src) = "miss"
                       \/ cpu[c].step = "protocol" /\ st \in {"drop", "pass"}
  BY XdpMoves DEF At
<1> QED
  BY <1>1, <1>2, <1>3, <1>4, <1>5

(* A change of a map is in every history at once.                            *)
LEMMA ListsUpdate ==
    ASSUME TypeInv, NEW a \in Addrs, MapUpdate(a), NEW c \in CPUs, ListsOf(c)
    PROVE  ListsOf(c)'
<1> SUFFICES ASSUME cpu[c] # Idle PROVE ListsOf(c)'
  BY MapEffect DEF ListsOf
<1> DEFINE w == cpu[c].white \cup {lookup(whitelist', cpu[c].frame.src)}
           b == cpu[c].black \cup {lookup(blacklist', cpu[c].frame.src)}
<1>1. /\ cpu'[c] # Idle /\ cpu'[c].frame = cpu[c].frame /\ cpu'[c].step = cpu[c].step
      /\ cpu'[c].white = w /\ cpu'[c].black = b
  BY MapEffect
<1>2. lookup(whitelist', cpu[c].frame.src) \in w /\ lookup(blacklist', cpu[c].frame.src) \in b
  OBVIOUS
<1>3. cpu[c].white \subseteq w /\ cpu[c].black \subseteq b
  OBVIOUS
<1> HIDE DEF w, b
<1>4. ASSUME NEW x, NEW y, NEW wl, NEW bl, Answered(x, whitelist, blacklist), y.frame = x.frame,
             y.step = x.step, x.white \subseteq y.white, x.black \subseteq y.black,
             lookup(wl, x.frame.src) \in y.white, lookup(bl, x.frame.src) \in y.black
      PROVE  Answered(y, wl, bl)
  BY <1>4 DEF Answered
<1> QED
  BY <1>1, <1>2, <1>3, <1>4 DEF ListsOf

(* xdp_filter.c:116-128: whatever the tool changes while a frame is looked   *)
(* up, on any number of CPUs, a source on the whitelist alone throughout is  *)
(* passed, and one on the blacklist alone throughout is dropped.             *)
THEOREM ListsCorrect == Spec => []ListsRespected
<1> DEFINE Inv == TypeInv /\ ListsInv
<1>1. Init => Inv
  <2>1. Init => ListsInv
    BY DEF Init, XdpInit, ListsInv, ListsOf
  <2> QED
    BY <2>1, TypeInductive
<1>2. ASSUME Inv, NEW c \in CPUs, XdpStep(c), NEW d \in CPUs PROVE ListsOf(d)'
  <2>1. CASE d = c
    BY <2>1, <1>2, ListsStep DEF ListsInv
  <2>2. CASE d # c
    <3>1. cpu'[d] = cpu[d] /\ whitelist' = whitelist /\ blacklist' = blacklist
      BY <2>2, <1>2, XdpFrame
    <3> QED
      BY <3>1, <1>2 DEF ListsInv, ListsOf
  <2> QED
    BY <2>1, <2>2
<1>3. ASSUME Inv, NEW a \in Addrs, MapUpdate(a), NEW d \in CPUs PROVE ListsOf(d)'
  BY <1>3, ListsUpdate DEF ListsInv
<1>4. ASSUME Inv, UNCHANGED <<whitelist, blacklist, cpu>>, NEW d \in CPUs PROVE ListsOf(d)'
  BY <1>4 DEF ListsInv, ListsOf
<1>5. Inv /\ [Next]_vars => \A d \in CPUs : ListsOf(d)'
  BY <1>2, <1>3, <1>4 DEF Next, Capture, ParseFails, Parse, Done, vars
<1>6. Inv /\ [Next]_vars => Inv'
  BY <1>5, TypeInductive DEF ListsInv
<1>7. Inv => ListsRespected
  <2> SUFFICES ASSUME Inv, NEW c \in CPUs, cpu[c] # Idle, HasAddress(cpu[c].frame)
               PROVE  /\ cpu[c].white = {"hit"} /\ cpu[c].black = {"miss"} =>
                            cpu[c].step \in {"whitelist", "pass"}
                      /\ cpu[c].white = {"miss"} /\ cpu[c].black = {"hit"} =>
                            cpu[c].step \in {"whitelist", "blacklist", "drop"}
    BY DEF ListsRespected, Busy, HasAddress
  <2>1. cpu[c].step \in {"whitelist", "blacklist", "protocol", "pass", "drop"}
    BY DEF TypeInv, Invocation, Steps
  <2> QED
    BY <2>1 DEF ListsInv, ListsOf, Answered
<1> HIDE DEF Inv
<1> QED
  BY <1>1, <1>6, <1>7, PTL DEF Spec

-----------------------------------------------------------------------------
(* A step of the program keeps the mark honest on its own CPU, and puts only *)
(* a frame with an honest mark on the stack.                                 *)
LEMMA VettedStep ==
    ASSUME TypeInv, NEW c \in CPUs, XdpStep(c), cpu[c] # Idle => Vetted(cpu[c])
    PROVE  /\ cpu'[c] # Idle => Vetted(cpu'[c])
           /\ \/ stack' = stack
              \/ \E p \in Passed : stack' = Append(stack, p) /\ (p.vetted => Sound(p.frame))
<1>1. ASSUME NEW f \in Frame, NEW w, NEW b, NEW x,
             x = [frame |-> f, step |-> FirstStep(f), vetted |-> FALSE, white |-> w, black |-> b]
      PROVE  Vetted(x)
  <2>1. x.frame = f /\ x.step = FirstStep(f) /\ x.vetted = FALSE
    BY <1>1
  <2>2. FirstStep(f) \in {"whitelist", "blacklist", "protocol"} => parse_ipv4(f)
    BY DEF FirstStep
  <2> QED
    BY <2>1, <2>2 DEF Vetted
<1>2. ASSUME NEW x, NEW st, NEW v, Vetted(x),
             \/ /\ x.step \in {"whitelist", "blacklist"} /\ v = x.vetted
                /\ st \in {"pass", "blacklist", "drop", "protocol"}
             \/ /\ x.step = "protocol" /\ v = TRUE
                /\ st = IF ProtocolDrops(x.frame) THEN "drop" ELSE "pass"
      PROVE  Vetted(Moved(x, st, v))
  <2>1. Moved(x, st, v).frame = x.frame /\ Moved(x, st, v).step = st /\ Moved(x, st, v).vetted = v
    BY DEF Moved
  <2> QED
    BY <2>1, <1>2 DEF Vetted, Sound
<1>3. ASSUME NEW st, NEW v, Goes(c, st, v), Vetted(Moved(cpu[c], st, v))
      PROVE  Vetted(cpu'[c])
  BY <1>3 DEF Goes
<1>4. ASSUME At(c, "pass"), stack' = Append(stack, [frame |-> cpu[c].frame, vetted |-> cpu[c].vetted])
      PROVE  \E p \in Passed : stack' = Append(stack, p) /\ (p.vetted => Sound(p.frame))
  <2> DEFINE p == [frame |-> cpu[c].frame, vetted |-> cpu[c].vetted]
  <2>1. cpu[c] \in Invocation /\ Vetted(cpu[c]) /\ cpu[c].step = "pass"
    BY <1>4 DEF TypeInv, At
  <2>2. p \in Passed /\ p.frame = cpu[c].frame /\ p.vetted = cpu[c].vetted
    BY <2>1 DEF Invocation, Passed
  <2>3. p.vetted => Sound(p.frame)
    BY <2>1, <2>2 DEF Vetted
  <2> QED
    BY <2>2, <2>3, <1>4
<1>5. \/ cpu'[c] = Idle /\ stack' = stack
      \/ /\ cpu'[c] = Idle /\ At(c, "pass")
         /\ stack' = Append(stack, [frame |-> cpu[c].frame, vetted |-> cpu[c].vetted])
      \/ /\ stack' = stack
         /\ \E f \in Frame : \E w, b :
               cpu'[c] = [frame |-> f, step |-> FirstStep(f), vetted |-> FALSE, white |-> w, black |-> b]
      \/ /\ stack' = stack /\ cpu[c] # Idle
         /\ \E st, v : /\ Goes(c, st, v)
                       /\ \/ /\ cpu[c].step \in {"whitelist", "blacklist"} /\ v = cpu[c].vetted
                             /\ st \in {"pass", "blacklist", "drop", "protocol"}
                          \/ /\ cpu[c].step = "protocol" /\ v = TRUE
                             /\ st = IF ProtocolDrops(cpu[c].frame) THEN "drop" ELSE "pass"
  BY XdpMoves DEF At
<1> QED
  BY <1>1, <1>2, <1>3, <1>4, <1>5

(* The mark a frame carries to the callback is honest: whoever looked into   *)
(* it found both headers inside it (xdp_filter.c:98-113, 130-214).           *)
LEMMA VettedInductive ==
    (Init => VettedInv) /\ (TypeInv /\ VettedInv /\ [Next]_vars => VettedInv')
<1>1. Init => VettedInv
  BY DEF Init, XdpInit, VettedInv
<1>2. ASSUME TypeInv, VettedInv, NEW c \in CPUs, XdpStep(c), UNCHANGED <<taken, pkt, heap>>
      PROVE  VettedInv'
  <2>1. /\ cpu'[c] # Idle => Vetted(cpu'[c])
        /\ \/ stack' = stack
           \/ \E p \in Passed : stack' = Append(stack, p) /\ (p.vetted => Sound(p.frame))
    BY <1>2, VettedStep DEF VettedInv
  <2>2. \A d \in CPUs : cpu'[d] # Idle => Vetted(cpu'[d])
    BY <2>1, <1>2, XdpFrame DEF VettedInv
  <2>3. \A i \in 1..Len(stack') : stack'[i].vetted => Sound(stack'[i].frame)
    <3>1. stack \in Seq(Passed) /\ \A i \in 1..Len(stack) : stack[i].vetted => Sound(stack[i].frame)
      BY <1>2 DEF TypeInv, VettedInv
    <3>2. ASSUME NEW p \in Passed, stack' = Append(stack, p), p.vetted => Sound(p.frame),
                 NEW i \in 1..Len(stack')
          PROVE  stack'[i].vetted => Sound(stack'[i].frame)
      <4>1. (i \in 1..Len(stack) /\ stack'[i] = stack[i]) \/ stack'[i] = p
        BY <3>1, <3>2
      <4> QED
        BY <4>1, <3>1, <3>2
    <3> QED
      BY <2>1, <3>1, <3>2
  <2> QED
    BY <2>2, <2>3, <1>2 DEF VettedInv
<1>3. ASSUME TypeInv, VettedInv, NEW a \in Addrs, MapUpdate(a), UNCHANGED <<taken, pkt, heap>>
      PROVE  VettedInv'
  <2>1. \A d \in CPUs : cpu'[d] # Idle => Vetted(cpu'[d])
    BY <1>3, MapEffect DEF VettedInv, Vetted
  <2> QED
    BY <2>1, <1>3 DEF VettedInv, MapUpdate
<1>4. ASSUME TypeInv, VettedInv, Capture PROVE VettedInv'
  <2>1. stack \in Seq(Passed) /\ stack # <<>> /\ stack' = Tail(stack) /\ cpu' = cpu
        /\ \A i \in 1..Len(stack) : stack[i].vetted => Sound(stack[i].frame)
    BY <1>4 DEF TypeInv, VettedInv, Capture
  <2>2. \A i \in 1..Len(stack') : stack'[i].vetted => Sound(stack'[i].frame)
    <3>1. \A i \in 1..Len(stack') : i + 1 \in 1..Len(stack) /\ stack'[i] = stack[i + 1]
      BY <2>1
    <3> QED
      BY <2>1, <3>1
  <2>3. taken' = Head(stack) \/ taken' = taken
    BY <1>4 DEF Capture
  <2>4. Head(stack) = stack[1] /\ 1 \in 1..Len(stack)
    BY <2>1
  <2>5. taken' # Idle /\ taken'.vetted => Sound(taken'.frame)
    BY <2>1, <2>3, <2>4, <1>4 DEF VettedInv
  <2> QED
    BY <2>1, <2>2, <2>5, <1>4 DEF VettedInv
<1>5. VettedInv /\ (ParseFails \/ Parse \/ Done \/ UNCHANGED vars) => VettedInv'
  BY DEF VettedInv, ParseFails, Parse, Done, vars
<1> QED
  BY <1>1, <1>2, <1>3, <1>4, <1>5 DEF Next

(* What the callback has: a frame of the stack, and its parse.               *)
LEMMA PacketParts ==
    ASSUME TypeInv, CallbackInv, pkt # Idle, NEW f, f = taken.frame
    PROVE  /\ f \in Frame /\ f.len \in Nat
           /\ caplen(f) \in Nat /\ Parsable(f, caplen(f))
           /\ pkt.len = caplen(f) /\ (pkt.is_ipv4 <=> f.version = 4) /\ pkt.ip_len = ip_len(f)
           /\ pkt.payload = (IF HasPayload(f) THEN transport_header(f) + PayloadOffset(f) ELSE NULL)
           /\ pkt.payload_len = (IF HasPayload(f) THEN PayloadLen(f) ELSE 0)
           /\ pkt.reads = (IF TextReads(f) > HeaderReads(f) THEN TextReads(f) ELSE HeaderReads(f))
<1>1. taken \in Passed /\ pkt = packet_parse(f, caplen(f)) /\ Parsable(f, caplen(f))
  BY DEF TypeInv, CallbackInv
<1>2. f \in Frame /\ f.len \in Nat
  BY <1>1 DEF Passed, Frame
<1>3. caplen(f) \in Nat
  BY <1>2, SnaplenAssumption DEF caplen
<1> QED
  BY <1>1, <1>2, <1>3 DEF packet_parse

(* The end of the payload of an IPv4 packet that is not malformed and whose  *)
(* tot_len covers its header (parser.c:101, 164, 184, 203; capture.c:        *)
(* 213-239).                                                                 *)
LEMMA PayloadEnd ==
    ASSUME TypeInv, CallbackInv, pkt # Idle, pkt.is_ipv4,
           ~packet_is_malformed(taken.frame, pkt),
           taken.frame.tot_len >= pkt.ip_len, pkt.payload # NULL
    PROVE  /\ pkt.payload + pkt.payload_len = EthLen + taken.frame.tot_len
           /\ pkt.payload + pkt.payload_len <= pkt.len
<1> DEFINE f == taken.frame
<1>1. /\ f \in Frame /\ f.version = 4 /\ pkt.len \in Nat /\ pkt.ip_len = ip_len(f)
      /\ pkt.payload = (IF HasPayload(f) THEN transport_header(f) + PayloadOffset(f) ELSE NULL)
      /\ pkt.payload_len = (IF HasPayload(f) THEN PayloadLen(f) ELSE 0)
  BY PacketParts
<1>2. f.tot_len <= pkt.len - EthLen /\ f.tot_len >= ip_len(f) /\ f.tot_len \in Nat
  BY <1>1, WidthAssumption DEF packet_is_malformed, Frame, EthLen
<1> HIDE DEF f
<1>3. pkt.payload = transport_header(f) + PayloadOffset(f) /\ pkt.payload_len = PayloadLen(f)
  BY <1>1
<1>4. /\ transport_len(f) = f.tot_len - ip_len(f)
      /\ ip_len(f) \in Nat /\ PayloadOffset(f) \in Nat
  BY <1>1, <1>2, ParserLengths
<1>5. pkt.payload + pkt.payload_len = EthLen + f.tot_len
  BY <1>2, <1>3, <1>4 DEF transport_header, PayloadLen, EthLen
<1>6. pkt.payload + pkt.payload_len <= pkt.len
  BY <1>1, <1>2, <1>5 DEF EthLen
<1> QED
  BY <1>5, <1>6 DEF f

(* parser.c:135, 173, 192, 214-268: whatever tot_len says, the headers the   *)
(* parser reads of a packet the XDP program has looked into are among the    *)
(* bytes captured, when the frame was captured whole; and so is the text     *)
(* parse_http looks at, when the packet is not malformed and the text ends   *)
(* in its payload.                                                           *)
THEOREM VettedReadsCorrect == Spec => []VettedReads
<1>1. Spec => [](TypeInv /\ CallbackInv /\ VettedInv)
  BY TypeInductive, CallbackInductive, VettedInductive, PTL DEF Spec
<1>2. TypeInv /\ CallbackInv /\ VettedInv => VettedReads
  <2> SUFFICES ASSUME TypeInv, CallbackInv, VettedInv, pkt # Idle, pkt.is_ipv4, taken.vetted,
                      taken.frame.len <= Snaplen, Scanned(taken.frame) => TextEnds
               PROVE  pkt.reads <= pkt.len
    BY DEF VettedReads
  <2> DEFINE f == taken.frame
  <2>1. taken # Idle
    BY DEF CallbackInv
  <2>2. Sound(f)
    BY <2>1 DEF VettedInv
  <2>3. /\ f \in Frame /\ f.len \in Nat /\ f.version = 4 /\ pkt.len = caplen(f)
        /\ pkt.reads = (IF TextReads(f) > HeaderReads(f) THEN TextReads(f) ELSE HeaderReads(f))
        /\ pkt.payload = (IF HasPayload(f) THEN transport_header(f) + PayloadOffset(f) ELSE NULL)
        /\ pkt.payload_len = (IF HasPayload(f) THEN PayloadLen(f) ELSE 0)
    BY PacketParts
  <2>4. f.len <= Snaplen
    OBVIOUS
  <2>5. TextReads(f) <= pkt.len
    <3>1. CASE Scanned(f)
      <4>1. pkt.payload = transport_header(f) + PayloadOffset(f) /\ pkt.payload_len = PayloadLen(f)
            /\ HasPayload(f)
        BY <2>3, <3>1 DEF Scanned
      <4>2. /\ transport_header(f) \in Nat /\ PayloadOffset(f) \in Nat /\ transport_len(f) \in Nat
            /\ f.scan \in Nat /\ pkt.len \in Nat
        BY <2>3, ParserLengths, PacketParts DEF Frame
      <4>3. pkt.payload # NULL /\ pkt.payload_len \in Nat
        BY <4>1, <4>2 DEF NULL, HasPayload, PayloadLen
      <4>4. pkt.payload + pkt.payload_len <= pkt.len /\ f.scan <= pkt.payload_len
        BY <3>1, <4>3, PayloadEnd DEF TextEnds
      <4>5. TextReads(f) = pkt.payload + f.scan
        BY <3>1, <4>1 DEF TextReads
      <4> QED
        BY <4>1, <4>2, <4>3, <4>4, <4>5
    <3>2. CASE ~Scanned(f)
      BY <3>2, PacketParts DEF TextReads
    <3> QED
      BY <3>1, <3>2
  <2> HIDE DEF f
  <2>6. pkt.len = f.len
    BY <2>3, <2>4, SnaplenAssumption DEF caplen
  <2>7. HeaderReads(f) <= pkt.len
    <3>1. CASE f.protocol # "other" /\ HasTransport(f)
      <4>1. HeaderFits(f)
        BY <2>2, <3>1 DEF Sound, ProtocolDrops
      <4>2. transport_header(f) = EthLen + f.ihl * 4
        BY <2>3 DEF transport_header, ip_len
      <4>3. HeaderReads(f) = transport_header(f) + HeaderLen[f.protocol]
        BY <3>1 DEF HeaderReads
      <4>4. HeaderLen[f.protocol] \in Nat /\ f.ihl \in Nat
        BY <2>3, ParserLengths DEF Frame
      <4> QED
        BY <4>1, <4>2, <4>3, <4>4, <2>3, <2>6 DEF HeaderFits, EthLen
    <3>2. CASE ~(f.protocol # "other" /\ HasTransport(f))
      BY <2>2, <2>3, <2>6, <3>2 DEF Sound, parse_ipv4, HeaderReads, EthLen, IpLen
    <3> QED
      BY <3>1, <3>2
  <2> QED
    BY <2>3, <2>5, <2>7
<1> QED
  BY <1>1, <1>2, PTL

(* parser.c:101, 164, 184, 203; capture.c:213-239: the payload of an IPv4    *)
(* packet that is not malformed and whose tot_len covers its header ends     *)
(* where tot_len says, inside the captured bytes.                            *)
THEOREM PayloadInsideCorrect == Spec => []PayloadInside
<1>1. Spec => [](TypeInv /\ CallbackInv)
  BY TypeInductive, CallbackInductive, PTL DEF Spec
<1>2. TypeInv /\ CallbackInv => PayloadInside
  BY PayloadEnd DEF PayloadInside
<1> QED
  BY <1>1, <1>2, PTL
=============================================================================
