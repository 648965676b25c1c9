------------------------------- MODULE Parser -------------------------------
(***************************************************************************)
(* The packet parser of src/src/packet/parser.c and                        *)
(* packet_is_malformed of src/src/packet/capture.c: what packet_parse      *)
(* makes of the first len bytes of a frame.  A frame is its length and the *)
(* fields the parser and the XDP program read; a field beyond the bytes    *)
(* that are there has any value.  Addresses in memory are offsets from the *)
(* start of the frame.                                                     *)
(***************************************************************************)
EXTENDS Integers

CONSTANTS U16, U32, \* one more than the largest uint16_t and uint32_t
          Addrs     \* source addresses

ASSUME WidthAssumption == U16 \in Nat \ {0} /\ U32 \in Nat /\ U32 > U16 + 60

NULL == -1
EthLen == 14        \* sizeof(struct ethhdr)
IpLen  == 20        \* sizeof(struct iphdr)
Ip6Len == 40        \* sizeof(struct ip6_hdr)
HeaderLen == [tcp |-> 20, udp |-> 8, icmp |-> 8, other |-> 0]

Flags == {"fin", "syn", "rst", "psh", "ack", "urg"}

(* tot_len stands for ip6_plen in an IPv6 header.  http says that a port is *)
(* 80 or 8080; text is what parse_http finds from the payload on, and scan  *)
(* how many bytes its string functions read there: up to what they look for *)
(* or the first zero byte, wherever that is; at most 7 without a method.    *)
Frame == [len : Nat, ethertype : {"ip", "ip6", "other"}, version : 0..15,
          ihl : 0..15, tot_len : 0..(U16 - 1),
          protocol : DOMAIN HeaderLen, src : Addrs,
          flags : SUBSET Flags, doff : 0..15, http : BOOLEAN,
          sport : 0..(U16 - 1), udp_len : 0..(U16 - 1), redirect : BOOLEAN,
          text : SUBSET {"method", "uri", "ua"}, scan : Nat \ {0}]

(* The parsed part of packet_t; reads is history: the end of what was read. *)
Packet == [len : Nat, is_ipv4 : BOOLEAN, src_ip : Addrs, protocol : DOMAIN HeaderLen,
           ip_len : Nat, transport_len : Nat, tcp_flags : SUBSET Flags,
           payload : {NULL} \cup Nat, payload_len : Nat,
           http : SUBSET {"method", "uri", "ua"}, reads : Nat]

-----------------------------------------------------------------------------
parse_ethernet(len) == len >= EthLen
parse_ip(f, len) == len >= EthLen + IpLen /\ f.version \in {4, 6}

ip_len(f) == IF f.version = 4 THEN f.ihl * 4 ELSE Ip6Len

transport_len(f) == IF f.version = 4 THEN (f.tot_len - ip_len(f)) % U32 ELSE f.tot_len

transport_header(f) == EthLen + ip_len(f)

(* The length test of parse_tcp, parse_udp and parse_icmp. *)
HasTransport(f) == transport_len(f) >= HeaderLen[f.protocol]

(* Where the payload starts; for TCP the header says it itself. *)
PayloadOffset(f) == IF f.protocol = "tcp" THEN f.doff * 4 ELSE HeaderLen[f.protocol]

PayloadLen(f) == transport_len(f) - PayloadOffset(f)

HasPayload(f) == /\ f.protocol # "other" /\ HasTransport(f)
                 /\ PayloadOffset(f) <= transport_len(f)

(* parse_http is called and looks at the payload as a string. *)
Scanned(f) == f.protocol = "tcp" /\ f.http /\ HasPayload(f) /\ PayloadLen(f) >= 16

(* The strings it allocates. *)
parse_http(f) == IF Scanned(f) /\ "method" \in f.text THEN f.text ELSE {}

HeaderReads(f) ==
    IF f.protocol # "other" /\ HasTransport(f)
    THEN transport_header(f) + HeaderLen[f.protocol]
    ELSE EthLen + (IF f.version = 4 THEN IpLen ELSE Ip6Len)

(* strncmp, strchr and strstr know nothing of payload_len. *)
TextReads(f) == IF Scanned(f) THEN transport_header(f) + PayloadOffset(f) + f.scan ELSE 0

packet_parse(f, len) ==
    [len |-> len, is_ipv4 |-> f.version = 4, src_ip |-> f.src, protocol |-> f.protocol,
     ip_len |-> ip_len(f), transport_len |-> transport_len(f),
     tcp_flags |-> IF f.protocol = "tcp" /\ HasTransport(f) THEN f.flags ELSE {},
     payload |-> IF HasPayload(f) THEN transport_header(f) + PayloadOffset(f) ELSE NULL,
     payload_len |-> IF HasPayload(f) THEN PayloadLen(f) ELSE 0,
     http |-> parse_http(f),
     reads |-> IF TextReads(f) > HeaderReads(f) THEN TextReads(f) ELSE HeaderReads(f)]

(* Mutant: the claimed length is not compared with the captured one. *)
Mut_packet_is_malformed(f, p) == p.is_ipv4 /\ (p.ip_len < IpLen \/ f.tot_len < IpLen)

packet_is_malformed(f, p) ==
    p.is_ipv4 /\ (p.ip_len < IpLen \/ f.tot_len < IpLen \/ f.tot_len > p.len - EthLen)
=============================================================================
