------------------------------ MODULE Ingress -------------------------------
(***************************************************************************)
(* The way of a frame into the daemon: the XDP program (Xdp), the capture  *)
(* loop's pcap_callback (src/src/packet/capture.c), the parser (Parser)    *)
(* and the packet handler, which gets the parsed packet and gives it back. *)
(* What the handler does with it is Pipeline's and Protect's subject.      *)
(***************************************************************************)
EXTENDS Xdp

CONSTANTS Snaplen       \* config->snaplen, the most bytes libpcap captures of a frame

ASSUME SnaplenAssumption == Snaplen \in Nat

VARIABLES taken,        \* the frame pcap_callback works on, or Idle
          pkt,          \* the packet handed to the callback, or Idle
          heap          \* the allocations of pcap_callback and the parser that are live

vars == <<wire, cpu, stats, whitelist, blacklist, stack, updates, hits, taken, pkt, heap>>

Init == XdpInit /\ taken = Idle /\ pkt = Idle /\ heap = {}

caplen(f) == IF f.len > Snaplen THEN Snaplen ELSE f.len

Parsable(f, len) == len # 0 /\ parse_ethernet(len) /\ parse_ip(f, len)

(* pcap_callback's two allocations; when one fails the frame is gone and     *)
(* nothing is kept.                                                          *)
Capture ==
    /\ taken = Idle /\ stack # <<>>
    /\ stack' = Tail(stack)
    /\ \/ taken' = Head(stack) /\ heap' = {"packet", "data"}
       \/ UNCHANGED <<taken, heap>>
    /\ UNCHANGED <<wire, cpu, stats, whitelist, blacklist, updates, hits, pkt>>

(* packet_free: everything the packet points to. *)
packet_free == heap \ {"packet", "data", "method", "uri", "ua"}

(* Mutant: the early return forgets the packet. *)
MutParseFails ==
    /\ taken # Idle /\ pkt = Idle /\ ~Parsable(taken.frame, caplen(taken.frame))
    /\ taken' = Idle
    /\ UNCHANGED <<wire, cpu, stats, whitelist, blacklist, stack, updates, hits, pkt, heap>>

(* packet_parse fails. *)
ParseFails ==
    /\ taken # Idle /\ pkt = Idle /\ ~Parsable(taken.frame, caplen(taken.frame))
    /\ taken' = Idle /\ heap' = packet_free
    /\ UNCHANGED <<wire, cpu, stats, whitelist, blacklist, stack, updates, hits, pkt>>

(* It succeeds, and the callback has the packet. *)
Parse ==
    /\ taken # Idle /\ pkt = Idle /\ Parsable(taken.frame, caplen(taken.frame))
    /\ pkt' = packet_parse(taken.frame, caplen(taken.frame))
    /\ heap' = heap \cup pkt'.http
    /\ UNCHANGED <<wire, cpu, stats, whitelist, blacklist, stack, updates, hits, taken>>

(* The callback has returned. *)
Done ==
    /\ pkt # Idle
    /\ pkt' = Idle /\ taken' = Idle /\ heap' = packet_free
    /\ UNCHANGED <<wire, cpu, stats, whitelist, blacklist, stack, updates, hits>>

Next == \/ \E c \in CPUs : XdpStep(c) /\ UNCHANGED <<taken, pkt, heap>>
        \/ \E a \in Addrs : MapUpdate(a) /\ UNCHANGED <<taken, pkt, heap>>
        \/ Capture \/ ParseFails \/ Parse \/ Done

Spec == Init /\ [][Next]_vars

-----------------------------------------------------------------------------
(* Every variable has its type. *)
TypeOK == /\ stats \in [CPUs -> [Stats -> Nat]]
          /\ whitelist \subseteq Addrs /\ blacklist \subseteq Addrs
          /\ \A c \in Busy : cpu[c].step \in Steps
          /\ hits \in [CPUs -> Nat] /\ updates \in 0..MaxUpdates
          /\ heap \subseteq {"packet", "data", "method", "uri", "ua"}
          /\ pkt # Idle => pkt \in Packet

(* The text parse_http looks at ends in the payload, and the payload in the  *)
(* captured bytes; parse_http makes neither sure.                            *)
TextEnds == /\ ~packet_is_malformed(taken.frame, pkt) /\ taken.frame.tot_len >= pkt.ip_len
            /\ taken.frame.scan <= pkt.payload_len

(* A packet the XDP program has looked into, of a frame captured whole, is   *)
(* parsed within the captured bytes: the program's tests against data_end    *)
(* make up for the parser's, which trust tot_len (xdp_filter.c:134, 162,     *)
(* 186; parser.c:135, 173, 192).  Where parse_http looks for strings         *)
(* (parser.c:214-268), this holds of a request that ends in the payload of a *)
(* packet that is not malformed.                                             *)
VettedReads ==
    pkt # Idle /\ pkt.is_ipv4 /\ taken.vetted /\ taken.frame.len <= Snaplen
        /\ (Scanned(taken.frame) => TextEnds) =>
            pkt.reads <= pkt.len

(* The payload of an IPv4 packet that is not malformed ends where tot_len    *)
(* says, inside the captured bytes, provided that tot_len covers the header  *)
(* (parser.c:101, 164, 184, 203; capture.c:213-239).                         *)
PayloadInside ==
    pkt # Idle /\ pkt.is_ipv4 /\ ~packet_is_malformed(taken.frame, pkt)
        /\ taken.frame.tot_len >= pkt.ip_len /\ pkt.payload # NULL =>
            /\ pkt.payload + pkt.payload_len = EthLen + taken.frame.tot_len
            /\ pkt.payload + pkt.payload_len <= pkt.len

(* Between two frames nothing of the earlier ones is allocated, on every way *)
(* out of pcap_callback (capture.c:121-155, 186-196).                        *)
NoLeak == taken = Idle => heap = {}
=============================================================================
