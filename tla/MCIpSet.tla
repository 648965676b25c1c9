------------------------------ MODULE MCIpSet ------------------------------
(***************************************************************************)
(* Instances of IpSet for TLC: IPv4 addresses of two bits, IPv6 addresses  *)
(* of three.                                                               *)
(***************************************************************************)
EXTENDS IpSet

V4(n) == [family |-> "v4", addr |-> n]
V6(n) == [family |-> "v6", addr |-> n]
CidrLine(n, ip, plen) == [no |-> n, ip |-> ip, slash |-> TRUE, prefix_len |-> plen]
BareLine(n, ip) == [no |-> n, ip |-> ip, slash |-> FALSE, prefix_len |-> 0]

NoLines == {}
V4Hosts == {V4(0), V4(1), V4(3)}
OneHost == {V4(1)}
MixedLines == {CidrLine(1, V4(0), 1), BareLine(2, V6(4)), CidrLine(3, V4(2), 3)}
=============================================================================
