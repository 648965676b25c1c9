---- MODULE MCFirewall ----
(* Instances of Firewall: two IPv4 hosts and an IPv6 host. *)
EXTENDS Firewall

Ip(f, a) == [family |-> f, addr |-> a]
TwoFamilies == {Ip("v4", 1), Ip("v4", 2), Ip("v6", 1)}
====
