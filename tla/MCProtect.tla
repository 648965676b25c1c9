----------------------------- MODULE MCProtect -----------------------------
(***************************************************************************)
(* Instances of Protect for TLC.                                           *)
(***************************************************************************)
EXTENDS Protect

Udp(fates) == [proto : {"UDP"}, fate : fates]
Icmp(fates) == [proto : {"ICMP"}, fate : fates, ping : BOOLEAN]
Tcp(flags, fates, requests) == [proto : {"TCP"}, flags : flags, fate : fates, http : requests]

(* Every rate; requests in PSH+ACK segments and in segments with a rarer    *)
(* combination of flags.  One lowers the score by 5 before it is judged, one *)
(* by 10 and is dropped.                                                    *)
Mixed == Udp({"ok"}) \cup Icmp({"ok"})
    \cup Tcp({"SYN", "ACK"}, {"ok"}, {NotHttp})
    \cup Tcp({"PSHACK"}, {"ok"}, {[method |-> "GET", agent |-> "none", bad |-> FALSE]})
    \cup Tcp({"other"}, {"ok"}, {[method |-> "other", agent |-> "bot", bad |-> FALSE]})

(* One threshold for all rates but that of ACKs, which is never set. *)
Two == [c \in Rates |-> IF c = "tcp_ack_pps" THEN 0 ELSE 2]
=============================================================================
