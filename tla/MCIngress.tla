----------------------------- MODULE MCIngress ------------------------------
(* Instances of Ingress: one frame of many, or two of a few. *)
EXTENDS Ingress, TLC
CONSTANTS a, b, c1, c2
Cores == Permutations(CPUs)

Plain == [len |-> 74, ethertype |-> "ip", version |-> 4, ihl |-> 5, tot_len |-> 60,
          protocol |-> "tcp", src |-> a, flags |-> {"syn"}, doff |-> 5, http |-> FALSE,
          sport |-> 1000, udp_len |-> 40, redirect |-> FALSE, text |-> {},
          scan |-> 4]

(* Lengths around every header's end, and length fields that do not fit. *)
Shapes == {[Plain EXCEPT !.len = n, !.ihl = i, !.tot_len = t, !.protocol = p, !.version = v,
                         !.ethertype = e, !.doff = d] :
              n \in {13, 14, 33, 34, 42, 54, 62, 80}, i \in {4, 5, 7}, t \in {19, 20, 28, 44, 66},
              p \in {"tcp", "udp", "icmp", "other"}, v \in {4, 6, 0},
              e \in {"ip", "other"}, d \in {4, 5, 15}}

TcpFrames == {[Plain EXCEPT !.flags = s, !.http = h, !.text = x] :
                 s \in SUBSET {"syn", "ack", "fin", "rst"}, h \in BOOLEAN,
                 x \in {{}, {"uri", "ua"}, {"method"}, {"method", "uri", "ua"}}}
(* Requests captured whole, whose text ends before the payload does, with it *)
(* or after it, and in frames shorter than tot_len says.                     *)
HttpFrames == {[Plain EXCEPT !.flags = {"ack"}, !.http = TRUE, !.len = n, !.tot_len = t,
                             !.text = {"method", "uri"}, !.scan = k] :
                  n \in {54, 69, 70}, t \in {55, 56, 1500}, k \in {15, 16, 17}}
OtherFrames == {[Plain EXCEPT !.protocol = p, !.sport = s, !.udp_len = u, !.redirect = r, !.tot_len = t] :
                 p \in {"udp", "icmp"}, s \in {53, 1000}, u \in {7, 520, 521},
                 r \in BOOLEAN, t \in {60, 1501}}

Few == {Plain, [Plain EXCEPT !.src = b], [Plain EXCEPT !.len = 13], [Plain EXCEPT !.ihl = 4],
        [Plain EXCEPT !.flags = {"syn", "rst"}], [Plain EXCEPT !.protocol = "udp"]}

Frames1Or2 == {<<f>> : f \in Shapes \cup TcpFrames \cup HttpFrames \cup OtherFrames} \cup (Few \X Few)
=============================================================================
