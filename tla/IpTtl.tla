------------------------------- MODULE IpTtl -------------------------------
(***************************************************************************)
(* What a set of host addresses with expiry promises to its callers        *)
(* (src/include/ipset.h): each address is listed at most once, under the   *)
(* deadline of the last add that was accepted, until it is removed or the  *)
(* second after its deadline begins.  Whether an add is accepted is not    *)
(* promised; there is no purge, since nobody can see one.                  *)
(***************************************************************************)
EXTENDS Naturals

CONSTANTS Hosts,     \* the addresses callers use
          Deadlines, \* the expiry times callers pass; 0 = never
          Absent     \* the value of an address that is not listed

VARIABLES ttl,       \* Hosts -> deadline (0 = never) or Absent
          now

vars == <<ttl, now>>

Init == ttl = [h \in Hosts |-> Absent] /\ now \in Nat

Grant(h, deadline) == ttl' = [ttl EXCEPT ![h] = deadline] /\ UNCHANGED now

Revoke(h) == ttl' = [ttl EXCEPT ![h] = Absent] /\ UNCHANGED now

RevokeAll == ttl' = [h \in Hosts |-> Absent] /\ UNCHANGED now

Over(deadline, t) == deadline # Absent /\ deadline > 0 /\ t > deadline

Tick == /\ now' = now + 1
        /\ ttl' = [h \in Hosts |-> IF Over(ttl[h], now') THEN Absent ELSE ttl[h]]

Next == \/ \E h \in Hosts : Revoke(h) \/ \E d \in Deadlines : Grant(h, d)
        \/ RevokeAll \/ Tick

Spec == Init /\ [][Next]_vars
=============================================================================
