------------------------------ MODULE LruSpec ------------------------------
(***************************************************************************)
(* What the connection cache promises (src/include/lru_cache.h,            *)
(* ARCHITECTURE.md section 3): at most Capacity connections, ordered by    *)
(* recency; a new connection pushes out the least recently used one and    *)
(* nothing else, and only when the cache is full.                          *)
(***************************************************************************)
EXTENDS Naturals, Sequences, SequencesExt

CONSTANTS Keys, Capacity

VARIABLE order      \* the cached keys, most recently used first

Init == order = <<>>

Cached(k) == k \in ToSet(order)

(* A hit or an explicit update moves the key to the front. *)
Touch(k) == \E i \in DOMAIN order : order[i] = k /\ order' = <<k>> \o RemoveAt(order, i)

(* A miss puts the key in front and drops the last one if there is no room. *)
Insert(k) == /\ ~Cached(k)
             /\ order' = <<k>> \o (IF Len(order) >= Capacity THEN Front(order) ELSE order)

(* A removal or an expiry drops one key and keeps the order of the others. *)
Drop(k) == \E i \in DOMAIN order : order[i] = k /\ order' = RemoveAt(order, i)

Next == \E k \in Keys : Touch(k) \/ Insert(k) \/ Drop(k)

Spec == Init /\ [][Next]_order
=============================================================================
