---------------------------- MODULE MCHashtable ----------------------------
(***************************************************************************)
(* The instance of Hashtable for TLC.                                      *)
(***************************************************************************)
EXTENDS Hashtable

(* Two buckets, two keys that share one of them. *)
Colliding == [k \in Keys |-> IF k = 3 THEN 2 ELSE 1]
=============================================================================
