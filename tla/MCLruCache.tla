---------------------------- MODULE MCLruCache ----------------------------
(***************************************************************************)
(* Instances of LruCache for TLC.                                          *)
(***************************************************************************)
EXTENDS LruCache

AllTcp == [k \in Keys |-> "tcp"]
=============================================================================
