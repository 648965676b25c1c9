---------------------------- MODULE MCPipeline -----------------------------
(***************************************************************************)
(* The instance of Pipeline for TLC.                                       *)
(***************************************************************************)
EXTENDS Pipeline

(* The first two sources share a slot. *)
SharedSlot == [ip \in IPs |-> IF ip = 3 THEN 2 ELSE 1]
=============================================================================
