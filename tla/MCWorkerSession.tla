------------------------- MODULE MCWorkerSession -------------------------
(***************************************************************************)
(* WorkerSession for TLC. Two handler threads and two configurations: an   *)
(* auxiliary call or a registration runs between the steps of a synthesis, *)
(* a worker is replaced for another configuration, and a cancel has        *)
(* another request to hit. Three request ids leave room for a synthesis    *)
(* before and after; three spawns for a crash and a replacement.           *)
(***************************************************************************)
EXTENDS WorkerSession
==========================================================================
