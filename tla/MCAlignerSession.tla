------------------------- MODULE MCAlignerSession -------------------------
(***************************************************************************)
(* AlignerSession for TLC. Two streams, so that a second one can meet what *)
(* the first left behind; two processes, for a crash or an unload between  *)
(* them; three chunks, one in flight and two coalesced; two words, so that *)
(* a resolved prefix can shrink.                                           *)
(***************************************************************************)
EXTENDS AlignerSession
===========================================================================
