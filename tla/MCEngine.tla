------------------------------ MODULE MCEngine ------------------------------
(***************************************************************************)
(* The engine's parts and the streaming vocoder, for TLC: one or the other *)
(* of the two machines runs, as its own specification says, and the other  *)
(* stays where it begins. They share no variable, and no property speaks   *)
(* of both.                                                                *)
(*                                                                         *)
(* Parts: one engine; every call, every failure, both modes and both       *)
(* backends. Vocoder: a reference longer than the ceiling and one that     *)
(* fits a chunk, a stride of four frames, and hints below, at and above    *)
(* the ceiling and its half: a slab is kept, grown, capped and freed.      *)
(***************************************************************************)
EXTENDS Engine, VocoderStream, TLC

CONSTANTS v1, v2

MCRefFrames == v1 :> 13 @@ v2 :> 3

MCRequests == [voice : {v1, v2, NoVoice}, hint : {5, 9, 14}]

VARIABLE turn   \* the machine that runs

MCInit ==
  /\ turn \in {"parts", "vocoder"} /\ Init /\ VocoderInit
  /\ turn = "parts" => req = CHOOSE r \in Requests : TRUE
  /\ turn = "vocoder" => env = [low |-> FALSE, async |-> FALSE]

MCSpec ==
  /\ MCInit
  /\ [][ \/ turn = "parts" /\ Next /\ UNCHANGED <<vocoderVars, turn>>
         \/ turn = "vocoder" /\ VocoderNext /\ UNCHANGED <<vars, turn>> ]_<<vars, vocoderVars, turn>>
=============================================================================
