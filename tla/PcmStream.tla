----------------------------- MODULE PcmStream -----------------------------
(***************************************************************************)
(* What the consumer of a streamed synthesis is promised (on_pcm in        *)
(* streaming_opts): the generated frames reach it chunk by chunk, in their *)
(* order, each once and none before it was generated; after it has said    *)
(* no, or after a chunk was lost, nothing more comes; and a stream that is *)
(* reported as a success has delivered every frame that was generated.     *)
(***************************************************************************)
EXTENDS Naturals, Sequences

VARIABLES
  open,      \* a synthesis is in progress
  streamed,  \* its frames go to a consumer, not into the result only
  made,      \* frames generated so far
  heard,     \* the chunks delivered so far, each the frames from..to
  over,      \* nothing more may come
  verdict    \* "none", "whole" or "failed"

vars == <<open, streamed, made, heard, over, verdict>>

\* The last frame of a sequence of chunks that begins with frame 1.
End(chunks) == IF chunks = <<>> THEN 0 ELSE chunks[Len(chunks)].to

Init == ~open /\ ~streamed /\ made = 0 /\ heard = <<>> /\ ~over /\ verdict = "none"

Open ==
  /\ ~open /\ open' /\ streamed' \in BOOLEAN
  /\ made' = 0 /\ heard' = <<>> /\ ~over' /\ verdict' = "none"

Make ==
  /\ open /\ made' = made + 1
  /\ UNCHANGED <<open, streamed, heard, over, verdict>>

\* The consumer gets the next frames, up to the frame to, and answers.
Deliver(to) ==
  /\ open /\ streamed /\ ~over
  /\ heard' = Append(heard, [from |-> End(heard) + 1, to |-> to])
  /\ over' \in BOOLEAN
  /\ UNCHANGED <<open, streamed, made, verdict>>

Lose ==
  /\ open /\ over'
  /\ UNCHANGED <<open, streamed, made, heard, verdict>>

Close(v) ==
  /\ open /\ ~open'
  /\ v = "whole" /\ streamed => ~over /\ End(heard) = made
  /\ verdict' = v
  /\ UNCHANGED <<streamed, made, heard, over>>

Next ==
  \/ Open \/ Make \/ Lose
  \/ \E to \in (End(heard) + 1)..made : Deliver(to)
  \/ \E v \in {"whole", "failed"} : Close(v)

Spec == Init /\ [][Next]_vars
=============================================================================
