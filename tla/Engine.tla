------------------------------- MODULE Engine -------------------------------
(***************************************************************************)
(* What the engine (Qwen3TTS) has loaded: its four parts, the resources    *)
(* each of them holds, and the ggml backend they share. Every load of a    *)
(* part takes its resources one by one and can fail at each; the engine    *)
(* loads parts when a call needs them, unloads some of them again in       *)
(* low-memory mode, and all of them when the server has been idle.         *)
(*                                                                         *)
(* A call is a sequence of tasks (todo): a part it needs, which is loaded  *)
(* if its flag says it is not, or something the call does. The engine is   *)
(* driven as the server, the worker and the command line drive it: one     *)
(* call at a time, and a load only while no model is loaded.               *)
(***************************************************************************)
EXTENDS Integers, Sequences, FiniteSets

CONSTANT MaxRefs   \* bound: references of the shared backend up to which a load
                   \* of the speaker encoder may fail half way

ASSUME EngineAssumption == MaxRefs \in Nat

Parts == {"transformer", "decoder", "encoder", "codec"}

\* What load_model takes, in its order: the file and its header, the context
\* of the tensors, the weights, the backend, the backend for what the device
\* cannot compute, the scheduler. The header is closed again whatever happens.
LoadDecoder == <<"file", "ctx", "buffer", "backend", "cpu", "sched">>
LoadEncoder == <<"file", "ctx", "buffer", "backend", "cpu", "sched">>
LoadCodec   == <<"file", "ctx", "buffer", "backend", "cpu", "sched">>
\* The talker also takes an allocator for the code predictor's graph and a
\* buffer for the mask of the tokens it may not say.
LoadTransformer == <<"file", "ctx", "buffer", "backend", "cpu", "sched",
                     "galloc", "mask">>

Stages(p) ==
  CASE p = "transformer" -> LoadTransformer
    [] p = "decoder"     -> LoadDecoder
    [] p = "encoder"     -> LoadEncoder
    [] p = "codec"       -> LoadCodec

Resources(p) == {Stages(p)[i] : i \in 2..Len(Stages(p))}

VARIABLES
  env,      \* low: QWEN3_TTS_LOW_MEM; async: the vocoder has its own backend
  todo,     \* the tasks the call in progress still has
  stage,    \* of the part being loaded, the stage it is at; 0: none
  held,     \* what each part holds
  lost,     \* <<part, resource>> whose only pointer was overwritten
  refs,     \* shared_backend_state::ref_count
  shared,   \* the shared backend: "none", or its priority
  flag,     \* transformer_loaded_, decoder_loaded_, ...
  loaded,   \* models_loaded_
  cb,       \* abort_cb_ is the one that reads the cancel flag
  armed     \* the parts whose CPU backend has that callback

vars == <<env, todo, stage, held, lost, refs, shared, flag, loaded, cb, armed>>

Init ==
  /\ env \in [low : BOOLEAN, async : BOOLEAN]
  /\ todo = <<>> /\ stage = 0
  /\ held = [p \in Parts |-> {}] /\ lost = {}
  /\ refs = 0 /\ shared = "none"
  /\ flag = [p \in Parts |-> FALSE] /\ loaded = FALSE
  /\ cb = FALSE /\ armed = {}

Idle == todo = <<>>

-----------------------------------------------------------------------------
(* The shared backend *)

\* The vocoder has a backend of its own unless it is told not to.
Shares(p) == p # "decoder" \/ ~env.async

\* The first caller's priority sticks.
Acquire(prio) ==
  /\ refs' = refs + 1
  /\ shared' = IF shared = "none" THEN prio ELSE shared

Released(n) ==
  /\ refs' = refs - n
  /\ shared' = IF refs = n /\ n > 0 THEN "none" ELSE shared

\* The parts of ps give back everything they hold.
Free(ps) ==
  /\ held' = [p \in Parts |-> IF p \in ps THEN {} ELSE held[p]]
  /\ Released(Cardinality({p \in ps : Shares(p) /\ "backend" \in held[p]}))
  /\ armed' = armed \ ps

-----------------------------------------------------------------------------
(* Calls *)

\* load_model_files, or reload_model with the paths of set_model_paths: what
\* the talker and the vocoder hold is freed first, the flags are reset.
Load ==
  /\ Idle /\ ~loaded
  /\ todo' = IF env.low THEN <<"transformer", "ready">>
             ELSE <<"transformer", "decoder", "ready">>
  /\ Free({"transformer", "decoder"})
  /\ flag' = [flag EXCEPT !["transformer"] = FALSE, !["decoder"] = FALSE,
                          !["encoder"] = FALSE]
  /\ UNCHANGED <<env, stage, lost, loaded, cb>>

\* The file cannot be opened, or has no tokenizer.
TokenizerFails ==
  /\ ~Idle /\ Head(todo) = "transformer" /\ ~loaded /\ stage = 0
  /\ todo' = <<>>
  /\ UNCHANGED <<env, stage, held, lost, refs, shared, flag, loaded, cb, armed>>

\* A synthesis: with a voice to be encoded, with reference audio to be
\* encoded too, streamed.
SpeakTasks(voice, ref, streamed) ==
  CASE streamed -> <<"arm", "transformer", "decoder", "talk", "play", "disarm">>
    [] ref -> <<"encoder", "codec", "arm", "transformer", "talk", "decoder", "decode", "disarm">>
    [] voice /\ ~ref -> <<"encoder", "arm", "transformer", "talk", "decoder", "decode", "disarm">>
    [] OTHER -> <<"arm", "transformer", "talk", "decoder", "decode", "disarm">>

Speak(voice, ref, streamed) ==
  /\ Idle /\ loaded
  /\ ref => voice
  /\ streamed => ~voice
  /\ todo' = SpeakTasks(voice, ref, streamed)
  /\ UNCHANGED <<env, stage, held, lost, refs, shared, flag, loaded, cb, armed>>

\* extract_speaker_embedding, encode_speech_codes.
Register(p) ==
  /\ Idle /\ loaded /\ p \in {"encoder", "codec"}
  /\ todo' = <<p, "compute">>
  /\ UNCHANGED <<env, stage, held, lost, refs, shared, flag, loaded, cb, armed>>

UnloadEncoders ==
  /\ Idle
  /\ LET ps == {p \in {"encoder", "codec"} : flag[p]} IN
     /\ Free(ps)
     /\ flag' = [p \in Parts |-> flag[p] /\ p \notin ps]
  /\ UNCHANGED <<env, todo, stage, lost, loaded, cb>>

\* Mutant: only what is flagged is unloaded.
UnloadFlagged ==
  /\ Idle
  /\ Free({p \in Parts : flag[p]})
  /\ flag' = [p \in Parts |-> FALSE] /\ loaded' = FALSE
  /\ UNCHANGED <<env, todo, stage, lost, cb>>

Unload ==
  /\ Idle
  /\ Free(Parts)
  /\ flag' = [p \in Parts |-> FALSE] /\ loaded' = FALSE
  /\ UNCHANGED <<env, todo, stage, lost, cb>>

-----------------------------------------------------------------------------
(* A part is loaded *)

Part == Head(todo)
AtPart == ~Idle /\ Part \in Parts

\* The call ends here; the callback of before is put back.
GiveUp ==
  /\ todo' = IF cb THEN <<"disarm">> ELSE <<>>
  /\ stage' = 0

AlreadyLoaded ==
  /\ AtPart /\ stage = 0 /\ flag[Part]
  /\ todo' = Tail(todo)
  /\ UNCHANGED <<env, stage, held, lost, refs, shared, flag, loaded, cb, armed>>

\* Mutant: the decoder keeps what an earlier load left, as the encoder does.
FreesNone(p) == {}

\* load_model begins with unload_model; the speaker encoder's does not.
FreesFirst(p) == IF p = "encoder" THEN {} ELSE {p}

StartPart ==
  /\ AtPart /\ stage = 0 /\ ~flag[Part]
  /\ stage' = 1
  /\ Free(FreesFirst(Part))
  /\ UNCHANGED <<env, todo, lost, flag, loaded, cb>>

\* The talker asks for high priority. Its weights were read through the same
\* backend, taken and given back before (BufferStage).
Priority(p) == IF p = "transformer" THEN "high" ELSE "default"

\* A resource is taken; a pointer to an older one is overwritten.
Take(p, r) ==
  /\ held' = [held EXCEPT ![p] = @ \union {r}]
  /\ lost' = IF r \in held[p] THEN lost \union {<<p, r>>} ELSE lost
  /\ IF r = "backend" /\ Shares(p) THEN Acquire(Priority(p))
     ELSE UNCHANGED <<refs, shared>>

\* The talker's weights go through the shared backend, whose reference is
\* returned at once: if it was the only one the backend goes, and with it its
\* priority.
StageWorks ==
  /\ AtPart /\ stage \in 1..Len(Stages(Part))
  /\ stage' = stage + 1
  /\ LET r == Stages(Part)[stage] IN
     IF r = "file" THEN UNCHANGED <<held, lost, refs, shared>>
     ELSE Take(Part, r)
  /\ UNCHANGED <<env, todo, flag, loaded, cb, armed>>

\* What a failed stage leaves: tensors that do not fit what the part expects
\* are found after their context was made, weights that cannot be read after
\* their buffer was.
Leaves(r) == IF r \in {"ctx", "buffer", "mask"} THEN {{}, {r}} ELSE {{}}

\* The talker frees its tensors if the weights cannot be read; the others
\* leave what they have to the next unload.
Dropped(p, r) == IF p = "transformer" /\ r = "buffer" THEN {"ctx", "buffer"} ELSE {}

StageFails ==
  /\ AtPart /\ stage \in 1..Len(Stages(Part))
  /\ Part = "encoder" => stage = 1 \/ refs < MaxRefs
  /\ GiveUp
  /\ LET r == Stages(Part)[stage] IN
     \E left \in Leaves(r) :
       held' = [held EXCEPT ![Part] = (@ \union left) \ Dropped(Part, r)]
  /\ UNCHANGED <<env, lost, refs, shared, flag, loaded, cb, armed>>

\* Mutant: a part loaded during a synthesis is not given the callback.
ArmsNone(p) == FALSE

\* A part loaded on demand gets the callback; the codec encoder never does.
Arms(p) == cb /\ p # "codec"

PartLoaded ==
  /\ AtPart /\ stage = Len(Stages(Part)) + 1
  /\ stage' = 0 /\ todo' = Tail(todo)
  /\ flag' = [flag EXCEPT ![Part] = TRUE]
  /\ armed' = IF Arms(Part) THEN armed \union {Part} ELSE armed
  /\ UNCHANGED <<env, held, lost, refs, shared, loaded, cb>>

\* The encoder does not fit the talker.
EncoderMismatch ==
  /\ AtPart /\ Part = "encoder" /\ stage = Len(Stages(Part)) + 1
  /\ GiveUp
  /\ Free({"encoder"})
  /\ UNCHANGED <<env, lost, flag, loaded, cb>>

-----------------------------------------------------------------------------
(* What a call does *)

At(task) == ~Idle /\ Head(todo) = task

Ready ==
  /\ At("ready")
  /\ todo' = Tail(todo) /\ loaded' = TRUE
  /\ UNCHANGED <<env, stage, held, lost, refs, shared, flag, cb, armed>>

Compute ==
  /\ At("compute")
  /\ todo' = Tail(todo)
  /\ UNCHANGED <<env, stage, held, lost, refs, shared, flag, loaded, cb, armed>>

\* set_abort_callback, on the parts whose CPU backend is there.
Arm ==
  /\ At("arm")
  /\ todo' = Tail(todo)
  /\ cb' = TRUE
  /\ armed' = {p \in Parts \ {"codec"} : "cpu" \in held[p]}
  /\ UNCHANGED <<env, stage, held, lost, refs, shared, flag, loaded>>

Disarm ==
  /\ At("disarm")
  /\ todo' = Tail(todo)
  /\ cb' = FALSE /\ armed' = {}
  /\ UNCHANGED <<env, stage, held, lost, refs, shared, flag, loaded>>

\* A computation fails, is cancelled or finds nothing to say.
ComputationFails ==
  /\ At("talk") \/ At("play") \/ At("decode") \/ At("compute")
  /\ GiveUp
  /\ UNCHANGED <<env, held, lost, refs, shared, flag, loaded, cb, armed>>

\* In low-memory mode a part is unloaded after its work, but for the vocoder
\* of a streamed synthesis.
Works(task, p) ==
  /\ At(task)
  /\ todo' = Tail(todo)
  /\ Free(IF env.low /\ task # "play" THEN {p} ELSE {})
  /\ flag' = IF env.low /\ task # "play" THEN [flag EXCEPT ![p] = FALSE] ELSE flag
  /\ UNCHANGED <<env, stage, lost, loaded, cb>>

Next ==
  \/ Load \/ TokenizerFails
  \/ \E voice, ref, streamed \in BOOLEAN : Speak(voice, ref, streamed)
  \/ \E p \in Parts : Register(p)
  \/ UnloadEncoders \/ Unload
  \/ AlreadyLoaded \/ StartPart \/ StageWorks \/ StageFails
  \/ PartLoaded \/ EncoderMismatch
  \/ Ready \/ Compute \/ Arm \/ Disarm \/ ComputationFails
  \/ Works("talk", "transformer") \/ Works("play", "decoder")
  \/ Works("decode", "decoder")

Spec == Init /\ [][Next]_vars

-----------------------------------------------------------------------------
(* Properties *)

\* A flag is the truth: a part whose flag is up holds everything it needs,
\* whatever failed before it; and a part that computes is such a part.
FlagsTell ==
  /\ \A p \in Parts : flag[p] => held[p] = Resources(p)
  /\ At("talk") => flag["transformer"]
  /\ At("play") \/ At("decode") => flag["decoder"]

\* The shared backend lives as long as somebody holds it and no longer: the
\* count is the number of holders, through every failed load and reload, but
\* for the references a reload of the speaker encoder has lost.
Sharers == {p \in Parts : Shares(p) /\ "backend" \in held[p]}
LostRef == <<"encoder", "backend">>
BackendCounted ==
  /\ IF LostRef \in lost THEN refs > Cardinality(Sharers)
                         ELSE refs = Cardinality(Sharers)
  /\ shared = "none" <=> refs = 0

\* Flags, holdings and the count of the shared backend agree.
PartsAccounted == FlagsTell /\ BackendCounted

\* "Release all model GPU/CPU buffers, schedulers, and backends": after
\* unload_model no part holds anything and the shared backend is gone. Only
\* what the speaker encoder, which does not free itself before it is loaded
\* again, held of a load that failed half way is never given back.
AllFree == \A p \in Parts : held[p] = {}
UnloadReleasesAll ==
  [][/\ \A l \in lost' : l[1] = "encoder"
     /\ Unload => AllFree' /\ (LostRef \notin lost => shared' = "none")]_vars

\* A cancel reaches whatever computes: while a synthesis talks or decodes,
\* the part that works has the callback, also if it was loaded for it; and no
\* callback is left behind when the synthesis has returned.
CancelReaches ==
  /\ At("talk") => "transformer" \in armed
  /\ At("play") \/ At("decode") => "decoder" \in armed
  /\ Idle => armed = {}
=============================================================================
