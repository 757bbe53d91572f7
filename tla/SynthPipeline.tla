--------------------------- MODULE SynthPipeline ---------------------------
(***************************************************************************)
(* One synthesis after another through Qwen3TTS::synthesize_internal. The  *)
(* talker thread (the caller) generates frames; for a streamed synthesis   *)
(* its frame callback batches them, and each batch is decoded and handed   *)
(* to the consumer by the vocoder thread or, with                          *)
(* QWEN3_TTS_NO_ASYNC_VOCODER, by the talker itself. Frames are numbered;  *)
(* a chunk is the frames from..to. The queue's mutex and condition         *)
(* variable are modelled; what is computed is not. Any computation may     *)
(* fail, and does so sooner or later once the cancel flag is up (the abort *)
(* callback); any call of the consumer may be refused or throw.            *)
(*                                                                         *)
(* The callbacks hold a reference to run_vocoder_chunk, whose scope ends   *)
(* before generate begins: calling it then is undefined. In a build that   *)
(* keeps its stack slot the call works; in another one the process dies    *)
(* (Dies) and is started again. Exceptions for want of memory are left     *)
(* out.                                                                    *)
(*                                                                         *)
(* stream_cb_count and stream_cb_aborted are plain variables the vocoder   *)
(* thread writes and the talker reads: a read gives the value before or    *)
(* after a concurrent write.                                               *)
(***************************************************************************)
EXTENDS Integers, Sequences

CONSTANTS
  Batch,      \* streaming_opts::batch_size
  First,      \* first_batch_size, 0 if there is none
  MaxFrames   \* max_audio_tokens

ASSUME SizesAssumption ==
  /\ Batch \in Nat \ {0} /\ First \in Nat
  /\ MaxFrames \in Nat \ {0}

VARIABLES
  build,      \* async: QWEN3_TTS_NO_ASYNC_VOCODER is not set;
              \* kept: the build keeps the stack slot of run_vocoder_chunk
  pc,         \* where the talker thread is
  streaming,  \* this synthesis is streamed
  frames,     \* frames in speech_codes
  buffered,   \* of these, the last ones that are in stream_buf
  queue,      \* q: the chunks waiting for the vocoder thread
  mutex,      \* q_mtx: "free", or held by the vocoder thread
  worker,     \* the vocoder thread: "none" before it starts and once joined
  chunk,      \* the chunk run_vocoder_chunk works on
  done, err,  \* AsyncVocoderState::done, err
  errMsg,     \* AsyncVocoderState::err_msg: "none" or what it is about
  cbCount,    \* stream_cb_count
  cbAborted,  \* stream_cb_aborted
  cancel,     \* cancel_requested_
  genOk,      \* generate_ok
  frameCb,    \* frame_cb_: "empty", this synthesis' "own", or "stale"
  scope,      \* run_vocoder_chunk is alive
  audio,      \* the last frame in result.audio
  result,     \* result.success and error_msg
  heard,      \* history: the chunks given to on_pcm
  over        \* history: a chunk could not be decoded or was refused

talkerVars == <<pc, streaming, frames, buffered, genOk, frameCb, scope>>
queueVars == <<queue, mutex, done>>
chunkVars == <<chunk, audio, heard, cbCount, cbAborted, err, errMsg, over>>
vars == <<build, talkerVars, queueVars, worker, chunkVars, cancel, result>>

NoChunk == [from |-> 0, to |-> 0]
NoResult == [success |-> FALSE, msg |-> "none"]

Init ==
  /\ build \in [async : BOOLEAN, kept : BOOLEAN]
  /\ pc = "idle" /\ streaming = FALSE /\ frames = 0 /\ buffered = 0
  /\ genOk = FALSE /\ frameCb = "empty" /\ scope = FALSE
  /\ queue = <<>> /\ mutex = "free" /\ done = FALSE
  /\ worker = "none"
  /\ chunk = NoChunk /\ audio = 0 /\ heard = <<>>
  /\ cbCount = 0 /\ cbAborted = FALSE /\ err = FALSE /\ errMsg = "none"
  /\ over = FALSE /\ cancel = FALSE /\ result = NoResult

Goto(from, to) == pc = from /\ pc' = to

\* The ways out of synthesize_internal: the caller has its result.
Return(msg) ==
  /\ pc' = "idle" /\ result' = [success |-> msg = "none", msg |-> msg]


Decoder == <<audio, heard, cbCount, cbAborted, err, errMsg, over>>

-----------------------------------------------------------------------------
(* The synthesis begins *)

\* The caller clears the cancel flag and calls; the abort callback is set.
Begin(s) ==
  /\ Goto("idle", "setup")
  /\ streaming' = s /\ frames' = 0 /\ buffered' = 0 /\ cancel' = FALSE
  /\ queue' = <<>> /\ done' = FALSE /\ chunk' = NoChunk
  /\ audio' = 0 /\ heard' = <<>> /\ cbCount' = 0 /\ cbAborted' = FALSE
  /\ err' = FALSE /\ errMsg' = "none" /\ over' = FALSE
  /\ result' = NoResult
  /\ UNCHANGED <<build, genOk, frameCb, scope, mutex, worker>>

\* No tokens, no model, no vocoder, or the warm-up failed.
SetupFails ==
  /\ pc = "setup" /\ Return("setup")
  /\ UNCHANGED <<build, streaming, frames, buffered, genOk, frameCb, scope,
                 queueVars, worker, chunkVars, cancel>>

\* The vocoder thread starts and the frame callback is installed, inside
\* the scope of run_vocoder_chunk ...
Setup ==
  /\ Goto("setup", IF streaming THEN "installed" ELSE "generate")
  /\ worker' = IF streaming /\ build.async THEN "check" ELSE worker
  /\ frameCb' = IF streaming THEN "own" ELSE frameCb
  /\ scope' = streaming
  /\ UNCHANGED <<build, streaming, frames, buffered, genOk, queueVars,
                 chunkVars, cancel, result>>

\* ... which ends here, before the keys are hashed and generate is called.
LeaveScope ==
  /\ Goto("installed", "generate")
  /\ scope' = FALSE
  /\ UNCHANGED <<build, streaming, frames, buffered, genOk, frameCb, queueVars,
                 worker, chunkVars, cancel, result>>

-----------------------------------------------------------------------------
(* TTSTransformer::generate, and the frame callback it calls *)

Budget == frames < MaxFrames

\* A frame is sampled, its codes predicted and appended to the output.
Frame ==
  /\ Budget
  /\ Goto("generate", IF frameCb = "empty" THEN "generate" ELSE "callback")
  /\ frames' = frames + 1
  /\ UNCHANGED <<build, streaming, buffered, genOk, frameCb, scope, queueVars,
                 worker, chunkVars, cancel, result>>

\* The end of the speech or of the budget; or a graph failed or was aborted.
GenerateEnds ==
  /\ Goto("generate", "generated")
  /\ genOk' \in BOOLEAN
  /\ UNCHANGED <<build, streaming, frames, buffered, frameCb, scope, queueVars,
                 worker, chunkVars, cancel, result>>

InCallback == pc = "callback" /\ frameCb = "own"
Refuses == cancel \/ err

\* The callback sees a cancel or an error, and generate returns false.
CallbackStops ==
  /\ InCallback /\ Refuses
  /\ pc' = "generated" /\ genOk' = FALSE
  /\ cbAborted' = TRUE
  /\ UNCHANGED <<build, streaming, frames, buffered, frameCb, scope, queueVars,
                 worker, chunk, audio, heard, cbCount, err, errMsg, over,
                 cancel, result>>

\* The first emit can use the smaller batch: until a chunk is decoded.
Target == IF cbCount = 0 /\ First > 0 THEN First ELSE Batch
Full == buffered + 1 >= Target
Batched == [from |-> frames - buffered, to |-> frames]

CallbackBuffers ==
  /\ InCallback /\ ~Refuses /\ ~Full
  /\ pc' = "generate"
  /\ buffered' = buffered + 1
  /\ UNCHANGED <<build, streaming, frames, genOk, frameCb, scope, queueVars,
                 worker, chunkVars, cancel, result>>

\* A full batch goes to the queue, under its mutex ...
CallbackPushes ==
  /\ InCallback /\ ~Refuses /\ Full
  /\ build.async /\ mutex = "free"
  /\ pc' = "notify"
  /\ queue' = Append(queue, Batched) /\ buffered' = 0
  /\ UNCHANGED <<build, streaming, frames, genOk, frameCb, scope, mutex, done,
                 worker, chunkVars, cancel, result>>

Woken == IF worker = "asleep" THEN "check" ELSE worker

\* ... and the vocoder thread is notified after it was unlocked.
Notify ==
  /\ Goto("notify", "generate")
  /\ worker' = Woken
  /\ UNCHANGED <<build, streaming, frames, buffered, genOk, frameCb, scope,
                 queueVars, chunkVars, cancel, result>>

Callable == scope \/ build.kept

\* Without the vocoder thread the talker runs the chunk itself.
CallbackRuns ==
  /\ InCallback /\ ~Refuses /\ Full
  /\ ~build.async /\ Callable
  /\ pc' = "decode"
  /\ chunk' = Batched /\ buffered' = 0
  /\ UNCHANGED <<build, streaming, frames, genOk, frameCb, scope, queueVars,
                 worker, Decoder, cancel, result>>

-----------------------------------------------------------------------------
(* run_vocoder_chunk *)

DecodeFails ==
  /\ err' = TRUE /\ errMsg' = "decode" /\ cbAborted' = TRUE
  /\ over' = TRUE
  /\ UNCHANGED <<audio, heard, cbCount>>

DecodeWorks ==
  /\ audio' = chunk.to /\ cbCount' = cbCount + 1
  /\ UNCHANGED <<heard, cbAborted, err, errMsg, over>>

\* on_pcm takes the chunk; no is an answer.
Consumed(yes) ==
  /\ heard' = Append(heard, chunk)
  /\ err' = (err \/ ~yes) /\ cbAborted' = (cbAborted \/ ~yes)
  /\ over' = ~yes
  /\ UNCHANGED <<audio, cbCount, errMsg>>

\* on_pcm throws; the vocoder thread catches it.
Thrown ==
  /\ heard' = Append(heard, chunk)
  /\ err' = TRUE /\ over' = TRUE
  /\ errMsg' = IF errMsg = "none" THEN "thrown" ELSE errMsg
  /\ UNCHANGED <<audio, cbCount, cbAborted>>

\* The chunk as a step of the callback.
RunDecode ==
  /\ pc = "decode"
  /\ \/ DecodeFails /\ pc' = "generated" /\ genOk' = FALSE
     \/ DecodeWorks /\ pc' = "deliver" /\ UNCHANGED genOk
  /\ UNCHANGED <<build, streaming, frames, buffered, frameCb, scope, queueVars,
                 worker, chunk, cancel, result>>

RunDeliver(yes) ==
  /\ pc = "deliver" /\ Consumed(yes)
  /\ pc' = IF yes THEN "generate" ELSE "generated"
  /\ genOk' = (genOk /\ yes)
  /\ UNCHANGED <<build, streaming, frames, buffered, frameCb, scope, queueVars,
                 worker, chunk, cancel, result>>

\* The exception leaves generate and synthesize_internal: the frame callback
\* stays installed, with its references to a frame that is gone.
RunThrows ==
  /\ Goto("deliver", "unwind")
  /\ heard' = Append(heard, chunk) /\ over' = TRUE
  /\ frameCb' = "stale"
  /\ UNCHANGED <<build, streaming, frames, buffered, genOk, scope, queueVars,
                 worker, chunk, audio, cbCount, cbAborted, err, errMsg, cancel,
                 result>>

-----------------------------------------------------------------------------
(* The vocoder thread *)

\* The wait's predicate, with the mutex held; a false one puts the thread to
\* sleep and releases the mutex in one step (Sleep).
Check ==
  /\ worker = "check" /\ mutex = "free"
  /\ queue = <<>> /\ ~done
  /\ mutex' = "held" /\ worker' = "parking"
  /\ UNCHANGED <<build, talkerVars, queue, done, chunkVars, cancel, result>>

Sleep ==
  /\ worker = "parking"
  /\ mutex' = "free" /\ worker' = "asleep"
  /\ UNCHANGED <<build, talkerVars, queue, done, chunkVars, cancel, result>>

SpuriousWakeup ==
  /\ worker = "asleep" /\ worker' = "check"
  /\ UNCHANGED <<build, talkerVars, queueVars, chunkVars, cancel, result>>

Take ==
  /\ worker = "check" /\ mutex = "free" /\ queue # <<>>
  /\ Callable
  /\ chunk' = Head(queue) /\ queue' = Tail(queue)
  /\ worker' = "decode"
  /\ UNCHANGED <<build, talkerVars, mutex, done, Decoder, cancel, result>>

\* Done, and drained.
Exit ==
  /\ worker = "check" /\ mutex = "free" /\ queue = <<>> /\ done
  /\ worker' = "exited"
  /\ UNCHANGED <<build, talkerVars, queueVars, chunkVars, cancel, result>>

WorkerDecode ==
  /\ worker = "decode"
  /\ \/ DecodeFails /\ worker' = "exited"
     \/ DecodeWorks /\ worker' = "deliver"
  /\ UNCHANGED <<build, talkerVars, queueVars, chunk, cancel, result>>

WorkerDeliver ==
  /\ worker = "deliver"
  /\ \/ Consumed(TRUE) /\ worker' = "check"
     \/ Consumed(FALSE) /\ worker' = "exited"
     \/ Thrown /\ worker' = "exited"
  /\ UNCHANGED <<build, talkerVars, queueVars, chunk, cancel, result>>

-----------------------------------------------------------------------------
(* After generate *)

\* Mutant: the join left to the destructor.
DrainedAtExit == "judge"
Drained == IF worker = "none" THEN "judge" ELSE "signal"

ClearCallback ==
  /\ Goto("generated", Drained)
  /\ frameCb' = IF streaming THEN "empty" ELSE frameCb
  /\ UNCHANGED <<build, streaming, frames, buffered, genOk, scope, queueVars,
                 worker, chunkVars, cancel, result>>

\* Mutant: done is set without the mutex.
SignalUnlocked ==
  /\ Goto("signal", "wake")
  /\ done' = TRUE
  /\ UNCHANGED <<build, streaming, frames, buffered, genOk, frameCb, scope,
                 queue, mutex, worker, chunkVars, cancel, result>>

SignalDone ==
  /\ Goto("signal", "wake")
  /\ mutex = "free"
  /\ done' = TRUE
  /\ UNCHANGED <<build, streaming, frames, buffered, genOk, frameCb, scope,
                 queue, mutex, worker, chunkVars, cancel, result>>

WakeAll ==
  /\ Goto("wake", "join")
  /\ worker' = Woken
  /\ UNCHANGED <<build, streaming, frames, buffered, genOk, frameCb, scope,
                 queueVars, chunkVars, cancel, result>>

Join ==
  /\ Goto("join", "judge")
  /\ worker = "exited" /\ worker' = "none"
  /\ cbAborted' = (cbAborted \/ err)
  /\ result' = IF err THEN [result EXCEPT !.msg = errMsg] ELSE result
  /\ UNCHANGED <<build, streaming, frames, buffered, genOk, frameCb, scope,
                 queueVars, chunk, audio, heard, cbCount, err, errMsg, over,
                 cancel>>

\* The early returns, in their order.
Verdict ==
  CASE ~genOk /\ result.msg # "none" -> result.msg
    [] ~genOk /\ result.msg = "none" -> IF cancel THEN "cancelled" ELSE "generate"
    [] genOk /\ cancel               -> "aborted"
    [] genOk /\ ~cancel              -> "empty"

JudgeFails ==
  /\ pc = "judge"
  /\ ~genOk \/ cancel \/ frames = 0
  /\ Return(Verdict)
  /\ UNCHANGED <<build, streaming, frames, buffered, genOk, frameCb, scope,
                 queueVars, worker, chunkVars, cancel>>

\* Mutant: the leftover is played whatever became of the stream.
LeftoverAnyway == buffered > 0
Leftover == buffered > 0 /\ ~cbAborted
Judged == genOk /\ ~cancel /\ frames > 0

\* The frames that did not fill a batch are decoded by the caller.
JudgeFlush ==
  /\ Goto("judge", "flush")
  /\ Judged /\ streaming /\ Leftover
  /\ chunk' = [from |-> frames - buffered + 1, to |-> frames]
  /\ UNCHANGED <<build, streaming, frames, buffered, genOk, frameCb, scope,
                 queueVars, worker, Decoder, cancel, result>>

JudgeStreamed ==
  /\ Goto("judge", "finish")
  /\ Judged /\ streaming /\ ~Leftover
  /\ UNCHANGED <<build, streaming, frames, buffered, genOk, frameCb, scope,
                 queueVars, worker, chunkVars, cancel, result>>

FlushFails ==
  /\ pc = "flush" /\ Return("decode")
  /\ UNCHANGED <<build, streaming, frames, buffered, genOk, frameCb, scope,
                 queueVars, worker, chunkVars, cancel>>

Flush ==
  /\ Goto("flush", "flushed")
  /\ audio' = chunk.to /\ buffered' = 0
  /\ UNCHANGED <<build, streaming, frames, genOk, frameCb, scope, queueVars,
                 worker, chunk, heard, cbCount, cbAborted, err, errMsg, over,
                 cancel, result>>

\* A consumer that throws here throws out of the synthesis.
FlushDeliver ==
  /\ pc = "flushed"
  /\ heard' = Append(heard, chunk)
  /\ \/ pc' = "finish" /\ UNCHANGED <<cbAborted, over>>
     \/ pc' = "finish" /\ cbAborted' = TRUE /\ over' = TRUE
     \/ pc' = "unwind" /\ over' = TRUE /\ UNCHANGED cbAborted
  /\ UNCHANGED <<build, streaming, frames, buffered, genOk, frameCb, scope,
                 queueVars, worker, chunk, audio, cbCount, err, errMsg, cancel,
                 result>>

StreamMsg ==
  CASE ~cbAborted                        -> "none"
    [] cbAborted /\ result.msg = "none"  -> "consumer"
    [] cbAborted /\ result.msg # "none"  -> result.msg

Finish ==
  /\ \/ pc = "finish" /\ Return(StreamMsg)
     \/ pc = "unwind" /\ Return("thrown")
  /\ UNCHANGED <<build, streaming, frames, buffered, genOk, frameCb, scope,
                 queueVars, worker, chunkVars, cancel>>

\* Not streamed: the vocoder is loaded if it is not, and decodes it all.
OneShot ==
  /\ pc = "judge" /\ Judged /\ ~streaming
  /\ \/ audio' = frames /\ Return("none")
     \/ Return("decode") /\ UNCHANGED audio
  /\ UNCHANGED <<build, streaming, frames, buffered, genOk, frameCb, scope,
                 queueVars, worker, chunk, heard, cbCount, cbAborted, err,
                 errMsg, over, cancel>>

-----------------------------------------------------------------------------
(* The environment *)

\* request_cancel, from another thread.
Cancel ==
  /\ pc # "idle" /\ ~cancel /\ cancel' = TRUE
  /\ UNCHANGED <<build, talkerVars, queueVars, worker, chunkVars, result>>

CallsDead ==
  \/ ~Callable /\ worker = "check" /\ mutex = "free" /\ queue # <<>>
  \/ ~Callable /\ InCallback /\ ~Refuses /\ Full /\ ~build.async
  \/ pc = "callback" /\ frameCb = "stale"

\* A callback that refers to dead objects takes the process with it.
Dies ==
  /\ CallsDead
  /\ Return("crash")
  /\ genOk' = FALSE /\ frameCb' = "empty" /\ scope' = FALSE
  /\ worker' = "none" /\ mutex' = "free"
  /\ UNCHANGED <<build, streaming, frames, buffered, queue, done, chunkVars,
                 cancel>>

TalkerStep ==
  \/ SetupFails \/ Setup \/ LeaveScope
  \/ Frame \/ GenerateEnds
  \/ CallbackStops \/ CallbackBuffers \/ CallbackPushes \/ Notify
  \/ CallbackRuns \/ RunDecode \/ RunThrows
  \/ \E yes \in BOOLEAN : RunDeliver(yes)
  \/ ClearCallback \/ SignalDone \/ WakeAll \/ Join
  \/ JudgeFails \/ JudgeFlush \/ JudgeStreamed
  \/ Flush \/ FlushFails \/ FlushDeliver \/ Finish \/ OneShot

WorkerStep ==
  Check \/ Sleep \/ Take \/ Exit \/ WorkerDecode \/ WorkerDeliver

Next ==
  \/ \E s \in BOOLEAN : Begin(s)
  \/ TalkerStep \/ WorkerStep
  \/ SpuriousWakeup \/ Cancel \/ Dies

Spec == Init /\ [][Next]_vars

\* Both threads are running code; nobody has to begin, cancel or wake early.
\* A thread that waits for the mutex gets it if it is free again and again:
\* spurious wake-ups do not go on for ever.
FairSpec ==
  /\ Spec
  /\ WF_vars(TalkerStep) /\ WF_vars(WorkerStep) /\ WF_vars(Dies)
  /\ SF_vars(SignalDone) /\ SF_vars(CallbackPushes)

-----------------------------------------------------------------------------
(* Properties *)

Chunks == [from : Nat, to : Nat]
Messages == {"none", "setup", "decode", "thrown", "consumer", "cancelled",
             "aborted", "generate", "empty", "crash"}

\* The types of the variables.
TypeOK ==
  /\ build \in [async : BOOLEAN, kept : BOOLEAN]
  /\ pc \in {"idle", "setup", "installed", "generate", "callback", "notify",
             "decode", "deliver", "generated", "signal", "wake", "join",
             "judge", "flush", "flushed", "finish", "unwind"}
  /\ streaming \in BOOLEAN /\ genOk \in BOOLEAN /\ scope \in BOOLEAN
  /\ frames \in 0..MaxFrames /\ buffered \in 0..MaxFrames
  /\ frameCb \in {"empty", "own", "stale"}
  /\ queue \in Seq(Chunks) /\ mutex \in {"free", "held"} /\ done \in BOOLEAN
  /\ worker \in {"none", "check", "parking", "asleep", "decode", "deliver",
                 "exited"}
  /\ chunk \in Chunks /\ audio \in Nat /\ cbCount \in Nat
  /\ cbAborted \in BOOLEAN /\ err \in BOOLEAN /\ over \in BOOLEAN
  /\ errMsg \in {"none", "decode", "thrown"}
  /\ cancel \in BOOLEAN
  /\ result \in [success : BOOLEAN, msg : Messages]
  /\ heard \in Seq(Chunks)

\* The stream the consumer sees is PcmStream: chunks in order, each once,
\* none after a refusal or a loss, all of them before a success. A cancel or
\* an error of the talker leaves chunks in the queue that are still played.
Stream == INSTANCE PcmStream WITH
  open <- pc # "idle",
  streamed <- streaming,
  made <- frames,
  verdict <- IF pc # "idle" \/ result = NoResult THEN "none"
             ELSE IF result.success THEN "whole" ELSE "failed"

StreamSpec == Stream!Spec

\* The caller touches the decoder, the result and the leftover frames only
\* while no vocoder thread exists: the join "re-establishes the
\* single-thread invariant".
CallerIsAlone ==
  pc \in {"idle", "setup", "judge", "flush", "flushed", "finish"} => worker = "none"

\* Every synthesis returns: no notification is lost, the drain ends, the
\* join finds a thread that exits.
SynthEnds == pc = "setup" ~> pc = "idle"
=============================================================================
