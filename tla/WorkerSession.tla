--------------------------- MODULE WorkerSession ---------------------------
(***************************************************************************)
(* The parent/worker split of the Qwen3 server: qwen3_tts::WorkerSession   *)
(* (the parent's handle), run_worker_loop (the worker process: a reader    *)
(* thread and a main thread) and the socketpair between them, driven by    *)
(* the HTTP handler threads of server.cpp.                                 *)
(*                                                                         *)
(* A frame is one element of a channel: both sides send a whole frame      *)
(* before the next one; partial writes and short reads are left out.       *)
(* A frame cut short by a crash is the same as its absence: the parent     *)
(* reads an error either way and takes the same path.                      *)
(***************************************************************************)
EXTENDS Naturals, Sequences, FiniteSets

CONSTANTS
  Callers,    \* HTTP handler threads of the server process
  Cfgs,       \* distinct worker configurations (model paths, aligner, GPU)
  NoCaller,   \* "mutex is free"
  NoCfg,      \* "nothing loaded"
  Oversize,   \* may a payload exceed MAX_FRAME_PAYLOAD?
  MaxReq,     \* bound: request ids handed out
  MaxSpawn,   \* bound: worker processes spawned
  MaxChunks   \* bound: AUDIO_FRAMEs one stream puts in the socket

ASSUME SessionAssumption ==
  /\ NoCaller \notin Callers
  /\ NoCfg \notin Cfgs
  /\ Oversize \in BOOLEAN
  /\ MaxReq \in Nat
  /\ MaxSpawn \in Nat
  /\ MaxChunks \in Nat

VARIABLES
  \* -- the parent: WorkerSession's fields and the server's synth_mutex
  synthMutex,         \* server.cpp synth_mutex: its holder
  ioMutex,            \* io_mutex_: its holder
  pid,                \* pid_ and fd_: 0, or the number of the spawn it is
  spawned,            \* spawns so far
  loadedOk,           \* loaded_ok_
  loadedCfg,          \* loaded_cfg_
  wantCfg,            \* the cfg of the ensure_loaded call in progress
  nextReqId,          \* next_req_id_
  currentSynthReqId,  \* current_synth_req_id_
  \* -- the handler threads, and the disconnect watchdog of a stream
  pc,                 \* where each caller is
  mode,               \* "stream" or "whole": what its request asked for
  req,                \* request id of its call in flight
  cancelled,          \* the request's one-shot `cancel` flag
  watch,              \* req id its watchdog holds between load and send
  \* -- the socketpair
  toWorker,
  toParent,
  \* -- the worker process
  child,              \* "none", "run", "exit" (main returned), "dead"
  mainPc,             \* where its main thread is
  mainReq,            \* the frame the main thread is serving
  workQueue,          \* ctrl.work_queue
  readerMatch,        \* CANCEL_REQ id the reader matched and not yet applied
  activeSynthReqId,   \* ctrl.active_synth_req_id
  cancelRequested,    \* cancel_requested_: 0, or the CANCEL_REQ id that set it
  chunks              \* AUDIO_FRAMEs sent for the current stream

sessionVars == <<pid, loadedOk, loadedCfg>>
workerVars  == <<child, mainPc, mainReq, workQueue, readerMatch,
                 activeSynthReqId, cancelRequested, chunks>>
callerVars  == <<pc, mode, req, cancelled, watch>>
vars == <<synthMutex, ioMutex, sessionVars, spawned, wantCfg, nextReqId,
          currentSynthReqId, callerVars, toWorker, toParent, workerVars>>

ReqIds == 1..MaxReq

(***************************************************************************)
(* Frames: type and request id, and the one payload field that matters to  *)
(* the receiver (what a SYNTH_REQ asks for, whether a reply says ok).      *)
(***************************************************************************)
FrameTypes == {"HELLO", "LOAD_REQ", "LOAD_RESP", "SYNTH_REQ", "SYNTH_RESP",
               "AUDIO_FRAME", "SYNTH_DONE", "SYNTH_ERR", "CANCEL_REQ",
               "CALL_REQ", "CALL_RESP"}
Payloads == {"none", "stream", "whole", "ok", "failed"}
Frames == [type : FrameTypes, id : 0..MaxReq, arg : Payloads]
Frame(type, id, arg) == [type |-> type, id |-> id, arg |-> arg]
NoFrame == Frame("HELLO", 0, "none")

SynthEnd(m) == IF m = "stream" THEN {"SYNTH_DONE", "SYNTH_ERR"}
                               ELSE {"SYNTH_RESP", "SYNTH_ERR"}

Alive == child \in {"run", "exit"}
AtEof == toParent = <<>> /\ ~Alive

-----------------------------------------------------------------------------
Init ==
  /\ synthMutex = NoCaller /\ ioMutex = NoCaller
  /\ pid = 0 /\ spawned = 0 /\ loadedOk = FALSE /\ loadedCfg = NoCfg
  /\ wantCfg = NoCfg /\ nextReqId = 1 /\ currentSynthReqId = 0
  /\ pc = [c \in Callers |-> "idle"]
  /\ mode = [c \in Callers |-> "whole"]
  /\ req = [c \in Callers |-> 0]
  /\ cancelled = [c \in Callers |-> FALSE]
  /\ watch = [c \in Callers |-> 0]
  /\ toWorker = <<>> /\ toParent = <<>>
  /\ child = "none" /\ mainPc = "none" /\ mainReq = NoFrame
  /\ workQueue = <<>> /\ readerMatch = 0 /\ activeSynthReqId = 0
  /\ cancelRequested = 0 /\ chunks = 0

-----------------------------------------------------------------------------
(* What a caller does to its own state.                                    *)

Goto(c, l) == pc' = [pc EXCEPT ![c] = l]

\* An API call returns: io_mutex_ is released by its lock_guard and the
\* caller goes on at l.
Return(c, l) == /\ ioMutex' = NoCaller
                /\ Goto(c, l)

\* ensure_loaded was called either by a handler that holds synth_mutex (and
\* then synthesises) or by voice registration, which does not take it.
AfterEnsure(c, ok) ==
  IF synthMutex = c THEN IF ok THEN "ready" ELSE "done" ELSE "idle"

(* The worker process is gone: SIGKILL + waitpid, or not yet running.      *)
WorkerState(s, m) ==
  /\ child' = s /\ mainPc' = m /\ mainReq' = NoFrame
  /\ workQueue' = <<>> /\ readerMatch' = 0 /\ activeSynthReqId' = 0
  /\ cancelRequested' = 0 /\ chunks' = 0

\* kill_worker_locked
KillWorker ==
  /\ pid' = 0 /\ loadedOk' = FALSE /\ loadedCfg' = NoCfg
  /\ toWorker' = <<>> /\ toParent' = <<>>
  /\ WorkerState("none", "none")

-----------------------------------------------------------------------------
(* Handlers: take synth_mutex, ensure_loaded, synthesise, join the         *)
(* watchdog, release.                                                      *)

BeginSynth(c) ==
  /\ pc[c] = "idle" /\ synthMutex = NoCaller
  /\ synthMutex' = c
  /\ \E m \in {"stream", "whole"} : mode' = [mode EXCEPT ![c] = m]
  /\ Goto(c, "ensure")
  /\ UNCHANGED <<ioMutex, sessionVars, spawned, wantCfg, nextReqId,
                 currentSynthReqId, req, cancelled, watch, toWorker, toParent,
                 workerVars>>

BeginRegister(c) ==
  /\ pc[c] = "idle"
  /\ Goto(c, "ensure")
  /\ UNCHANGED <<synthMutex, ioMutex, sessionVars, spawned, wantCfg, nextReqId,
                 currentSynthReqId, mode, req, cancelled, watch, toWorker,
                 toParent, workerVars>>

\* Mutant of EndRequest: synth_mutex is released before the watchdog ends.
EndRequestUnjoined(c) ==
  /\ pc[c] = "done"
  /\ synthMutex' = NoCaller
  /\ Goto(c, "idle")
  /\ req' = [req EXCEPT ![c] = 0]
  /\ cancelled' = [cancelled EXCEPT ![c] = FALSE]
  /\ UNCHANGED <<ioMutex, sessionVars, spawned, wantCfg, nextReqId,
                 currentSynthReqId, mode, watch, toWorker, toParent,
                 workerVars>>

EndRequest(c) ==
  /\ pc[c] = "done" /\ watch[c] = 0        \* WatchdogJoinGuard
  /\ synthMutex' = NoCaller
  /\ Goto(c, "idle")
  /\ req' = [req EXCEPT ![c] = 0]
  /\ cancelled' = [cancelled EXCEPT ![c] = FALSE]
  /\ UNCHANGED <<ioMutex, sessionVars, spawned, wantCfg, nextReqId,
                 currentSynthReqId, mode, watch, toWorker, toParent,
                 workerVars>>

\* admin unload and idle unload: shutdown() under synth_mutex
Shutdown(c) ==
  /\ pc[c] = "idle" /\ synthMutex = NoCaller /\ ioMutex = NoCaller
  /\ pid # 0
  /\ KillWorker
  /\ UNCHANGED <<synthMutex, ioMutex, spawned, wantCfg, nextReqId,
                 currentSynthReqId, callerVars>>

-----------------------------------------------------------------------------
(* ensure_loaded and send_load_req_locked.                                 *)

Loaded(cfg) == pid # 0 /\ loadedOk /\ loadedCfg = cfg

EnsureFast(c) ==
  /\ pc[c] = "ensure" /\ ioMutex = NoCaller
  /\ \E cfg \in Cfgs : Loaded(cfg)
  /\ Goto(c, AfterEnsure(c, TRUE))
  /\ UNCHANGED <<synthMutex, ioMutex, sessionVars, spawned, wantCfg, nextReqId,
                 currentSynthReqId, mode, req, cancelled, watch, toWorker,
                 toParent, workerVars>>

\* Kill what is there (a crashed worker too), spawn, wait for HELLO.
EnsureSpawn(c) ==
  /\ pc[c] = "ensure" /\ ioMutex = NoCaller
  /\ spawned < MaxSpawn
  /\ \E cfg \in Cfgs : ~Loaded(cfg) /\ wantCfg' = cfg
  /\ ioMutex' = c
  /\ spawned' = spawned + 1 /\ pid' = spawned + 1
  /\ loadedOk' = FALSE /\ loadedCfg' = NoCfg
  /\ toWorker' = <<>> /\ toParent' = <<>>
  /\ WorkerState("run", "boot")
  /\ Goto(c, "hello")
  /\ UNCHANGED <<synthMutex, nextReqId, currentSynthReqId, mode, req,
                 cancelled, watch>>

EnsureSpawnFails(c) ==
  /\ pc[c] = "ensure" /\ ioMutex = NoCaller
  /\ \E cfg \in Cfgs : ~Loaded(cfg)
  /\ KillWorker
  /\ Goto(c, AfterEnsure(c, FALSE))
  /\ UNCHANGED <<synthMutex, ioMutex, spawned, wantCfg, nextReqId,
                 currentSynthReqId, mode, req, cancelled, watch>>

\* Mutant of EnsureFailed: a failed load leaves the worker running.
EnsureFailedNoKill(c) ==
  /\ Return(c, AfterEnsure(c, FALSE))
  /\ UNCHANGED <<synthMutex, sessionVars, spawned, wantCfg, nextReqId,
                 currentSynthReqId, mode, req, cancelled, watch, toWorker,
                 toParent, workerVars>>

EnsureFailed(c) ==
  /\ KillWorker
  /\ Return(c, AfterEnsure(c, FALSE))
  /\ UNCHANGED <<synthMutex, spawned, wantCfg, nextReqId, currentSynthReqId,
                 mode, req, cancelled, watch>>

\* HELLO arrived: send LOAD_REQ.
RecvHello(c) ==
  /\ pc[c] = "hello" /\ toParent # <<>>
  /\ Head(toParent).type = "HELLO" /\ Alive
  /\ toParent' = Tail(toParent)
  /\ toWorker' = Append(toWorker, Frame("LOAD_REQ", 0, "none"))
  /\ Goto(c, "loading")
  /\ UNCHANGED <<synthMutex, ioMutex, sessionVars, spawned, wantCfg, nextReqId,
                 currentSynthReqId, mode, req, cancelled, watch, workerVars>>

\* EOF or another frame instead of HELLO, or the LOAD_REQ send fails.
RecvHelloFails(c) ==
  /\ pc[c] = "hello"
  /\ \/ AtEof
     \/ toParent # <<>> /\ (Head(toParent).type # "HELLO" \/ ~Alive)
  /\ EnsureFailed(c)

RecvLoadResp(c) ==
  /\ pc[c] = "loading" /\ toParent # <<>>
  /\ Head(toParent).type = "LOAD_RESP" /\ Head(toParent).arg = "ok"
  /\ toParent' = Tail(toParent)
  /\ loadedOk' = TRUE /\ loadedCfg' = wantCfg
  /\ Return(c, AfterEnsure(c, TRUE))
  /\ UNCHANGED <<synthMutex, pid, spawned, wantCfg, nextReqId,
                 currentSynthReqId, mode, req, cancelled, watch, toWorker,
                 workerVars>>

RecvLoadRespFails(c) ==
  /\ pc[c] = "loading"
  /\ \/ AtEof
     \/ toParent # <<>> /\ ~(/\ Head(toParent).type = "LOAD_RESP"
                             /\ Head(toParent).arg = "ok")
  /\ EnsureFailed(c)

-----------------------------------------------------------------------------
(* do_synth_locked.                                                        *)

Ready == pid # 0 /\ loadedOk

\* The id is taken first; if the worker is dead the send fails.
TakesReqId == /\ Ready /\ nextReqId <= MaxReq
              /\ nextReqId' = nextReqId + 1

SendSynth(c) ==
  /\ pc[c] = "ready" /\ ioMutex = NoCaller
  /\ TakesReqId /\ Alive
  /\ ioMutex' = c
  /\ req' = [req EXCEPT ![c] = nextReqId]
  /\ toWorker' = Append(toWorker, Frame("SYNTH_REQ", nextReqId, mode[c]))
  /\ Goto(c, "sent")
  /\ UNCHANGED <<synthMutex, sessionVars, spawned, wantCfg, currentSynthReqId,
                 mode, cancelled, watch, toParent, workerVars>>

SendSynthFails(c) ==
  /\ pc[c] = "ready" /\ ioMutex = NoCaller
  /\ TakesReqId /\ ~Alive
  /\ KillWorker
  /\ Goto(c, "done")
  /\ UNCHANGED <<synthMutex, ioMutex, spawned, wantCfg, currentSynthReqId,
                 mode, req, cancelled, watch>>

\* "worker not ready", or the bound on request ids.
SynthNotReady(c) ==
  /\ pc[c] = "ready" /\ ioMutex = NoCaller
  /\ ~(Ready /\ nextReqId <= MaxReq)
  /\ Goto(c, "done")
  /\ UNCHANGED <<synthMutex, ioMutex, sessionVars, spawned, wantCfg, nextReqId,
                 currentSynthReqId, mode, req, cancelled, watch, toWorker,
                 toParent, workerVars>>

\* The id is published only after the send.
PublishSynth(c) ==
  /\ pc[c] = "sent"
  /\ currentSynthReqId' = req[c]
  /\ Goto(c, "synth")
  /\ UNCHANGED <<synthMutex, ioMutex, sessionVars, spawned, wantCfg, nextReqId,
                 mode, req, cancelled, watch, toWorker, toParent, workerVars>>

SynthReturns(c) ==       \* CurrentSynthGuard, then the lock_guard
  /\ currentSynthReqId' = 0
  /\ Return(c, "done")

\* Mutant of RecvAudio: a cancelled stream is not drained to its end.
RecvAudioUndrained(c) ==
  /\ pc[c] = "synth" /\ mode[c] = "stream" /\ toParent # <<>>
  /\ Head(toParent).type \notin SynthEnd("stream")
  /\ toParent' = Tail(toParent)
  /\ IF cancelled[c] THEN SynthReturns(c)
     ELSE UNCHANGED <<currentSynthReqId, ioMutex, pc>>
  /\ UNCHANGED <<synthMutex, sessionVars, spawned, wantCfg, nextReqId, mode,
                 req, cancelled, watch, toWorker, workerVars>>

\* A frame that does not end the stream: forwarded to on_pcm or skipped.
RecvAudio(c) ==
  /\ pc[c] = "synth" /\ mode[c] = "stream" /\ toParent # <<>>
  /\ Head(toParent).type \notin SynthEnd("stream")
  /\ toParent' = Tail(toParent)
  /\ UNCHANGED <<synthMutex, ioMutex, sessionVars, spawned, wantCfg, nextReqId,
                 currentSynthReqId, callerVars, toWorker, workerVars>>

RecvSynthEnd(c) ==
  /\ pc[c] = "synth" /\ toParent # <<>>
  /\ Head(toParent).type \in SynthEnd(mode[c])
  /\ toParent' = Tail(toParent)
  /\ SynthReturns(c)
  /\ UNCHANGED <<synthMutex, sessionVars, spawned, wantCfg, nextReqId, mode,
                 req, cancelled, watch, toWorker, workerVars>>

\* Mutants of RecvSynthFails: a failed synthesis keeps its worker; a closed
\* socket is not noticed.
RecvSynthFailsNoKill(c) ==
  /\ pc[c] = "synth"
  /\ \/ AtEof
     \/ /\ mode[c] = "whole" /\ toParent # <<>>
        /\ Head(toParent).type \notin SynthEnd("whole")
  /\ SynthReturns(c)
  /\ UNCHANGED <<synthMutex, sessionVars, spawned, wantCfg, nextReqId, mode,
                 req, cancelled, watch, toWorker, toParent, workerVars>>

RecvSynthFailsNoEof(c) ==
  /\ pc[c] = "synth" /\ mode[c] = "whole" /\ toParent # <<>>
  /\ Head(toParent).type \notin SynthEnd("whole")
  /\ KillWorker
  /\ SynthReturns(c)
  /\ UNCHANGED <<synthMutex, spawned, wantCfg, nextReqId, mode, req, cancelled,
                 watch>>

RecvSynthFails(c) ==
  /\ pc[c] = "synth"
  /\ \/ AtEof
     \/ /\ mode[c] = "whole" /\ toParent # <<>>
        /\ Head(toParent).type \notin SynthEnd("whole")
  /\ KillWorker
  /\ SynthReturns(c)
  /\ UNCHANGED <<synthMutex, spawned, wantCfg, nextReqId, mode, req, cancelled,
                 watch>>

-----------------------------------------------------------------------------
(* The one-request one-reply calls: extract_speaker_embedding,             *)
(* encode_speech_codes, save_voice_warmup and align_words.                 *)

SendCall(c) ==
  /\ pc[c] = "idle" /\ ioMutex = NoCaller
  /\ TakesReqId /\ Alive
  /\ ioMutex' = c
  /\ req' = [req EXCEPT ![c] = nextReqId]
  /\ toWorker' = Append(toWorker, Frame("CALL_REQ", nextReqId, "none"))
  /\ Goto(c, "call")
  /\ UNCHANGED <<synthMutex, sessionVars, spawned, wantCfg, currentSynthReqId,
                 mode, cancelled, watch, toParent, workerVars>>

\* encode_speech_codes may also be given more samples than a frame holds.
SendCallFails(c) ==
  /\ pc[c] = "idle" /\ ioMutex = NoCaller
  /\ TakesReqId /\ (~Alive \/ Oversize)
  /\ KillWorker
  /\ UNCHANGED <<synthMutex, ioMutex, spawned, wantCfg, currentSynthReqId,
                 callerVars>>

RecvCall(c) ==
  /\ pc[c] = "call" /\ toParent # <<>>
  /\ Head(toParent).type = "CALL_RESP"
  /\ toParent' = Tail(toParent)
  /\ Return(c, "idle")
  /\ req' = [req EXCEPT ![c] = 0]
  /\ UNCHANGED <<synthMutex, sessionVars, spawned, wantCfg, nextReqId,
                 currentSynthReqId, mode, cancelled, watch, toWorker,
                 workerVars>>

RecvCallFails(c) ==
  /\ pc[c] = "call"
  /\ \/ AtEof
     \/ toParent # <<>> /\ Head(toParent).type # "CALL_RESP"
  /\ KillWorker
  /\ Return(c, "idle")
  /\ req' = [req EXCEPT ![c] = 0]
  /\ UNCHANGED <<synthMutex, spawned, wantCfg, nextReqId, currentSynthReqId,
                 mode, cancelled, watch>>

-----------------------------------------------------------------------------
(* Cancellation: dispatch_cancel is one-shot per request and runs in the   *)
(* watchdog thread (or in on_pcm); cancel_in_flight takes no io_mutex_.    *)

\* cancel.exchange(true), then the load of current_synth_req_id_
DispatchCancel(c) ==
  /\ pc[c] \in {"ready", "sent", "synth", "done"} /\ mode[c] = "stream"
  /\ ~cancelled[c]
  /\ cancelled' = [cancelled EXCEPT ![c] = TRUE]
  /\ watch' = [watch EXCEPT ![c] = currentSynthReqId]
  /\ UNCHANGED <<synthMutex, ioMutex, sessionVars, spawned, wantCfg, nextReqId,
                 currentSynthReqId, pc, mode, req, toWorker, toParent,
                 workerVars>>

\* fd_ is read after the id; a closed or broken socket drops the frame.
SendCancel(c) ==
  /\ watch[c] # 0
  /\ watch' = [watch EXCEPT ![c] = 0]
  /\ toWorker' = IF pid # 0 /\ Alive
                 THEN Append(toWorker, Frame("CANCEL_REQ", watch[c], "none"))
                 ELSE toWorker
  /\ UNCHANGED <<synthMutex, ioMutex, sessionVars, spawned, wantCfg, nextReqId,
                 currentSynthReqId, pc, mode, req, cancelled, toParent,
                 workerVars>>

parentVars == <<synthMutex, ioMutex, sessionVars, spawned, wantCfg, nextReqId,
                currentSynthReqId, callerVars>>

-----------------------------------------------------------------------------
(* run_worker_loop: the reader thread.                                     *)

\* Any frame but CANCEL_REQ is queued for the main thread.
ReaderQueues ==
  /\ child \in {"run", "exit"} /\ mainPc # "boot" /\ readerMatch = 0
  /\ toWorker # <<>> /\ Head(toWorker).type # "CANCEL_REQ"
  /\ toWorker' = Tail(toWorker)
  /\ workQueue' = Append(workQueue, Head(toWorker))
  /\ UNCHANGED <<parentVars, toParent, child, mainPc, mainReq, readerMatch,
                 activeSynthReqId, cancelRequested, chunks>>

\* The comparison with the active id; the flag is set in a later step.
ReaderMatches ==
  /\ child \in {"run", "exit"} /\ mainPc # "boot" /\ readerMatch = 0
  /\ toWorker # <<>> /\ Head(toWorker).type = "CANCEL_REQ"
  /\ toWorker' = Tail(toWorker)
  /\ readerMatch' = IF activeSynthReqId = Head(toWorker).id
                    THEN activeSynthReqId ELSE 0
  /\ UNCHANGED <<parentVars, toParent, child, mainPc, mainReq, workQueue,
                 activeSynthReqId, cancelRequested, chunks>>

ReaderCancels ==
  /\ child \in {"run", "exit"} /\ readerMatch # 0
  /\ cancelRequested' = readerMatch
  /\ readerMatch' = 0
  /\ UNCHANGED <<parentVars, toWorker, toParent, child, mainPc, mainReq,
                 workQueue, activeSynthReqId, chunks>>

-----------------------------------------------------------------------------
(* run_worker_loop: the main thread.                                       *)

MainAt(l) == child = "run" /\ mainPc = l

Send(type, arg) ==
  toParent' = Append(toParent, Frame(type, mainReq.id, arg))

MainHello ==
  /\ MainAt("boot")
  /\ toParent' = Append(toParent, Frame("HELLO", 0, "none"))
  /\ mainPc' = "wait"
  /\ UNCHANGED <<parentVars, toWorker, child, mainReq, workQueue, readerMatch,
                 activeSynthReqId, cancelRequested, chunks>>

Handler(type) == CASE type = "LOAD_REQ"  -> "load"
                   [] type = "SYNTH_REQ" -> "prepare"
                   [] OTHER              -> "call"

MainTakes ==
  /\ MainAt("wait") /\ workQueue # <<>>
  /\ mainReq' = Head(workQueue)
  /\ workQueue' = Tail(workQueue)
  /\ mainPc' = Handler(Head(workQueue).type)
  /\ UNCHANGED <<parentVars, toWorker, toParent, child, readerMatch,
                 activeSynthReqId, cancelRequested, chunks>>

\* LOAD_REQ and the one-reply calls; either may report failure.
Answers(type) ==
  /\ \E ok \in {"ok", "failed"} : Send(type, ok)
  /\ mainPc' = "wait"
  /\ UNCHANGED <<parentVars, toWorker, child, mainReq, workQueue, readerMatch,
                 activeSynthReqId, cancelRequested, chunks>>

MainLoads   == MainAt("load") /\ Answers("LOAD_RESP")
MainAnswers == MainAt("call") /\ Answers("CALL_RESP")

\* A malformed SYNTH_REQ, or reload_model failed.
MainRejects ==
  /\ MainAt("prepare")
  /\ Send("SYNTH_ERR", "failed")
  /\ mainPc' = "wait"
  /\ UNCHANGED <<parentVars, toWorker, child, mainReq, workQueue, readerMatch,
                 activeSynthReqId, cancelRequested, chunks>>

MainClearsCancel ==
  /\ MainAt("prepare")
  /\ cancelRequested' = 0
  /\ mainPc' = "publish"
  /\ UNCHANGED <<parentVars, toWorker, toParent, child, mainReq, workQueue,
                 readerMatch, activeSynthReqId, chunks>>

MainPublishes ==
  /\ MainAt("publish")
  /\ activeSynthReqId' = mainReq.id
  /\ chunks' = 0
  /\ mainPc' = "synth"
  /\ UNCHANGED <<parentVars, toWorker, toParent, child, mainReq, workQueue,
                 readerMatch, cancelRequested>>

MainAudio ==
  /\ MainAt("synth") /\ mainReq.arg = "stream" /\ chunks < MaxChunks
  /\ Send("AUDIO_FRAME", "none")
  /\ chunks' = chunks + 1
  /\ UNCHANGED <<parentVars, toWorker, child, mainPc, mainReq, workQueue,
                 readerMatch, activeSynthReqId, cancelRequested>>

\* The synth ends: complete, failed, or aborted by the cancel flag.
MainFinishes ==
  /\ MainAt("synth")
  /\ \E res \in {"ok", "failed"} :
       Send(IF mainReq.arg = "stream" THEN "SYNTH_DONE" ELSE "SYNTH_RESP", res)
  /\ mainPc' = "unpublish"
  /\ UNCHANGED <<parentVars, toWorker, child, mainReq, workQueue, readerMatch,
                 activeSynthReqId, cancelRequested, chunks>>

\* send_frame refuses a payload over MAX_FRAME_PAYLOAD (350 s of 48 kHz
\* audio; the server allows 8192 tokens, 655 s): the main thread returns 5
\* and waits in ReaderJoinGuard for the reader, which waits for the parent.
MainOversize ==
  /\ Oversize
  /\ MainAt("synth") /\ mainReq.arg = "whole"
  /\ child' = "exit" /\ mainPc' = "none" /\ activeSynthReqId' = 0
  /\ UNCHANGED <<parentVars, toWorker, toParent, mainReq, workQueue,
                 readerMatch, cancelRequested, chunks>>

MainUnpublishes ==                              \* SynthActiveGuard
  /\ MainAt("unpublish")
  /\ activeSynthReqId' = 0
  /\ mainPc' = "wait"
  /\ UNCHANGED <<parentVars, toWorker, toParent, child, mainReq, workQueue,
                 readerMatch, cancelRequested, chunks>>

\* An abort inside ggml, CUDA or the OOM killer. What was written to the
\* socket can still be read.
Crash ==
  /\ Alive
  /\ WorkerState("dead", "none")
  /\ UNCHANGED <<parentVars, toWorker, toParent>>

-----------------------------------------------------------------------------
\* What callers and clients may or may not do.
Environment ==
  \/ \E c \in Callers : BeginSynth(c)
  \/ \E c \in Callers : BeginRegister(c)
  \/ \E c \in Callers : Shutdown(c)
  \/ \E c \in Callers : SendCall(c) \/ SendCallFails(c)
  \/ \E c \in Callers : DispatchCancel(c)
  \/ Crash

\* What a caller does once it has entered a handler.
Ensure(c)  == EnsureFast(c) \/ EnsureSpawn(c) \/ EnsureSpawnFails(c)
Synth(c)   == SendSynth(c) \/ SendSynthFails(c) \/ SynthNotReady(c)
Receive(c) ==
  \/ RecvHello(c) \/ RecvHelloFails(c)
  \/ RecvLoadResp(c) \/ RecvLoadRespFails(c)
  \/ PublishSynth(c)
  \/ RecvAudio(c) \/ RecvSynthEnd(c) \/ RecvSynthFails(c)
  \/ RecvCall(c) \/ RecvCallFails(c)

Reader == ReaderQueues \/ ReaderMatches \/ ReaderCancels
Main == \/ MainHello \/ MainTakes \/ MainLoads \/ MainAnswers
        \/ MainRejects
        \/ MainClearsCancel \/ MainPublishes \/ MainAudio \/ MainFinishes
        \/ MainOversize \/ MainUnpublishes

Next ==
  \/ Environment
  \/ \E c \in Callers : Ensure(c)
  \/ \E c \in Callers : Synth(c)
  \/ \E c \in Callers : Receive(c)
  \/ \E c \in Callers : SendCancel(c)
  \/ \E c \in Callers : EndRequest(c)
  \/ Reader
  \/ Main

Spec == Init /\ [][Next]_vars

(***************************************************************************)
(* A thread that can run does run: the operating system schedules the      *)
(* worker's two threads, the caller that waits in recv_frame and the       *)
(* watchdog. Nothing is assumed of clients, of crashes, or of who wins a   *)
(* mutex (std::mutex promises no order).                                   *)
(***************************************************************************)
Fairness ==
  /\ \A c \in Callers : WF_vars(Receive(c)) /\ WF_vars(SendCancel(c))
  /\ WF_vars(Reader)
  /\ WF_vars(Main)

FairSpec == Spec /\ Fairness

-----------------------------------------------------------------------------
Callers0 == Callers \cup {NoCaller}
PcLabels == {"idle", "ensure", "hello", "loading", "ready", "sent", "synth",
             "call", "done"}
MainLabels == {"none", "boot", "wait", "load", "call", "prepare", "publish",
               "synth", "unpublish"}

\* Every variable has the type of the C++ field it stands for.
TypeOK ==
  /\ synthMutex \in Callers0 /\ ioMutex \in Callers0
  /\ spawned \in 0..MaxSpawn /\ pid \in 0..MaxSpawn
  /\ loadedOk \in BOOLEAN
  /\ loadedCfg \in Cfgs \cup {NoCfg} /\ wantCfg \in Cfgs \cup {NoCfg}
  /\ nextReqId \in 1..(MaxReq + 1)
  /\ currentSynthReqId \in 0..MaxReq
  /\ pc \in [Callers -> PcLabels]
  /\ mode \in [Callers -> {"stream", "whole"}]
  /\ req \in [Callers -> 0..MaxReq]
  /\ cancelled \in [Callers -> BOOLEAN]
  /\ watch \in [Callers -> 0..MaxReq]
  /\ toWorker \in Seq(Frames) /\ toParent \in Seq(Frames)
  /\ child \in {"none", "run", "exit", "dead"}
  /\ mainPc \in MainLabels /\ mainReq \in Frames
  /\ workQueue \in Seq(Frames)
  /\ readerMatch \in 0..MaxReq /\ activeSynthReqId \in 0..MaxReq
  /\ cancelRequested \in 0..MaxReq
  /\ chunks \in 0..MaxChunks

Waiting(c) == pc[c] \in {"sent", "synth", "call"}

(***************************************************************************)
(* No call ever receives a reply computed for another call. The parent     *)
(* never compares hdr.req_id of a reply: this rests on every error path    *)
(* killing the worker and on a stream being drained to its last frame.     *)
(***************************************************************************)
RepliesBelongToCall ==
  \A c \in Callers : Waiting(c) =>
    \A i \in DOMAIN toParent : toParent[i].id = req[c]

(***************************************************************************)
(* Between calls a living worker is loaded and at its command loop, with   *)
(* nothing in the socket but late cancels: no path leaves a half-loaded or *)
(* busy worker behind for the next caller.                                 *)
(***************************************************************************)
IdleWorkerIsQuiet ==
  (ioMutex = NoCaller /\ Alive) =>
    /\ pid # 0 /\ loadedOk
    /\ child = "run" /\ mainPc \in {"wait", "unpublish"}
    /\ toParent = <<>> /\ workQueue = <<>>
    /\ \A i \in DOMAIN toWorker : toWorker[i].type = "CANCEL_REQ"

(***************************************************************************)
(* The id a canceller can see is that of a synthesis its caller is waiting *)
(* for, on every path out of do_synth_locked; and the cancel flag that can *)
(* abort a running synthesis was set by a cancel of that very request      *)
(* (worker_ipc.h: stale cancels cannot kill the next request). The id      *)
(* check in the reader is not enough for this: it also needs the watchdog  *)
(* to be joined before synth_mutex is released.                            *)
(***************************************************************************)
PublishedIsInFlight ==
  currentSynthReqId # 0 =>
    \E c \in Callers : /\ ioMutex = c /\ pc[c] = "synth"
                       /\ req[c] = currentSynthReqId

CancelHitsItsTarget ==
  /\ PublishedIsInFlight
  /\ mainPc = "synth" => cancelRequested \in {0, mainReq.id}

(***************************************************************************)
(* The session implements SessionService: one call at a time, answered at  *)
(* most once, by the reply made for it, or failed with the worker killed.  *)
(***************************************************************************)
Answered == {toParent[i].id : i \in {j \in DOMAIN toParent :
               toParent[j].type \in SynthEnd("stream") \cup SynthEnd("whole")
                                    \cup {"CALL_RESP"}}}
InCall == \E c \in Callers : ioMutex = c /\ Waiting(c)

Service == INSTANCE SessionService WITH
  Nobody <- NoCaller,
  holder <- ioMutex,
  worker <- IF pid = 0 THEN "down" ELSE IF loadedOk THEN "up" ELSE "starting",
  next   <- nextReqId,
  call   <- IF InCall THEN req[ioMutex] ELSE 0,
  answer <- IF InCall THEN Answered ELSE {}

ServiceSpec == Service!Spec

(***************************************************************************)
(* Whoever enters a session call leaves it: io_mutex_ is released, however *)
(* the worker behaves or dies. The one exception is a worker whose main    *)
(* thread has returned from the command loop (after a reply over the frame *)
(* cap) while ReaderJoinGuard keeps its process, and so the socket, alive. *)
(***************************************************************************)
CallsReturn ==
  \A c \in Callers : ioMutex = c ~> (ioMutex # c \/ child = "exit")

=============================================================================
