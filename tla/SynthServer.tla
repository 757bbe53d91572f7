--------------------------- MODULE SynthServer ---------------------------
(***************************************************************************)
(* The locks and the life of the model in qwen3-tts-server (server.cpp):   *)
(* HTTP handlers on httplib's thread pool, the eager-aligner thread of a   *)
(* request, the disconnect watchdog of a stream and the idle-unload        *)
(* thread, over synth_mutex, aligner_session_mutex, the in-flight counter  *)
(* and the activity clock. One module for both deployments: `isolated` is  *)
(* QWEN3_TTS_WORKER_ISOLATION.                                             *)
(*                                                                         *)
(* A request is a chain of critical sections of synth_mutex; `kind` names  *)
(* the section a handler is in. What happens inside a synthesis, and       *)
(* between the server and its child processes, is in WorkerSession and     *)
(* AlignerSession.                                                         *)
(***************************************************************************)
EXTENDS Naturals, FiniteSets

CONSTANTS
  Handlers,    \* threads of httplib's pool
  Lazy,        \* QWEN3_TTS_LAZY_LOAD: no model at start-up
  NoHandler,
  MaxRequests  \* bound: HTTP requests

ASSUME ServerAssumption ==
  /\ IsFiniteSet(Handlers) /\ NoHandler \notin Handlers
  /\ Lazy \in BOOLEAN /\ MaxRequests \in Nat

VARIABLES
  isolated,     \* worker_session is set; constant after start-up
  \* -- the handlers
  pc,           \* where a handler is
  job,          \* its request: the section it is in (kind), its number,
                \* do_align_partial, `cancel` (fired), an error to return
  eager,        \* eager_aligner_thread: "none", "lock" or "load"
  served,       \* requests so far
  \* -- shared state
  synthMutex, alignerMutex,
  inFlight,     \* in_flight_synths
  recent,       \* last_activity_ms is within the idle threshold
  model,        \* "none", "ready" (loaded where it is wanted) or
                \* "elsewhere" (next_gpu_ names another GPU by now)
  cancelFlag,   \* Qwen3TTS::cancel_requested_: 0, or the request it was for
  lastSynth,    \* the request whose synthesis was the engine's latest: whose
                \* audio is last_pcm, and whose caches were filled
  alignerUp,    \* aligner_session->is_alive()
  idle          \* the idle-unload thread: "sleep", "try", "unload", "aligner"

mutexes   == <<synthMutex, alignerMutex>>
clock     == <<inFlight, recent>>
modelVars == <<model, cancelFlag, lastSynth>>
vars == <<isolated, pc, job, eager, served, mutexes, clock, modelVars,
          alignerUp, idle>>

Speech   == {"stream", "whole"}
Register == {"extract", "encode", "trim"}
Admin    == {"load", "unload"}
Kinds    == Speech \cup Register \cup Admin \cup {"lookup"}

Job(k, n, al) ==
  [kind |-> k, req |-> n, aligned |-> al, fired |-> FALSE, failed |-> FALSE]
NoJob == Job("none", 0, FALSE)

PCs == {"idle", "begin", "rensure", "lock", "ensure", "prepare",
        "alock", "aensure", "akill", "start", "synth", "finish", "use",
        "release", "leave", "save"}

\* Who holds a mutex.
Holder(who, h) == [who |-> who, h |-> h]
Nobody   == Holder("nobody", NoHandler)
Idler    == Holder("idle", NoHandler)
Thread(h) == Holder("handler", h)
Eager(h)  == Holder("eager", h)

Loaded == model # "none"

\* io_mutex_ of the worker session, held for the whole of a synthesis.
IoFreeAlways == TRUE
IoFree       == isolated => \A h \in Handlers : pc[h] # "synth"

Kind(h)    == job[h].kind
Goto(h, l) == pc' = [pc EXCEPT ![h] = l]
Fail(h)    == job' = [job EXCEPT ![h].failed = TRUE]
Return(h)  == Goto(h, "idle") /\ job' = [job EXCEPT ![h] = NoJob]

Init ==
  /\ isolated \in BOOLEAN
  /\ pc = [h \in Handlers |-> "idle"]
  /\ job = [h \in Handlers |-> NoJob]
  /\ eager = [h \in Handlers |-> "none"]
  /\ served = 0
  /\ synthMutex = Nobody /\ alignerMutex = Nobody
  /\ inFlight = 0 /\ recent = TRUE
  /\ model = IF Lazy THEN "none" ELSE "ready"
  /\ cancelFlag = 0 /\ lastSynth = 0
  /\ alignerUp = FALSE
  /\ idle = "sleep"
---------------------------------------------------------------------------
(* Requests.                                                               *)

\* The first section of a request: a built-in voice of the in-process model
\* is looked up first; a registration skips what its archive already has.
FirstSections ==
  Speech \cup Register \cup Admin \cup (IF isolated THEN {} ELSE {"lookup"})

Entry(k) ==
  CASE k \in Speech               -> "begin"
    [] k \in Register /\ isolated -> "rensure"
    [] OTHER                      -> "lock"

Arrive(h) ==
  /\ pc[h] = "idle"
  /\ served < MaxRequests
  /\ served' = served + 1
  /\ \E k \in FirstSections, al \in BOOLEAN :
       /\ al => k = "stream" /\ isolated
       /\ job' = [job EXCEPT ![h] = Job(k, served', al)]
       /\ Goto(h, Entry(k))
  /\ UNCHANGED <<isolated, eager, mutexes, clock, modelVars, alignerUp, idle>>

\* set_next_gpu, which takes io_mutex_ and so waits for a synthesis in
\* progress (a request that names no GPU leaves the last choice in place);
\* InFlightGuard; and the eager-aligner thread, unless it is disabled.
Begin(h) ==
  /\ pc[h] = "begin"
  /\ IoFree
  /\ model' \in {model} \cup
       (IF isolated /\ Loaded THEN {"ready", "elsewhere"} ELSE {})
  /\ inFlight' = inFlight + 1
  /\ recent' = TRUE
  /\ eager' \in {eager} \cup
       (IF job[h].aligned THEN {[eager EXCEPT ![h] = "lock"]} ELSE {})
  /\ Goto(h, "lock")
  /\ UNCHANGED <<isolated, job, served, mutexes, cancelFlag, lastSynth, alignerUp, idle>>

\* A registration loads the worker before it takes synth_mutex, and is not
\* counted in in_flight_synths.
RegisterEnsure(h) ==
  /\ pc[h] = "rensure"
  /\ IoFree
  /\ \/ model' = "ready" /\ Goto(h, "lock") /\ UNCHANGED job
     \/ model # "ready" /\ model' = "none" /\ Return(h)
  /\ UNCHANGED <<isolated, eager, served, mutexes, clock, cancelFlag, lastSynth,
                 alignerUp, idle>>

\* Sections that do not load the model: unload and unload_encoders need
\* none, and a registration's worker was loaded above.
SkipsEnsure(k) ==
  k \in {"unload", "trim"} \/ (isolated /\ k \in {"extract", "encode"})

Lock(h) ==
  /\ pc[h] = "lock"
  /\ synthMutex = Nobody
  /\ synthMutex' = Thread(h)
  /\ Goto(h, IF SkipsEnsure(Kind(h)) THEN "use" ELSE "ensure")
  /\ UNCHANGED <<isolated, job, eager, served, alignerMutex, clock, modelVars,
                 alignerUp, idle>>

AfterEnsure(k) ==
  CASE k = "stream"                -> "prepare"
    [] k = "whole"                 -> "start"
    [] k \in {"extract", "encode"} -> "use"
    [] k \in {"lookup", "load"}    -> "release"

\* ensure_loaded (the worker: relocated if another GPU is wanted) or
\* ensure_loaded_locked (in process). A failure leaves no model.
Ensure(h) ==
  /\ pc[h] = "ensure"
  /\ \/ model' = "ready" /\ Goto(h, AfterEnsure(Kind(h))) /\ UNCHANGED job
     \/ model # "ready" /\ model' = "none" /\ Goto(h, "release") /\ Fail(h)
  /\ recent' = (recent \/ (~isolated /\ Kind(h) # "load"))
  /\ UNCHANGED <<isolated, eager, served, mutexes, inFlight,
                 cancelFlag, lastSynth, alignerUp, idle>>

\* The end of a section. A request with another section to run goes on,
\* unless it has failed.
NextSections(k) ==
  CASE k = "lookup"  -> Speech
    [] k = "extract" -> {"encode", "trim"}
    [] k = "encode"  -> {"trim"}
    [] OTHER         -> {}

Release(h) ==
  /\ pc[h] = "release"
  /\ synthMutex' = Nobody
  /\ \/ Kind(h) \in Speech /\ Goto(h, "leave") /\ UNCHANGED job
     \/ /\ Kind(h) \notin Speech
        /\ job[h].failed \/ NextSections(Kind(h)) = {}
        /\ Return(h)
     \/ /\ ~job[h].failed
        /\ \E k \in NextSections(Kind(h)) :
             /\ job' = [job EXCEPT ![h].kind = k]
             /\ Goto(h, IF k \in Speech THEN "begin" ELSE "lock")
  /\ UNCHANGED <<isolated, eager, served, alignerMutex, clock, modelVars,
                 alignerUp, idle>>
---------------------------------------------------------------------------
(* A synthesis.                                                            *)

\* clear_cancel of the in-process engine; only a streamed request calls it.
ClearNothing == UNCHANGED cancelFlag
ClearCancel  == cancelFlag' = IF isolated THEN cancelFlag ELSE 0

\* The encoder of a compressed stream may fail to open: the handler returns.
Prepare(h) ==
  /\ pc[h] = "prepare"
  /\ ClearCancel
  /\ \/ Goto(h, IF job[h].aligned THEN "alock" ELSE "start") /\ UNCHANGED job
     \/ Goto(h, "release") /\ Fail(h)
  /\ UNCHANGED <<isolated, eager, served, mutexes, clock, model, lastSynth,
                 alignerUp, idle>>

AlignerLock(h) ==
  /\ pc[h] = "alock"
  /\ alignerMutex = Nobody
  /\ alignerMutex' = Thread(h)
  /\ Goto(h, IF Kind(h) = "unload" THEN "akill" ELSE "aensure")
  /\ UNCHANGED <<isolated, job, eager, served, synthMutex, clock, modelVars,
                 alignerUp, idle>>

\* ensure_loaded and begin_streaming_align. If either fails the stream goes
\* on without alignment and without the mutex.
AlignerEnsure(h) ==
  /\ pc[h] = "aensure"
  /\ alignerUp' \in {alignerUp, TRUE}
  /\ alignerMutex' \in
       {Nobody} \cup (IF alignerUp' THEN {alignerMutex} ELSE {})
  /\ Goto(h, "start")
  /\ UNCHANGED <<isolated, job, eager, served, synthMutex, clock, modelVars,
                 idle>>

\* The synthesis begins, unless the worker went away after ensure_loaded.
Start(h) ==
  /\ pc[h] = "start"
  /\ IF Loaded THEN /\ Goto(h, "synth") /\ UNCHANGED job
                    /\ lastSynth' = job[h].req
               ELSE /\ Goto(h, "finish") /\ Fail(h)
                    /\ UNCHANGED lastSynth
  /\ UNCHANGED <<isolated, eager, served, mutexes, clock, model, cancelFlag,
                 alignerUp, idle>>

\* dispatch_cancel, by the watchdog or by on_pcm on a broken sink: once. The
\* watchdog starts with the synthesis; WatchdogJoinGuard joins it on the way
\* out, before synth_mutex is released.
DispatchCancel(h) ==
  /\ Kind(h) = "stream" /\ pc[h] \in {"synth", "finish"}
  /\ ~job[h].fired
  /\ job' = [job EXCEPT ![h].fired = TRUE]
  /\ cancelFlag' = IF isolated THEN cancelFlag ELSE job[h].req
  /\ UNCHANGED <<isolated, pc, eager, served, mutexes, clock, model, lastSynth,
                 alignerUp, idle>>

\* The outcome of a call to the engine: a failed call to the worker may have
\* killed it.
CallEnds(ok) ==
  /\ ok => Loaded
  /\ model' \in {model} \cup (IF isolated /\ ~ok THEN {"none"} ELSE {})

SynthEnds(h) ==
  /\ pc[h] = "synth"
  /\ \E ok \in BOOLEAN :
       /\ CallEnds(ok)
       /\ job' = [job EXCEPT ![h].failed = ~ok]
  /\ Goto(h, "finish")
  /\ UNCHANGED <<isolated, eager, served, mutexes, clock, cancelFlag, lastSynth,
                 alignerUp, idle>>

\* Where eager_aligner_thread is joined: the guard that joins it was declared
\* before the locks, so it runs after they are released.
JoinsEverywhere(h, l) == eager[h] = "none"
JoinsEager(h, l)      == l = "leave" => eager[h] = "none"

\* finalize_streaming_align (or not, after a cancel), save_voice_warmup of a
\* stream, the join of the watchdog; aligner_lock is released.
Finish(h) ==
  /\ pc[h] = "finish"
  /\ JoinsEager(h, "finish")
  /\ alignerMutex' = IF alignerMutex = Thread(h) THEN Nobody ELSE alignerMutex
  /\ Goto(h, "release")
  /\ UNCHANGED <<isolated, job, eager, served, synthMutex, clock, modelVars,
                 alignerUp, idle>>

UncountsNone == UNCHANGED inFlight
Uncounts     == inFlight' = inFlight - 1

\* EagerAlignerJoinGuard and ~InFlightGuard.
Leave(h) ==
  /\ pc[h] = "leave"
  /\ JoinsEager(h, "leave")
  /\ recent' = TRUE
  /\ Uncounts
  /\ IF Kind(h) = "whole" /\ ~job[h].failed
       THEN Goto(h, "save") /\ UNCHANGED job
       ELSE Return(h)
  /\ UNCHANGED <<isolated, eager, served, mutexes, modelVars, alignerUp,
                 idle>>

\* save_voice_warmup and align_words of a response that is not streamed,
\* if it needs them: outside synth_mutex and not counted.
Save(h) ==
  /\ pc[h] = "save"
  /\ IoFree
  /\ \E ok \in BOOLEAN : CallEnds(ok)
  /\ Return(h)
  /\ UNCHANGED <<isolated, eager, served, mutexes, clock, cancelFlag, lastSynth,
                 alignerUp, idle>>
---------------------------------------------------------------------------
(* Registration and administration, under synth_mutex.                     *)

\* extract_speaker_embedding (a registration with a text goes on without
\* it), encode_speech_codes, unload_encoders.
Use(h) ==
  /\ pc[h] = "use" /\ Kind(h) \in Register
  /\ \E ok \in BOOLEAN, goesOn \in BOOLEAN :
       /\ IF Kind(h) = "trim" THEN ok /\ UNCHANGED model ELSE CallEnds(ok)
       /\ goesOn => ~ok /\ Kind(h) = "extract"
       /\ job' = [job EXCEPT ![h].failed = ~ok /\ ~goesOn]
  /\ Goto(h, "release")
  /\ UNCHANGED <<isolated, eager, served, mutexes, clock, cancelFlag, lastSynth,
                 alignerUp, idle>>

AdminUnload(h) ==
  /\ pc[h] = "use" /\ Kind(h) = "unload"
  /\ model' = "none"
  /\ Goto(h, IF isolated THEN "alock" ELSE "release")
  /\ UNCHANGED <<isolated, job, eager, served, mutexes, clock,
                 cancelFlag, lastSynth, alignerUp, idle>>

AdminKillsAligner(h) ==
  /\ pc[h] = "akill"
  /\ alignerUp' = FALSE
  /\ alignerMutex' = Nobody
  /\ Goto(h, "release")
  /\ UNCHANGED <<isolated, job, eager, served, synthMutex, clock, modelVars,
                 idle>>
---------------------------------------------------------------------------
(* The eager-aligner thread and the idle-unload thread.                    *)

EagerLock(h) ==
  /\ eager[h] = "lock"
  /\ alignerMutex = Nobody
  /\ alignerMutex' = Eager(h)
  /\ eager' = [eager EXCEPT ![h] = "load"]
  /\ UNCHANGED <<isolated, pc, job, served, synthMutex, clock, modelVars,
                 alignerUp, idle>>

EagerLoad(h) ==
  /\ eager[h] = "load"
  /\ alignerUp' \in {alignerUp, TRUE}
  /\ alignerMutex' = Nobody
  /\ eager' = [eager EXCEPT ![h] = "none"]
  /\ UNCHANGED <<isolated, pc, job, served, synthMutex, clock, modelVars,
                 idle>>

Quiet == inFlight = 0 /\ ~recent

IdleWakes ==
  /\ idle = "sleep"
  /\ Quiet
  /\ idle' = "try"
  /\ UNCHANGED <<isolated, pc, job, eager, served, mutexes, clock, modelVars,
                 alignerUp>>

\* try_to_lock of synth_mutex and the second check, under it. A tick that
\* misses the lock or finds nothing to do is skipped.
OwnsAlways == TRUE
OwnsLock   == synthMutex = Nobody
NextTick   == "sleep"

IdleTries ==
  /\ idle = "try"
  /\ IF ~OwnsLock           THEN idle' = NextTick /\ UNCHANGED synthMutex
     ELSE IF Quiet /\ Loaded THEN idle' = "unload" /\ synthMutex' = Idler
                            ELSE idle' = "sleep"  /\ UNCHANGED synthMutex
  /\ UNCHANGED <<isolated, pc, job, eager, served, alignerMutex, clock,
                 modelVars, alignerUp>>

IdleUnloads ==
  /\ idle = "unload"
  /\ model' = "none"
  /\ idle' = "aligner"
  /\ UNCHANGED <<isolated, pc, job, eager, served, mutexes, clock,
                 cancelFlag, lastSynth, alignerUp>>

\* try_to_lock of aligner_session_mutex; then the next tick.
IdleTriesAligner ==
  /\ idle = "aligner"
  /\ alignerUp' = (alignerUp /\ alignerMutex # Nobody)
  /\ synthMutex' = Nobody
  /\ idle' = "sleep"
  /\ UNCHANGED <<isolated, pc, job, eager, served, alignerMutex, clock,
                 modelVars>>

\* Time passes: the last activity is older than the idle threshold.
Tick ==
  /\ recent
  /\ recent' = FALSE
  /\ UNCHANGED <<isolated, pc, job, eager, served, mutexes, inFlight,
                 modelVars, alignerUp, idle>>
---------------------------------------------------------------------------
HandlerStep(h) ==
  \/ Begin(h) \/ RegisterEnsure(h) \/ Ensure(h)
  \/ Prepare(h) \/ AlignerEnsure(h) \/ Start(h) \/ SynthEnds(h)
  \/ Finish(h) \/ Release(h) \/ Leave(h) \/ Save(h)
  \/ Use(h) \/ AdminUnload(h) \/ AdminKillsAligner(h)

IdleStep ==
  IdleWakes \/ IdleTries \/ IdleUnloads \/ IdleTriesAligner

Next ==
  \/ \E h \in Handlers : Arrive(h) \/ HandlerStep(h) \/ DispatchCancel(h)
  \/ \E h \in Handlers : Lock(h) \/ AlignerLock(h) \/ EagerLock(h)
  \/ \E h \in Handlers : EagerLoad(h)
  \/ IdleStep
  \/ Tick

\* Threads run, the clock advances, and a thread that waits for a mutex gets
\* it if it is free again and again: the idle thread sleeps a second or more
\* between its tries.
Fairness ==
  /\ \A h \in Handlers :
       /\ WF_vars(HandlerStep(h)) /\ WF_vars(EagerLoad(h))
       /\ SF_vars(Lock(h)) /\ WF_vars(AlignerLock(h)) /\ WF_vars(EagerLock(h))
  /\ WF_vars(IdleStep)
  /\ WF_vars(Tick)

Spec == Init /\ [][Next]_vars /\ Fairness
---------------------------------------------------------------------------
Holders == {Nobody, Idler} \cup {Thread(h) : h \in Handlers}
                           \cup {Eager(h) : h \in Handlers}

\* Every variable keeps its type; in_flight_synths in particular never
\* counts more requests than there are handlers.
TypeOK ==
  /\ isolated \in BOOLEAN
  /\ pc \in [Handlers -> PCs]
  /\ job \in [Handlers -> [kind : Kinds \cup {"none"}, req : 0..MaxRequests,
                           aligned : BOOLEAN, fired : BOOLEAN,
                           failed : BOOLEAN]]
  /\ eager \in [Handlers -> {"none", "lock", "load"}]
  /\ served \in 0..MaxRequests
  /\ synthMutex \in Holders /\ alignerMutex \in Holders
  /\ inFlight \in 0..Cardinality(Handlers)
  /\ recent \in BOOLEAN
  /\ model \in {"none", "ready", "elsewhere"}
  /\ cancelFlag \in 0..MaxRequests /\ lastSynth \in 0..MaxRequests
  /\ alignerUp \in BOOLEAN
  /\ idle \in {"sleep", "try", "unload", "aligner"}

\* In process, nothing unloads the model between a section's
\* ensure_loaded_locked and the call it was made for: not the idle thread,
\* whose quiet check may be out of date by then, and not an admin unload.
CallsFindModel ==
  \A h \in Handlers :
    ~isolated /\ (pc[h] \in {"prepare", "start", "synth"}
                  \/ (pc[h] = "use" /\ Kind(h) \in {"extract", "encode"}))
      => Loaded

\* A streamed synthesis of the in-process engine is aborted by its own
\* request's cancel or by none: not by an earlier request's, whose watchdog
\* fired as it ended.
OwnCancelOnly ==
  \A h \in Handlers :
    ~isolated /\ pc[h] = "synth" /\ Kind(h) = "stream"
      => cancelFlag \in {0, job[h].req}

\* What a handler reads of its synthesis after the call has returned
\* (align_words reads last_pcm, save_voice_warmup the caches) is of its own
\* synthesis, and in process nobody synthesises meanwhile. It holds for what
\* is read before synth_mutex is released.
ReadsOwnSynth(h) ==
  lastSynth = job[h].req /\ \A g \in Handlers \ {h} : pc[g] # "synth"

StreamsReadOwn ==
  \A h \in Handlers : pc[h] = "finish" /\ ~job[h].failed => ReadsOwnSynth(h)

\* A stream is cut by its own client alone, and reads its own synthesis.
StreamsKeepOwn == OwnCancelOnly /\ StreamsReadOwn

\* worker_session.h:185: the call is only valid immediately after the
\* synthesis. Does not hold for a response that is not streamed.
LateCallsReadOwn ==
  \A h \in Handlers : pc[h] = "save" => ReadsOwnSynth(h)

\* While a synthesis runs nobody unloads, reloads or relocates its model,
\* and nobody takes down the aligner its stream uses: not the idle thread,
\* an admin request, a registration that loads the worker without
\* synth_mutex, or a request for another GPU.
SynthUndisturbed ==
  [][\A h \in Handlers : pc[h] = "synth" /\ pc'[h] = "synth" =>
       /\ model' = model
       /\ alignerMutex = Thread(h) => alignerUp']_vars

\* Every request ends, and with it its locks and its count: no handler waits
\* for a mutex, or for its own eager thread, forever.
RequestsEnd == \A h \in Handlers : pc[h] # "idle" ~> pc[h] = "idle"

\* After the last request the idle thread unloads the model, whatever ticks
\* it had to skip and however requests failed before.
IdleFreesModel ==
  <>[](\A h \in Handlers : pc[h] = "idle") => <>[]~Loaded
===========================================================================
