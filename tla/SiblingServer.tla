---------------------------- MODULE SiblingServer ----------------------------
(***************************************************************************)
(* The servers of the two sibling engines, Higgs and Breeze, with a worker *)
(* process (worker isolation): the HTTP handlers and content providers,    *)
(* one disconnect watchdog per streamed response, the parent's session,    *)
(* the worker with its reader and its main thread, the idle thread and the *)
(* admin route. Both servers have the same locks:                          *)
(*   mtx          a handler or provider around its call of the engine      *)
(*   aligner_mtx  an aligned stream, from before mtx to its end            *)
(*   io_mutex_    the session, for the whole of a call, a load or a kill   *)
(* and the same frames; they differ in their routes and in what they keep  *)
(* of a cancel.                                                            *)
(***************************************************************************)
EXTENDS Integers, Sequences, FiniteSets

CONSTANTS Requests,   \* the requests of the instance
          Wishes,     \* GPUs they may ask for; "" asks for none
          Scenarios,  \* the route and wish of each request and how often the
                      \* worker may crash
          Frames      \* audio frames of a streamed synthesis, at most

VARIABLES
  env,        \* the scenario: the route and the wish of each request,
              \* and the crashes that may come
  pc,         \* where each request is
  client,     \* is its client still connected?
  wd,         \* its watchdog: the state, and the request id it has read
  mtx, amtx, io,  \* the holders of the mutexes
  inflight,   \* cx.inflight
  next,       \* next_gpu_
  session,    \* pid_ > 0 and loaded_ok_, worker_gpu_, current_synth_req_id_,
              \* next_req_id_
  proc,       \* the worker process runs
  toW, toP,   \* the two directions of the socket
  w,          \* the worker: main thread, reader, queue, active_req, flag
  idle,       \* the idle thread
  told,       \* what each request's caller was told
  crashes,
  cut, slain  \* history: requests whose synthesis was cut short, requests whose
              \* call a kill interrupted

srv  == <<pc, mtx, amtx, inflight, told>>
sess == <<io, next, session, proc, toW, toP, slain>>
wrk  == <<w, cut, crashes>>
vars == <<env, pc, client, wd, mtx, amtx, io, inflight, next, session,
          proc, toW, toP, w, idle, told, crashes, cut, slain>>

-----------------------------------------------------------------------------
(* Routes. early: the Activity is made before the load, not after it;      *)
(* streams: the response is written by a content provider, which runs when *)
(* the handler has returned; kept: the provider makes an Activity of its   *)
(* own; call: the frame the session sends.                                 *)

Route(early, streams, kept, aligned, call) ==
  [early |-> early, streams |-> streams, kept |-> kept, aligned |-> aligned,
   call |-> call]

HiggsUpload == {Route(FALSE, FALSE, FALSE, FALSE, "ENCODE")}
HiggsTrial  == {Route(TRUE, FALSE, FALSE, FALSE, "TRIAL")}
HiggsSse    == {Route(TRUE, TRUE, TRUE, a, "SPEECH") : a \in BOOLEAN}
HiggsSpeech == {Route(TRUE, FALSE, FALSE, FALSE, "SPEECH"),
                Route(TRUE, TRUE, FALSE, FALSE, "SPEECH")}

BreezeUpload == {Route(TRUE, FALSE, FALSE, FALSE, "ENCODE")}
BreezeSse    == {Route(TRUE, TRUE, TRUE, a, "SPEECH") : a \in BOOLEAN}
BreezeAudio  == {Route(TRUE, TRUE, FALSE, FALSE, "SPEECH")}
BreezeWhole  == {Route(TRUE, FALSE, FALSE, FALSE, "SPEECH")}

\* /v1/admin/load: ensure, and nothing after.
AdminLoad == {Route(TRUE, FALSE, FALSE, FALSE, "LOAD")}

Routes(product) ==
  AdminLoad \union
  IF product = "higgs" THEN HiggsUpload \union HiggsTrial \union HiggsSse \union HiggsSpeech
  ELSE BreezeUpload \union BreezeSse \union BreezeAudio \union BreezeWhole

AllScenarios ==
  UNION {[route : [Requests -> Routes(p)], wish : [Requests -> Wishes], crashes : {0, 1}] :
         p \in {"higgs", "breeze"}}

ASSUME ServerAssumption ==
  /\ IsFiniteSet(Requests) /\ Requests # {} /\ {"free", "idle"} \intersect Requests = {}
  /\ "" \in Wishes /\ Scenarios \subseteq AllScenarios
  /\ Frames \in Nat

NoWorker == [main |-> "wait", reader |-> "recv", q |-> <<>>, active |-> 0,
             flag |-> FALSE, cur |-> [type |-> "none", id |-> 0], frames |-> 0]

Init ==
  /\ env \in Scenarios
  /\ pc = [r \in Requests |-> "arrive"]
  /\ client = [r \in Requests |-> TRUE]
  /\ wd = [r \in Requests |-> [at |-> "none", id |-> 0]]
  /\ mtx = "free" /\ amtx = "free" /\ io = "free"
  /\ inflight = 0 /\ next = ""
  /\ session = [ready |-> FALSE, gpu |-> "", synth |-> 0, seq |-> 1]
  /\ proc = FALSE /\ toW = <<>> /\ toP = <<>> /\ w = NoWorker
  /\ idle = "sleep"
  /\ told = [r \in Requests |-> "nothing"]
  /\ crashes = 0 /\ cut = {} /\ slain = {}

-----------------------------------------------------------------------------
(* The session *)

\* The request whose call the session is in.
InCall == {r \in Requests : pc[r] \in {"sent", "recv"}}

\* kill_worker_locked: SIGKILL, waitpid, the socket closed.
Kill ==
  /\ proc' = FALSE
  /\ toW' = <<>> /\ toP' = <<>>
  /\ w' = NoWorker
  /\ session' = [session EXCEPT !.ready = FALSE]
  /\ slain' = slain \union (IF proc THEN InCall ELSE {})

\* Mutant: the session's calls do not exclude each other.
SessionUnlocked == TRUE

SessionFree == io = "free"

Shutdown ==
  /\ SessionFree
  /\ Kill
  /\ UNCHANGED <<io, next>>

\* ensure_loaded, without a step between: nobody else uses the socket while
\* io_mutex_ is held and no synthesis is published. A worker that is not
\* there or is on another GPU is replaced.
WantGpu == IF next = "" THEN "default" ELSE next
EnsureLoaded(ok) ==
  /\ SessionFree
  /\ IF session.ready /\ session.gpu = WantGpu
     THEN ok /\ UNCHANGED <<session, proc, toW, toP, w>>
     ELSE /\ proc' = ok /\ toW' = <<>> /\ toP' = <<>> /\ w' = NoWorker
          /\ session' = [session EXCEPT !.ready = ok, !.gpu = WantGpu]
  /\ slain' = slain \union (IF session'.gpu # session.gpu \/ ~proc' THEN InCall ELSE {})
  /\ UNCHANGED <<io, next>>

-----------------------------------------------------------------------------
(* A request *)

Goes(r, to) == pc' = [pc EXCEPT ![r] = to]
Is(r) == env.route[r]

\* The handler starts: it may ask for a GPU (which waits for io_mutex_) and
\* makes its Activity.
Arrive(r) ==
  /\ pc[r] = "arrive"
  /\ env.wish[r] # "" /\ Is(r).call = "SPEECH" => SessionFree
  /\ next' = IF Is(r).call = "SPEECH" /\ env.wish[r] # "" THEN env.wish[r] ELSE next
  /\ IF Is(r).early THEN inflight' = inflight + 1
     ELSE UNCHANGED inflight
  /\ Goes(r, "ensure")
  /\ UNCHANGED <<env, client, wd, mtx, amtx, io, session, proc, toW, toP, w, idle,
                 told, crashes, cut, slain>>

\* Ensured; a whole response is made by the handler itself, a stream by a
\* provider, and the handler's Activity ends.
Ensured(r) ==
  /\ pc[r] = "ensure"
  /\ EnsureLoaded(TRUE)
  /\ inflight' = inflight + (IF Is(r).streams \/ Is(r).call = "LOAD" THEN -1
                             ELSE IF Is(r).early THEN 0 ELSE 1)
  /\ Goes(r, CASE Is(r).call = "LOAD" -> "done"
                [] Is(r).streams -> "provide"
                [] OTHER -> "lock")
  /\ UNCHANGED <<env, client, wd, mtx, amtx, idle, told, crashes, cut>>

EnsureFails(r) ==
  /\ pc[r] = "ensure"
  /\ EnsureLoaded(FALSE)
  /\ inflight' = inflight - (IF Is(r).early THEN 1 ELSE 0)
  /\ told' = [told EXCEPT ![r] = "503"]
  /\ Goes(r, "done")
  /\ UNCHANGED <<env, client, wd, mtx, amtx, idle, crashes, cut>>

\* The provider: its Activity, the aligner's mutex, the watchdog.
Provide(r) ==
  /\ pc[r] = "provide"
  /\ Is(r).aligned => amtx = "free"
  /\ amtx' \in IF Is(r).aligned THEN {r, "free"} ELSE {amtx}
  /\ inflight' = inflight + (IF Is(r).kept THEN 1 ELSE 0)
  /\ wd' = [wd EXCEPT ![r].at = "watch"]
  /\ Goes(r, "lock")
  /\ UNCHANGED <<env, client, mtx, io, next, session, proc, toW, toP, w, idle, told,
                 crashes, cut, slain>>

Lock(r) ==
  /\ pc[r] = "lock" /\ mtx = "free"
  /\ mtx' = r
  /\ Goes(r, "call")
  /\ UNCHANGED <<env, client, wd, amtx, io, inflight, next, session, proc, toW, toP, w,
                 idle, told, crashes, cut, slain>>

Call(r) ==
  /\ pc[r] = "call" /\ SessionFree /\ session.ready
  /\ io' = r
  /\ toW' = Append(toW, [type |-> Is(r).call, id |-> session.seq, of |-> r])
  /\ session' = [session EXCEPT !.seq = @ + 1]
  /\ Goes(r, "sent")
  /\ UNCHANGED <<env, client, wd, mtx, amtx, inflight, next, proc, toP, w, idle,
                 told, crashes, cut, slain>>

\* "worker not ready".
NotReady(r) ==
  /\ pc[r] = "call" /\ SessionFree /\ ~session.ready
  /\ told' = [told EXCEPT ![r] = "not ready"]
  /\ mtx' = "free"
  /\ Goes(r, "after")
  /\ UNCHANGED <<env, client, wd, amtx, io, inflight, next, session, proc, toW,
                 toP, w, idle, crashes, cut, slain>>

\* A synthesis is published for cancels after its request was sent.
Publish(r) ==
  /\ pc[r] = "sent"
  /\ session' = [session EXCEPT !.synth = IF Is(r).call = "SPEECH" THEN session.seq - 1 ELSE 0]
  /\ Goes(r, "recv")
  /\ UNCHANGED <<env, client, wd, mtx, amtx, io, inflight, next, proc, toW, toP,
                 w, idle, told, crashes, cut, slain>>

\* The call ends: the Guard withdraws the id, the mutexes are given back.
Returns(r, what) ==
  /\ told' = [told EXCEPT ![r] = what]
  /\ io' = "free" /\ mtx' = "free"
  /\ Goes(r, "after")

\* The provider's audio reaches the client and counts as activity.
ReceiveAudio(r) ==
  /\ pc[r] = "recv" /\ toP # <<>> /\ Head(toP).type = "AUDIO"
  /\ toP' = Tail(toP)
  /\ UNCHANGED <<env, pc, client, wd, mtx, amtx, io, inflight, next, session, proc, toW,
                 w, idle, told, crashes, cut, slain>>

ReceiveReply(r) ==
  /\ pc[r] = "recv" /\ toP # <<>> /\ Head(toP).type \in {"ok", "error"}
  /\ toP' = Tail(toP)
  /\ session' = [session EXCEPT !.synth = 0]
  /\ Returns(r, IF Head(toP).id = session.seq - 1 THEN Head(toP).type ELSE "another's")
  /\ UNCHANGED <<env, client, wd, amtx, inflight, next, proc, toW, w, idle,
                 crashes, cut, slain>>

\* The worker is gone: end of file, or the request cannot be sent.
ReceiveEof(r) ==
  /\ pc[r] \in {"sent", "recv"} /\ ~proc /\ toP = <<>>
  /\ toW' = <<>> /\ toP' = <<>> /\ w' = NoWorker /\ proc' = FALSE
  /\ session' = [session EXCEPT !.ready = FALSE, !.synth = 0]
  /\ Returns(r, "worker gone")
  /\ UNCHANGED <<env, client, wd, amtx, inflight, next, idle, crashes,
                 cut, slain>>

\* The watchdog is told to stop and joined.
Finish(r) ==
  /\ pc[r] = "after" /\ wd[r].at \in {"none", "watch", "ended"}
  /\ wd' = [wd EXCEPT ![r].at = "ended"]
  /\ amtx' = IF amtx = r THEN "free" ELSE amtx
  /\ inflight' = inflight - (IF Is(r).streams /\ ~Is(r).kept THEN 0 ELSE 1)
  /\ Goes(r, "done")
  /\ UNCHANGED <<env, client, mtx, io, next, session, proc, toW, toP, w, idle, told,
                 crashes, cut, slain>>

-----------------------------------------------------------------------------
(* Clients and watchdogs *)

Disconnect(r) ==
  /\ client[r] /\ Is(r).streams /\ pc[r] \in {"lock", "call", "sent", "recv", "after"}
  /\ client' = [client EXCEPT ![r] = FALSE]
  /\ UNCHANGED <<env, pc, wd, mtx, amtx, io, inflight, next, session, proc, toW,
                 toP, w, idle, told, crashes, cut, slain>>

\* request_cancel, once: it takes the id of whatever synthesis is published.
Notice(r) ==
  /\ wd[r].at = "watch" /\ ~client[r]
  /\ wd' = [wd EXCEPT ![r] = IF session.synth = 0 THEN [at |-> "ended", id |-> 0]
                             ELSE [at |-> "send", id |-> session.synth]]
  /\ UNCHANGED <<env, pc, client, mtx, amtx, io, inflight, next, session, proc,
                 toW, toP, w, idle, told, crashes, cut, slain>>

SendCancel(r) ==
  /\ wd[r].at = "send"
  /\ wd' = [wd EXCEPT ![r].at = "ended"]
  /\ toW' = IF proc THEN Append(toW, [type |-> "CANCEL", id |-> wd[r].id, of |-> r]) ELSE toW
  /\ UNCHANGED <<env, pc, client, mtx, amtx, io, inflight, next, session, proc,
                 toP, w, idle, told, crashes, cut, slain>>

-----------------------------------------------------------------------------
(* The worker process *)

\* A CANCEL_REQ is for the request that is active.
Accepts(id) == w.active # 0 /\ w.active = id

ReaderStep ==
  /\ proc /\ w.reader = "recv" /\ toW # <<>>
  /\ toW' = Tail(toW)
  /\ w' = IF Head(toW).type # "CANCEL" THEN [w EXCEPT !.q = Append(@, Head(toW))]
          ELSE IF Accepts(Head(toW).id) THEN [w EXCEPT !.reader = "set"]
          ELSE w
  /\ UNCHANGED <<env, srv, client, wd, io, next, session, proc, toP, slain, idle,
                 crashes, cut>>

ReaderSets ==
  /\ proc /\ w.reader = "set"
  /\ w' = [w EXCEPT !.reader = "recv", !.flag = TRUE]
  /\ UNCHANGED <<env, srv, client, wd, sess, idle, crashes, cut>>

\* Mutant: clear_cancel is missing.
TakesUncleared ==
  /\ proc /\ w.main = "wait" /\ w.q # <<>>
  /\ LET f == Head(w.q) IN
     w' = [w EXCEPT !.q = Tail(@), !.cur = f, !.frames = 0,
                    !.main = IF f.type = "SPEECH" THEN "activate"
                             ELSE IF f.type = "TRIAL" THEN "synth" ELSE "encode"]
  /\ UNCHANGED <<env, srv, client, wd, sess, idle, crashes, cut>>

\* SPEECH_REQ: clear_cancel, then the request is active; TRIAL_REQ clears too;
\* ENCODE_REQ does neither.
WorkerTakes ==
  /\ proc /\ w.main = "wait" /\ w.q # <<>>
  /\ LET f == Head(w.q) IN
     w' = [w EXCEPT !.q = Tail(@), !.cur = f, !.frames = 0,
                    !.flag = @ /\ f.type = "ENCODE",
                    !.main = IF f.type = "SPEECH" THEN "activate"
                             ELSE IF f.type = "TRIAL" THEN "synth" ELSE "encode"]
  /\ UNCHANGED <<env, srv, client, wd, sess, idle, crashes, cut>>

Activate ==
  /\ proc /\ w.main = "activate"
  /\ w' = [w EXCEPT !.main = "synth", !.active = w.cur.id]
  /\ UNCHANGED <<env, srv, client, wd, sess, idle, crashes, cut>>

\* on_chunk.
SendAudio ==
  /\ proc /\ w.main = "synth" /\ w.active # 0 /\ ~w.flag /\ w.frames < Frames
  /\ w' = [w EXCEPT !.frames = @ + 1]
  /\ toP' = Append(toP, [type |-> "AUDIO", id |-> w.cur.id])
  /\ UNCHANGED <<env, srv, client, wd, io, next, session, proc, toW, slain, idle,
                 crashes, cut>>

\* The synthesis is over: done, failed, or stopped by the flag; the reply of
\* a cancelled one is a success. active_req is reset after the reply.
Reply(what) ==
  /\ proc /\ w.main \in {"synth", "encode"}
  /\ w.flag /\ w.main = "synth" => what = "ok"
  /\ cut' = IF w.flag /\ w.main = "synth" THEN cut \union {w.cur.of} ELSE cut
  /\ toP' = Append(toP, [type |-> what, id |-> w.cur.id])
  /\ w' = [w EXCEPT !.main = "rest"]
  /\ UNCHANGED <<env, srv, client, wd, io, next, session, proc, toW, slain, idle,
                 crashes>>

Rest ==
  /\ proc /\ w.main = "rest"
  /\ w' = [w EXCEPT !.main = "wait", !.active = 0]
  /\ UNCHANGED <<env, srv, client, wd, sess, idle, crashes, cut>>

Crash ==
  /\ proc /\ crashes < env.crashes
  /\ crashes' = crashes + 1
  /\ proc' = FALSE
  /\ UNCHANGED <<env, srv, client, wd, io, next, session, toW, toP, w, slain, idle,
                 cut>>

-----------------------------------------------------------------------------
(* Idle thread and admin *)


IdleLooks ==
  /\ idle = "sleep" /\ inflight = 0 /\ session.ready
  /\ idle' = "lock"
  /\ UNCHANGED <<env, srv, client, wd, sess, wrk>>

\* try_lock, and the count once more.
IdleLocks ==
  /\ idle = "lock"
  /\ IF mtx = "free" /\ inflight = 0 THEN mtx' = "idle" /\ idle' = "kill"
     ELSE idle' = "sleep" /\ UNCHANGED mtx
  /\ UNCHANGED <<env, pc, client, wd, amtx, inflight, told, sess, wrk>>

IdleKills ==
  /\ idle = "kill"
  /\ Shutdown
  /\ idle' = "sleep" /\ mtx' = "free"
  /\ UNCHANGED <<env, pc, client, wd, amtx, inflight, told, crashes, cut>>

\* /v1/admin/unload: in one step, as mtx and then io_mutex_ are waited for.
AdminUnload ==
  /\ mtx = "free" /\ session.ready
  /\ Shutdown
  /\ UNCHANGED <<env, srv, client, wd, idle, crashes, cut>>

Handler(r) ==
  \/ Arrive(r) \/ Ensured(r) \/ EnsureFails(r) \/ Provide(r) \/ Lock(r)
  \/ Call(r) \/ NotReady(r) \/ Publish(r) \/ ReceiveAudio(r) \/ ReceiveReply(r)
  \/ ReceiveEof(r) \/ Finish(r)
Watchdog(r) == Notice(r) \/ SendCancel(r)
WorkerMain == WorkerTakes \/ Activate \/ SendAudio \/ Reply("ok") \/ Reply("error") \/ Rest
Reader == ReaderStep \/ ReaderSets
Idle == IdleLooks \/ IdleLocks \/ IdleKills

\* All were answered; any other state without a step is a deadlock.
Terminated == (\A r \in Requests : pc[r] = "done") /\ UNCHANGED vars

Next ==
  \/ \E r \in Requests : Handler(r) \/ Watchdog(r) \/ Disconnect(r)
  \/ WorkerMain \/ Reader \/ Crash \/ Idle \/ AdminUnload \/ Terminated

Spec == Init /\ [][Next]_vars

-----------------------------------------------------------------------------
(* Properties *)

\* A client that leaves costs at most one synthesis: a cancel that comes late
\* may cut the next one, but the flag it leaves behind never cuts a second.
OneCutEach == Cardinality(cut) <= Cardinality({r \in Requests : ~client[r]})

\* The parent takes whatever frame comes as the reply to its call; it is
\* always the reply to that call.
ReplyIsOwn == \A r \in Requests : told[r] # "another's"

\* Nobody kills the worker under a running call: not the idle thread, not the
\* admin route, not another request's wish for a GPU.
CallUndisturbed == slain = {}

\* A call is answered by its own reply, by a worker nobody killed meanwhile.
CallServed == ReplyIsOwn /\ CallUndisturbed
=============================================================================
