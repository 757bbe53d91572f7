-------------------------- MODULE AlignerSession --------------------------
(***************************************************************************)
(* Streaming forced alignment: fa::AlignerSession (the parent's handle),   *)
(* run_aligner_loop (the aligner process) and the three threads of a       *)
(* request that drive it: the handler (which is also the synth thread that *)
(* calls on_pcm), the partial reader, and the eager-spawn thread.          *)
(*                                                                         *)
(* aligner_session_mutex is held for a whole stream, so streams, eager     *)
(* loads and unloads exclude each other: one handler pc is enough, and     *)
(* io_mutex_ is only fought over by the handler and the partial reader.    *)
(*                                                                         *)
(* Audio is a sequence of chunks, numbered by stream and position. A frame *)
(* fits the socket buffer or is big; the write of a big frame returns only *)
(* when the peer has read it, because both ends use blocking writev.       *)
(***************************************************************************)
EXTENDS Naturals, Sequences

CONSTANTS
  Words,       \* words of the text being read
  BigRequests, \* may coalesced audio exceed the socket buffer?
  BigPartials, \* may the JSON of a partial reply exceed it too?
  MaxStreams,  \* bound: aligned streams
  MaxChunks,   \* bound: PCM chunks per stream
  MaxSpawn     \* bound: aligner processes

ASSUME AlignerAssumption ==
  /\ Words \in Nat /\ MaxStreams \in Nat /\ MaxChunks \in Nat
  /\ MaxSpawn \in Nat
  /\ BigRequests \in BOOLEAN /\ BigPartials \in BOOLEAN

VARIABLES
  \* -- the parent: AlignerSession's fields
  pid,        \* pid_ and fd_: 0, or the number of the spawn it is
  spawned,    \* spawns so far
  loadedOk,   \* loaded_ok_
  active,     \* stream_align_active_
  hasSent,    \* stream_align_has_sent_any_
  pending,    \* pending_pcm_
  inflight,   \* inflight_
  io,         \* io_mutex_: "free", "handler" or "reader"
  \* -- the thread that holds aligner_session_mutex
  pc,         \* where it is; "idle": the mutex is free
  eager,      \* it is the eager-spawn thread
  cancelled,  \* the request's cancel flag
  stop,       \* partial_reader_stop
  stream,     \* streams begun
  pushed,     \* the PCM of this stream so far
  \* -- the partial reader thread
  reader,     \* where it is
  heard,      \* the PARTIAL_RESP its callback delivers
  shown,      \* words the client has been given timings for
  \* -- the socketpair
  toChild, toParent,
  \* -- the aligner process
  child,      \* "none", "boot", "recv", "work", "write", "dead"
  task,       \* the request it works on
  acc,        \* acc_pcm
  maxEmitted, \* max_emitted
  cached      \* cached_*: <<>>, or the alignment of the last partial

session == <<pid, loadedOk, active, hasSent, pending, inflight>>
request == <<pc, eager, cancelled, stop, stream, pushed>>
readerVars == <<reader, heard, shown>>
childVars == <<child, task, acc, maxEmitted, cached>>
parentVars == <<session, spawned, io, request, readerVars>>
vars == <<parentVars, toChild, toParent, childVars>>

Chunks == (1..MaxStreams) \X (1..MaxChunks)

Frame(type, pcm, seen, flag, n, big) ==
  [type |-> type, pcm |-> pcm, seen |-> seen, flag |-> flag, n |-> n,
   big |-> big]
NoFrame == Frame("NONE", <<>>, 0, FALSE, 0, FALSE)

Alive == child \in {"boot", "recv", "work", "write"}
Eof   == toParent = <<>> /\ ~Alive

Init ==
  /\ pid = 0 /\ spawned = 0 /\ loadedOk = FALSE
  /\ active = FALSE /\ hasSent = FALSE /\ pending = <<>> /\ inflight = 0
  /\ io = "free"
  /\ pc = "idle" /\ eager = FALSE /\ cancelled = FALSE /\ stop = FALSE
  /\ stream = 0 /\ pushed = <<>>
  /\ reader = "off" /\ heard = NoFrame /\ shown = 0
  /\ toChild = <<>> /\ toParent = <<>>
  /\ child = "none" /\ task = NoFrame /\ acc = <<>> /\ maxEmitted = 0
  /\ cached = <<>>

-----------------------------------------------------------------------------
\* A new process image: empty accumulator, no cache.
ChildState(s) == /\ child' = s /\ task' = NoFrame /\ acc' = <<>>
                 /\ maxEmitted' = 0 /\ cached' = <<>>

\* What both kill_worker_locked and ResetOnExit forget of a stream.
ForgetStream == /\ active' = FALSE /\ hasSent' = FALSE
                /\ pending' = <<>> /\ inflight' = 0

\* kill_worker_locked
KillAligner == /\ pid' = 0 /\ loadedOk' = FALSE
               /\ ForgetStream
               /\ toChild' = <<>> /\ toParent' = <<>>
               /\ ChildState("none")

\* The handler goes to l; "idle" releases aligner_session_mutex.
Goto(l) == pc' = l /\ UNCHANGED <<eager, cancelled, stop, stream, pushed>>

AfterEnsure == IF eager THEN "idle" ELSE "begin"

-----------------------------------------------------------------------------
(* Taking aligner_session_mutex; ensure_loaded; shutdown.                  *)

TakeMutex ==
  /\ pc = "idle"
  /\ eager' \in BOOLEAN
  /\ pc' = "ensure"
  /\ cancelled' = FALSE
  /\ UNCHANGED <<session, spawned, io, stop, stream, pushed, readerVars,
                 toChild, toParent, childVars>>

\* admin unload and idle unload
Shutdown ==
  /\ pc = "idle" /\ pid # 0
  /\ KillAligner
  /\ UNCHANGED <<spawned, io, request, readerVars>>

EnsureFast ==
  /\ pc = "ensure" /\ pid # 0 /\ loadedOk
  /\ Goto(AfterEnsure)
  /\ UNCHANGED <<session, spawned, io, readerVars, toChild, toParent,
                 childVars>>

EnsureSpawn ==
  /\ pc = "ensure" /\ ~(pid # 0 /\ loadedOk) /\ spawned < MaxSpawn
  /\ spawned' = spawned + 1 /\ pid' = spawned + 1 /\ loadedOk' = FALSE
  /\ ForgetStream
  /\ toChild' = <<>> /\ toParent' = <<>> /\ ChildState("boot")
  /\ Goto("hello")
  /\ UNCHANGED <<io, readerVars>>

\* spawn_aligner, the HELLO, the LOAD_REQ or the load failed.
EnsureFails ==
  /\ \/ pc = "ensure" /\ ~(pid # 0 /\ loadedOk)
     \/ pc = "hello" /\ (Eof \/ (toParent # <<>> /\ ~Alive))
     \/ pc = "loading" /\ (Eof \/ (toParent # <<>> /\ ~Head(toParent).flag))
  /\ KillAligner
  /\ Goto("idle")
  /\ UNCHANGED <<spawned, io, readerVars>>

RecvHello ==
  /\ pc = "hello" /\ toParent # <<>> /\ Alive
  /\ toParent' = Tail(toParent)
  /\ toChild' = Append(toChild, Frame("LOAD_REQ", <<>>, 0, FALSE, 0, FALSE))
  /\ Goto("loading")
  /\ UNCHANGED <<session, spawned, io, readerVars, childVars>>

RecvLoadResp ==
  /\ pc = "loading" /\ toParent # <<>> /\ Head(toParent).flag
  /\ toParent' = Tail(toParent)
  /\ loadedOk' = TRUE
  /\ Goto(AfterEnsure)
  /\ UNCHANGED <<pid, active, hasSent, pending, inflight, spawned, io,
                 readerVars, toChild, childVars>>

-----------------------------------------------------------------------------
(* begin_streaming_align, and the partial reader's start.                  *)

Begin ==
  /\ pc = "begin" /\ ~active /\ stream < MaxStreams
  /\ active' = TRUE /\ hasSent' = FALSE /\ pending' = <<>> /\ inflight' = 0
  /\ pc' = "synth" /\ stop' = FALSE
  /\ stream' = stream + 1 /\ pushed' = <<>>
  /\ reader' = "poll" /\ shown' = 0
  /\ UNCHANGED <<pid, loadedOk, spawned, io, eager, cancelled, heard,
                 toChild, toParent, childVars>>

\* The previous stream was not finalized, or the text has no words: the
\* request is synthesised without timings.
BeginFails ==
  /\ pc = "begin"
  /\ Goto("idle")
  /\ UNCHANGED <<session, spawned, io, readerVars, toChild, toParent,
                 childVars>>

-----------------------------------------------------------------------------
(* flush_pending_locked, by a thread that holds io_mutex_.                 *)

\* Nothing to send, slot busy, or throttled: coalesce further.
Coalesces(pcm) == pcm = <<>> \/ inflight >= 1 \/ hasSent

\* Mutant of MaySend: kMaxInflight is not checked.
MaySendUnbounded(pcm) == pcm # <<>> /\ Alive
MaySend(pcm) == pcm # <<>> /\ inflight < 1 /\ Alive

\* send_frame hands the frame to the socket; it returns in WriteReturns.
SendPartial(pcm) ==
  \E big \in {FALSE, BigRequests} :
    toChild' = Append(toChild,
                 Frame("PARTIAL_REQ", pcm, Len(pushed'), ~hasSent, 0, big))

\* A small frame is in the buffer; a big one is once the child has read it.
Written == ~\E i \in DOMAIN toChild : toChild[i].big

PartialSent == /\ hasSent' = TRUE /\ pending' = <<>>
               /\ inflight' = inflight + 1
               /\ UNCHANGED <<pid, loadedOk, active>>

-----------------------------------------------------------------------------
(* on_pcm: push_partial_pcm, unless the request was cancelled.             *)

Push ==
  /\ pc = "synth" /\ io = "free" /\ ~cancelled
  /\ Len(pushed) < MaxChunks
  /\ pushed' = Append(pushed, <<stream, Len(pushed) + 1>>)
  /\ LET pcm == Append(pending, <<stream, Len(pushed) + 1>>)
     IN  /\ pending' = pcm
         /\ \/ /\ Coalesces(pcm) \/ ~Alive
               /\ UNCHANGED <<pc, io, toChild>>
            \/ /\ MaySend(pcm)
               /\ SendPartial(pcm)
               /\ pc' = "write" /\ io' = "handler"
  /\ UNCHANGED <<pid, loadedOk, active, hasSent, inflight, spawned, eager,
                 cancelled, stop, stream, readerVars, toParent, childVars>>

PushReturns ==
  /\ pc = "write" /\ io' = "free"
  /\ \/ Written /\ PartialSent
     \/ ~Alive /\ UNCHANGED session
  /\ Goto("synth")
  /\ UNCHANGED <<spawned, readerVars, toChild, toParent, childVars>>

\* dispatch_cancel: a dead sink, seen by on_pcm or by the watchdog.
Cancel ==
  /\ pc \in {"synth", "write"} /\ ~cancelled
  /\ cancelled' = TRUE
  /\ UNCHANGED <<session, spawned, io, pc, eager, stop, stream, pushed,
                 readerVars, toChild, toParent, childVars>>

\* The synthesis is over: stop the partial reader and join it.
SynthEnds ==
  /\ pc = "synth"
  /\ pc' = "join" /\ stop' = TRUE
  /\ UNCHANGED <<session, spawned, io, eager, cancelled, stream, pushed,
                 readerVars, toChild, toParent, childVars>>

\* A cancelled request skips the FINAL_REQ round-trip.
Joined ==
  /\ pc = "join" /\ reader = "off"
  /\ IF cancelled THEN Goto("idle") /\ UNCHANGED io
                  ELSE Goto("final") /\ io' = "handler"
  /\ UNCHANGED <<session, spawned, readerVars, toChild, toParent, childVars>>

-----------------------------------------------------------------------------
(* The partial reader: drain_partial_alignments every 20 ms.               *)

ReaderStep(l) == /\ reader' = l
                 /\ UNCHANGED <<spawned, request, shown, childVars>>

ReaderEnters ==
  /\ reader = "poll" /\ ~stop /\ io = "free"
  /\ io' = "reader"
  /\ ReaderStep("drain")
  /\ UNCHANGED <<session, heard, toChild, toParent>>

ReaderStops ==
  /\ reader = "poll" /\ stop
  /\ ReaderStep("off")
  /\ UNCHANGED <<session, io, heard, toChild, toParent>>

\* A reply frees the slot; the callback runs without io_mutex_. (A frame of
\* another type would be skipped; none can be here.)
ReaderRecv ==
  /\ reader = "drain" /\ toParent # <<>>
  /\ Head(toParent).type = "PARTIAL_RESP"
  /\ toParent' = Tail(toParent)
  /\ inflight' = IF inflight > 0 THEN inflight - 1 ELSE 0
  /\ IF Head(toParent).flag
     THEN heard' = Head(toParent) /\ io' = "free" /\ ReaderStep("callback")
     ELSE UNCHANGED <<heard, io>> /\ ReaderStep("drain")
  /\ UNCHANGED <<pid, loadedOk, active, hasSent, pending, toChild>>

\* The client merges by word index: timings for the first n words.
ReaderDelivers ==
  /\ reader = "callback" /\ io = "free"
  /\ shown' = heard.n /\ heard' = NoFrame
  /\ reader' = "drain" /\ io' = "reader"
  /\ UNCHANGED <<session, spawned, request, toChild, toParent, childVars>>

\* Nothing (more) to read: send what was coalesced, if a slot is free.
ReaderFlushes ==
  /\ reader = "drain" /\ toParent = <<>>
  /\ \/ /\ Coalesces(pending) \/ ~Alive
        /\ io' = "free"
        /\ ReaderStep("poll")
        /\ UNCHANGED toChild
     \/ /\ MaySend(pending)
        /\ ReaderStep("write")
        /\ SendPartial(pending)
        /\ UNCHANGED io
  /\ UNCHANGED <<session, heard, toParent>>

ReaderWriteReturns ==
  /\ reader = "write" /\ io' = "free"
  /\ \/ Written /\ PartialSent
     \/ ~Alive /\ UNCHANGED session
  /\ ReaderStep("poll")
  /\ UNCHANGED <<heard, toChild, toParent>>

-----------------------------------------------------------------------------
(* finalize_streaming_align.                                               *)

FinalDrains ==
  /\ pc = "final" /\ toParent # <<>>
  /\ toParent' = Tail(toParent)
  /\ UNCHANGED <<session, spawned, io, request, readerVars, toChild,
                 childVars>>

\* Mutant of FinalSends: what was coalesced and never sent is forgotten.
FinalSendsNothing ==
  /\ pc = "final" /\ toParent = <<>> /\ Alive
  /\ pending' = <<>>
  /\ toChild' = Append(toChild, Frame("FINAL_REQ", <<>>, Len(pushed),
                                      ~hasSent, 0, FALSE))
  /\ Goto("finalwrite")
  /\ UNCHANGED <<pid, loadedOk, active, hasSent, inflight, spawned, io,
                 readerVars, toParent, childVars>>

\* Audio that was coalesced and never sent goes out with the FINAL_REQ.
FinalSends ==
  /\ pc = "final" /\ toParent = <<>> /\ Alive
  /\ pending' = <<>>
  /\ \E big \in {FALSE, BigRequests /\ pending # <<>>} :
       toChild' = Append(toChild, Frame("FINAL_REQ", pending, Len(pushed),
                                        ~hasSent, 0, big))
  /\ Goto("finalwrite")
  /\ UNCHANGED <<pid, loadedOk, active, hasSent, inflight, spawned, io,
                 readerVars, toParent, childVars>>

FinalWriteReturns ==
  /\ pc = "finalwrite" /\ Written
  /\ Goto("finalwait")
  /\ UNCHANGED <<session, spawned, io, readerVars, toChild, toParent,
                 childVars>>

\* A straggler is dropped.
FinalSkips ==
  /\ pc = "finalwait" /\ toParent # <<>>
  /\ Head(toParent).type = "PARTIAL_RESP"
  /\ toParent' = Tail(toParent)
  /\ UNCHANGED <<session, spawned, io, request, readerVars, toChild,
                 childVars>>

\* ResetOnExit; the event goes to the client; the mutex is released.
FinalExit == /\ ForgetStream
             /\ io' = "free"
             /\ Goto("idle")
             /\ UNCHANGED <<pid, loadedOk, spawned, readerVars, childVars>>

FinalRecv ==
  /\ pc = "finalwait" /\ toParent # <<>>
  /\ Head(toParent).type = "FINAL_RESP"
  /\ toParent' = Tail(toParent)
  /\ FinalExit /\ UNCHANGED toChild

InFlight(type) == {i \in DOMAIN toParent : toParent[i].type = type}

\* The aligner died before it had read the FINAL_REQ.
FinalWriteFails ==
  pc = "finalwrite" /\ ~Alive /\ InFlight("FINAL_RESP") = {}

FinalFails ==
  /\ (pc \in {"final", "finalwait"} /\ Eof) \/ FinalWriteFails
  /\ FinalExit /\ UNCHANGED <<toChild, toParent>>

-----------------------------------------------------------------------------
(* run_aligner_loop.                                                       *)

ChildHello ==
  /\ child = "boot"
  /\ toParent' = Append(toParent, Frame("HELLO", <<>>, 0, TRUE, 0, FALSE))
  /\ child' = "recv"
  /\ UNCHANGED <<parentVars, toChild, task, acc, maxEmitted, cached>>

ChildRecv ==
  /\ child = "recv" /\ toChild # <<>>
  /\ task' = Head(toChild) /\ toChild' = Tail(toChild)
  /\ child' = "work"
  /\ UNCHANGED <<parentVars, toParent, acc, maxEmitted, cached>>

\* send_frame of a reply: a big one blocks until the parent reads it. The
\* FINAL_RESP, with all words, may always be big.
Reply(type, pcm, ok, n) ==
  /\ task' = NoFrame
  /\ \E big \in {FALSE, BigPartials \/ type = "FINAL_RESP"} :
       /\ toParent' = Append(toParent, Frame(type, pcm, task.seen, ok, n, big))
       /\ child' = IF big THEN "write" ELSE "recv"

ChildLoads ==
  /\ child = "work" /\ task.type = "LOAD_REQ"
  /\ task' = NoFrame /\ child' = "recv"
  /\ \E ok \in BOOLEAN :
       toParent' = Append(toParent, Frame("LOAD_RESP", <<>>, 0, ok, 0, FALSE))
  /\ UNCHANGED <<parentVars, toChild, acc, maxEmitted, cached>>

\* Mutant of Accumulated: the reset flag is ignored.
AccumulatedForever == acc \o task.pcm
Accumulated == (IF task.flag THEN <<>> ELSE acc) \o task.pcm

\* Mutant of Emits: a later pass may retract words (no gate 3).
EmitsLess(n) == n
Emits(n) == IF task.flag \/ n > maxEmitted THEN n ELSE maxEmitted

\* A pass over the whole accumulator resolves some prefix of the words.
ChildAlignsPartial ==
  /\ child = "work" /\ task.type = "PARTIAL_REQ"
  /\ acc' = Accumulated
  /\ \/ \E n \in 0..Words :
          /\ Reply("PARTIAL_RESP", Accumulated, TRUE, Emits(n))
          /\ maxEmitted' = Emits(n)
          /\ cached' = <<Accumulated, task.seen>>
     \/ /\ Reply("PARTIAL_RESP", <<>>, FALSE, 0)
        /\ maxEmitted' = IF task.flag THEN 0 ELSE maxEmitted
        /\ cached' = IF task.flag THEN <<>> ELSE cached
  /\ UNCHANGED <<parentVars, toChild>>

\* Nothing new since the last partial: its alignment is the answer.
Reusable == /\ ~task.flag /\ task.pcm = <<>> /\ cached # <<>>
            /\ cached[2] = task.seen /\ Len(cached[1]) = Len(acc)

ChildAlignsFinal ==
  /\ child = "work" /\ task.type = "FINAL_REQ"
  /\ acc' = Accumulated
  /\ \/ Reusable /\ Reply("FINAL_RESP", cached[1], TRUE, Words)
     \/ ~Reusable /\ \E ok \in BOOLEAN :
          Reply("FINAL_RESP", IF ok THEN Accumulated ELSE <<>>, ok, Words)
  /\ cached' = IF task.flag THEN <<>> ELSE cached
  /\ maxEmitted' = IF task.flag THEN 0 ELSE maxEmitted
  /\ UNCHANGED <<parentVars, toChild>>

ChildWritten ==
  /\ child = "write" /\ toParent = <<>>
  /\ child' = "recv"
  /\ UNCHANGED <<parentVars, toChild, toParent, task, acc, maxEmitted, cached>>

\* A reply that was being written is cut short.
ChildCrashes ==
  /\ Alive
  /\ ChildState("dead")
  /\ toChild' = <<>>
  /\ toParent' = IF child = "write" /\ toParent # <<>>
                 THEN SubSeq(toParent, 1, Len(toParent) - 1) ELSE toParent
  /\ UNCHANGED parentVars

-----------------------------------------------------------------------------
Environment == TakeMutex \/ Shutdown \/ Push \/ Cancel \/ ChildCrashes

Handler ==
  \/ EnsureFast \/ EnsureSpawn \/ EnsureFails \/ RecvHello \/ RecvLoadResp
  \/ Begin \/ BeginFails
  \/ PushReturns \/ SynthEnds \/ Joined
  \/ FinalDrains \/ FinalSends \/ FinalWriteReturns \/ FinalSkips
  \/ FinalRecv \/ FinalFails

PartialReader ==
  \/ ReaderEnters \/ ReaderStops \/ ReaderRecv \/ ReaderDelivers
  \/ ReaderFlushes \/ ReaderWriteReturns

Aligner ==
  \/ ChildHello \/ ChildRecv \/ ChildLoads \/ ChildAlignsPartial
  \/ ChildAlignsFinal \/ ChildWritten

Next == Environment \/ Handler \/ PartialReader \/ Aligner

Spec == Init /\ [][Next]_vars

(***************************************************************************)
(* The operating system runs the handler, the partial reader and the       *)
(* aligner process; a synthesis ends (SynthEnds is the handler's). Nothing *)
(* is assumed of clients, new requests, or crashes.                        *)
(***************************************************************************)
Fairness == WF_vars(Handler) /\ WF_vars(PartialReader) /\ WF_vars(Aligner)

FairSpec == Spec /\ Fairness

-----------------------------------------------------------------------------
FrameTypes == {"NONE", "HELLO", "LOAD_REQ", "LOAD_RESP", "PARTIAL_REQ",
               "PARTIAL_RESP", "FINAL_REQ", "FINAL_RESP"}
Frames == [type : FrameTypes, pcm : Seq(Chunks), seen : 0..MaxChunks,
           flag : BOOLEAN, n : 0..Words, big : BOOLEAN]

\* Every variable has the type of the C++ field it stands for; inflight_
\* never exceeds kMaxInflight.
TypeOK ==
  /\ pid \in 0..MaxSpawn /\ spawned \in 0..MaxSpawn
  /\ loadedOk \in BOOLEAN /\ active \in BOOLEAN /\ hasSent \in BOOLEAN
  /\ pending \in Seq(Chunks) /\ inflight \in 0..1
  /\ io \in {"free", "handler", "reader"}
  /\ pc \in {"idle", "ensure", "hello", "loading", "begin", "synth", "write",
             "join", "final", "finalwrite", "finalwait"}
  /\ eager \in BOOLEAN /\ cancelled \in BOOLEAN /\ stop \in BOOLEAN
  /\ stream \in 0..MaxStreams /\ pushed \in Seq(Chunks)
  /\ reader \in {"off", "poll", "drain", "write", "callback"}
  /\ heard \in Frames /\ shown \in 0..Words
  /\ toChild \in Seq(Frames) /\ toParent \in Seq(Frames)
  /\ child \in {"none", "boot", "recv", "work", "write", "dead"}
  /\ task \in Frames /\ acc \in Seq(Chunks) /\ maxEmitted \in 0..Words
  /\ cached = <<>> \/ cached \in Seq(Chunks) \X (0..MaxChunks)

(***************************************************************************)
(* The final timings come from exactly the audio of this stream: every     *)
(* chunk that was pushed, in order, the coalesced ones that were never     *)
(* sent included, and nothing of an earlier stream (the reset flag, the    *)
(* FINAL cache and ResetOnExit together).                                  *)
(***************************************************************************)
FinalCoversStream ==
  \A i \in InFlight("FINAL_RESP") :
    toParent[i].flag => toParent[i].pcm = pushed

(***************************************************************************)
(* A partial that can reach a client of a living aligner was computed from *)
(* the beginning of that client's own audio.                               *)
(***************************************************************************)
PartialsAreOwn ==
  Alive => \A i \in InFlight("PARTIAL_RESP") :
    toParent[i].flag =>
      /\ Len(toParent[i].pcm) \in 1..Len(pushed)
      /\ toParent[i].pcm = SubSeq(pushed, 1, Len(toParent[i].pcm))

(***************************************************************************)
(* Clients never un-highlight: within a stream the prefix of timed words   *)
(* only grows, although the aligner re-estimates it on every pass.         *)
(***************************************************************************)
NoRetraction == [][stream' = stream => shown' >= shown]_vars

(***************************************************************************)
(* aligner_session_mutex is released by every request that takes it, and   *)
(* no push, partial or FINAL blocks forever. One jam is left, which only   *)
(* the aligner's death ends: finalize drains what poll reports and writes  *)
(* a FINAL_REQ larger than the socket buffer, while the aligner, done with *)
(* the last partial, writes timings that exceed it as well.                *)
(***************************************************************************)
Jammed ==
  /\ pc = "finalwrite" /\ ~Written
  /\ child = "write" /\ InFlight("PARTIAL_RESP") # {}

RequestsEnd == pc # "idle" ~> (pc = "idle" \/ Jammed)

=============================================================================
