------------------------ MODULE WorkerSession_proofs ------------------------
(***************************************************************************)
(* Theorems about WorkerSession, for every number of callers,              *)
(* configurations, requests, spawns and chunks.                            *)
(*                                                                         *)
(* RepliesBelongToCall and IdleWorkerIsQuiet are not inductive. Both rest  *)
(* on there being at most one piece of unfinished work anywhere between    *)
(* the parent and the worker (a request in the socket, in the work queue   *)
(* or with the main thread, or the frame that ends it on the way back):    *)
(* who leaves a session call either took that last frame or killed the     *)
(* worker.                                                                 *)
(***************************************************************************)
EXTENDS WorkerSession, SequenceTheorems, TLAPS

-----------------------------------------------------------------------------
(* The inductive invariant.                                                *)

InSession == {"hello", "loading", "sent", "synth", "call"}
Busy == mainPc \in {"load", "call", "prepare", "publish", "synth"}
Terminal == {"LOAD_RESP", "SYNTH_RESP", "SYNTH_DONE", "SYNTH_ERR", "CALL_RESP"}

IsWork(f) == f.type # "CANCEL_REQ"
NoWork(s) == \A i \in 1..Len(s) : ~IsWork(s[i])
OneWork(s) == \A i, j \in 1..Len(s) : IsWork(s[i]) /\ IsWork(s[j]) => i = j
WorkOf(s, id) == \A i \in 1..Len(s) : IsWork(s[i]) => s[i].id = id

Ends(f) == f.type \in Terminal
NoEnd(s) == \A i \in 1..Len(s) : ~Ends(s[i])
EndIsLast(s) == \A i \in 1..Len(s) : Ends(s[i]) => i = Len(s)
AllOf(s, id) == \A i \in 1..Len(s) : s[i].id = id

\* io_mutex_ is held exactly by the caller that is inside a session call.
HolderInSession ==
  \A c \in Callers : ioMutex = c <=> pc[c] \in InSession

\* A worker process that exists is the one pid_ names.
WorkerHasPid == child # "none" => pid # 0

\* The worker a synthesis or a call is sent to has been loaded.
CallsAreLoaded == \A c \in Callers : Waiting(c) => loadedOk

\* Nobody inside the session: nothing left over for the next call.
Idle ==
  (ioMutex = NoCaller /\ Alive) =>
    /\ loadedOk /\ child = "run" /\ mainPc \in {"wait", "unpublish"}
    /\ NoWork(toWorker) /\ workQueue = <<>> /\ toParent = <<>>

\* A worker that has not said HELLO has not been sent anything.
InHello == \E c \in Callers : pc[c] = "hello"
Booting ==
  (InHello /\ Alive) =>
    /\ child = "run" /\ NoWork(toWorker) /\ workQueue = <<>>
    /\ \/ mainPc = "boot" /\ toParent = <<>>
       \/ /\ mainPc = "wait" /\ NoEnd(toParent)
          /\ toParent # <<>> /\ Tail(toParent) = <<>>

\* At most one piece of unfinished work in a booted worker, and the frame
\* that ends it is the last one sent.
OneJob ==
  (~InHello /\ Alive) =>
    /\ child = "run" => mainPc \notin {"none", "boot"}
    /\ child = "exit" => mainPc = "none"
    /\ OneWork(toWorker)
    /\ workQueue # <<>> => Tail(workQueue) = <<>> /\ NoWork(toWorker)
    /\ (~NoWork(toWorker) \/ workQueue # <<>>) =>
         child = "run" /\ ~Busy /\ toParent = <<>>
    /\ (Busy \/ child = "exit") => NoEnd(toParent)
    /\ EndIsLast(toParent)

\* The unfinished work is that of the caller who waits for it.
JobIsCallers ==
  \A c \in Callers : Waiting(c) =>
    /\ WorkOf(toWorker, req[c]) /\ AllOf(workQueue, req[c])
    /\ Busy => mainReq.id = req[c]
    /\ AllOf(toParent, req[c])

ControlInv == HolderInSession /\ WorkerHasPid /\ CallsAreLoaded
JobInv == Idle /\ Booting /\ OneJob /\ JobIsCallers
IInv == TypeOK /\ ControlInv /\ JobInv

-----------------------------------------------------------------------------
(* Frames and channels.                                                    *)

\* A frame built by either side, with an id in range, is a frame.
LEMMA FrameType ==
  ASSUME NEW type \in FrameTypes, NEW id \in 0..MaxReq, NEW arg \in Payloads
  PROVE  Frame(type, id, arg) \in Frames
BY DEF Frame, Frames

\* Taking the first frame of a channel leaves the others in order.
LEMMA TailFrames ==
  ASSUME NEW s \in Seq(Frames), s # <<>>
  PROVE  /\ Head(s) \in Frames /\ Head(s) = s[1]
         /\ Tail(s) \in Seq(Frames)
         /\ Len(s) \in Nat \ {0} /\ Len(Tail(s)) = Len(s) - 1
         /\ \A i \in 1..Len(Tail(s)) : i + 1 \in 1..Len(s) /\ Tail(s)[i] = s[i + 1]
         /\ Len(s) = 1 => Tail(s) = <<>>
<1>1. Len(s) \in Nat \ {0}
  BY EmptySeq, LenProperties
<1>2. Head(s) \in Frames /\ Head(s) = s[1]
  BY <1>1, HeadTailProperties, LenProperties, ElementOfSeq
<1>3. Tail(s) \in Seq(Frames) /\ Len(Tail(s)) = Len(s) - 1
  BY HeadTailProperties
<1>4. \A i \in 1..Len(Tail(s)) : i + 1 \in 1..Len(s) /\ Tail(s)[i] = s[i + 1]
  BY <1>1, <1>3
<1>5. ASSUME Len(s) = 1 PROVE Tail(s) = <<>>
  <2>1. Len(Tail(s)) = 0
    BY <1>3, <1>5
  <2> QED
    BY <1>3, <2>1, EmptySeq
<1> QED
  BY <1>1, <1>2, <1>3, <1>4, <1>5

\* Sending puts the frame behind what is in the channel.
LEMMA AppendFrames ==
  ASSUME NEW s \in Seq(Frames), NEW f \in Frames
  PROVE  /\ Append(s, f) \in Seq(Frames)
         /\ Len(s) \in Nat /\ Len(Append(s, f)) = Len(s) + 1
         /\ Append(s, f)[Len(s) + 1] = f
         /\ \A i \in 1..Len(s) : Append(s, f)[i] = s[i]
BY AppendProperties, LenProperties

-----------------------------------------------------------------------------
(* Type correctness.                                                       *)

USE SessionAssumption

LEMMA NoFrameType == NoFrame \in Frames
BY FrameType DEF NoFrame, FrameTypes, Payloads

LEMMA FrameFields ==
  ASSUME NEW f \in Frames
  PROVE  f.type \in FrameTypes /\ f.id \in 0..MaxReq /\ f.arg \in Payloads
BY DEF Frames

WorkerType ==
  /\ child \in {"none", "run", "exit", "dead"}
  /\ mainPc \in MainLabels /\ mainReq \in Frames
  /\ workQueue \in Seq(Frames)
  /\ readerMatch \in 0..MaxReq /\ activeSynthReqId \in 0..MaxReq
  /\ cancelRequested \in 0..MaxReq
  /\ chunks \in 0..MaxChunks

SessionType ==
  /\ pid \in 0..MaxSpawn /\ loadedOk \in BOOLEAN
  /\ loadedCfg \in Cfgs \cup {NoCfg}
  /\ toWorker \in Seq(Frames) /\ toParent \in Seq(Frames)

CallerType ==
  /\ pc \in [Callers -> PcLabels]
  /\ mode \in [Callers -> {"stream", "whole"}]
  /\ req \in [Callers -> 0..MaxReq]
  /\ cancelled \in [Callers -> BOOLEAN]
  /\ watch \in [Callers -> 0..MaxReq]

CounterType ==
  /\ synthMutex \in Callers0 /\ ioMutex \in Callers0
  /\ spawned \in 0..MaxSpawn /\ wantCfg \in Cfgs \cup {NoCfg}
  /\ nextReqId \in 1..(MaxReq + 1)
  /\ currentSynthReqId \in 0..MaxReq

LEMMA TypeParts ==
  TypeOK <=> SessionType /\ WorkerType /\ CallerType /\ CounterType
BY DEF TypeOK, SessionType, WorkerType, CallerType, CounterType

LEMMA TypePartsPrime ==
  TypeOK' <=> SessionType' /\ WorkerType' /\ CallerType' /\ CounterType'
BY DEF TypeOK, SessionType, WorkerType, CallerType, CounterType

\* A worker that starts, dies or is killed has the state of a fresh one.
LEMMA WorkerStateType ==
  ASSUME NEW s \in {"none", "run", "exit", "dead"}, NEW m \in MainLabels,
         WorkerState(s, m)
  PROVE  WorkerType'
BY NoFrameType, EmptySeq DEF WorkerState, WorkerType

LEMMA KillType ==
  ASSUME KillWorker
  PROVE  WorkerType' /\ SessionType'
<1>1. WorkerState("none", "none") /\ "none" \in MainLabels
  BY DEF KillWorker, MainLabels
<1>2. WorkerType'
  BY <1>1, WorkerStateType
<1>3. loadedOk' \in BOOLEAN
  BY DEF KillWorker
<1>4. pid' \in 0..MaxSpawn /\ loadedCfg' \in Cfgs \cup {NoCfg}
  BY DEF KillWorker
<1>5. toWorker' \in Seq(Frames) /\ toParent' \in Seq(Frames)
  BY EmptySeq DEF KillWorker
<1> QED
  BY <1>2, <1>3, <1>4, <1>5 DEF SessionType

\* The main thread answers the request it serves.
LEMMA SendType ==
  ASSUME TypeOK, NEW type \in FrameTypes, NEW arg \in Payloads, Send(type, arg)
  PROVE  toParent' \in Seq(Frames)
<1>1. Frame(type, mainReq.id, arg) \in Frames
  BY FrameFields, FrameType DEF TypeOK
<1> QED
  BY <1>1, AppendFrames DEF Send, TypeOK

LEMMA InitType == Init => TypeOK
<1> SUFFICES ASSUME Init PROVE TypeOK
  OBVIOUS
<1>1. loadedOk \in BOOLEAN /\ cancelled \in [Callers -> BOOLEAN]
  BY DEF Init
<1>2. /\ toWorker \in Seq(Frames) /\ toParent \in Seq(Frames)
      /\ workQueue \in Seq(Frames) /\ mainReq \in Frames
  BY EmptySeq, NoFrameType DEF Init
<1>3. /\ synthMutex \in Callers0 /\ ioMutex \in Callers0
      /\ loadedCfg \in Cfgs \cup {NoCfg} /\ wantCfg \in Cfgs \cup {NoCfg}
      /\ child \in {"none", "run", "exit", "dead"} /\ mainPc \in MainLabels
  BY DEF Init, Callers0, MainLabels
<1>4. /\ spawned \in 0..MaxSpawn /\ pid \in 0..MaxSpawn
      /\ nextReqId \in 1..(MaxReq + 1) /\ currentSynthReqId \in 0..MaxReq
      /\ readerMatch \in 0..MaxReq /\ activeSynthReqId \in 0..MaxReq
      /\ cancelRequested \in 0..MaxReq /\ chunks \in 0..MaxChunks
  BY DEF Init
<1>5. /\ pc \in [Callers -> PcLabels]
      /\ mode \in [Callers -> {"stream", "whole"}]
      /\ req \in [Callers -> 0..MaxReq] /\ watch \in [Callers -> 0..MaxReq]
  BY DEF Init, PcLabels
<1> QED
  BY <1>1, <1>2, <1>3, <1>4, <1>5 DEF TypeOK

\* One step per action: what it assigns stays in range.
LEMMA NextType == TypeOK /\ [Next]_vars => TypeOK'
<1> SUFFICES ASSUME TypeOK, [Next]_vars PROVE TypeOK'
  OBVIOUS
<1> USE TailFrames, EmptySeq
    DEF TypeOK, Callers0, PcLabels, MainLabels, FrameTypes, Payloads, vars,
        sessionVars, workerVars, callerVars, parentVars
<1>1. ASSUME NEW c \in Callers, BeginSynth(c) PROVE TypeOK'
  BY <1>1 DEF BeginSynth, Goto
<1>2. ASSUME NEW c \in Callers, BeginRegister(c) PROVE TypeOK'
  BY <1>2 DEF BeginRegister, Goto
<1>3. ASSUME NEW c \in Callers, EndRequest(c) PROVE TypeOK'
  BY <1>3 DEF EndRequest, Goto
<1>4. ASSUME NEW c \in Callers, Shutdown(c) PROVE TypeOK'
  <2>1. KillWorker
    BY <1>4 DEF Shutdown
  <2>2. CallerType'
    BY <1>4 DEF CallerType, Shutdown, Goto
  <2>3. CounterType'
    BY <1>4 DEF CounterType, Shutdown, Goto
  <2> QED
    BY <2>1, <2>2, <2>3, KillType, TypePartsPrime
<1>5. ASSUME NEW c \in Callers, EnsureFast(c) PROVE TypeOK'
  BY <1>5 DEF EnsureFast, AfterEnsure, Goto
<1>6. ASSUME NEW c \in Callers, EnsureSpawn(c) PROVE TypeOK'
  <2>1. WorkerType'
    BY <1>6, WorkerStateType DEF EnsureSpawn
  <2>2. SessionType'
    <3>1. loadedOk' \in BOOLEAN
      BY <1>6 DEF EnsureSpawn
    <3>2. pid' \in 0..MaxSpawn
      BY <1>6 DEF EnsureSpawn
    <3> QED
      BY <1>6, <3>1, <3>2 DEF SessionType, EnsureSpawn
  <2>3. CallerType'
    BY <1>6 DEF CallerType, EnsureSpawn, Goto
  <2>4. CounterType'
    BY <1>6 DEF CounterType, EnsureSpawn, Goto
  <2> QED
    BY <2>1, <2>2, <2>3, <2>4, TypePartsPrime
<1>7. ASSUME NEW c \in Callers, EnsureSpawnFails(c) PROVE TypeOK'
  <2>1. KillWorker
    BY <1>7 DEF EnsureSpawnFails
  <2>2. CallerType'
    BY <1>7 DEF CallerType, EnsureSpawnFails, AfterEnsure, Goto
  <2>3. CounterType'
    BY <1>7 DEF CounterType, EnsureSpawnFails, AfterEnsure, Goto
  <2> QED
    BY <2>1, <2>2, <2>3, KillType, TypePartsPrime
<1>8. ASSUME NEW c \in Callers, RecvHello(c) PROVE TypeOK'
  <2>1. Frame("LOAD_REQ", 0, "none") \in Frames
    BY FrameType
  <2>2. SessionType' /\ WorkerType'
    BY <1>8, <2>1, AppendFrames DEF SessionType, WorkerType, RecvHello
  <2>3. CallerType' /\ CounterType'
    BY <1>8 DEF CallerType, CounterType, RecvHello, Goto
  <2> QED
    BY <2>2, <2>3, TypePartsPrime
<1>9. ASSUME NEW c \in Callers, RecvHelloFails(c) PROVE TypeOK'
  <2>1. KillWorker
    BY <1>9 DEF RecvHelloFails, EnsureFailed
  <2>2. CallerType'
    BY <1>9 DEF CallerType, RecvHelloFails, EnsureFailed, Return, AfterEnsure, Goto
  <2>3. CounterType'
    BY <1>9 DEF CounterType, RecvHelloFails, EnsureFailed, Return, AfterEnsure, Goto
  <2> QED
    BY <2>1, <2>2, <2>3, KillType, TypePartsPrime
<1>10. ASSUME NEW c \in Callers, RecvLoadResp(c) PROVE TypeOK'
  BY <1>10 DEF RecvLoadResp, Return, AfterEnsure, Goto
<1>11. ASSUME NEW c \in Callers, RecvLoadRespFails(c) PROVE TypeOK'
  <2>1. KillWorker
    BY <1>11 DEF RecvLoadRespFails, EnsureFailed
  <2>2. CallerType'
    BY <1>11 DEF CallerType, RecvLoadRespFails, EnsureFailed, Return, AfterEnsure, Goto
  <2>3. CounterType'
    BY <1>11 DEF CounterType, RecvLoadRespFails, EnsureFailed, Return, AfterEnsure, Goto
  <2> QED
    BY <2>1, <2>2, <2>3, KillType, TypePartsPrime
<1>12. ASSUME NEW c \in Callers, SendSynth(c) PROVE TypeOK'
  <2>1. nextReqId \in 0..MaxReq
    BY <1>12 DEF SendSynth, TakesReqId
  <2>2. CallerType'
    BY <1>12, <2>1 DEF CallerType, SendSynth, Goto
  <2>3. CounterType'
    BY <1>12 DEF CounterType, SendSynth, TakesReqId
  <2>4. mode[c] \in Payloads /\ "SYNTH_REQ" \in FrameTypes
    BY <1>12 DEF SendSynth
  <2>5. Frame("SYNTH_REQ", nextReqId, mode[c]) \in Frames
    BY <2>1, <2>4, FrameType
  <2>6. SessionType' /\ WorkerType'
    BY <1>12, <2>5, AppendFrames DEF SessionType, WorkerType, SendSynth
  <2> QED
    BY <2>2, <2>3, <2>6, TypePartsPrime
<1>38. ASSUME NEW c \in Callers, SendSynthFails(c) PROVE TypeOK'
  <2>1. KillWorker
    BY <1>38 DEF SendSynthFails
  <2>2. CallerType'
    BY <1>38 DEF CallerType, SendSynthFails, Goto
  <2>3. CounterType'
    BY <1>38 DEF CounterType, SendSynthFails, TakesReqId, Goto
  <2> QED
    BY <2>1, <2>2, <2>3, KillType, TypePartsPrime
<1>13. ASSUME NEW c \in Callers, SynthNotReady(c) PROVE TypeOK'
  BY <1>13 DEF SynthNotReady, Goto
<1>14. ASSUME NEW c \in Callers, PublishSynth(c) PROVE TypeOK'
  BY <1>14 DEF PublishSynth, Goto
<1>15. ASSUME NEW c \in Callers, RecvAudio(c) PROVE TypeOK'
  BY <1>15 DEF RecvAudio
<1>16. ASSUME NEW c \in Callers, RecvSynthEnd(c) PROVE TypeOK'
  BY <1>16 DEF RecvSynthEnd, SynthReturns, Return, Goto
<1>17. ASSUME NEW c \in Callers, RecvSynthFails(c) PROVE TypeOK'
  <2>1. KillWorker
    BY <1>17 DEF RecvSynthFails
  <2>2. CallerType'
    BY <1>17 DEF CallerType, RecvSynthFails, SynthReturns, Return, Goto
  <2>3. CounterType'
    BY <1>17 DEF CounterType, RecvSynthFails, SynthReturns, Return, Goto
  <2> QED
    BY <2>1, <2>2, <2>3, KillType, TypePartsPrime
<1>18. ASSUME NEW c \in Callers, SendCall(c) PROVE TypeOK'
  <2>1. nextReqId \in 0..MaxReq
    BY <1>18 DEF SendCall, TakesReqId
  <2>2. CallerType'
    BY <1>18, <2>1 DEF CallerType, SendCall, Goto
  <2>3. CounterType'
    BY <1>18 DEF CounterType, SendCall, TakesReqId
  <2>4. "none" \in Payloads /\ "CALL_REQ" \in FrameTypes
    BY <1>18 DEF SendCall
  <2>5. Frame("CALL_REQ", nextReqId, "none") \in Frames
    BY <2>1, <2>4, FrameType
  <2>6. SessionType' /\ WorkerType'
    BY <1>18, <2>5, AppendFrames DEF SessionType, WorkerType, SendCall
  <2> QED
    BY <2>2, <2>3, <2>6, TypePartsPrime
<1>39. ASSUME NEW c \in Callers, SendCallFails(c) PROVE TypeOK'
  <2>1. KillWorker
    BY <1>39 DEF SendCallFails
  <2>2. CallerType'
    BY <1>39 DEF CallerType, SendCallFails
  <2>3. CounterType'
    BY <1>39 DEF CounterType, SendCallFails, TakesReqId
  <2> QED
    BY <2>1, <2>2, <2>3, KillType, TypePartsPrime
<1>19. ASSUME NEW c \in Callers, RecvCall(c) PROVE TypeOK'
  BY <1>19 DEF RecvCall, Return, Goto
<1>20. ASSUME NEW c \in Callers, RecvCallFails(c) PROVE TypeOK'
  <2>1. KillWorker
    BY <1>20 DEF RecvCallFails
  <2>2. CallerType'
    BY <1>20 DEF CallerType, RecvCallFails, Return, Goto
  <2>3. CounterType'
    BY <1>20 DEF CounterType, RecvCallFails, Return, Goto
  <2> QED
    BY <2>1, <2>2, <2>3, KillType, TypePartsPrime
<1>21. ASSUME NEW c \in Callers, DispatchCancel(c) PROVE TypeOK'
  BY <1>21 DEF DispatchCancel
<1>22. ASSUME NEW c \in Callers, SendCancel(c) PROVE TypeOK'
  BY <1>22, FrameType, AppendFrames DEF SendCancel
<1>23. CASE ReaderQueues
  BY <1>23, AppendFrames DEF ReaderQueues
<1>24. CASE ReaderMatches
  BY <1>24, FrameFields DEF ReaderMatches
<1>25. CASE ReaderCancels
  BY <1>25 DEF ReaderCancels
<1>26. CASE MainHello
  BY <1>26, FrameType, AppendFrames DEF MainHello, MainAt
<1>27. CASE MainTakes
  BY <1>27 DEF MainTakes, MainAt, Handler
<1>28. ASSUME NEW type \in FrameTypes, Answers(type), child = "run" PROVE TypeOK'
  <2>1. toParent' \in Seq(Frames)
    BY <1>28, SendType DEF Answers
  <2> QED
    BY <1>28, <2>1 DEF Answers
<1>29. CASE MainRejects
  <2>1. toParent' \in Seq(Frames)
    BY <1>29, SendType DEF MainRejects
  <2> QED
    BY <1>29, <2>1 DEF MainRejects, MainAt
<1>30. CASE MainClearsCancel
  BY <1>30 DEF MainClearsCancel, MainAt
<1>31. CASE MainPublishes
  BY <1>31, FrameFields DEF MainPublishes, MainAt
<1>32. CASE MainAudio
  <2>1. toParent' \in Seq(Frames)
    BY <1>32, SendType DEF MainAudio
  <2> QED
    BY <1>32, <2>1 DEF MainAudio, MainAt
<1>33. CASE MainFinishes
  <2>1. toParent' \in Seq(Frames)
    BY <1>33, SendType DEF MainFinishes
  <2> QED
    BY <1>33, <2>1 DEF MainFinishes, MainAt
<1>34. CASE MainOversize
  BY <1>34 DEF MainOversize, MainAt
<1>35. CASE MainUnpublishes
  BY <1>35 DEF MainUnpublishes, MainAt
<1>36. CASE Crash
  <2>1. WorkerType'
    BY <1>36, WorkerStateType DEF Crash
  <2> QED
    BY <1>36, <2>1 DEF WorkerType, Crash
<1>37. CASE UNCHANGED vars
  BY <1>37
<1> QED
  BY <1>1, <1>2, <1>3, <1>4, <1>5, <1>6, <1>7, <1>8, <1>9,
     <1>10, <1>11, <1>12, <1>13, <1>14, <1>15, <1>16, <1>17, <1>18,
     <1>19, <1>20, <1>21, <1>22, <1>23, <1>24, <1>25, <1>26, <1>27,
     <1>28, <1>29, <1>30, <1>31, <1>32, <1>33, <1>34, <1>35, <1>36,
     <1>37, <1>38, <1>39
  DEF Next, Environment, Ensure, Synth, Receive, Reader, Main, MainLoads,
      MainAnswers, MainAt

(* Every variable keeps its type in every reachable state. *)
THEOREM TypeCorrect == Spec => []TypeOK
BY InitType, NextType, PTL DEF Spec

-----------------------------------------------------------------------------
(* What is in a channel, as frames are sent and received.                  *)

\* Taking a frame adds nothing; taking the only work leaves none; the frame
\* that ends a job is the last one.
LEMMA TailKeeps ==
  ASSUME NEW s \in Seq(Frames), s # <<>>, NEW id
  PROVE  /\ NoWork(s) => NoWork(Tail(s)) /\ ~IsWork(Head(s))
         /\ OneWork(s) => OneWork(Tail(s))
         /\ OneWork(s) /\ IsWork(Head(s)) => NoWork(Tail(s))
         /\ ~IsWork(Head(s)) /\ NoWork(Tail(s)) => NoWork(s)
         /\ WorkOf(s, id) => /\ WorkOf(Tail(s), id)
                             /\ IsWork(Head(s)) => Head(s).id = id
         /\ NoEnd(s) => NoEnd(Tail(s)) /\ ~Ends(Head(s))
         /\ EndIsLast(s) => EndIsLast(Tail(s))
         /\ EndIsLast(s) /\ Ends(Head(s)) => Tail(s) = <<>>
         /\ AllOf(s, id) => AllOf(Tail(s), id) /\ Head(s).id = id
<1>1. /\ Head(s) = s[1] /\ Len(s) \in Nat \ {0} /\ Len(Tail(s)) = Len(s) - 1
      /\ \A i \in 1..Len(Tail(s)) : i + 1 \in 1..Len(s) /\ Tail(s)[i] = s[i + 1]
  BY TailFrames
<1>2. \A i \in 1..Len(s) : i = 1 \/ (i - 1 \in 1..Len(Tail(s)) /\ s[i] = Tail(s)[i - 1])
  BY <1>1
<1>3. EndIsLast(s) /\ Ends(Head(s)) => Tail(s) = <<>>
  <2>1. 1 \in 1..Len(s) /\ Head(s) = s[1]
    BY <1>1
  <2>2. EndIsLast(s) /\ Ends(Head(s)) => Len(s) = 1
    BY <2>1, Zenon DEF EndIsLast
  <2> QED
    BY <2>2, TailFrames
<1>4. /\ NoWork(s) => NoWork(Tail(s)) /\ ~IsWork(Head(s))
      /\ OneWork(s) => OneWork(Tail(s))
      /\ OneWork(s) /\ IsWork(Head(s)) => NoWork(Tail(s))
  BY <1>1 DEF NoWork, OneWork
<1>5. ~IsWork(Head(s)) /\ NoWork(Tail(s)) => NoWork(s)
  BY <1>1, <1>2 DEF NoWork
<1>6. /\ WorkOf(s, id) => /\ WorkOf(Tail(s), id)
                          /\ IsWork(Head(s)) => Head(s).id = id
      /\ AllOf(s, id) => AllOf(Tail(s), id) /\ Head(s).id = id
  BY <1>1 DEF WorkOf, AllOf
<1>7. NoEnd(s) => NoEnd(Tail(s)) /\ ~Ends(Head(s))
  BY <1>1 DEF NoEnd
<1>8. EndIsLast(s) => EndIsLast(Tail(s))
  <2> SUFFICES ASSUME EndIsLast(s), NEW i \in 1..Len(Tail(s)), Ends(Tail(s)[i])
               PROVE  i = Len(Tail(s))
    BY DEF EndIsLast
  <2>1. i + 1 \in 1..Len(s) /\ Ends(s[i + 1])
    BY <1>1
  <2>2. i + 1 = Len(s)
    BY <2>1, Zenon DEF EndIsLast
  <2>3. Len(s) \in Nat /\ Len(Tail(s)) = Len(s) - 1 /\ i \in Nat
    BY <1>1
  <2> QED
    BY <2>2, <2>3
<1> QED
  BY <1>3, <1>4, <1>5, <1>6, <1>7, <1>8

\* Sending a cancel adds no work; sending work to a channel without any makes
\* it the only one; what is sent after a stream without end may end it.
LEMMA AppendKeeps ==
  ASSUME NEW s \in Seq(Frames), NEW f \in Frames, NEW id
  PROVE  /\ NoWork(s) => OneWork(Append(s, f))
         /\ ~IsWork(f) /\ OneWork(s) => OneWork(Append(s, f))
         /\ ~IsWork(f) => (NoWork(Append(s, f)) <=> NoWork(s))
         /\ WorkOf(s, id) /\ (IsWork(f) => f.id = id) => WorkOf(Append(s, f), id)
         /\ NoEnd(s) => EndIsLast(Append(s, f))
         /\ NoEnd(s) /\ ~Ends(f) => NoEnd(Append(s, f))
         /\ AllOf(s, id) /\ f.id = id => AllOf(Append(s, f), id)
         /\ Append(s, f) # <<>>
<1>1. /\ Len(s) \in Nat /\ Len(Append(s, f)) = Len(s) + 1
      /\ Append(s, f)[Len(s) + 1] = f
      /\ \A i \in 1..Len(s) : Append(s, f)[i] = s[i]
  BY AppendFrames
<1>2. \A i \in 1..Len(Append(s, f)) : i \in 1..Len(s) \/ i = Len(s) + 1
  BY <1>1
<1>3. \A i \in 1..Len(s) : i \in 1..Len(Append(s, f)) /\ i # Len(s) + 1
  BY <1>1
<1>4. /\ NoWork(s) => OneWork(Append(s, f))
      /\ ~IsWork(f) /\ OneWork(s) => OneWork(Append(s, f))
      /\ ~IsWork(f) => (NoWork(Append(s, f)) <=> NoWork(s))
  BY <1>1, <1>2, <1>3 DEF NoWork, OneWork
<1>5. /\ WorkOf(s, id) /\ (IsWork(f) => f.id = id) => WorkOf(Append(s, f), id)
      /\ AllOf(s, id) /\ f.id = id => AllOf(Append(s, f), id)
  BY <1>1, <1>2, <1>3 DEF WorkOf, AllOf
<1>6. /\ NoEnd(s) => EndIsLast(Append(s, f))
      /\ NoEnd(s) /\ ~Ends(f) => NoEnd(Append(s, f))
  BY <1>1, <1>2, <1>3 DEF NoEnd, EndIsLast
<1>7. Append(s, f) # <<>>
  BY <1>1, EmptySeq
<1> QED
  BY <1>4, <1>5, <1>6, <1>7

LEMMA EmptyKeeps ==
  ASSUME NEW id
  PROVE  /\ NoWork(<<>>) /\ OneWork(<<>>) /\ WorkOf(<<>>, id)
         /\ NoEnd(<<>>) /\ EndIsLast(<<>>) /\ AllOf(<<>>, id)
BY EmptySeq DEF NoWork, OneWork, WorkOf, NoEnd, EndIsLast, AllOf

-----------------------------------------------------------------------------
(* Who is inside the session, and what it has loaded.                      *)

LEMMA ControlNext ==
  ASSUME TypeOK, ControlInv, [Next]_vars
  PROVE  ControlInv'
<1> USE DEF ControlInv, HolderInSession, WorkerHasPid, CallsAreLoaded, Waiting,
            InSession, sessionVars, callerVars, workerVars, parentVars
<1> pc \in [Callers -> PcLabels] /\ spawned \in Nat
  BY DEF TypeOK
<1>1. ASSUME NEW c \in Callers, BeginSynth(c) PROVE ControlInv'
  BY <1>1 DEF BeginSynth, Goto
<1>2. ASSUME NEW c \in Callers, BeginRegister(c) PROVE ControlInv'
  BY <1>2 DEF BeginRegister, Goto
<1>3. ASSUME NEW c \in Callers, EndRequest(c) PROVE ControlInv'
  BY <1>3 DEF EndRequest, Goto
<1>4. ASSUME NEW c \in Callers, Shutdown(c) PROVE ControlInv'
  BY <1>4 DEF Shutdown, KillWorker, WorkerState
<1>5. ASSUME NEW c \in Callers, EnsureFast(c) PROVE ControlInv'
  BY <1>5 DEF EnsureFast, AfterEnsure, Goto
<1>6. ASSUME NEW c \in Callers, EnsureSpawn(c) PROVE ControlInv'
  BY <1>6 DEF EnsureSpawn, WorkerState, Goto
<1>7. ASSUME NEW c \in Callers, EnsureSpawnFails(c) PROVE ControlInv'
  BY <1>7 DEF EnsureSpawnFails, KillWorker, WorkerState, AfterEnsure, Goto
<1>8. ASSUME NEW c \in Callers, RecvHello(c) PROVE ControlInv'
  BY <1>8 DEF RecvHello, Goto
<1>9. ASSUME NEW c \in Callers, RecvHelloFails(c) PROVE ControlInv'
  BY <1>9 DEF RecvHelloFails, EnsureFailed, KillWorker, WorkerState, Return, AfterEnsure, Goto
<1>10. ASSUME NEW c \in Callers, RecvLoadResp(c) PROVE ControlInv'
  BY <1>10 DEF RecvLoadResp, Return, AfterEnsure, Goto
<1>11. ASSUME NEW c \in Callers, RecvLoadRespFails(c) PROVE ControlInv'
  BY <1>11 DEF RecvLoadRespFails, EnsureFailed, KillWorker, WorkerState, Return, AfterEnsure, Goto
<1>12. ASSUME NEW c \in Callers, SendSynth(c) PROVE ControlInv'
  BY <1>12 DEF SendSynth, TakesReqId, Ready, Goto
<1>13. ASSUME NEW c \in Callers, SendSynthFails(c) PROVE ControlInv'
  BY <1>13 DEF SendSynthFails, KillWorker, WorkerState, Goto
<1>14. ASSUME NEW c \in Callers, SynthNotReady(c) PROVE ControlInv'
  BY <1>14 DEF SynthNotReady, Goto
<1>15. ASSUME NEW c \in Callers, PublishSynth(c) PROVE ControlInv'
  BY <1>15 DEF PublishSynth, Goto
<1>16. ASSUME NEW c \in Callers, RecvAudio(c) PROVE ControlInv'
  BY <1>16 DEF RecvAudio
<1>17. ASSUME NEW c \in Callers, RecvSynthEnd(c) PROVE ControlInv'
  BY <1>17 DEF RecvSynthEnd, SynthReturns, Return, Goto
<1>18. ASSUME NEW c \in Callers, RecvSynthFails(c) PROVE ControlInv'
  BY <1>18 DEF RecvSynthFails, KillWorker, WorkerState, SynthReturns, Return, Goto
<1>19. ASSUME NEW c \in Callers, SendCall(c) PROVE ControlInv'
  BY <1>19 DEF SendCall, TakesReqId, Ready, Goto
<1>20. ASSUME NEW c \in Callers, SendCallFails(c) PROVE ControlInv'
  BY <1>20 DEF SendCallFails, KillWorker, WorkerState
<1>21. ASSUME NEW c \in Callers, RecvCall(c) PROVE ControlInv'
  BY <1>21 DEF RecvCall, Return, Goto
<1>22. ASSUME NEW c \in Callers, RecvCallFails(c) PROVE ControlInv'
  BY <1>22 DEF RecvCallFails, KillWorker, WorkerState, Return, Goto
<1>23. ASSUME NEW c \in Callers, DispatchCancel(c) PROVE ControlInv'
  BY <1>23 DEF DispatchCancel
<1>24. ASSUME NEW c \in Callers, SendCancel(c) PROVE ControlInv'
  BY <1>24 DEF SendCancel
<1>25. CASE Reader
  BY <1>25 DEF Reader, ReaderQueues, ReaderMatches, ReaderCancels
<1>26. CASE Main
  BY <1>26 DEF Main, MainAt, MainHello, MainTakes, MainLoads, MainAnswers,
     Answers, MainRejects, MainClearsCancel, MainPublishes, MainAudio,
     MainFinishes, MainOversize, MainUnpublishes
<1>27. CASE Crash
  BY <1>27 DEF Crash, Alive, WorkerState
<1>28. CASE UNCHANGED vars
  BY <1>28 DEF vars
<1> QED
  BY <1>1, <1>2, <1>3, <1>4, <1>5, <1>6, <1>7, <1>8, <1>9,
     <1>10, <1>11, <1>12, <1>13, <1>14, <1>15, <1>16, <1>17, <1>18,
     <1>19, <1>20, <1>21, <1>22, <1>23, <1>24, <1>25, <1>26, <1>27,
     <1>28
  DEF Next, Environment, Ensure, Synth, Receive, Reader, Main

-----------------------------------------------------------------------------
(* The unfinished work, step by step.                                      *)

\* A killed worker has no work.
LEMMA KillJob ==
  ASSUME KillWorker
  PROVE  JobInv'
<1>1. ~Alive' /\ ~Busy' /\ workQueue' = <<>> /\ toWorker' = <<>> /\ toParent' = <<>>
  BY DEF KillWorker, WorkerState, Alive, Busy
<1> QED
  BY <1>1, EmptyKeeps DEF JobInv, Idle, Booting, OneJob, JobIsCallers

\* A step that touches neither the worker nor the session.
LEMMA OutsideJob ==
  ASSUME JobInv, UNCHANGED <<toWorker, toParent, workerVars, ioMutex, loadedOk>>,
         InHello' <=> InHello,
         \A c \in Callers : Waiting(c)' => Waiting(c) /\ req'[c] = req[c]
  PROVE  JobInv'
<1>1. (Alive' <=> Alive) /\ (Busy' <=> Busy)
  BY DEF Alive, Busy, workerVars
<1>2. JobIsCallers'
  BY <1>1 DEF JobInv, JobIsCallers, workerVars
<1>3. Idle'
  BY <1>1 DEF JobInv, Idle, workerVars
<1>4. Booting'
  BY <1>1 DEF JobInv, Booting, workerVars
<1>5. OneJob'
  BY <1>1 DEF JobInv, OneJob, workerVars
<1> QED
  BY <1>2, <1>3, <1>4, <1>5 DEF JobInv

\* Who leaves the session with the frame that ends its job leaves nothing.
LEMMA ReturnJob ==
  ASSUME TypeOK, ControlInv, JobInv, ControlInv',
         NEW c \in Callers, ioMutex = c, pc[c] # "hello",
         toParent # <<>>, Ends(Head(toParent)), toParent' = Tail(toParent),
         ioMutex' = NoCaller, loadedOk',
         UNCHANGED <<toWorker, workerVars>>
  PROVE  JobInv'
<1>1. ~InHello
  BY DEF ControlInv, HolderInSession, InSession, InHello
<1>2. \A d \in Callers : pc'[d] \notin InSession
  BY SessionAssumption DEF ControlInv, HolderInSession
<1>3. ~InHello' /\ \A d \in Callers : ~Waiting(d)'
  BY <1>2 DEF InHello, Waiting, InSession
<1>4. CASE ~Alive
  <2>1. ~Alive'
    BY <1>4 DEF Alive, workerVars
  <2> QED
    BY <1>3, <2>1 DEF JobInv, Idle, Booting, OneJob, JobIsCallers
<1>5. CASE Alive
  <2>1. toParent \in Seq(Frames) /\ mainPc \in MainLabels
    BY DEF TypeOK
  <2>2. /\ EndIsLast(toParent)
        /\ child = "run" => mainPc \notin {"none", "boot"}
        /\ (~NoWork(toWorker) \/ workQueue # <<>>) => toParent = <<>>
        /\ (Busy \/ child = "exit") => NoEnd(toParent)
    BY <1>1, <1>5 DEF JobInv, OneJob
  <2>3. Tail(toParent) = <<>> /\ ~NoEnd(toParent)
    BY <2>1, <2>2, TailKeeps
  <2>4. /\ NoWork(toWorker) /\ workQueue = <<>>
        /\ child = "run" /\ mainPc \in {"wait", "unpublish"}
    BY <2>1, <2>2, <2>3, <1>5 DEF Busy, MainLabels, Alive
  <2>5. Idle' /\ ~Busy'
    BY <2>3, <2>4 DEF Idle, Busy, workerVars
  <2>6. OneJob'
    BY <2>3, <2>4, <2>5, EmptyKeeps DEF OneJob, Idle, NoWork, OneWork, workerVars
  <2> QED
    BY <1>3, <2>5, <2>6 DEF JobInv, Booting, JobIsCallers
<1> QED
  BY <1>4, <1>5

\* With nobody inside the session, or HELLO just taken, one request is sent:
\* it is the only work there is, and it is its sender's.
LEMMA CallJob ==
  ASSUME TypeOK, ControlInv',
         Alive, child = "run", mainPc \in {"wait", "unpublish"},
         NoWork(toWorker), workQueue = <<>>,
         NEW c \in Callers, NEW f \in Frames, ioMutex' = c, pc'[c] # "hello",
         Waiting(c)' => f.id = req'[c],
         toWorker' = Append(toWorker, f), toParent' = <<>>,
         UNCHANGED workerVars
  PROVE  JobInv'
<1>1. toWorker \in Seq(Frames)
  BY DEF TypeOK
<1>2. \A d \in Callers : pc'[d] \in InSession => d = c
  BY DEF ControlInv, HolderInSession
<1>3. ~InHello' /\ (\A d \in Callers : Waiting(d)' => d = c) /\ ioMutex' # NoCaller
  BY <1>2, SessionAssumption DEF InHello, InSession, Waiting
<1>4. ~Busy' /\ Alive' /\ child' = "run" /\ mainPc' \notin {"none", "boot"} /\ workQueue' = <<>>
  BY DEF Busy, Alive, workerVars
<1>5. OneWork(toWorker') /\ WorkOf(toWorker, f.id)
  BY <1>1, AppendKeeps DEF NoWork, WorkOf
<1>6. WorkOf(toWorker', f.id)
  BY <1>1, <1>5, AppendKeeps
<1>7. Idle' /\ Booting'
  BY <1>3 DEF Idle, Booting
<1>8. OneJob'
  BY <1>4, <1>5, EmptyKeeps DEF OneJob
<1>9. JobIsCallers'
  BY <1>3, <1>4, <1>6, EmptyKeeps DEF JobIsCallers
<1> QED
  BY <1>7, <1>8, <1>9 DEF JobInv

\* A step of the worker, or of the socket, that callers do not see.
SameCallers == /\ UNCHANGED <<ioMutex, loadedOk>>
               /\ InHello' <=> InHello
               /\ \A c \in Callers : (Waiting(c)' <=> Waiting(c)) /\ req'[c] = req[c]

LEMMA WorkerStep ==
  ASSUME UNCHANGED parentVars
  PROVE  SameCallers
BY DEF SameCallers, parentVars, callerVars, sessionVars, InHello, Waiting

\* The main thread has the only job of a booted worker.
LEMMA BusyJob ==
  ASSUME TypeOK, JobInv, child = "run", Busy
  PROVE  /\ Alive /\ ~InHello /\ ioMutex # NoCaller
         /\ NoWork(toWorker) /\ OneWork(toWorker) /\ workQueue = <<>>
         /\ NoEnd(toParent) /\ EndIsLast(toParent)
         /\ \A c \in Callers : Waiting(c) =>
              /\ AllOf(toParent, req[c]) /\ mainReq.id = req[c]
              /\ WorkOf(toWorker, req[c])
<1>1. Alive /\ mainPc \notin {"boot", "wait", "unpublish", "none"}
  BY DEF Alive, Busy
<1>2. ~InHello /\ ioMutex # NoCaller
  BY <1>1 DEF JobInv, Booting, Idle
<1> QED
  BY <1>1, <1>2 DEF JobInv, OneJob, JobIsCallers

\* It goes on with its job, sending frames that do not end it.
LEMMA BusyGoesOn ==
  ASSUME TypeOK, JobInv, child = "run", Busy, UNCHANGED parentVars,
         child' = "run", Busy',
         UNCHANGED <<toWorker, workQueue, mainReq>>,
         NoEnd(toParent'),
         \A c \in Callers : Waiting(c) => AllOf(toParent', req[c])
  PROVE  JobInv'
<1>1. SameCallers /\ ~InHello' /\ ioMutex' # NoCaller
  BY BusyJob, WorkerStep DEF SameCallers
<1>2. mainPc' \notin {"none", "boot"} /\ EndIsLast(toParent')
  BY DEF Busy, NoEnd, EndIsLast
<1>3. Idle' /\ Booting'
  BY <1>1 DEF Idle, Booting
<1>4. OneJob'
  BY <1>1, <1>2, BusyJob DEF OneJob
<1>5. JobIsCallers'
  BY <1>1, BusyJob, EmptyKeeps DEF JobIsCallers, SameCallers
<1> QED
  BY <1>3, <1>4, <1>5 DEF JobInv

\* It ends its job, by a frame or by leaving its loop without one.
LEMMA BusyEnds ==
  ASSUME TypeOK, JobInv, child = "run", Busy, UNCHANGED parentVars, ~Busy',
         \/ child' = "run" /\ mainPc' \notin {"none", "boot"}
         \/ child' = "exit" /\ mainPc' = "none" /\ NoEnd(toParent'),
         UNCHANGED <<toWorker, workQueue>>,
         EndIsLast(toParent'),
         \A c \in Callers : Waiting(c) => AllOf(toParent', req[c])
  PROVE  JobInv'
<1>1. SameCallers /\ ~InHello' /\ ioMutex' # NoCaller
  BY BusyJob, WorkerStep DEF SameCallers
<1>2. Idle' /\ Booting'
  BY <1>1 DEF Idle, Booting
<1>3. OneJob'
  BY <1>1, BusyJob DEF OneJob
<1>4. JobIsCallers'
  BY <1>1, BusyJob, EmptyKeeps DEF JobIsCallers, SameCallers
<1> QED
  BY <1>2, <1>3, <1>4 DEF JobInv

\* What the main thread sends about its job belongs to that job.
LEMMA SendJob ==
  ASSUME TypeOK, JobInv, child = "run", Busy,
         NEW type \in FrameTypes, NEW arg \in Payloads, Send(type, arg)
  PROVE  /\ EndIsLast(toParent')
         /\ type \notin Terminal => NoEnd(toParent')
         /\ \A c \in Callers : Waiting(c) => AllOf(toParent', req[c])
<1>1. /\ toParent \in Seq(Frames)
      /\ Frame(type, mainReq.id, arg) \in Frames
      /\ toParent' = Append(toParent, Frame(type, mainReq.id, arg))
  BY FrameFields, FrameType DEF TypeOK, Send
<1>2. /\ Frame(type, mainReq.id, arg).type = type
      /\ Frame(type, mainReq.id, arg).id = mainReq.id
  BY DEF Frame
<1> QED
  BY <1>1, <1>2, AppendKeeps, BusyJob DEF Ends

LEMMA JobNext ==
  ASSUME TypeOK, ControlInv, JobInv, TypeOK', ControlInv', [Next]_vars
  PROVE  JobInv'
<1> USE EmptySeq DEF sessionVars, callerVars, Terminal
<1>0. /\ toWorker \in Seq(Frames) /\ toParent \in Seq(Frames)
      /\ workQueue \in Seq(Frames) /\ mainReq \in Frames
      /\ pc \in [Callers -> PcLabels] /\ req \in [Callers -> 0..MaxReq]
  BY DEF TypeOK
<1>1. ASSUME NEW c \in Callers, BeginSynth(c) PROVE JobInv'
  <2>1. UNCHANGED <<toWorker, toParent, workerVars, ioMutex, loadedOk>>
    BY <1>1 DEF BeginSynth, Goto
  <2>2. InHello' <=> InHello
    BY <1>1, <1>0 DEF BeginSynth, InHello, Goto
  <2>3. \A d \in Callers : Waiting(d)' => Waiting(d) /\ req'[d] = req[d]
    BY <1>1, <1>0 DEF BeginSynth, Waiting, Goto
  <2> QED
    BY <2>1, <2>2, <2>3, OutsideJob
<1>2. ASSUME NEW c \in Callers, BeginRegister(c) PROVE JobInv'
  <2>1. UNCHANGED <<toWorker, toParent, workerVars, ioMutex, loadedOk>>
    BY <1>2 DEF BeginRegister, Goto
  <2>2. InHello' <=> InHello
    BY <1>2, <1>0 DEF BeginRegister, InHello, Goto
  <2>3. \A d \in Callers : Waiting(d)' => Waiting(d) /\ req'[d] = req[d]
    BY <1>2, <1>0 DEF BeginRegister, Waiting, Goto
  <2> QED
    BY <2>1, <2>2, <2>3, OutsideJob
<1>3. ASSUME NEW c \in Callers, EndRequest(c) PROVE JobInv'
  <2>1. UNCHANGED <<toWorker, toParent, workerVars, ioMutex, loadedOk>>
    BY <1>3 DEF EndRequest, Goto
  <2>2. InHello' <=> InHello
    BY <1>3, <1>0 DEF EndRequest, InHello, Goto
  <2>3. \A d \in Callers : Waiting(d)' => Waiting(d) /\ req'[d] = req[d]
    BY <1>3, <1>0 DEF EndRequest, Waiting, Goto
  <2> QED
    BY <2>1, <2>2, <2>3, OutsideJob
<1>4. ASSUME NEW c \in Callers, EnsureFast(c) PROVE JobInv'
  <2>1. UNCHANGED <<toWorker, toParent, workerVars, ioMutex, loadedOk>>
    BY <1>4 DEF EnsureFast, AfterEnsure, Goto
  <2>2. InHello' <=> InHello
    BY <1>4, <1>0 DEF EnsureFast, InHello, AfterEnsure, Goto
  <2>3. \A d \in Callers : Waiting(d)' => Waiting(d) /\ req'[d] = req[d]
    BY <1>4, <1>0 DEF EnsureFast, Waiting, AfterEnsure, Goto
  <2> QED
    BY <2>1, <2>2, <2>3, OutsideJob
<1>5. ASSUME NEW c \in Callers, SynthNotReady(c) PROVE JobInv'
  <2>1. UNCHANGED <<toWorker, toParent, workerVars, ioMutex, loadedOk>>
    BY <1>5 DEF SynthNotReady, Goto
  <2>2. InHello' <=> InHello
    BY <1>5, <1>0 DEF SynthNotReady, InHello, Goto
  <2>3. \A d \in Callers : Waiting(d)' => Waiting(d) /\ req'[d] = req[d]
    BY <1>5, <1>0 DEF SynthNotReady, Waiting, Goto
  <2> QED
    BY <2>1, <2>2, <2>3, OutsideJob
<1>6. ASSUME NEW c \in Callers, PublishSynth(c) PROVE JobInv'
  <2>1. UNCHANGED <<toWorker, toParent, workerVars, ioMutex, loadedOk>>
    BY <1>6 DEF PublishSynth, Goto
  <2>2. InHello' <=> InHello
    BY <1>6, <1>0 DEF PublishSynth, InHello, Goto
  <2>3. \A d \in Callers : Waiting(d)' => Waiting(d) /\ req'[d] = req[d]
    BY <1>6, <1>0 DEF PublishSynth, Waiting, Goto
  <2> QED
    BY <2>1, <2>2, <2>3, OutsideJob
<1>7. ASSUME NEW c \in Callers, DispatchCancel(c) PROVE JobInv'
  <2>1. UNCHANGED <<toWorker, toParent, workerVars, ioMutex, loadedOk>>
    BY <1>7 DEF DispatchCancel
  <2>2. InHello' <=> InHello
    BY <1>7, <1>0 DEF DispatchCancel, InHello
  <2>3. \A d \in Callers : Waiting(d)' => Waiting(d) /\ req'[d] = req[d]
    BY <1>7, <1>0 DEF DispatchCancel, Waiting
  <2> QED
    BY <2>1, <2>2, <2>3, OutsideJob
<1>8. ASSUME NEW c \in Callers, Shutdown(c) PROVE JobInv'
  BY <1>8, KillJob DEF Shutdown
<1>9. ASSUME NEW c \in Callers, EnsureSpawnFails(c) PROVE JobInv'
  BY <1>9, KillJob DEF EnsureSpawnFails
<1>10. ASSUME NEW c \in Callers, RecvHelloFails(c) PROVE JobInv'
  BY <1>10, KillJob DEF RecvHelloFails, EnsureFailed
<1>11. ASSUME NEW c \in Callers, RecvLoadRespFails(c) PROVE JobInv'
  BY <1>11, KillJob DEF RecvLoadRespFails, EnsureFailed
<1>12. ASSUME NEW c \in Callers, SendSynthFails(c) PROVE JobInv'
  BY <1>12, KillJob DEF SendSynthFails
<1>13. ASSUME NEW c \in Callers, RecvSynthFails(c) PROVE JobInv'
  BY <1>13, KillJob DEF RecvSynthFails
<1>14. ASSUME NEW c \in Callers, SendCallFails(c) PROVE JobInv'
  BY <1>14, KillJob DEF SendCallFails
<1>15. ASSUME NEW c \in Callers, RecvCallFails(c) PROVE JobInv'
  BY <1>15, KillJob DEF RecvCallFails
<1>16. ASSUME NEW c \in Callers, EnsureSpawn(c) PROVE JobInv'
  <2>1. /\ child' = "run" /\ mainPc' = "boot" /\ workQueue' = <<>>
        /\ toWorker' = <<>> /\ toParent' = <<>>
        /\ ioMutex' = c /\ pc'[c] = "hello"
    BY <1>16, <1>0 DEF EnsureSpawn, WorkerState, Goto
  <2>2. InHello' /\ ioMutex' # NoCaller /\ ~Busy'
    BY <2>1, SessionAssumption DEF InHello, Busy
  <2> QED
    BY <2>1, <2>2, EmptyKeeps DEF JobInv, Idle, Booting, OneJob, JobIsCallers
<1>17. ASSUME NEW c \in Callers, RecvHello(c) PROVE JobInv'
  <2>1. InHello /\ Alive /\ toParent # <<>>
    BY <1>17 DEF RecvHello, InHello
  <2>2. /\ child = "run" /\ mainPc \in {"wait", "unpublish"}
        /\ NoWork(toWorker) /\ workQueue = <<>> /\ Tail(toParent) = <<>>
    BY <2>1 DEF JobInv, Booting
  <2>3. pc'[c] = "loading" /\ ioMutex' = c
    BY <1>17, <1>0 DEF RecvHello, Goto, ControlInv, HolderInSession, InSession
  <2>4. ~Waiting(c)'
    BY <2>3 DEF Waiting
  <2>5. Frame("LOAD_REQ", 0, "none") \in Frames
    BY FrameType DEF FrameTypes, Payloads
  <2> QED
    BY <1>17, <2>1, <2>2, <2>3, <2>4, <2>5, CallJob DEF RecvHello
<1>18. ASSUME NEW c \in Callers, SendSynth(c) PROVE JobInv'
  <2>1. /\ child = "run" /\ mainPc \in {"wait", "unpublish"}
        /\ NoWork(toWorker) /\ workQueue = <<>> /\ toParent = <<>>
    BY <1>18 DEF SendSynth, JobInv, Idle
  <2>2. pc'[c] = "sent" /\ ioMutex' = c /\ req'[c] = nextReqId
    BY <1>18, <1>0 DEF SendSynth, Goto
  <2>3. nextReqId \in 0..MaxReq /\ mode[c] \in Payloads
    BY <1>18 DEF SendSynth, TakesReqId, TypeOK, Payloads
  <2>4. /\ Frame("SYNTH_REQ", nextReqId, mode[c]) \in Frames
        /\ Frame("SYNTH_REQ", nextReqId, mode[c]).id = req'[c]
    BY <2>2, <2>3, FrameType DEF FrameTypes, Frame
  <2> QED
    BY <1>18, <2>1, <2>2, <2>4, CallJob DEF SendSynth
<1>19. ASSUME NEW c \in Callers, SendCall(c) PROVE JobInv'
  <2>1. /\ child = "run" /\ mainPc \in {"wait", "unpublish"}
        /\ NoWork(toWorker) /\ workQueue = <<>> /\ toParent = <<>>
    BY <1>19 DEF SendCall, JobInv, Idle
  <2>2. pc'[c] = "call" /\ ioMutex' = c /\ req'[c] = nextReqId
    BY <1>19, <1>0 DEF SendCall, Goto
  <2>3. nextReqId \in 0..MaxReq /\ "none" \in Payloads
    BY <1>19 DEF SendCall, TakesReqId, TypeOK, Payloads
  <2>4. /\ Frame("CALL_REQ", nextReqId, "none") \in Frames
        /\ Frame("CALL_REQ", nextReqId, "none").id = req'[c]
    BY <2>2, <2>3, FrameType DEF FrameTypes, Frame
  <2> QED
    BY <1>19, <2>1, <2>2, <2>4, CallJob DEF SendCall
<1>20. ASSUME NEW c \in Callers, RecvLoadResp(c) PROVE JobInv'
  <2>1. ioMutex = c /\ pc[c] # "hello"
    BY <1>20 DEF RecvLoadResp, ControlInv, HolderInSession, InSession
  <2>2. loadedOk'
    BY <1>20 DEF RecvLoadResp, ControlInv, CallsAreLoaded, Waiting
  <2>3. Ends(Head(toParent))
    BY <1>20 DEF RecvLoadResp, Ends
  <2>4. /\ toParent # <<>> /\ toParent' = Tail(toParent) /\ ioMutex' = NoCaller
        /\ UNCHANGED <<toWorker, workerVars>>
    BY <1>20 DEF RecvLoadResp, Return, Goto, AfterEnsure
  <2> QED
    BY <2>1, <2>2, <2>3, <2>4, ReturnJob
<1>21. ASSUME NEW c \in Callers, RecvSynthEnd(c) PROVE JobInv'
  <2>1. ioMutex = c /\ pc[c] # "hello"
    BY <1>21 DEF RecvSynthEnd, ControlInv, HolderInSession, InSession
  <2>2. loadedOk'
    BY <1>21 DEF RecvSynthEnd, ControlInv, CallsAreLoaded, Waiting
  <2>3. Ends(Head(toParent))
    BY <1>21 DEF RecvSynthEnd, Ends, SynthEnd
  <2>4. /\ toParent # <<>> /\ toParent' = Tail(toParent) /\ ioMutex' = NoCaller
        /\ UNCHANGED <<toWorker, workerVars>>
    BY <1>21 DEF RecvSynthEnd, SynthReturns, Return, Goto
  <2> QED
    BY <2>1, <2>2, <2>3, <2>4, ReturnJob
<1>22. ASSUME NEW c \in Callers, RecvCall(c) PROVE JobInv'
  <2>1. ioMutex = c /\ pc[c] # "hello"
    BY <1>22 DEF RecvCall, ControlInv, HolderInSession, InSession
  <2>2. loadedOk'
    BY <1>22 DEF RecvCall, ControlInv, CallsAreLoaded, Waiting
  <2>3. Ends(Head(toParent))
    BY <1>22 DEF RecvCall, Ends
  <2>4. /\ toParent # <<>> /\ toParent' = Tail(toParent) /\ ioMutex' = NoCaller
        /\ UNCHANGED <<toWorker, workerVars>>
    BY <1>22 DEF RecvCall, Return, Goto
  <2> QED
    BY <2>1, <2>2, <2>3, <2>4, ReturnJob
<1>23. ASSUME NEW c \in Callers, RecvAudio(c) PROVE JobInv'
  <2>1. toParent # <<>> /\ toParent' = Tail(toParent)
    BY <1>23 DEF RecvAudio
  <2>2. /\ NoEnd(toParent) => NoEnd(toParent')
        /\ EndIsLast(toParent) => EndIsLast(toParent')
        /\ \A d \in Callers : AllOf(toParent, req[d]) => AllOf(toParent', req[d])
    BY <1>0, <2>1, TailKeeps
  <2>3. ioMutex = c /\ ~InHello
    BY <1>23 DEF RecvAudio, ControlInv, HolderInSession, InSession, InHello
  <2>4. /\ UNCHANGED <<ioMutex, pc, req, toWorker, workerVars, loadedOk>>
        /\ ioMutex' # NoCaller
    BY <1>23, <2>3, SessionAssumption DEF RecvAudio
  <2>5. ~InHello' /\ (Alive' <=> Alive) /\ (Busy' <=> Busy)
        /\ \A d \in Callers : Waiting(d)' <=> Waiting(d)
    BY <2>3, <2>4 DEF InHello, Alive, Busy, Waiting, workerVars
  <2>6. Idle' /\ Booting'
    BY <2>4, <2>5 DEF Idle, Booting
  <2>7. OneJob'
    BY <2>1, <2>2, <2>3, <2>4, <2>5 DEF JobInv, OneJob, workerVars
  <2>8. JobIsCallers'
    BY <2>2, <2>4, <2>5 DEF JobInv, JobIsCallers, workerVars
  <2> QED
    BY <2>6, <2>7, <2>8 DEF JobInv
<1>24. ASSUME NEW c \in Callers, SendCancel(c) PROVE JobInv'
  <2>1. CASE pid # 0 /\ Alive
    <3>1. Frame("CANCEL_REQ", watch[c], "none") \in Frames
      BY FrameType DEF FrameTypes, Payloads, TypeOK
    <3>2. toWorker' = Append(toWorker, Frame("CANCEL_REQ", watch[c], "none"))
      BY <1>24, <2>1 DEF SendCancel
    <3>3. ~IsWork(Frame("CANCEL_REQ", watch[c], "none"))
      BY DEF IsWork, Frame
    <3>4. /\ NoWork(toWorker') <=> NoWork(toWorker)
          /\ OneWork(toWorker) => OneWork(toWorker')
          /\ \A d \in Callers : WorkOf(toWorker, req[d]) => WorkOf(toWorker', req[d])
      BY <1>0, <3>1, <3>2, <3>3, AppendKeeps
    <3>5. UNCHANGED <<ioMutex, pc, req, toParent, workerVars, loadedOk>>
      BY <1>24 DEF SendCancel
    <3>6. /\ (InHello' <=> InHello) /\ (Alive' <=> Alive) /\ (Busy' <=> Busy)
          /\ \A d \in Callers : Waiting(d)' <=> Waiting(d)
      BY <3>5 DEF InHello, Alive, Busy, Waiting, workerVars
    <3>7. Idle' /\ Booting'
      BY <3>4, <3>5, <3>6 DEF JobInv, Idle, Booting, workerVars
    <3>8. OneJob'
      BY <3>4, <3>5, <3>6 DEF JobInv, OneJob, workerVars
    <3>9. JobIsCallers'
      BY <3>4, <3>5, <3>6 DEF JobInv, JobIsCallers, workerVars
    <3> QED
      BY <3>7, <3>8, <3>9 DEF JobInv
  <2>2. CASE ~(pid # 0 /\ Alive)
    <3>1. UNCHANGED <<ioMutex, pc, req, toWorker, toParent, workerVars, loadedOk>>
      BY <1>24, <2>2 DEF SendCancel
    <3>2. InHello' <=> InHello
      BY <3>1 DEF InHello
    <3>3. \A d \in Callers : Waiting(d)' => Waiting(d) /\ req'[d] = req[d]
      BY <3>1 DEF Waiting
    <3> QED
      BY <3>1, <3>2, <3>3, OutsideJob
  <2> QED
    BY <2>1, <2>2
<1>25. CASE ReaderQueues
  <2>1. /\ toWorker # <<>> /\ IsWork(Head(toWorker)) /\ Alive /\ mainPc # "boot"
        /\ toWorker' = Tail(toWorker) /\ workQueue' = Append(workQueue, Head(toWorker))
        /\ UNCHANGED <<parentVars, toParent, child, mainPc, mainReq>>
    BY <1>25 DEF ReaderQueues, IsWork, Alive
  <2>2. ~NoWork(toWorker) /\ Head(toWorker) \in Frames
    BY <1>0, <2>1, TailKeeps, TailFrames
  <2>3. ~InHello /\ ioMutex # NoCaller
    BY <2>1, <2>2 DEF JobInv, Booting, Idle
  <2>4. /\ OneWork(toWorker) /\ workQueue = <<>> /\ child = "run" /\ ~Busy
        /\ toParent = <<>> /\ mainPc \notin {"none", "boot"}
    BY <2>1, <2>2, <2>3 DEF JobInv, OneJob
  <2>5. NoWork(toWorker') /\ OneWork(toWorker')
    BY <1>0, <2>1, <2>4, TailKeeps
  <2>6. workQueue' # <<>> /\ Tail(workQueue') = <<>>
    BY <1>0, <2>1, <2>2, <2>4, AppendFrames, TailFrames
  <2>7. SameCallers
    BY <2>1, WorkerStep
  <2>8. ~Busy' /\ ~InHello' /\ ioMutex' # NoCaller
    BY <2>1, <2>3, <2>4, <2>7 DEF Busy, SameCallers
  <2>9. Idle' /\ Booting'
    BY <2>8 DEF Idle, Booting
  <2>10. OneJob'
    BY <2>1, <2>4, <2>5, <2>6, <2>8, EmptyKeeps DEF OneJob
  <2>11. ASSUME NEW d \in Callers, Waiting(d)'
         PROVE  WorkOf(toWorker', req'[d]) /\ AllOf(workQueue', req'[d])
    <3>1. Waiting(d) /\ req'[d] = req[d] /\ WorkOf(toWorker, req[d])
      BY <2>7, <2>11 DEF SameCallers, JobInv, JobIsCallers
    <3>2. WorkOf(toWorker', req[d]) /\ Head(toWorker).id = req[d]
      BY <1>0, <2>1, <3>1, TailKeeps
    <3>3. AllOf(workQueue, req[d])
      BY <2>4, EmptyKeeps
    <3> QED
      BY <1>0, <2>1, <2>2, <3>1, <3>2, <3>3, AppendKeeps
  <2>12. JobIsCallers'
    BY <2>1, <2>4, <2>8, <2>11, EmptyKeeps DEF JobIsCallers
  <2> QED
    BY <2>9, <2>10, <2>12 DEF JobInv
<1>26. CASE ReaderMatches
  <2>1. /\ toWorker # <<>> /\ ~IsWork(Head(toWorker)) /\ Alive
        /\ toWorker' = Tail(toWorker)
        /\ UNCHANGED <<parentVars, toParent, child, mainPc, mainReq, workQueue>>
    BY <1>26 DEF ReaderMatches, IsWork, Alive
  <2>2. SameCallers /\ (Alive' <=> Alive) /\ (Busy' <=> Busy)
    BY <2>1, WorkerStep DEF Alive, Busy
  <2>3. /\ NoWork(toWorker') <=> NoWork(toWorker)
        /\ OneWork(toWorker) => OneWork(toWorker')
        /\ \A d \in Callers : WorkOf(toWorker, req[d]) => WorkOf(toWorker', req[d])
    BY <1>0, <2>1, TailKeeps
  <2>4. Idle' /\ Booting'
    BY <2>1, <2>2, <2>3 DEF JobInv, Idle, Booting, SameCallers
  <2>5. OneJob'
    BY <2>1, <2>2, <2>3 DEF JobInv, OneJob, SameCallers
  <2>6. JobIsCallers'
    BY <2>1, <2>2, <2>3 DEF JobInv, JobIsCallers, SameCallers
  <2> QED
    BY <2>4, <2>5, <2>6 DEF JobInv
<1>27. CASE ReaderCancels
  <2>1. UNCHANGED <<parentVars, toWorker, toParent, child, mainPc, mainReq, workQueue>>
    BY <1>27 DEF ReaderCancels
  <2>2. SameCallers /\ (Alive' <=> Alive) /\ (Busy' <=> Busy)
    BY <2>1, WorkerStep DEF Alive, Busy
  <2>3. Idle' /\ Booting'
    BY <2>1, <2>2 DEF JobInv, Idle, Booting, SameCallers
  <2>4. OneJob'
    BY <2>1, <2>2 DEF JobInv, OneJob, SameCallers
  <2>5. JobIsCallers'
    BY <2>1, <2>2 DEF JobInv, JobIsCallers, SameCallers
  <2> QED
    BY <2>3, <2>4, <2>5 DEF JobInv
<1>28. CASE MainHello
  <2>1. /\ child = "run" /\ mainPc = "boot" /\ mainPc' = "wait" /\ Alive
        /\ toParent' = Append(toParent, Frame("HELLO", 0, "none"))
        /\ UNCHANGED <<parentVars, toWorker, child, workQueue>>
    BY <1>28 DEF MainHello, MainAt, Alive
  <2>2. InHello /\ ioMutex # NoCaller
    BY <2>1 DEF JobInv, OneJob, Idle
  <2>3. NoWork(toWorker) /\ workQueue = <<>> /\ toParent = <<>>
    BY <2>1, <2>2 DEF JobInv, Booting
  <2>4. Frame("HELLO", 0, "none") \in Frames
    BY FrameType DEF FrameTypes, Payloads
  <2>5. ~Ends(Frame("HELLO", 0, "none"))
    BY DEF Ends, Frame
  <2>6. NoEnd(toParent') /\ toParent' # <<>>
    BY <1>0, <2>1, <2>3, <2>4, <2>5, EmptyKeeps, AppendKeeps
  <2>7. Tail(toParent') = <<>>
    BY <1>0, <2>1, <2>3, <2>4, <2>6, AppendFrames, TailFrames
  <2>8. SameCallers
    BY <2>1, WorkerStep
  <2>9. InHello' /\ ioMutex' # NoCaller /\ \A d \in Callers : ~Waiting(d)'
    BY <1>0, <2>2, <2>8 DEF SameCallers, InHello, Waiting, ControlInv,
       HolderInSession, InSession
  <2> QED
    BY <2>1, <2>3, <2>6, <2>7, <2>9 DEF JobInv, Idle, Booting, OneJob, JobIsCallers
<1>29. CASE MainTakes
  <2>1. /\ child = "run" /\ mainPc = "wait" /\ workQueue # <<>> /\ Alive
        /\ mainReq' = Head(workQueue) /\ workQueue' = Tail(workQueue)
        /\ mainPc' \in {"load", "prepare", "call"}
        /\ UNCHANGED <<parentVars, toWorker, toParent, child>>
    BY <1>29 DEF MainTakes, MainAt, Handler, Alive
  <2>2. ~InHello /\ ioMutex # NoCaller
    BY <2>1 DEF JobInv, Booting, Idle
  <2>3. Tail(workQueue) = <<>> /\ NoWork(toWorker) /\ toParent = <<>>
    BY <2>1, <2>2 DEF JobInv, OneJob
  <2>4. SameCallers
    BY <2>1, WorkerStep
  <2>5. Busy' /\ ~InHello' /\ ioMutex' # NoCaller
    BY <2>1, <2>2, <2>4 DEF Busy, SameCallers
  <2>6. Idle' /\ Booting'
    BY <2>5 DEF Idle, Booting
  <2>7. OneJob'
    BY <2>1, <2>3, <2>5, EmptyKeeps DEF OneJob, NoWork, OneWork
  <2>8. ASSUME NEW d \in Callers, Waiting(d)'
        PROVE  WorkOf(toWorker, req'[d]) /\ mainReq'.id = req'[d]
    <3>1. Waiting(d) /\ req'[d] = req[d]
      BY <2>4, <2>8 DEF SameCallers
    <3>2. WorkOf(toWorker, req[d]) /\ AllOf(workQueue, req[d])
      BY <3>1 DEF JobInv, JobIsCallers
    <3> QED
      BY <1>0, <2>1, <3>1, <3>2, TailKeeps
  <2>9. JobIsCallers'
    BY <2>1, <2>3, <2>8, EmptyKeeps DEF JobIsCallers
  <2> QED
    BY <2>6, <2>7, <2>9 DEF JobInv
<1>30. CASE MainClearsCancel
  <2>1. child = "run" /\ Busy /\ child' = "run" /\ Busy'
    BY <1>30 DEF MainClearsCancel, MainAt, Busy
  <2>2. UNCHANGED <<parentVars, toWorker, toParent, workQueue, mainReq>>
    BY <1>30 DEF MainClearsCancel
  <2> QED
    BY <2>1, <2>2, BusyJob, BusyGoesOn
<1>31. CASE MainPublishes
  <2>1. child = "run" /\ Busy /\ child' = "run" /\ Busy'
    BY <1>31 DEF MainPublishes, MainAt, Busy
  <2>2. UNCHANGED <<parentVars, toWorker, toParent, workQueue, mainReq>>
    BY <1>31 DEF MainPublishes
  <2> QED
    BY <2>1, <2>2, BusyJob, BusyGoesOn
<1>32. CASE MainAudio
  <2>1. child = "run" /\ Busy /\ child' = "run" /\ Busy'
    BY <1>32 DEF MainAudio, MainAt, Busy
  <2>2. UNCHANGED <<parentVars, toWorker, workQueue, mainReq>>
    BY <1>32 DEF MainAudio
  <2>3. Send("AUDIO_FRAME", "none")
    BY <1>32 DEF MainAudio
  <2> QED
    BY <2>1, <2>2, <2>3, SendJob, BusyGoesOn DEF FrameTypes, Payloads
<1>33. ASSUME NEW type \in FrameTypes, Answers(type), child = "run", Busy
       PROVE  JobInv'
  <2>1. child' = "run" /\ mainPc' = "wait" /\ ~Busy'
    BY <1>33 DEF Answers, Busy
  <2>2. PICK ok \in Payloads : Send(type, ok)
    BY <1>33 DEF Answers, Payloads
  <2>3. UNCHANGED <<parentVars, toWorker, workQueue>>
    BY <1>33 DEF Answers
  <2> QED
    BY <1>33, <2>1, <2>2, <2>3, SendJob, BusyEnds
<1>34. CASE MainRejects
  <2>1. child = "run" /\ Busy /\ child' = "run" /\ mainPc' = "wait" /\ ~Busy'
    BY <1>34 DEF MainRejects, MainAt, Busy
  <2>2. Send("SYNTH_ERR", "failed")
    BY <1>34 DEF MainRejects
  <2>3. UNCHANGED <<parentVars, toWorker, workQueue>>
    BY <1>34 DEF MainRejects
  <2> QED
    BY <2>1, <2>2, <2>3, SendJob, BusyEnds DEF FrameTypes, Payloads
<1>35. CASE MainFinishes
  <2>1. child = "run" /\ Busy /\ child' = "run" /\ mainPc' = "unpublish" /\ ~Busy'
    BY <1>35 DEF MainFinishes, MainAt, Busy
  <2>2. PICK type \in FrameTypes, res \in Payloads : Send(type, res)
    BY <1>35 DEF MainFinishes, FrameTypes, Payloads
  <2>3. UNCHANGED <<parentVars, toWorker, workQueue>>
    BY <1>35 DEF MainFinishes
  <2> QED
    BY <2>1, <2>2, <2>3, SendJob, BusyEnds
<1>36. CASE MainOversize
  <2>1. /\ child = "run" /\ Busy /\ child' = "exit" /\ mainPc' = "none" /\ ~Busy'
        /\ UNCHANGED <<parentVars, toWorker, workQueue, toParent>>
    BY <1>36 DEF MainOversize, MainAt, Busy
  <2> QED
    BY <2>1, BusyJob, BusyEnds
<1>37. CASE MainUnpublishes
  <2>1. /\ child = "run" /\ mainPc = "unpublish" /\ mainPc' = "wait"
        /\ UNCHANGED <<parentVars, toWorker, toParent, child, mainReq, workQueue>>
    BY <1>37 DEF MainUnpublishes, MainAt
  <2>2. SameCallers /\ Alive /\ Alive' /\ ~Busy /\ ~Busy'
    BY <2>1, WorkerStep DEF Alive, Busy
  <2>3. ~InHello
    BY <2>1, <2>2 DEF JobInv, Booting
  <2>4. Idle' /\ Booting'
    BY <2>1, <2>2, <2>3 DEF JobInv, Idle, Booting, SameCallers
  <2>5. OneJob'
    BY <2>1, <2>2, <2>3 DEF JobInv, OneJob, SameCallers
  <2>6. JobIsCallers'
    BY <2>1, <2>2 DEF JobInv, JobIsCallers, SameCallers
  <2> QED
    BY <2>4, <2>5, <2>6 DEF JobInv
<1>38. CASE Crash
  <2>1. /\ ~Alive' /\ ~Busy' /\ workQueue' = <<>>
        /\ UNCHANGED <<parentVars, toWorker, toParent>>
    BY <1>38 DEF Crash, WorkerState, Alive, Busy
  <2>2. SameCallers
    BY <2>1, WorkerStep
  <2> QED
    BY <2>1, <2>2, EmptyKeeps
       DEF JobInv, Idle, Booting, OneJob, JobIsCallers, SameCallers
<1>39. CASE UNCHANGED vars
  <2>1. UNCHANGED <<toWorker, toParent, workerVars, ioMutex, loadedOk, pc, req>>
    BY <1>39 DEF vars
  <2>2. InHello' <=> InHello
    BY <2>1 DEF InHello
  <2>3. \A d \in Callers : Waiting(d)' => Waiting(d) /\ req'[d] = req[d]
    BY <2>1 DEF Waiting
  <2> QED
    BY <2>1, <2>2, <2>3, OutsideJob
<1>40. CASE MainLoads \/ MainAnswers
  BY <1>40, <1>33 DEF MainLoads, MainAnswers, MainAt, Busy, FrameTypes
<1> QED
  BY <1>1, <1>2, <1>3, <1>4, <1>5, <1>6, <1>7, <1>8, <1>9,
     <1>10, <1>11, <1>12, <1>13, <1>14, <1>15, <1>16, <1>17, <1>18,
     <1>19, <1>20, <1>21, <1>22, <1>23, <1>24, <1>25, <1>26, <1>27,
     <1>28, <1>29, <1>30, <1>31, <1>32, <1>33, <1>34, <1>35, <1>36,
     <1>37, <1>38, <1>39, <1>40
  DEF Next, Environment, Ensure, Synth, Receive, Reader, Main

-----------------------------------------------------------------------------
(* The theorems.                                                           *)

LEMMA IInvInit == Init => IInv
<1> SUFFICES ASSUME Init PROVE IInv
  OBVIOUS
<1>1. TypeOK
  BY InitType
<1>2. ControlInv
  BY SessionAssumption DEF Init, ControlInv, HolderInSession, WorkerHasPid,
     CallsAreLoaded, Waiting, InSession
<1>3. ~Alive /\ ~Busy /\ \A c \in Callers : ~Waiting(c)
  BY DEF Init, Alive, Busy, Waiting
<1>4. JobInv
  BY <1>3 DEF JobInv, Idle, Booting, OneJob, JobIsCallers
<1> QED
  BY <1>1, <1>2, <1>4 DEF IInv

LEMMA IInvNext == IInv /\ [Next]_vars => IInv'
<1> SUFFICES ASSUME IInv, [Next]_vars PROVE IInv'
  OBVIOUS
<1>1. TypeOK'
  BY NextType DEF IInv
<1>2. ControlInv'
  BY ControlNext DEF IInv
<1>3. JobInv'
  BY <1>1, <1>2, JobNext DEF IInv
<1> QED
  BY <1>1, <1>2, <1>3 DEF IInv

LEMMA IInvAlways == Spec => []IInv
BY IInvInit, IInvNext, PTL DEF Spec

(* No call receives a reply computed for another call, although the parent *)
(* never compares the req_id of a reply frame.                             *)
THEOREM RepliesSafe == Spec => []RepliesBelongToCall
<1>1. IInv => RepliesBelongToCall
  <2> SUFFICES ASSUME IInv, NEW c \in Callers, Waiting(c), NEW i \in DOMAIN toParent
               PROVE  toParent[i].id = req[c]
    BY DEF RepliesBelongToCall
  <2>1. AllOf(toParent, req[c]) /\ toParent \in Seq(Frames)
    BY DEF IInv, JobInv, JobIsCallers, TypeOK
  <2>2. i \in 1..Len(toParent)
    BY <2>1, LenProperties
  <2> QED
    BY <2>1, <2>2 DEF AllOf
<1> QED
  BY <1>1, IInvAlways, PTL

(* Whenever io_mutex_ is free a living worker is loaded, at its command    *)
(* loop, and nothing but late cancels is left in the socket.               *)
THEOREM IdleSafe == Spec => []IdleWorkerIsQuiet
<1>1. IInv => IdleWorkerIsQuiet
  <2> SUFFICES ASSUME IInv, ioMutex = NoCaller, Alive
               PROVE  /\ pid # 0 /\ loadedOk
                      /\ child = "run" /\ mainPc \in {"wait", "unpublish"}
                      /\ toParent = <<>> /\ workQueue = <<>>
                      /\ \A i \in DOMAIN toWorker : toWorker[i].type = "CANCEL_REQ"
    BY DEF IdleWorkerIsQuiet
  <2>1. /\ loadedOk /\ child = "run" /\ mainPc \in {"wait", "unpublish"}
        /\ NoWork(toWorker) /\ workQueue = <<>> /\ toParent = <<>>
    BY DEF IInv, JobInv, Idle
  <2>2. pid # 0
    BY <2>1 DEF IInv, ControlInv, WorkerHasPid
  <2>3. \A i \in DOMAIN toWorker : toWorker[i].type = "CANCEL_REQ"
    <3>1. DOMAIN toWorker = 1..Len(toWorker)
      BY LenProperties DEF IInv, TypeOK
    <3> QED
      BY <2>1, <3>1 DEF NoWork, IsWork
  <2> QED
    BY <2>1, <2>2, <2>3
<1> QED
  BY <1>1, IInvAlways, PTL

-----------------------------------------------------------------------------
(***************************************************************************)
(* Cancels and the abstract service: a cancel cuts the synthesis it was    *)
(* meant for and no other, and the session implements SessionService.      *)
(*                                                                         *)
(* The id comparison in the worker's reader thread is one step and setting *)
(* the flag another, so the comparison alone shows nothing. It rests on an *)
(* order: the watchdog is joined before synth_mutex is released, so a      *)
(* cancel of a request is in the socket before the next SYNTH_REQ is       *)
(* (CancelsInOrder), and the reader, which queues that request, has first  *)
(* set the flag that the request then clears (MatchStands).                *)
(*                                                                         *)
(* For the refinement, what is in the channels is of the kind of the call  *)
(* that waits (JobKind): what the parent skips in a stream is never an     *)
(* answer, and a load is not one either.                                   *)
(***************************************************************************)

\* A synthesis is a matter of the holder of synth_mutex.
SynthHolds ==
  \A c \in Callers :
    pc[c] \in {"ready", "sent", "synth", "done"} => synthMutex = c

\* A worker that is being started is not loaded.
NotLoaded ==
  \A c \in Callers : pc[c] \in {"hello", "loading"} => pid # 0 /\ ~loadedOk

\* The published id, and what a watchdog has read of it.
Published ==
  currentSynthReqId # 0 =>
    \E c \in Callers : pc[c] = "synth" /\ req[c] = currentSynthReqId
Watched ==
  \A c \in Callers :
    watch[c] # 0 => pc[c] \in {"synth", "done"} /\ watch[c] = req[c]

\* Ids are handed out in order: what is on its way has an id from before.
AllBelow(s, n) == \A i \in 1..Len(s) : s[i].id < n
IdsKnown ==
  /\ AllBelow(toWorker, nextReqId) /\ AllBelow(workQueue, nextReqId)
  /\ mainReq.id < nextReqId
  /\ \A c \in Callers : req[c] < nextReqId

\* Who waits for an answer has an id.
HasId == \A c \in Callers : Waiting(c) => req[c] # 0

Placed  == SynthHolds /\ NotLoaded /\ Published /\ Watched /\ HasId
CallInv == Placed /\ IdsKnown

\* What is in the channels and with the main thread is of the kind of the
\* call that waits for it.
Expecting(c) == pc[c] \in {"loading", "sent", "synth", "call"}
JobType(c) == IF pc[c] = "loading" THEN "LOAD_REQ"
              ELSE IF pc[c] = "call" THEN "CALL_REQ" ELSE "SYNTH_REQ"
JobArg(c)  == IF pc[c] \in {"sent", "synth"} THEN mode[c] ELSE "none"
JobMain(c) == IF pc[c] = "loading" THEN {"load"}
              ELSE IF pc[c] = "call" THEN {"call"}
              ELSE {"prepare", "publish", "synth"}
JobReplies(c) == IF pc[c] = "loading" THEN {"LOAD_RESP"}
                 ELSE IF pc[c] = "call" THEN {"CALL_RESP"}
                 ELSE {"AUDIO_FRAME"} \cup SynthEnd(mode[c])

WorkIs(s, type, arg) ==
  \A i \in 1..Len(s) : IsWork(s[i]) => s[i].type = type /\ s[i].arg = arg
QueueIs(s, type, arg) == \A i \in 1..Len(s) : s[i].type = type /\ s[i].arg = arg
AllAmong(s, types) == \A i \in 1..Len(s) : s[i].type \in types

JobKind ==
  \A c \in Callers : Expecting(c) =>
    /\ WorkIs(toWorker, JobType(c), JobArg(c))
    /\ QueueIs(workQueue, JobType(c), JobArg(c))
    /\ Busy => mainPc \in JobMain(c) /\ mainReq.arg = JobArg(c)
    /\ AllAmong(toParent, JobReplies(c))

\* A cancel in the socket behind a SYNTH_REQ is a cancel of that request.
IsSynth(f)  == f.type = "SYNTH_REQ"
IsCancel(f) == f.type = "CANCEL_REQ"
CancelsOf(s, id) == \A i \in 1..Len(s) : IsCancel(s[i]) => s[i].id = id
InOrder(s) ==
  \A i, j \in 1..Len(s) :
    i < j /\ IsSynth(s[i]) /\ IsCancel(s[j]) => s[j].id = s[i].id
CancelsInOrder ==
  /\ InOrder(toWorker)
  /\ \A i \in 1..Len(workQueue) :
       IsSynth(workQueue[i]) => CancelsOf(toWorker, workQueue[i].id)

\* The request the main thread last ran is over before another comes.
NoSynthOf(s, id) == \A i \in 1..Len(s) : IsSynth(s[i]) => s[i].id # id
NewIsOther ==
  mainPc = "unpublish" =>
    NoSynthOf(toWorker, mainReq.id) /\ NoSynthOf(workQueue, mainReq.id)

ActiveIsMain ==
  activeSynthReqId # 0 =>
    mainPc \in {"synth", "unpublish"} /\ mainReq.id = activeSynthReqId

\* Between the comparison and the flag no other synthesis can begin.
NoSynth(s) == \A i \in 1..Len(s) : ~IsSynth(s[i])
MatchStands ==
  readerMatch # 0 =>
    /\ NoSynth(workQueue) /\ mainPc \notin {"prepare", "publish"}
    /\ mainPc = "synth" => mainReq.id = readerMatch

FlagIsOwn ==
  /\ mainPc = "publish" => cancelRequested = 0
  /\ mainPc = "synth" => cancelRequested \in {0, mainReq.id}

CancelInv ==
  CancelsInOrder /\ NewIsOther /\ ActiveIsMain /\ MatchStands /\ FlagIsOwn

SInv == IInv /\ CallInv /\ JobKind /\ CancelInv

-----------------------------------------------------------------------------
(* Channels.                                                               *)

\* What holds of a channel holds when its first frame is taken.
LEMMA TailMore ==
  ASSUME NEW s \in Seq(Frames), s # <<>>, NEW id, NEW n \in Nat, NEW t, NEW a, NEW T
  PROVE  /\ AllBelow(s, n) => AllBelow(Tail(s), n) /\ Head(s).id < n
         /\ WorkIs(s, t, a) => /\ WorkIs(Tail(s), t, a)
                               /\ IsWork(Head(s)) => Head(s).type = t /\ Head(s).arg = a
         /\ QueueIs(s, t, a) => /\ QueueIs(Tail(s), t, a)
                                /\ Head(s).type = t /\ Head(s).arg = a
         /\ AllAmong(s, T) => AllAmong(Tail(s), T) /\ Head(s).type \in T
         /\ CancelsOf(s, id) => /\ CancelsOf(Tail(s), id)
                                /\ IsCancel(Head(s)) => Head(s).id = id
         /\ InOrder(s) => /\ InOrder(Tail(s))
                          /\ IsSynth(Head(s)) => CancelsOf(Tail(s), Head(s).id)
         /\ NoSynthOf(s, id) => /\ NoSynthOf(Tail(s), id)
                                /\ IsSynth(Head(s)) => Head(s).id # id
         /\ NoSynth(s) => NoSynth(Tail(s)) /\ ~IsSynth(Head(s))
<1>1. /\ Head(s) = s[1] /\ Len(s) \in Nat \ {0} /\ Len(Tail(s)) = Len(s) - 1
      /\ \A i \in 1..Len(Tail(s)) : i + 1 \in 1..Len(s) /\ Tail(s)[i] = s[i + 1]
  BY TailFrames
<1>2. 1 \in 1..Len(s)
  BY <1>1
<1>3. AllBelow(s, n) => AllBelow(Tail(s), n) /\ Head(s).id < n
  BY <1>1, <1>2 DEF AllBelow
<1>4. /\ WorkIs(s, t, a) => /\ WorkIs(Tail(s), t, a)
                            /\ IsWork(Head(s)) => Head(s).type = t /\ Head(s).arg = a
      /\ AllAmong(s, T) => AllAmong(Tail(s), T) /\ Head(s).type \in T
      /\ QueueIs(s, t, a) => /\ QueueIs(Tail(s), t, a)
                             /\ Head(s).type = t /\ Head(s).arg = a
  BY <1>1, <1>2 DEF WorkIs, AllAmong, QueueIs
<1>5. CancelsOf(s, id) => /\ CancelsOf(Tail(s), id)
                          /\ IsCancel(Head(s)) => Head(s).id = id
  BY <1>1, <1>2 DEF CancelsOf
<1>6. ASSUME InOrder(s)
      PROVE  /\ InOrder(Tail(s))
             /\ IsSynth(Head(s)) => CancelsOf(Tail(s), Head(s).id)
  <2>1. ASSUME NEW i \in 1..Len(Tail(s)), NEW j \in 1..Len(Tail(s)), i < j,
               IsSynth(Tail(s)[i]), IsCancel(Tail(s)[j])
        PROVE  Tail(s)[j].id = Tail(s)[i].id
    <3>1. /\ i + 1 \in 1..Len(s) /\ j + 1 \in 1..Len(s) /\ i + 1 < j + 1
          /\ Tail(s)[i] = s[i + 1] /\ Tail(s)[j] = s[j + 1]
      BY <1>1, <2>1
    <3> QED
      BY <1>6, <2>1, <3>1, Zenon DEF InOrder
  <2>2. ASSUME IsSynth(Head(s)), NEW j \in 1..Len(Tail(s)), IsCancel(Tail(s)[j])
        PROVE  Tail(s)[j].id = Head(s).id
    <3>1. j + 1 \in 1..Len(s) /\ 1 < j + 1 /\ Tail(s)[j] = s[j + 1] /\ Head(s) = s[1]
      BY <1>1
    <3> QED
      BY <1>2, <1>6, <2>2, <3>1, Zenon DEF InOrder
  <2> QED
    BY <2>1, <2>2, Zenon DEF InOrder, CancelsOf
<1>7. /\ NoSynthOf(s, id) => /\ NoSynthOf(Tail(s), id)
                             /\ IsSynth(Head(s)) => Head(s).id # id
      /\ NoSynth(s) => NoSynth(Tail(s)) /\ ~IsSynth(Head(s))
  BY <1>1, <1>2 DEF NoSynthOf, NoSynth
<1> QED
  BY <1>3, <1>4, <1>5, <1>6, <1>7

\* What holds of a channel and of the frame that is sent holds after.
LEMMA AppendMore ==
  ASSUME NEW s \in Seq(Frames), NEW f \in Frames, NEW id, NEW n \in Nat, NEW t,
         NEW a, NEW T
  PROVE  /\ AllBelow(s, n) /\ f.id < n => AllBelow(Append(s, f), n)
         /\ WorkIs(s, t, a) /\ (IsWork(f) => f.type = t /\ f.arg = a) =>
              WorkIs(Append(s, f), t, a)
         /\ QueueIs(s, t, a) /\ f.type = t /\ f.arg = a => QueueIs(Append(s, f), t, a)
         /\ AllAmong(s, T) /\ f.type \in T => AllAmong(Append(s, f), T)
         /\ CancelsOf(s, id) /\ (IsCancel(f) => f.id = id) => CancelsOf(Append(s, f), id)
         /\ InOrder(s) /\ (IsCancel(f) => \A i \in 1..Len(s) : IsSynth(s[i]) => s[i].id = f.id)
              => InOrder(Append(s, f))
         /\ NoSynthOf(s, id) /\ (IsSynth(f) => f.id # id) => NoSynthOf(Append(s, f), id)
         /\ NoSynth(s) /\ ~IsSynth(f) => NoSynth(Append(s, f))
<1>1. /\ Len(s) \in Nat /\ Len(Append(s, f)) = Len(s) + 1
      /\ Append(s, f)[Len(s) + 1] = f
      /\ \A i \in 1..Len(s) : Append(s, f)[i] = s[i]
  BY AppendFrames
<1>2. \A i \in 1..Len(Append(s, f)) : i \in 1..Len(s) \/ i = Len(s) + 1
  BY <1>1
<1>3. AllBelow(s, n) /\ f.id < n => AllBelow(Append(s, f), n)
  BY <1>1, <1>2 DEF AllBelow
<1>4. /\ WorkIs(s, t, a) /\ (IsWork(f) => f.type = t /\ f.arg = a) =>
           WorkIs(Append(s, f), t, a)
      /\ AllAmong(s, T) /\ f.type \in T => AllAmong(Append(s, f), T)
      /\ QueueIs(s, t, a) /\ f.type = t /\ f.arg = a => QueueIs(Append(s, f), t, a)
  BY <1>1, <1>2 DEF WorkIs, AllAmong, QueueIs
<1>5. CancelsOf(s, id) /\ (IsCancel(f) => f.id = id) => CancelsOf(Append(s, f), id)
  BY <1>1, <1>2 DEF CancelsOf
<1>6. ASSUME InOrder(s),
             IsCancel(f) => \A i \in 1..Len(s) : IsSynth(s[i]) => s[i].id = f.id
      PROVE  InOrder(Append(s, f))
  <2> DEFINE S == Append(s, f)
  <2>1. ASSUME NEW i \in 1..Len(S), NEW j \in 1..Len(S), i < j, IsSynth(S[i]), IsCancel(S[j])
        PROVE  S[j].id = S[i].id
    <3>1. i \in 1..Len(s) /\ S[i] = s[i]
      BY <1>1, <2>1
    <3>2. CASE j \in 1..Len(s)
      <4>1. S[j] = s[j]
        BY <1>1, <3>2
      <4> QED
        BY <1>6, <2>1, <3>1, <3>2, <4>1, Zenon DEF InOrder
    <3>3. CASE j = Len(s) + 1
      <4>1. S[j] = f
        BY <1>1, <3>3
      <4> QED
        BY <1>6, <2>1, <3>1, <4>1, Zenon
    <3> QED
      BY <1>2, <3>2, <3>3
  <2> QED
    BY <2>1, Zenon DEF InOrder
<1>7. /\ NoSynthOf(s, id) /\ (IsSynth(f) => f.id # id) => NoSynthOf(Append(s, f), id)
      /\ NoSynth(s) /\ ~IsSynth(f) => NoSynth(Append(s, f))
  BY <1>1, <1>2 DEF NoSynthOf, NoSynth
<1> QED
  BY <1>3, <1>4, <1>5, <1>6, <1>7

\* An empty channel, and one without work.
LEMMA EmptyMore ==
  ASSUME NEW id, NEW n, NEW t, NEW a, NEW T
  PROVE  /\ AllBelow(<<>>, n) /\ WorkIs(<<>>, t, a) /\ QueueIs(<<>>, t, a)
         /\ AllAmong(<<>>, T) /\ CancelsOf(<<>>, id) /\ InOrder(<<>>) /\ NoSynthOf(<<>>, id) /\ NoSynth(<<>>)
BY EmptySeq DEF AllBelow, WorkIs, QueueIs, AllAmong, CancelsOf, InOrder, NoSynthOf, NoSynth

LEMMA NoWorkMore ==
  ASSUME NEW s, NoWork(s), NEW id, NEW t, NEW a
  PROVE  WorkIs(s, t, a) /\ NoSynthOf(s, id) /\ NoSynth(s)
BY DEF NoWork, WorkIs, NoSynthOf, NoSynth, IsSynth, IsWork

\* Ids grow.
LEMMA BelowMore ==
  ASSUME NEW s \in Seq(Frames), NEW n \in Nat, AllBelow(s, n)
  PROVE  AllBelow(s, n + 1)
<1> SUFFICES ASSUME NEW i \in 1..Len(s) PROVE s[i].id < n + 1
  BY DEF AllBelow
<1>1. s[i] \in Frames /\ s[i].id < n
  BY ElementOfSeq DEF AllBelow
<1>2. s[i].id \in Nat
  BY <1>1, FrameFields
<1> QED
  BY <1>1, <1>2

-----------------------------------------------------------------------------
(* Callers.                                                                *)

\* Where callers are, what is published and what watchdogs have read.
LEMMA PlacesNext ==
  ASSUME TypeOK, ControlInv, Placed, [Next]_vars
  PROVE  Placed'
<1> USE SessionAssumption DEF Placed, SynthHolds, NotLoaded, Published,
   Watched, HasId, ControlInv, HolderInSession, WorkerHasPid, CallsAreLoaded,
   Waiting, InSession, sessionVars, callerVars, workerVars, parentVars
<1> /\ pc \in [Callers -> PcLabels] /\ spawned \in Nat
    /\ req \in [Callers -> 0..MaxReq] /\ watch \in [Callers -> 0..MaxReq]
    /\ nextReqId \in 1..(MaxReq + 1) /\ currentSynthReqId \in 0..MaxReq
  BY DEF TypeOK
<1>1. ASSUME NEW c \in Callers, BeginSynth(c) PROVE Placed'
  BY <1>1 DEF BeginSynth, Goto
<1>2. ASSUME NEW c \in Callers, BeginRegister(c) PROVE Placed'
  BY <1>2 DEF BeginRegister, Goto
<1>3. ASSUME NEW c \in Callers, EndRequest(c) PROVE Placed'
  BY <1>3 DEF EndRequest, Goto
<1>4. ASSUME NEW c \in Callers, Shutdown(c) PROVE Placed'
  BY <1>4 DEF Shutdown, KillWorker, WorkerState
<1>5. ASSUME NEW c \in Callers, EnsureFast(c) PROVE Placed'
  BY <1>5 DEF EnsureFast, AfterEnsure, Goto
<1>6. ASSUME NEW c \in Callers, EnsureSpawn(c) PROVE Placed'
  BY <1>6 DEF EnsureSpawn, WorkerState, Goto
<1>7. ASSUME NEW c \in Callers, EnsureSpawnFails(c) PROVE Placed'
  BY <1>7 DEF EnsureSpawnFails, KillWorker, WorkerState, AfterEnsure, Goto
<1>8. ASSUME NEW c \in Callers, RecvHello(c) PROVE Placed'
  BY <1>8 DEF RecvHello, Goto
<1>9. ASSUME NEW c \in Callers, RecvHelloFails(c) PROVE Placed'
  BY <1>9 DEF RecvHelloFails, EnsureFailed, Return, AfterEnsure, Goto,
     KillWorker, WorkerState
<1>10. ASSUME NEW c \in Callers, RecvLoadResp(c) PROVE Placed'
  BY <1>10 DEF RecvLoadResp, Return, AfterEnsure, Goto
<1>11. ASSUME NEW c \in Callers, RecvLoadRespFails(c) PROVE Placed'
  BY <1>11 DEF RecvLoadRespFails, EnsureFailed, Return, AfterEnsure, Goto,
     KillWorker, WorkerState
<1>12. ASSUME NEW c \in Callers, SendSynth(c) PROVE Placed'
  BY <1>12 DEF SendSynth, TakesReqId, Ready, Goto
<1>13. ASSUME NEW c \in Callers, SendSynthFails(c) PROVE Placed'
  BY <1>13 DEF SendSynthFails, TakesReqId, Ready, Goto, KillWorker, WorkerState
<1>14. ASSUME NEW c \in Callers, SynthNotReady(c) PROVE Placed'
  BY <1>14 DEF SynthNotReady, Goto
<1>15. ASSUME NEW c \in Callers, PublishSynth(c) PROVE Placed'
  BY <1>15 DEF PublishSynth, Goto
<1>16. ASSUME NEW c \in Callers, RecvAudio(c) PROVE Placed'
  BY <1>16 DEF RecvAudio
<1>17. ASSUME NEW c \in Callers, RecvSynthEnd(c) PROVE Placed'
  BY <1>17 DEF RecvSynthEnd, SynthReturns, Return, Goto
<1>18. ASSUME NEW c \in Callers, RecvSynthFails(c) PROVE Placed'
  BY <1>18 DEF RecvSynthFails, SynthReturns, Return, Goto, KillWorker,
     WorkerState
<1>19. ASSUME NEW c \in Callers, SendCall(c) PROVE Placed'
  BY <1>19 DEF SendCall, TakesReqId, Ready, Goto
<1>20. ASSUME NEW c \in Callers, SendCallFails(c) PROVE Placed'
  BY <1>20 DEF SendCallFails, TakesReqId, Ready, KillWorker, WorkerState
<1>21. ASSUME NEW c \in Callers, RecvCall(c) PROVE Placed'
  BY <1>21 DEF RecvCall, Return, Goto
<1>22. ASSUME NEW c \in Callers, RecvCallFails(c) PROVE Placed'
  BY <1>22 DEF RecvCallFails, Return, Goto, KillWorker, WorkerState
<1>23. ASSUME NEW c \in Callers, DispatchCancel(c) PROVE Placed'
  BY <1>23 DEF DispatchCancel
<1>24. ASSUME NEW c \in Callers, SendCancel(c) PROVE Placed'
  BY <1>24 DEF SendCancel
<1>25. CASE ReaderQueues
  BY <1>25 DEF ReaderQueues
<1>26. CASE ReaderMatches
  BY <1>26 DEF ReaderMatches
<1>27. CASE ReaderCancels
  BY <1>27 DEF ReaderCancels
<1>28. CASE MainHello
  BY <1>28 DEF MainHello, MainAt
<1>29. CASE MainTakes
  BY <1>29 DEF MainTakes, MainAt, Handler
<1>30. CASE MainLoads
  BY <1>30 DEF MainLoads, MainAt, Answers
<1>31. CASE MainAnswers
  BY <1>31 DEF MainAnswers, MainAt, Answers
<1>32. CASE MainRejects
  BY <1>32 DEF MainRejects, MainAt
<1>33. CASE MainClearsCancel
  BY <1>33 DEF MainClearsCancel, MainAt
<1>34. CASE MainPublishes
  BY <1>34 DEF MainPublishes, MainAt
<1>35. CASE MainAudio
  BY <1>35 DEF MainAudio, MainAt
<1>36. CASE MainFinishes
  BY <1>36 DEF MainFinishes, MainAt
<1>37. CASE MainOversize
  BY <1>37 DEF MainOversize, MainAt
<1>38. CASE MainUnpublishes
  BY <1>38 DEF MainUnpublishes, MainAt
<1>39. CASE Crash
  BY <1>39 DEF Crash, WorkerState
<1>40. CASE UNCHANGED vars
  BY <1>40 DEF vars
<1> QED
  BY <1>1, <1>2, <1>3, <1>4, <1>5, <1>6, <1>7, <1>8, <1>9, <1>10, <1>11, <1>12,
     <1>13, <1>14, <1>15, <1>16, <1>17, <1>18, <1>19, <1>20, <1>21, <1>22,
     <1>23, <1>24, <1>25, <1>26, <1>27, <1>28, <1>29, <1>30, <1>31, <1>32,
     <1>33, <1>34, <1>35, <1>36, <1>37, <1>38, <1>39, <1>40 DEF Next,
     Environment, Ensure, Synth, Receive, Reader, Main

-----------------------------------------------------------------------------
(* Request ids.                                                            *)

\* A killed worker leaves no ids behind.
LEMMA KillIds ==
  ASSUME TypeOK, IdsKnown, KillWorker, nextReqId' \in {nextReqId, nextReqId + 1},
         \A c \in Callers : req'[c] \in {0, req[c]}
  PROVE  IdsKnown'
<1>1. /\ toWorker' = <<>> /\ workQueue' = <<>> /\ mainReq'.id = 0
  BY DEF KillWorker, WorkerState, NoFrame, Frame
<1>2. AllBelow(toWorker', nextReqId') /\ AllBelow(workQueue', nextReqId')
  BY <1>1, EmptyMore
<1>3. nextReqId \in Nat /\ nextReqId > 0 /\ \A c \in Callers : req[c] \in Nat
  BY DEF TypeOK
<1>4. mainReq'.id < nextReqId' /\ \A c \in Callers : req'[c] < nextReqId'
  BY <1>1, <1>3 DEF IdsKnown
<1> QED
  BY <1>2, <1>4, Zenon DEF IdsKnown

\* What is on its way stays, or is gone.
LEMMA IdsSame ==
  ASSUME TypeOK, IdsKnown,
         toWorker' \in {toWorker, <<>>}, workQueue' \in {workQueue, <<>>},
         mainReq' = mainReq \/ mainReq'.id = 0, UNCHANGED nextReqId,
         \A c \in Callers : req'[c] \in {0, req[c]}
  PROVE  IdsKnown'
<1>1. nextReqId \in Nat \ {0}
  BY DEF TypeOK
<1>2. AllBelow(toWorker', nextReqId')
  BY EmptyMore DEF IdsKnown
<1>3. AllBelow(workQueue', nextReqId')
  BY EmptyMore DEF IdsKnown
<1>4. mainReq'.id < nextReqId'
  BY <1>1 DEF IdsKnown
<1>5. \A c \in Callers : req'[c] < nextReqId'
  BY <1>1 DEF IdsKnown
<1> QED
  BY <1>2, <1>3, <1>4, <1>5, Zenon DEF IdsKnown

\* Ids are known, and only grow.
LEMMA IdsNext ==
  ASSUME TypeOK, Watched, IdsKnown, [Next]_vars
  PROVE  IdsKnown'
<1> USE SessionAssumption DEF sessionVars, callerVars, workerVars, parentVars
<1> /\ toWorker \in Seq(Frames) /\ workQueue \in Seq(Frames)
    /\ mode \in [Callers -> {"stream", "whole"}]
    /\ req \in [Callers -> 0..MaxReq] /\ watch \in [Callers -> 0..MaxReq]
    /\ nextReqId \in Nat \ {0} /\ mainReq.id \in Nat
  BY FrameFields DEF TypeOK
<1>1. ASSUME NEW c \in Callers, BeginSynth(c) PROVE IdsKnown'
  <2>1. /\ UNCHANGED <<toWorker, workQueue, mainReq, nextReqId>>
        /\ \A d \in Callers : req'[d] \in {0, req[d]}
    BY <1>1 DEF BeginSynth, Goto
  <2> QED
    BY <2>1, IdsSame
<1>2. ASSUME NEW c \in Callers, BeginRegister(c) PROVE IdsKnown'
  <2>1. /\ UNCHANGED <<toWorker, workQueue, mainReq, nextReqId>>
        /\ \A d \in Callers : req'[d] \in {0, req[d]}
    BY <1>2 DEF BeginRegister, Goto
  <2> QED
    BY <2>1, IdsSame
<1>3. ASSUME NEW c \in Callers, EndRequest(c) PROVE IdsKnown'
  <2>1. /\ UNCHANGED <<toWorker, workQueue, mainReq, nextReqId>>
        /\ \A d \in Callers : req'[d] \in {0, req[d]}
    BY <1>3 DEF EndRequest, Goto
  <2> QED
    BY <2>1, IdsSame
<1>4. ASSUME NEW c \in Callers, Shutdown(c) PROVE IdsKnown'
  <2>1. KillWorker
    BY <1>4 DEF Shutdown
  <2>2. nextReqId' \in {nextReqId, nextReqId + 1}
    BY <1>4 DEF Shutdown, callerVars
  <2>3. \A d \in Callers : req'[d] \in {0, req[d]}
    BY <1>4 DEF Shutdown, callerVars
  <2> QED
    BY <2>1, <2>2, <2>3, KillIds
<1>5. ASSUME NEW c \in Callers, EnsureFast(c) PROVE IdsKnown'
  <2>1. /\ UNCHANGED <<toWorker, workQueue, mainReq, nextReqId>>
        /\ \A d \in Callers : req'[d] \in {0, req[d]}
    BY <1>5 DEF EnsureFast, AfterEnsure, Goto
  <2> QED
    BY <2>1, IdsSame
<1>6. ASSUME NEW c \in Callers, EnsureSpawn(c) PROVE IdsKnown'
  <2>1. /\ toWorker' = <<>> /\ workQueue' = <<>> /\ mainReq'.id = 0
        /\ UNCHANGED <<nextReqId, req>>
    BY <1>6 DEF EnsureSpawn, WorkerState, NoFrame, Frame
  <2> QED
    BY <2>1, IdsSame
<1>7. ASSUME NEW c \in Callers, EnsureSpawnFails(c) PROVE IdsKnown'
  <2>1. KillWorker
    BY <1>7 DEF EnsureSpawnFails
  <2>2. nextReqId' \in {nextReqId, nextReqId + 1}
    BY <1>7 DEF EnsureSpawnFails
  <2>3. \A d \in Callers : req'[d] \in {0, req[d]}
    BY <1>7 DEF EnsureSpawnFails
  <2> QED
    BY <2>1, <2>2, <2>3, KillIds
<1>8. ASSUME NEW c \in Callers, RecvHello(c) PROVE IdsKnown'
  <2> DEFINE f == Frame("LOAD_REQ", 0, "none")
  <2>1. /\ toWorker' = Append(toWorker, f)
        /\ UNCHANGED <<workQueue, mainReq, req, nextReqId>>
    BY <1>8 DEF RecvHello
  <2>2. f \in Frames /\ f.id = 0 /\ f.id < nextReqId
    <3>1. "LOAD_REQ" \in FrameTypes /\ 0 \in 0..MaxReq /\ "none" \in Payloads
      BY DEF FrameTypes, Payloads
    <3> QED
      BY <3>1, FrameType DEF Frame
  <2>3. AllBelow(toWorker', nextReqId)
    BY <2>1, <2>2, AppendMore DEF IdsKnown
  <2>4. AllBelow(workQueue', nextReqId')
    BY <2>1 DEF IdsKnown
  <2>5. mainReq'.id < nextReqId' /\ \A d \in Callers : req'[d] < nextReqId'
    BY <2>1 DEF IdsKnown
  <2> QED
    BY <2>1, <2>3, <2>4, <2>5, Zenon DEF IdsKnown
<1>9. ASSUME NEW c \in Callers, RecvHelloFails(c) PROVE IdsKnown'
  <2>1. KillWorker
    BY <1>9 DEF RecvHelloFails, EnsureFailed
  <2>2. nextReqId' \in {nextReqId, nextReqId + 1}
    BY <1>9 DEF RecvHelloFails, EnsureFailed
  <2>3. \A d \in Callers : req'[d] \in {0, req[d]}
    BY <1>9 DEF RecvHelloFails, EnsureFailed
  <2> QED
    BY <2>1, <2>2, <2>3, KillIds
<1>10. ASSUME NEW c \in Callers, RecvLoadResp(c) PROVE IdsKnown'
  <2>1. /\ UNCHANGED <<toWorker, workQueue, mainReq, nextReqId>>
        /\ \A d \in Callers : req'[d] \in {0, req[d]}
    BY <1>10 DEF RecvLoadResp, Return, AfterEnsure, Goto
  <2> QED
    BY <2>1, IdsSame
<1>11. ASSUME NEW c \in Callers, RecvLoadRespFails(c) PROVE IdsKnown'
  <2>1. KillWorker
    BY <1>11 DEF RecvLoadRespFails, EnsureFailed
  <2>2. nextReqId' \in {nextReqId, nextReqId + 1}
    BY <1>11 DEF RecvLoadRespFails, EnsureFailed
  <2>3. \A d \in Callers : req'[d] \in {0, req[d]}
    BY <1>11 DEF RecvLoadRespFails, EnsureFailed
  <2> QED
    BY <2>1, <2>2, <2>3, KillIds
<1>12. ASSUME NEW c \in Callers, SendSynth(c) PROVE IdsKnown'
  <2> DEFINE f == Frame("SYNTH_REQ", nextReqId, mode[c])
  <2>1. /\ toWorker' = Append(toWorker, f)
        /\ UNCHANGED <<workQueue, mainReq>>
        /\ nextReqId' = nextReqId + 1 /\ nextReqId \in 0..MaxReq
        /\ req' = [req EXCEPT ![c] = nextReqId]
    BY <1>12 DEF SendSynth, TakesReqId
  <2>2. f \in Frames /\ f.id = nextReqId
    BY <2>1, FrameType DEF Frame, FrameTypes, Payloads
  <2>3. AllBelow(toWorker, nextReqId') /\ AllBelow(workQueue', nextReqId')
    BY <2>1, BelowMore DEF IdsKnown
  <2>4. f.id < nextReqId'
    BY <2>1, <2>2
  <2>7. nextReqId' \in Nat
    BY <2>1
  <2>5. AllBelow(toWorker', nextReqId')
    BY <2>1, <2>2, <2>3, <2>4, <2>7, AppendMore
  <2>6. mainReq'.id < nextReqId' /\ \A d \in Callers : req'[d] < nextReqId'
    BY <2>1 DEF IdsKnown
  <2> QED
    BY <2>3, <2>5, <2>6, Zenon DEF IdsKnown
<1>13. ASSUME NEW c \in Callers, SendSynthFails(c) PROVE IdsKnown'
  <2>1. KillWorker
    BY <1>13 DEF SendSynthFails
  <2>2. nextReqId' \in {nextReqId, nextReqId + 1}
    BY <1>13 DEF SendSynthFails, TakesReqId
  <2>3. \A d \in Callers : req'[d] \in {0, req[d]}
    BY <1>13 DEF SendSynthFails, TakesReqId
  <2> QED
    BY <2>1, <2>2, <2>3, KillIds
<1>14. ASSUME NEW c \in Callers, SynthNotReady(c) PROVE IdsKnown'
  <2>1. /\ UNCHANGED <<toWorker, workQueue, mainReq, nextReqId>>
        /\ \A d \in Callers : req'[d] \in {0, req[d]}
    BY <1>14 DEF SynthNotReady, Goto
  <2> QED
    BY <2>1, IdsSame
<1>15. ASSUME NEW c \in Callers, PublishSynth(c) PROVE IdsKnown'
  <2>1. /\ UNCHANGED <<toWorker, workQueue, mainReq, nextReqId>>
        /\ \A d \in Callers : req'[d] \in {0, req[d]}
    BY <1>15 DEF PublishSynth, Goto
  <2> QED
    BY <2>1, IdsSame
<1>16. ASSUME NEW c \in Callers, RecvAudio(c) PROVE IdsKnown'
  <2>1. /\ UNCHANGED <<toWorker, workQueue, mainReq, nextReqId>>
        /\ \A d \in Callers : req'[d] \in {0, req[d]}
    BY <1>16 DEF RecvAudio
  <2> QED
    BY <2>1, IdsSame
<1>17. ASSUME NEW c \in Callers, RecvSynthEnd(c) PROVE IdsKnown'
  <2>1. /\ UNCHANGED <<toWorker, workQueue, mainReq, nextReqId>>
        /\ \A d \in Callers : req'[d] \in {0, req[d]}
    BY <1>17 DEF RecvSynthEnd, SynthReturns, Return, Goto
  <2> QED
    BY <2>1, IdsSame
<1>18. ASSUME NEW c \in Callers, RecvSynthFails(c) PROVE IdsKnown'
  <2>1. KillWorker
    BY <1>18 DEF RecvSynthFails
  <2>2. nextReqId' \in {nextReqId, nextReqId + 1}
    BY <1>18 DEF RecvSynthFails
  <2>3. \A d \in Callers : req'[d] \in {0, req[d]}
    BY <1>18 DEF RecvSynthFails
  <2> QED
    BY <2>1, <2>2, <2>3, KillIds
<1>19. ASSUME NEW c \in Callers, SendCall(c) PROVE IdsKnown'
  <2> DEFINE f == Frame("CALL_REQ", nextReqId, "none")
  <2>1. /\ toWorker' = Append(toWorker, f)
        /\ UNCHANGED <<workQueue, mainReq>>
        /\ nextReqId' = nextReqId + 1 /\ nextReqId \in 0..MaxReq
        /\ req' = [req EXCEPT ![c] = nextReqId]
    BY <1>19 DEF SendCall, TakesReqId
  <2>2. f \in Frames /\ f.id = nextReqId
    BY <2>1, FrameType DEF Frame, FrameTypes, Payloads
  <2>3. AllBelow(toWorker, nextReqId') /\ AllBelow(workQueue', nextReqId')
    BY <2>1, BelowMore DEF IdsKnown
  <2>4. f.id < nextReqId'
    BY <2>1, <2>2
  <2>7. nextReqId' \in Nat
    BY <2>1
  <2>5. AllBelow(toWorker', nextReqId')
    BY <2>1, <2>2, <2>3, <2>4, <2>7, AppendMore
  <2>6. mainReq'.id < nextReqId' /\ \A d \in Callers : req'[d] < nextReqId'
    BY <2>1 DEF IdsKnown
  <2> QED
    BY <2>3, <2>5, <2>6, Zenon DEF IdsKnown
<1>20. ASSUME NEW c \in Callers, SendCallFails(c) PROVE IdsKnown'
  <2>1. KillWorker
    BY <1>20 DEF SendCallFails
  <2>2. nextReqId' \in {nextReqId, nextReqId + 1}
    BY <1>20 DEF SendCallFails, TakesReqId, callerVars
  <2>3. \A d \in Callers : req'[d] \in {0, req[d]}
    BY <1>20 DEF SendCallFails, TakesReqId, callerVars
  <2> QED
    BY <2>1, <2>2, <2>3, KillIds
<1>21. ASSUME NEW c \in Callers, RecvCall(c) PROVE IdsKnown'
  <2>1. /\ UNCHANGED <<toWorker, workQueue, mainReq, nextReqId>>
        /\ \A d \in Callers : req'[d] \in {0, req[d]}
    BY <1>21 DEF RecvCall, Return, Goto
  <2> QED
    BY <2>1, IdsSame
<1>22. ASSUME NEW c \in Callers, RecvCallFails(c) PROVE IdsKnown'
  <2>1. KillWorker
    BY <1>22 DEF RecvCallFails
  <2>2. nextReqId' \in {nextReqId, nextReqId + 1}
    BY <1>22 DEF RecvCallFails
  <2>3. \A d \in Callers : req'[d] \in {0, req[d]}
    BY <1>22 DEF RecvCallFails
  <2> QED
    BY <2>1, <2>2, <2>3, KillIds
<1>23. ASSUME NEW c \in Callers, DispatchCancel(c) PROVE IdsKnown'
  <2>1. /\ UNCHANGED <<toWorker, workQueue, mainReq, nextReqId>>
        /\ \A d \in Callers : req'[d] \in {0, req[d]}
    BY <1>23 DEF DispatchCancel
  <2> QED
    BY <2>1, IdsSame
<1>24. ASSUME NEW c \in Callers, SendCancel(c) PROVE IdsKnown'
  <2> DEFINE f == Frame("CANCEL_REQ", watch[c], "none")
  <2>1. /\ toWorker' \in {toWorker, Append(toWorker, f)}
        /\ UNCHANGED <<workQueue, mainReq, req, nextReqId>>
    BY <1>24 DEF SendCancel
  <2>2. f \in Frames /\ f.id = watch[c]
    BY FrameType DEF Frame, FrameTypes, Payloads
  <2>3. f.id < nextReqId
    BY <1>24, <2>2 DEF SendCancel, Watched, IdsKnown
  <2>4. AllBelow(toWorker', nextReqId)
    BY <2>1, <2>2, <2>3, AppendMore DEF IdsKnown
  <2>5. AllBelow(workQueue', nextReqId')
    BY <2>1 DEF IdsKnown
  <2>6. mainReq'.id < nextReqId' /\ \A d \in Callers : req'[d] < nextReqId'
    BY <2>1 DEF IdsKnown
  <2> QED
    BY <2>1, <2>4, <2>5, <2>6, Zenon DEF IdsKnown
<1>25. CASE ReaderQueues
  <2>1. /\ toWorker' = Tail(toWorker) /\ toWorker # <<>>
        /\ workQueue' = Append(workQueue, Head(toWorker))
        /\ UNCHANGED <<mainReq, req, nextReqId>>
    BY <1>25 DEF ReaderQueues
  <2>2. Head(toWorker) \in Frames
    BY <2>1, TailFrames
  <2>3. AllBelow(Tail(toWorker), nextReqId) /\ Head(toWorker).id < nextReqId
    BY <2>1, TailMore DEF IdsKnown
  <2>4. AllBelow(workQueue', nextReqId)
    BY <2>1, <2>2, <2>3, AppendMore DEF IdsKnown
  <2>5. mainReq'.id < nextReqId' /\ \A d \in Callers : req'[d] < nextReqId'
    BY <2>1 DEF IdsKnown
  <2> QED
    BY <2>1, <2>3, <2>4, <2>5, Zenon DEF IdsKnown
<1>26. CASE ReaderMatches
  <2>1. /\ toWorker' = Tail(toWorker) /\ toWorker # <<>>
        /\ UNCHANGED <<workQueue, mainReq, req, nextReqId>>
    BY <1>26 DEF ReaderMatches
  <2>2. AllBelow(toWorker', nextReqId')
    BY <2>1, TailMore DEF IdsKnown
  <2>3. AllBelow(workQueue', nextReqId')
    BY <2>1 DEF IdsKnown
  <2>4. mainReq'.id < nextReqId' /\ \A d \in Callers : req'[d] < nextReqId'
    BY <2>1 DEF IdsKnown
  <2> QED
    BY <2>2, <2>3, <2>4, Zenon DEF IdsKnown
<1>27. CASE ReaderCancels
  <2>1. /\ UNCHANGED <<toWorker, workQueue, mainReq, nextReqId>>
        /\ \A d \in Callers : req'[d] \in {0, req[d]}
    BY <1>27 DEF ReaderCancels
  <2> QED
    BY <2>1, IdsSame
<1>28. CASE MainHello
  <2>1. /\ UNCHANGED <<toWorker, workQueue, mainReq, nextReqId>>
        /\ \A d \in Callers : req'[d] \in {0, req[d]}
    BY <1>28 DEF MainHello, MainAt
  <2> QED
    BY <2>1, IdsSame
<1>29. CASE MainTakes
  <2>1. /\ workQueue' = Tail(workQueue) /\ workQueue # <<>>
        /\ mainReq' = Head(workQueue)
        /\ UNCHANGED <<toWorker, req, nextReqId>>
    BY <1>29 DEF MainTakes
  <2>2. AllBelow(workQueue', nextReqId') /\ mainReq'.id < nextReqId'
    BY <2>1, TailMore DEF IdsKnown
  <2>3. AllBelow(toWorker', nextReqId')
    BY <2>1 DEF IdsKnown
  <2>4. \A d \in Callers : req'[d] < nextReqId'
    BY <2>1 DEF IdsKnown
  <2> QED
    BY <2>2, <2>3, <2>4, Zenon DEF IdsKnown
<1>30. CASE MainLoads
  <2>1. /\ UNCHANGED <<toWorker, workQueue, mainReq, nextReqId>>
        /\ \A d \in Callers : req'[d] \in {0, req[d]}
    BY <1>30 DEF MainLoads, MainAt, Answers
  <2> QED
    BY <2>1, IdsSame
<1>31. CASE MainAnswers
  <2>1. /\ UNCHANGED <<toWorker, workQueue, mainReq, nextReqId>>
        /\ \A d \in Callers : req'[d] \in {0, req[d]}
    BY <1>31 DEF MainAnswers, MainAt, Answers
  <2> QED
    BY <2>1, IdsSame
<1>32. CASE MainRejects
  <2>1. /\ UNCHANGED <<toWorker, workQueue, mainReq, nextReqId>>
        /\ \A d \in Callers : req'[d] \in {0, req[d]}
    BY <1>32 DEF MainRejects, MainAt
  <2> QED
    BY <2>1, IdsSame
<1>33. CASE MainClearsCancel
  <2>1. /\ UNCHANGED <<toWorker, workQueue, mainReq, nextReqId>>
        /\ \A d \in Callers : req'[d] \in {0, req[d]}
    BY <1>33 DEF MainClearsCancel, MainAt
  <2> QED
    BY <2>1, IdsSame
<1>34. CASE MainPublishes
  <2>1. /\ UNCHANGED <<toWorker, workQueue, mainReq, nextReqId>>
        /\ \A d \in Callers : req'[d] \in {0, req[d]}
    BY <1>34 DEF MainPublishes, MainAt
  <2> QED
    BY <2>1, IdsSame
<1>35. CASE MainAudio
  <2>1. /\ UNCHANGED <<toWorker, workQueue, mainReq, nextReqId>>
        /\ \A d \in Callers : req'[d] \in {0, req[d]}
    BY <1>35 DEF MainAudio, MainAt
  <2> QED
    BY <2>1, IdsSame
<1>36. CASE MainFinishes
  <2>1. /\ UNCHANGED <<toWorker, workQueue, mainReq, nextReqId>>
        /\ \A d \in Callers : req'[d] \in {0, req[d]}
    BY <1>36 DEF MainFinishes, MainAt
  <2> QED
    BY <2>1, IdsSame
<1>37. CASE MainOversize
  <2>1. /\ UNCHANGED <<toWorker, workQueue, mainReq, nextReqId>>
        /\ \A d \in Callers : req'[d] \in {0, req[d]}
    BY <1>37 DEF MainOversize, MainAt
  <2> QED
    BY <2>1, IdsSame
<1>38. CASE MainUnpublishes
  <2>1. /\ UNCHANGED <<toWorker, workQueue, mainReq, nextReqId>>
        /\ \A d \in Callers : req'[d] \in {0, req[d]}
    BY <1>38 DEF MainUnpublishes, MainAt
  <2> QED
    BY <2>1, IdsSame
<1>39. CASE Crash
  <2>1. /\ workQueue' = <<>> /\ mainReq'.id = 0
        /\ UNCHANGED <<toWorker, req, nextReqId>>
    BY <1>39 DEF Crash, WorkerState, NoFrame, Frame
  <2> QED
    BY <2>1, IdsSame
<1>40. CASE UNCHANGED vars
  BY <1>40, IdsSame DEF vars
<1> QED
  BY <1>1, <1>2, <1>3, <1>4, <1>5, <1>6, <1>7, <1>8, <1>9, <1>10, <1>11, <1>12,
     <1>13, <1>14, <1>15, <1>16, <1>17, <1>18, <1>19, <1>20, <1>21, <1>22,
     <1>23, <1>24, <1>25, <1>26, <1>27, <1>28, <1>29, <1>30, <1>31, <1>32,
     <1>33, <1>34, <1>35, <1>36, <1>37, <1>38, <1>39, <1>40 DEF Next,
     Environment, Ensure, Synth, Receive, Reader, Main

-----------------------------------------------------------------------------
(* The kind of the unfinished work.                                        *)

\* A killed or a new worker has nothing of any kind.
LEMMA EmptyKind ==
  ASSUME toWorker' = <<>>, toParent' = <<>>, workQueue' = <<>>, ~Busy'
  PROVE  JobKind'
<1> SUFFICES ASSUME NEW d \in Callers
             PROVE  /\ WorkIs(toWorker', JobType(d)', JobArg(d)')
                    /\ QueueIs(workQueue', JobType(d)', JobArg(d)')
                    /\ Busy' => mainPc' \in JobMain(d)' /\ mainReq'.arg = JobArg(d)'
                    /\ AllAmong(toParent', JobReplies(d)')
  BY DEF JobKind
<1> QED
  BY EmptyMore

\* With nobody inside the session nothing is expected.
LEMMA NobodyExpects ==
  ASSUME ControlInv', ioMutex' = NoCaller
  PROVE  JobKind'
<1>1. \A d \in Callers : ~Expecting(d)'
  BY SessionAssumption DEF ControlInv, HolderInSession, InSession, Expecting
<1> QED
  BY <1>1 DEF JobKind

\* The only one who waits is the holder of io_mutex_.
LEMMA HolderExpects ==
  ASSUME ControlInv', NEW c \in Callers, ioMutex' = c,
         WorkIs(toWorker', JobType(c)', JobArg(c)'),
         QueueIs(workQueue', JobType(c)', JobArg(c)'),
         ~Busy', toParent' = <<>>
  PROVE  JobKind'
<1>1. \A d \in Callers : Expecting(d)' => d = c
  BY DEF ControlInv, HolderInSession, InSession, Expecting
<1>2. AllAmong(toParent', JobReplies(c)')
  BY EmptyMore
<1> QED
  BY <1>1, <1>2 DEF JobKind

\* Callers stay where they are, or leave.
LEMMA OutsideKind ==
  ASSUME JobKind, UNCHANGED <<toWorker, toParent, workerVars>>,
         \A d \in Callers : Expecting(d)' =>
           /\ Expecting(d)
           /\ JobType(d)' = JobType(d) /\ JobArg(d)' = JobArg(d)
           /\ JobMain(d)' = JobMain(d) /\ JobReplies(d)' = JobReplies(d)
  PROVE  JobKind'
<1> SUFFICES ASSUME NEW d \in Callers, Expecting(d)'
             PROVE  /\ WorkIs(toWorker', JobType(d)', JobArg(d)')
                    /\ QueueIs(workQueue', JobType(d)', JobArg(d)')
                    /\ Busy' => mainPc' \in JobMain(d)' /\ mainReq'.arg = JobArg(d)'
                    /\ AllAmong(toParent', JobReplies(d)')
  BY DEF JobKind
<1>1. Busy' <=> Busy
  BY DEF Busy, workerVars
<1> QED
  BY <1>1 DEF JobKind, workerVars

\* A step of the worker, or of the socket, that callers do not see.
LEMMA WorkerKind ==
  ASSUME UNCHANGED <<pc, mode>>,
         \A d \in Callers : Expecting(d) =>
           /\ WorkIs(toWorker', JobType(d), JobArg(d))
           /\ QueueIs(workQueue', JobType(d), JobArg(d))
           /\ Busy' => mainPc' \in JobMain(d) /\ mainReq'.arg = JobArg(d)
           /\ AllAmong(toParent', JobReplies(d))
  PROVE  JobKind'
<1> SUFFICES ASSUME NEW d \in Callers, Expecting(d)'
             PROVE  /\ WorkIs(toWorker', JobType(d)', JobArg(d)')
                    /\ QueueIs(workQueue', JobType(d)', JobArg(d)')
                    /\ Busy' => mainPc' \in JobMain(d)' /\ mainReq'.arg = JobArg(d)'
                    /\ AllAmong(toParent', JobReplies(d)')
  BY DEF JobKind
<1>1. Expecting(d)
  BY DEF Expecting
<1>2. /\ JobType(d)' = JobType(d) /\ JobArg(d)' = JobArg(d)
      /\ JobMain(d)' = JobMain(d) /\ JobReplies(d)' = JobReplies(d)
  BY DEF JobType, JobArg, JobMain, JobReplies, SynthEnd
<1> QED
  BY <1>1, <1>2

\* What the main thread sends is what its caller expects.
LEMMA SendKind ==
  ASSUME IInv, JobKind, child = "run", Busy, UNCHANGED parentVars,
         UNCHANGED <<toWorker, workQueue>>,
         NEW type \in FrameTypes, NEW arg \in Payloads, Send(type, arg),
         \A d \in Callers : Expecting(d) =>
           /\ type \in JobReplies(d)
           /\ Busy' => mainPc' \in JobMain(d) /\ mainReq'.arg = JobArg(d)
  PROVE  JobKind'
<1>1. /\ toParent \in Seq(Frames) /\ Frame(type, mainReq.id, arg) \in Frames
      /\ toParent' = Append(toParent, Frame(type, mainReq.id, arg))
      /\ Frame(type, mainReq.id, arg).type = type
  BY FrameFields, FrameType DEF IInv, TypeOK, Send, Frame
<1>2. UNCHANGED <<pc, mode>>
  BY DEF parentVars, callerVars
<1> SUFFICES ASSUME NEW d \in Callers, Expecting(d)
             PROVE  /\ WorkIs(toWorker', JobType(d), JobArg(d))
                    /\ QueueIs(workQueue', JobType(d), JobArg(d))
                    /\ AllAmong(toParent', JobReplies(d))
  BY <1>2, WorkerKind
<1>3. AllAmong(toParent, JobReplies(d))
  BY DEF JobKind
<1>4. AllAmong(toParent', JobReplies(d))
  <2> DEFINE f == Frame(type, mainReq.id, arg)
  <2>1. f.type \in JobReplies(d)
    BY <1>1
  <2> QED
    BY <1>1, <1>3, <2>1, AppendMore
<1> QED
  BY <1>4 DEF JobKind

\* What is on its way is of the kind of the call that waits for it.
LEMMA KindNext ==
  ASSUME IInv, ControlInv', JobKind, [Next]_vars
  PROVE  JobKind'
<1> USE SessionAssumption DEF sessionVars, callerVars, workerVars, parentVars
<1> TypeOK /\ ControlInv /\ JobInv
  BY DEF IInv
<1> /\ toWorker \in Seq(Frames) /\ toParent \in Seq(Frames)
    /\ workQueue \in Seq(Frames) /\ mainReq \in Frames
    /\ pc \in [Callers -> PcLabels]
    /\ mode \in [Callers -> {"stream", "whole"}]
    /\ watch \in [Callers -> 0..MaxReq] /\ nextReqId \in Nat
  BY DEF TypeOK
<1>1. ASSUME NEW c \in Callers, BeginSynth(c) PROVE JobKind'
  <2>1. UNCHANGED <<toWorker, toParent, workerVars>>
    BY <1>1 DEF BeginSynth
  <2>2. ASSUME NEW d \in Callers, Expecting(d)'
        PROVE  /\ Expecting(d)
               /\ JobType(d)' = JobType(d) /\ JobArg(d)' = JobArg(d)
               /\ JobMain(d)' = JobMain(d) /\ JobReplies(d)' = JobReplies(d)
    BY <1>1, <2>2 DEF BeginSynth, Goto, Expecting, JobType, JobArg, JobMain,
       JobReplies, SynthEnd
  <2> QED
    BY <2>1, <2>2, OutsideKind
<1>2. ASSUME NEW c \in Callers, BeginRegister(c) PROVE JobKind'
  <2>1. UNCHANGED <<toWorker, toParent, workerVars>>
    BY <1>2 DEF BeginRegister
  <2>2. ASSUME NEW d \in Callers, Expecting(d)'
        PROVE  /\ Expecting(d)
               /\ JobType(d)' = JobType(d) /\ JobArg(d)' = JobArg(d)
               /\ JobMain(d)' = JobMain(d) /\ JobReplies(d)' = JobReplies(d)
    BY <1>2, <2>2 DEF BeginRegister, Goto, Expecting, JobType, JobArg, JobMain,
       JobReplies, SynthEnd
  <2> QED
    BY <2>1, <2>2, OutsideKind
<1>3. ASSUME NEW c \in Callers, EndRequest(c) PROVE JobKind'
  <2>1. UNCHANGED <<toWorker, toParent, workerVars>>
    BY <1>3 DEF EndRequest
  <2>2. ASSUME NEW d \in Callers, Expecting(d)'
        PROVE  /\ Expecting(d)
               /\ JobType(d)' = JobType(d) /\ JobArg(d)' = JobArg(d)
               /\ JobMain(d)' = JobMain(d) /\ JobReplies(d)' = JobReplies(d)
    BY <1>3, <2>2 DEF EndRequest, Goto, Expecting, JobType, JobArg, JobMain,
       JobReplies, SynthEnd
  <2> QED
    BY <2>1, <2>2, OutsideKind
<1>4. ASSUME NEW c \in Callers, Shutdown(c) PROVE JobKind'
  <2>1. KillWorker
    BY <1>4 DEF Shutdown
  <2>2. toWorker' = <<>> /\ toParent' = <<>> /\ workQueue' = <<>> /\ ~Busy'
    BY <2>1 DEF KillWorker, WorkerState, Busy
  <2> QED
    BY <2>2, EmptyKind
<1>5. ASSUME NEW c \in Callers, EnsureFast(c) PROVE JobKind'
  <2>1. UNCHANGED <<toWorker, toParent, workerVars>>
    BY <1>5 DEF EnsureFast
  <2>2. ASSUME NEW d \in Callers, Expecting(d)'
        PROVE  /\ Expecting(d)
               /\ JobType(d)' = JobType(d) /\ JobArg(d)' = JobArg(d)
               /\ JobMain(d)' = JobMain(d) /\ JobReplies(d)' = JobReplies(d)
    BY <1>5, <2>2 DEF EnsureFast, AfterEnsure, Goto, Expecting, JobType, JobArg, JobMain,
       JobReplies, SynthEnd
  <2> QED
    BY <2>1, <2>2, OutsideKind
<1>6. ASSUME NEW c \in Callers, EnsureSpawn(c) PROVE JobKind'
  <2>1. toWorker' = <<>> /\ toParent' = <<>> /\ workQueue' = <<>> /\ ~Busy'
    BY <1>6 DEF EnsureSpawn, WorkerState, Busy
  <2> QED
    BY <2>1, EmptyKind
<1>7. ASSUME NEW c \in Callers, EnsureSpawnFails(c) PROVE JobKind'
  <2>1. KillWorker
    BY <1>7 DEF EnsureSpawnFails
  <2>2. toWorker' = <<>> /\ toParent' = <<>> /\ workQueue' = <<>> /\ ~Busy'
    BY <2>1 DEF KillWorker, WorkerState, Busy
  <2> QED
    BY <2>2, EmptyKind
<1>8. ASSUME NEW c \in Callers, RecvHello(c) PROVE JobKind'
  <2> DEFINE f == Frame("LOAD_REQ", 0, "none")
  <2>1. toWorker' = Append(toWorker, f) /\ UNCHANGED <<workQueue, mainPc>>
    BY <1>8 DEF RecvHello
  <2>a. /\ pc[c] = "hello" /\ Alive /\ toParent # <<>>
        /\ toParent' = Tail(toParent) /\ UNCHANGED ioMutex
    BY <1>8 DEF RecvHello
  <2>2. /\ NoWork(toWorker) /\ workQueue = <<>> /\ ~Busy
        /\ toParent' = <<>> /\ ioMutex = c /\ 0 \in 0..MaxReq
    BY <2>a DEF JobInv, Booting, InHello, Busy, ControlInv, HolderInSession, InSession
  <2>3. f \in Frames /\ f.type = "LOAD_REQ" /\ f.arg = "none"
    BY <2>2, FrameType DEF Frame, FrameTypes, Payloads
  <2>4. JobType(c)' = "LOAD_REQ" /\ JobArg(c)' = "none"
    BY <1>8 DEF RecvHello, Goto, JobType, JobArg
  <2>5. WorkIs(toWorker, "LOAD_REQ", "none")
    BY <2>2, NoWorkMore
  <2>6. WorkIs(toWorker', "LOAD_REQ", "none")
    BY <2>1, <2>3, <2>5, AppendMore
  <2>7. QueueIs(workQueue', "LOAD_REQ", "none")
    BY <2>1, <2>2, EmptyMore
  <2>8. toParent' = <<>> /\ ~Busy' /\ ioMutex' = c
    BY <2>1, <2>2, <2>a DEF Busy
  <2> QED
    BY <2>4, <2>6, <2>7, <2>8, HolderExpects
<1>9. ASSUME NEW c \in Callers, RecvHelloFails(c) PROVE JobKind'
  <2>1. KillWorker
    BY <1>9 DEF RecvHelloFails, EnsureFailed
  <2>2. toWorker' = <<>> /\ toParent' = <<>> /\ workQueue' = <<>> /\ ~Busy'
    BY <2>1 DEF KillWorker, WorkerState, Busy
  <2> QED
    BY <2>2, EmptyKind
<1>10. ASSUME NEW c \in Callers, RecvLoadResp(c) PROVE JobKind'
  BY <1>10, NobodyExpects DEF RecvLoadResp, Return
<1>11. ASSUME NEW c \in Callers, RecvLoadRespFails(c) PROVE JobKind'
  <2>1. KillWorker
    BY <1>11 DEF RecvLoadRespFails, EnsureFailed
  <2>2. toWorker' = <<>> /\ toParent' = <<>> /\ workQueue' = <<>> /\ ~Busy'
    BY <2>1 DEF KillWorker, WorkerState, Busy
  <2> QED
    BY <2>2, EmptyKind
<1>12. ASSUME NEW c \in Callers, SendSynth(c) PROVE JobKind'
  <2> DEFINE f == Frame("SYNTH_REQ", nextReqId, mode[c])
  <2>1. toWorker' = Append(toWorker, f) /\ UNCHANGED <<workQueue, mainPc>>
    BY <1>12 DEF SendSynth
  <2>2. /\ NoWork(toWorker) /\ workQueue = <<>> /\ toParent = <<>> /\ ~Busy
        /\ nextReqId \in 0..MaxReq
    BY <1>12 DEF SendSynth, TakesReqId, JobInv, Idle, Busy
  <2>3. f \in Frames /\ f.type = "SYNTH_REQ" /\ f.arg = mode[c]
    BY <2>2, FrameType DEF Frame, FrameTypes, Payloads
  <2>4. JobType(c)' = "SYNTH_REQ" /\ JobArg(c)' = mode[c]
    BY <1>12 DEF SendSynth, Goto, JobType, JobArg
  <2>5. WorkIs(toWorker, "SYNTH_REQ", mode[c])
    BY <2>2, NoWorkMore
  <2>6. WorkIs(toWorker', "SYNTH_REQ", mode[c])
    BY <2>1, <2>3, <2>5, AppendMore
  <2>7. QueueIs(workQueue', "SYNTH_REQ", mode[c])
    BY <2>1, <2>2, EmptyMore
  <2>8. toParent' = <<>> /\ ~Busy' /\ ioMutex' = c
    BY <1>12, <2>1, <2>2 DEF SendSynth, Busy
  <2> QED
    BY <2>4, <2>6, <2>7, <2>8, HolderExpects
<1>13. ASSUME NEW c \in Callers, SendSynthFails(c) PROVE JobKind'
  <2>1. KillWorker
    BY <1>13 DEF SendSynthFails
  <2>2. toWorker' = <<>> /\ toParent' = <<>> /\ workQueue' = <<>> /\ ~Busy'
    BY <2>1 DEF KillWorker, WorkerState, Busy
  <2> QED
    BY <2>2, EmptyKind
<1>14. ASSUME NEW c \in Callers, SynthNotReady(c) PROVE JobKind'
  <2>1. UNCHANGED <<toWorker, toParent, workerVars>>
    BY <1>14 DEF SynthNotReady
  <2>2. ASSUME NEW d \in Callers, Expecting(d)'
        PROVE  /\ Expecting(d)
               /\ JobType(d)' = JobType(d) /\ JobArg(d)' = JobArg(d)
               /\ JobMain(d)' = JobMain(d) /\ JobReplies(d)' = JobReplies(d)
    BY <1>14, <2>2 DEF SynthNotReady, Goto, Expecting, JobType, JobArg, JobMain,
       JobReplies, SynthEnd
  <2> QED
    BY <2>1, <2>2, OutsideKind
<1>15. ASSUME NEW c \in Callers, PublishSynth(c) PROVE JobKind'
  <2>1. UNCHANGED <<toWorker, toParent, workerVars>>
    BY <1>15 DEF PublishSynth
  <2>2. ASSUME NEW d \in Callers, Expecting(d)'
        PROVE  /\ Expecting(d)
               /\ JobType(d)' = JobType(d) /\ JobArg(d)' = JobArg(d)
               /\ JobMain(d)' = JobMain(d) /\ JobReplies(d)' = JobReplies(d)
    BY <1>15, <2>2 DEF PublishSynth, Goto, Expecting, JobType, JobArg, JobMain,
       JobReplies, SynthEnd
  <2> QED
    BY <2>1, <2>2, OutsideKind
<1>16. ASSUME NEW c \in Callers, RecvAudio(c) PROVE JobKind'
  <2>1. /\ UNCHANGED <<pc, mode, toWorker, workQueue, mainPc, mainReq>>
        /\ toParent # <<>> /\ toParent' = Tail(toParent)
    BY <1>16 DEF RecvAudio
  <2> SUFFICES ASSUME NEW d \in Callers, Expecting(d)
               PROVE  /\ WorkIs(toWorker', JobType(d), JobArg(d))
                      /\ QueueIs(workQueue', JobType(d), JobArg(d))
                      /\ Busy' => mainPc' \in JobMain(d) /\ mainReq'.arg = JobArg(d)
                      /\ AllAmong(toParent', JobReplies(d))
    BY <2>1, WorkerKind
  <2>k. /\ WorkIs(toWorker, JobType(d), JobArg(d))
        /\ QueueIs(workQueue, JobType(d), JobArg(d))
        /\ Busy => mainPc \in JobMain(d) /\ mainReq.arg = JobArg(d)
        /\ AllAmong(toParent, JobReplies(d))
    BY DEF JobKind
  <2>2. AllAmong(toParent', JobReplies(d))
    BY <2>1, <2>k, TailMore
  <2> QED
    BY <2>1, <2>2, <2>k DEF Busy
<1>17. ASSUME NEW c \in Callers, RecvSynthEnd(c) PROVE JobKind'
  BY <1>17, NobodyExpects DEF RecvSynthEnd, SynthReturns, Return
<1>18. ASSUME NEW c \in Callers, RecvSynthFails(c) PROVE JobKind'
  <2>1. KillWorker
    BY <1>18 DEF RecvSynthFails
  <2>2. toWorker' = <<>> /\ toParent' = <<>> /\ workQueue' = <<>> /\ ~Busy'
    BY <2>1 DEF KillWorker, WorkerState, Busy
  <2> QED
    BY <2>2, EmptyKind
<1>19. ASSUME NEW c \in Callers, SendCall(c) PROVE JobKind'
  <2> DEFINE f == Frame("CALL_REQ", nextReqId, "none")
  <2>1. toWorker' = Append(toWorker, f) /\ UNCHANGED <<workQueue, mainPc>>
    BY <1>19 DEF SendCall
  <2>2. /\ NoWork(toWorker) /\ workQueue = <<>> /\ toParent = <<>> /\ ~Busy
        /\ nextReqId \in 0..MaxReq
    BY <1>19 DEF SendCall, TakesReqId, JobInv, Idle, Busy
  <2>3. f \in Frames /\ f.type = "CALL_REQ" /\ f.arg = "none"
    BY <2>2, FrameType DEF Frame, FrameTypes, Payloads
  <2>4. JobType(c)' = "CALL_REQ" /\ JobArg(c)' = "none"
    BY <1>19 DEF SendCall, Goto, JobType, JobArg
  <2>5. WorkIs(toWorker, "CALL_REQ", "none")
    BY <2>2, NoWorkMore
  <2>6. WorkIs(toWorker', "CALL_REQ", "none")
    BY <2>1, <2>3, <2>5, AppendMore
  <2>7. QueueIs(workQueue', "CALL_REQ", "none")
    BY <2>1, <2>2, EmptyMore
  <2>8. toParent' = <<>> /\ ~Busy' /\ ioMutex' = c
    BY <1>19, <2>1, <2>2 DEF SendCall, Busy
  <2> QED
    BY <2>4, <2>6, <2>7, <2>8, HolderExpects
<1>20. ASSUME NEW c \in Callers, SendCallFails(c) PROVE JobKind'
  <2>1. KillWorker
    BY <1>20 DEF SendCallFails
  <2>2. toWorker' = <<>> /\ toParent' = <<>> /\ workQueue' = <<>> /\ ~Busy'
    BY <2>1 DEF KillWorker, WorkerState, Busy
  <2> QED
    BY <2>2, EmptyKind
<1>21. ASSUME NEW c \in Callers, RecvCall(c) PROVE JobKind'
  BY <1>21, NobodyExpects DEF RecvCall, Return
<1>22. ASSUME NEW c \in Callers, RecvCallFails(c) PROVE JobKind'
  <2>1. KillWorker
    BY <1>22 DEF RecvCallFails
  <2>2. toWorker' = <<>> /\ toParent' = <<>> /\ workQueue' = <<>> /\ ~Busy'
    BY <2>1 DEF KillWorker, WorkerState, Busy
  <2> QED
    BY <2>2, EmptyKind
<1>23. ASSUME NEW c \in Callers, DispatchCancel(c) PROVE JobKind'
  <2>1. UNCHANGED <<toWorker, toParent, workerVars>>
    BY <1>23 DEF DispatchCancel
  <2>2. ASSUME NEW d \in Callers, Expecting(d)'
        PROVE  /\ Expecting(d)
               /\ JobType(d)' = JobType(d) /\ JobArg(d)' = JobArg(d)
               /\ JobMain(d)' = JobMain(d) /\ JobReplies(d)' = JobReplies(d)
    BY <1>23, <2>2 DEF DispatchCancel, Expecting, JobType, JobArg, JobMain,
       JobReplies, SynthEnd
  <2> QED
    BY <2>1, <2>2, OutsideKind
<1>24. ASSUME NEW c \in Callers, SendCancel(c) PROVE JobKind'
  <2> DEFINE f == Frame("CANCEL_REQ", watch[c], "none")
  <2>1. /\ UNCHANGED <<pc, mode, toParent, workQueue, mainPc, mainReq>>
        /\ toWorker' \in {toWorker, Append(toWorker, f)}
    BY <1>24 DEF SendCancel
  <2> SUFFICES ASSUME NEW d \in Callers, Expecting(d)
               PROVE  /\ WorkIs(toWorker', JobType(d), JobArg(d))
                      /\ QueueIs(workQueue', JobType(d), JobArg(d))
                      /\ Busy' => mainPc' \in JobMain(d) /\ mainReq'.arg = JobArg(d)
                      /\ AllAmong(toParent', JobReplies(d))
    BY <2>1, WorkerKind
  <2>k. /\ WorkIs(toWorker, JobType(d), JobArg(d))
        /\ QueueIs(workQueue, JobType(d), JobArg(d))
        /\ Busy => mainPc \in JobMain(d) /\ mainReq.arg = JobArg(d)
        /\ AllAmong(toParent, JobReplies(d))
    BY DEF JobKind
  <2>2. f \in Frames /\ ~IsWork(f)
    BY FrameType DEF Frame, FrameTypes, Payloads, IsWork
  <2> HIDE DEF f
  <2>a. WorkIs(Append(toWorker, f), JobType(d), JobArg(d))
    BY <2>2, <2>k, AppendMore
  <2>3. WorkIs(toWorker', JobType(d), JobArg(d))
    BY <2>1, <2>a, <2>k
  <2> QED
    BY <2>1, <2>3, <2>k DEF Busy
<1>25. CASE ReaderQueues
  <2>1. /\ UNCHANGED <<pc, mode, toParent, mainPc, mainReq>>
        /\ toWorker # <<>> /\ IsWork(Head(toWorker))
        /\ toWorker' = Tail(toWorker)
        /\ workQueue' = Append(workQueue, Head(toWorker))
    BY <1>25 DEF ReaderQueues, IsWork
  <2> SUFFICES ASSUME NEW d \in Callers, Expecting(d)
               PROVE  /\ WorkIs(toWorker', JobType(d), JobArg(d))
                      /\ QueueIs(workQueue', JobType(d), JobArg(d))
                      /\ Busy' => mainPc' \in JobMain(d) /\ mainReq'.arg = JobArg(d)
                      /\ AllAmong(toParent', JobReplies(d))
    BY <2>1, WorkerKind
  <2>k. /\ WorkIs(toWorker, JobType(d), JobArg(d))
        /\ QueueIs(workQueue, JobType(d), JobArg(d))
        /\ Busy => mainPc \in JobMain(d) /\ mainReq.arg = JobArg(d)
        /\ AllAmong(toParent, JobReplies(d))
    BY DEF JobKind
  <2>2. Head(toWorker) \in Frames
    BY <2>1, TailFrames
  <2>3. /\ WorkIs(toWorker', JobType(d), JobArg(d))
        /\ Head(toWorker).type = JobType(d) /\ Head(toWorker).arg = JobArg(d)
    BY <2>1, <2>k, TailMore
  <2>4. QueueIs(workQueue', JobType(d), JobArg(d))
    BY <2>1, <2>2, <2>3, <2>k, AppendMore
  <2> QED
    BY <2>1, <2>3, <2>4, <2>k DEF Busy
<1>26. CASE ReaderMatches
  <2>1. /\ UNCHANGED <<pc, mode, toParent, workQueue, mainPc, mainReq>>
        /\ toWorker # <<>> /\ toWorker' = Tail(toWorker)
    BY <1>26 DEF ReaderMatches
  <2> SUFFICES ASSUME NEW d \in Callers, Expecting(d)
               PROVE  /\ WorkIs(toWorker', JobType(d), JobArg(d))
                      /\ QueueIs(workQueue', JobType(d), JobArg(d))
                      /\ Busy' => mainPc' \in JobMain(d) /\ mainReq'.arg = JobArg(d)
                      /\ AllAmong(toParent', JobReplies(d))
    BY <2>1, WorkerKind
  <2>k. /\ WorkIs(toWorker, JobType(d), JobArg(d))
        /\ QueueIs(workQueue, JobType(d), JobArg(d))
        /\ Busy => mainPc \in JobMain(d) /\ mainReq.arg = JobArg(d)
        /\ AllAmong(toParent, JobReplies(d))
    BY DEF JobKind
  <2>2. WorkIs(toWorker', JobType(d), JobArg(d))
    BY <2>1, <2>k, TailMore
  <2> QED
    BY <2>1, <2>2, <2>k DEF Busy
<1>27. CASE ReaderCancels
  <2>1. UNCHANGED <<pc, mode, toWorker, toParent, workQueue, mainPc, mainReq>>
    BY <1>27 DEF ReaderCancels
  <2> SUFFICES ASSUME NEW d \in Callers, Expecting(d)
               PROVE  /\ WorkIs(toWorker', JobType(d), JobArg(d))
                      /\ QueueIs(workQueue', JobType(d), JobArg(d))
                      /\ Busy' => mainPc' \in JobMain(d) /\ mainReq'.arg = JobArg(d)
                      /\ AllAmong(toParent', JobReplies(d))
    BY <2>1, WorkerKind
  <2>k. /\ WorkIs(toWorker, JobType(d), JobArg(d))
        /\ QueueIs(workQueue, JobType(d), JobArg(d))
        /\ Busy => mainPc \in JobMain(d) /\ mainReq.arg = JobArg(d)
        /\ AllAmong(toParent, JobReplies(d))
    BY DEF JobKind
  <2> QED
    BY <2>1, <2>k DEF Busy
<1>28. CASE MainHello
  <2>1. /\ MainAt("boot") /\ UNCHANGED <<pc, ioMutex>>
    BY <1>28 DEF MainHello
  <2>2. InHello
    BY <2>1 DEF MainAt, JobInv, OneJob, Alive
  <2>3. \A d \in Callers : ~Expecting(d)'
    BY <2>1, <2>2 DEF InHello, Expecting, ControlInv, HolderInSession, InSession
  <2> QED
    BY <2>3 DEF JobKind
<1>29. CASE MainTakes
  <2>1. /\ UNCHANGED <<pc, mode, toWorker, toParent>>
        /\ workQueue # <<>> /\ workQueue' = Tail(workQueue)
        /\ mainReq' = Head(workQueue)
        /\ mainPc' = Handler(Head(workQueue).type)
    BY <1>29 DEF MainTakes
  <2> SUFFICES ASSUME NEW d \in Callers, Expecting(d)
               PROVE  /\ WorkIs(toWorker', JobType(d), JobArg(d))
                      /\ QueueIs(workQueue', JobType(d), JobArg(d))
                      /\ Busy' => mainPc' \in JobMain(d) /\ mainReq'.arg = JobArg(d)
                      /\ AllAmong(toParent', JobReplies(d))
    BY <2>1, WorkerKind
  <2>k. /\ WorkIs(toWorker, JobType(d), JobArg(d))
        /\ QueueIs(workQueue, JobType(d), JobArg(d))
        /\ Busy => mainPc \in JobMain(d) /\ mainReq.arg = JobArg(d)
        /\ AllAmong(toParent, JobReplies(d))
    BY DEF JobKind
  <2>2. /\ QueueIs(workQueue', JobType(d), JobArg(d))
        /\ Head(workQueue).type = JobType(d) /\ mainReq'.arg = JobArg(d)
    BY <2>1, <2>k, TailMore
  <2>3. Handler(JobType(d)) \in JobMain(d)
    BY DEF Handler, JobType, JobMain
  <2> QED
    BY <2>1, <2>2, <2>3, <2>k
<1>30. CASE MainLoads
  <2>1. /\ child = "run" /\ mainPc = "load" /\ mainPc' = "wait"
        /\ UNCHANGED <<toWorker, workQueue>>
    BY <1>30 DEF MainLoads, MainAt, Answers
  <2>2. UNCHANGED parentVars
    BY <1>30 DEF MainLoads, Answers
  <2>3. PICK ok \in {"ok", "failed"} : Send("LOAD_RESP", ok)
    BY <1>30 DEF MainLoads, Answers
  <2>4. Busy /\ ~Busy'
    BY <2>1 DEF Busy
  <2>5. \A d \in Callers : Expecting(d) => "LOAD_RESP" \in JobReplies(d)
    BY <2>1, <2>4 DEF JobKind, JobMain, JobReplies
  <2>6. "LOAD_RESP" \in FrameTypes /\ ok \in Payloads
    BY DEF FrameTypes, Payloads
  <2> QED
    BY <2>1, <2>2, <2>3, <2>4, <2>5, <2>6, SendKind
<1>31. CASE MainAnswers
  <2>1. /\ child = "run" /\ mainPc = "call" /\ mainPc' = "wait"
        /\ UNCHANGED <<toWorker, workQueue>>
    BY <1>31 DEF MainAnswers, MainAt, Answers
  <2>2. UNCHANGED parentVars
    BY <1>31 DEF MainAnswers, Answers
  <2>3. PICK ok \in {"ok", "failed"} : Send("CALL_RESP", ok)
    BY <1>31 DEF MainAnswers, Answers
  <2>4. Busy /\ ~Busy'
    BY <2>1 DEF Busy
  <2>5. \A d \in Callers : Expecting(d) => "CALL_RESP" \in JobReplies(d)
    BY <2>1, <2>4 DEF JobKind, JobMain, JobReplies
  <2>6. "CALL_RESP" \in FrameTypes /\ ok \in Payloads
    BY DEF FrameTypes, Payloads
  <2> QED
    BY <2>1, <2>2, <2>3, <2>4, <2>5, <2>6, SendKind
<1>32. CASE MainRejects
  <2>1. /\ child = "run" /\ mainPc = "prepare" /\ mainPc' = "wait"
        /\ UNCHANGED <<toWorker, workQueue>>
    BY <1>32 DEF MainRejects, MainAt
  <2>2. UNCHANGED parentVars
    BY <1>32 DEF MainRejects
  <2>3. Send("SYNTH_ERR", "failed")
    BY <1>32 DEF MainRejects
  <2>4. Busy /\ ~Busy'
    BY <2>1 DEF Busy
  <2>5. \A d \in Callers : Expecting(d) => "SYNTH_ERR" \in JobReplies(d)
    BY <2>1, <2>4 DEF JobKind, JobMain, JobReplies, SynthEnd
  <2>6. "SYNTH_ERR" \in FrameTypes /\ "failed" \in Payloads
    BY DEF FrameTypes, Payloads
  <2> QED
    BY <2>1, <2>2, <2>3, <2>4, <2>5, <2>6, SendKind
<1>33. CASE MainClearsCancel
  <2>1. /\ UNCHANGED <<pc, mode, toWorker, toParent, workQueue, mainReq>>
        /\ mainPc = "prepare" /\ mainPc' = "publish"
    BY <1>33 DEF MainClearsCancel, MainAt
  <2> SUFFICES ASSUME NEW d \in Callers, Expecting(d)
               PROVE  /\ WorkIs(toWorker', JobType(d), JobArg(d))
                      /\ QueueIs(workQueue', JobType(d), JobArg(d))
                      /\ Busy' => mainPc' \in JobMain(d) /\ mainReq'.arg = JobArg(d)
                      /\ AllAmong(toParent', JobReplies(d))
    BY <2>1, WorkerKind
  <2>k. /\ WorkIs(toWorker, JobType(d), JobArg(d))
        /\ QueueIs(workQueue, JobType(d), JobArg(d))
        /\ Busy => mainPc \in JobMain(d) /\ mainReq.arg = JobArg(d)
        /\ AllAmong(toParent, JobReplies(d))
    BY DEF JobKind
  <2> QED
    BY <2>1, <2>k DEF Busy, JobMain
<1>34. CASE MainPublishes
  <2>1. /\ UNCHANGED <<pc, mode, toWorker, toParent, workQueue, mainReq>>
        /\ mainPc = "publish" /\ mainPc' = "synth"
    BY <1>34 DEF MainPublishes, MainAt
  <2> SUFFICES ASSUME NEW d \in Callers, Expecting(d)
               PROVE  /\ WorkIs(toWorker', JobType(d), JobArg(d))
                      /\ QueueIs(workQueue', JobType(d), JobArg(d))
                      /\ Busy' => mainPc' \in JobMain(d) /\ mainReq'.arg = JobArg(d)
                      /\ AllAmong(toParent', JobReplies(d))
    BY <2>1, WorkerKind
  <2>k. /\ WorkIs(toWorker, JobType(d), JobArg(d))
        /\ QueueIs(workQueue, JobType(d), JobArg(d))
        /\ Busy => mainPc \in JobMain(d) /\ mainReq.arg = JobArg(d)
        /\ AllAmong(toParent, JobReplies(d))
    BY DEF JobKind
  <2> QED
    BY <2>1, <2>k DEF Busy, JobMain
<1>35. CASE MainAudio
  <2>1. /\ child = "run" /\ mainPc = "synth" /\ mainReq.arg = "stream"
        /\ UNCHANGED <<toWorker, workQueue, mainPc, mainReq>>
    BY <1>35 DEF MainAudio, MainAt
  <2>2. UNCHANGED parentVars /\ Send("AUDIO_FRAME", "none")
    BY <1>35 DEF MainAudio
  <2>4. Busy
    BY <2>1 DEF Busy
  <2>5. \A d \in Callers : Expecting(d) =>
          /\ "AUDIO_FRAME" \in JobReplies(d)
          /\ Busy' => mainPc' \in JobMain(d) /\ mainReq'.arg = JobArg(d)
    BY <2>1, <2>4 DEF JobKind, JobMain, JobReplies
  <2>6. "AUDIO_FRAME" \in FrameTypes /\ "none" \in Payloads
    BY DEF FrameTypes, Payloads
  <2> QED
    BY <2>1, <2>2, <2>4, <2>5, <2>6, SendKind
<1>36. CASE MainFinishes
  <2> DEFINE type == IF mainReq.arg = "stream" THEN "SYNTH_DONE" ELSE "SYNTH_RESP"
  <2>1. /\ child = "run" /\ mainPc = "synth" /\ mainPc' = "unpublish"
        /\ UNCHANGED <<toWorker, workQueue>>
    BY <1>36 DEF MainFinishes, MainAt
  <2>2. UNCHANGED parentVars
    BY <1>36 DEF MainFinishes
  <2>3. PICK res \in {"ok", "failed"} : Send(type, res)
    BY <1>36 DEF MainFinishes
  <2>4. Busy /\ ~Busy'
    BY <2>1 DEF Busy
  <2>5. ASSUME NEW d \in Callers, Expecting(d) PROVE type \in JobReplies(d)
    <3>1. mainPc \in JobMain(d) /\ mainReq.arg = JobArg(d)
      BY <2>4, <2>5 DEF JobKind
    <3>2. pc[d] \in {"sent", "synth"} /\ mainReq.arg = mode[d] /\ mode[d] \in {"stream", "whole"}
      BY <2>1, <2>5, <3>1 DEF JobMain, JobArg, Expecting
    <3> QED
      BY <3>2 DEF JobReplies, SynthEnd
  <2>6. type \in FrameTypes /\ res \in Payloads
    BY DEF FrameTypes, Payloads
  <2> HIDE DEF type
  <2> QED
    BY <2>1, <2>2, <2>3, <2>4, <2>5, <2>6, SendKind
<1>37. CASE MainOversize
  <2>1. /\ UNCHANGED <<pc, mode, toWorker, toParent, workQueue, mainReq>>
        /\ mainPc = "synth" /\ mainPc' = "none"
    BY <1>37 DEF MainOversize, MainAt
  <2> SUFFICES ASSUME NEW d \in Callers, Expecting(d)
               PROVE  /\ WorkIs(toWorker', JobType(d), JobArg(d))
                      /\ QueueIs(workQueue', JobType(d), JobArg(d))
                      /\ Busy' => mainPc' \in JobMain(d) /\ mainReq'.arg = JobArg(d)
                      /\ AllAmong(toParent', JobReplies(d))
    BY <2>1, WorkerKind
  <2>k. /\ WorkIs(toWorker, JobType(d), JobArg(d))
        /\ QueueIs(workQueue, JobType(d), JobArg(d))
        /\ Busy => mainPc \in JobMain(d) /\ mainReq.arg = JobArg(d)
        /\ AllAmong(toParent, JobReplies(d))
    BY DEF JobKind
  <2> QED
    BY <2>1, <2>k DEF Busy, JobMain
<1>38. CASE MainUnpublishes
  <2>1. /\ UNCHANGED <<pc, mode, toWorker, toParent, workQueue, mainReq>>
        /\ mainPc = "unpublish" /\ mainPc' = "wait"
    BY <1>38 DEF MainUnpublishes, MainAt
  <2> SUFFICES ASSUME NEW d \in Callers, Expecting(d)
               PROVE  /\ WorkIs(toWorker', JobType(d), JobArg(d))
                      /\ QueueIs(workQueue', JobType(d), JobArg(d))
                      /\ Busy' => mainPc' \in JobMain(d) /\ mainReq'.arg = JobArg(d)
                      /\ AllAmong(toParent', JobReplies(d))
    BY <2>1, WorkerKind
  <2>k. /\ WorkIs(toWorker, JobType(d), JobArg(d))
        /\ QueueIs(workQueue, JobType(d), JobArg(d))
        /\ Busy => mainPc \in JobMain(d) /\ mainReq.arg = JobArg(d)
        /\ AllAmong(toParent, JobReplies(d))
    BY DEF JobKind
  <2> QED
    BY <2>1, <2>k DEF Busy, JobMain
<1>39. CASE Crash
  <2>1. /\ UNCHANGED <<pc, mode, toWorker, toParent>>
        /\ workQueue' = <<>> /\ ~Busy'
    BY <1>39 DEF Crash, WorkerState, Busy
  <2> SUFFICES ASSUME NEW d \in Callers, Expecting(d)
               PROVE  /\ WorkIs(toWorker', JobType(d), JobArg(d))
                      /\ QueueIs(workQueue', JobType(d), JobArg(d))
                      /\ Busy' => mainPc' \in JobMain(d) /\ mainReq'.arg = JobArg(d)
                      /\ AllAmong(toParent', JobReplies(d))
    BY <2>1, WorkerKind
  <2>k. /\ WorkIs(toWorker, JobType(d), JobArg(d))
        /\ QueueIs(workQueue, JobType(d), JobArg(d))
        /\ Busy => mainPc \in JobMain(d) /\ mainReq.arg = JobArg(d)
        /\ AllAmong(toParent, JobReplies(d))
    BY DEF JobKind
  <2> QED
    BY <2>1, <2>k, EmptyMore
<1>40. CASE UNCHANGED vars
  <2>1. UNCHANGED <<pc, mode, toWorker, toParent, workQueue, mainPc, mainReq>>
    BY <1>40 DEF vars
  <2> SUFFICES ASSUME NEW d \in Callers, Expecting(d)
               PROVE  /\ WorkIs(toWorker', JobType(d), JobArg(d))
                      /\ QueueIs(workQueue', JobType(d), JobArg(d))
                      /\ Busy' => mainPc' \in JobMain(d) /\ mainReq'.arg = JobArg(d)
                      /\ AllAmong(toParent', JobReplies(d))
    BY <2>1, WorkerKind
  <2>k. /\ WorkIs(toWorker, JobType(d), JobArg(d))
        /\ QueueIs(workQueue, JobType(d), JobArg(d))
        /\ Busy => mainPc \in JobMain(d) /\ mainReq.arg = JobArg(d)
        /\ AllAmong(toParent, JobReplies(d))
    BY DEF JobKind
  <2> QED
    BY <2>1, <2>k DEF Busy
<1> QED
  BY <1>1, <1>2, <1>3, <1>4, <1>5, <1>6, <1>7, <1>8, <1>9, <1>10, <1>11, <1>12,
     <1>13, <1>14, <1>15, <1>16, <1>17, <1>18, <1>19, <1>20, <1>21, <1>22,
     <1>23, <1>24, <1>25, <1>26, <1>27, <1>28, <1>29, <1>30, <1>31, <1>32,
     <1>33, <1>34, <1>35, <1>36, <1>37, <1>38, <1>39, <1>40 DEF Next,
     Environment, Ensure, Synth, Receive, Reader, Main

-----------------------------------------------------------------------------
(* Cancels.                                                                *)

\* A killed or a new worker has no synthesis and no cancel.
LEMMA EmptyCancel ==
  ASSUME toWorker' = <<>>, workQueue' = <<>>, mainPc' \in {"none", "boot"},
         activeSynthReqId' = 0, readerMatch' = 0
  PROVE  CancelInv'
<1>1. CancelsInOrder'
  BY EmptyMore DEF CancelsInOrder
<1> QED
  BY <1>1 DEF CancelInv, NewIsOther, ActiveIsMain, MatchStands, FlagIsOwn

\* Nothing a cancel meets has changed.
LEMMA SameCancel ==
  ASSUME CancelInv, UNCHANGED <<toWorker, workerVars>>
  PROVE  CancelInv'
BY DEF CancelInv, CancelsInOrder, NewIsOther, ActiveIsMain, MatchStands, FlagIsOwn, workerVars

\* The next request goes out behind what is there.
LEMMA RequestSent ==
  ASSUME IInv, CancelInv, UNCHANGED workerVars,
         NEW f \in Frames, ~IsCancel(f), toWorker' = Append(toWorker, f),
         IsSynth(f) => f.id # mainReq.id, workQueue = <<>>
  PROVE  CancelInv'
<1>1. toWorker \in Seq(Frames)
  BY DEF IInv, TypeOK
<1>2. InOrder(toWorker')
  BY <1>1, AppendMore DEF CancelInv, CancelsInOrder
<1>3. CancelsInOrder'
  <2>1. Len(workQueue') = 0
    BY EmptySeq DEF workerVars
  <2> QED
    BY <1>2, <2>1 DEF CancelsInOrder
<1>4. NewIsOther'
  <2> SUFFICES ASSUME mainPc' = "unpublish"
               PROVE  NoSynthOf(toWorker', mainReq'.id) /\ NoSynthOf(workQueue', mainReq'.id)
    BY DEF NewIsOther
  <2>1. UNCHANGED <<mainPc, mainReq, workQueue>>
    BY DEF workerVars
  <2>2. NoSynthOf(toWorker, mainReq.id) /\ NoSynthOf(workQueue, mainReq.id)
    BY <2>1 DEF CancelInv, NewIsOther
  <2>3. NoSynthOf(toWorker', mainReq.id)
    BY <1>1, <2>2, AppendMore
  <2> QED
    BY <2>1, <2>2, <2>3
<1>5. ActiveIsMain' /\ MatchStands' /\ FlagIsOwn'
  BY DEF CancelInv, ActiveIsMain, MatchStands, FlagIsOwn, workerVars
<1> QED
  BY <1>3, <1>4, <1>5 DEF CancelInv

\* A watchdog that still has a cancel to send belongs to the request whose
\* synthesis is in the socket or in the queue: the next request waits for
\* synth_mutex, and its holder for the watchdog.
LEMMA WatchdogIsOwn ==
  ASSUME IInv, CallInv, JobKind, Alive, NEW c \in Callers, watch[c] # 0
  PROVE  /\ \A i \in 1..Len(toWorker) : IsSynth(toWorker[i]) => toWorker[i].id = watch[c]
         /\ \A i \in 1..Len(workQueue) : IsSynth(workQueue[i]) => workQueue[i].id = watch[c]
<1>1. synthMutex = c /\ watch[c] = req[c]
  BY DEF CallInv, Placed, Watched, SynthHolds
<1>2. ASSUME ~NoWork(toWorker) \/ workQueue # <<>>
      PROVE  ioMutex \in Callers /\ Expecting(ioMutex)
  <2>1. ioMutex # NoCaller /\ ~InHello
    BY <1>2 DEF IInv, JobInv, Idle, Booting
  <2>2. ioMutex \in Callers
    BY <2>1 DEF IInv, TypeOK, Callers0
  <2>3. pc[ioMutex] \in InSession /\ pc[ioMutex] # "hello"
    BY <2>1, <2>2 DEF IInv, ControlInv, HolderInSession, InHello
  <2> QED
    BY <2>2, <2>3 DEF InSession, Expecting
<1>3. ASSUME NEW d \in Callers, Expecting(d), JobType(d) = "SYNTH_REQ"
      PROVE  d = c /\ Waiting(d)
  <2>1. pc[d] \in {"sent", "synth"}
    BY <1>3 DEF JobType, Expecting
  <2> QED
    BY <1>1, <2>1 DEF CallInv, Placed, SynthHolds, Waiting
<1>4. ASSUME NEW i \in 1..Len(toWorker), IsSynth(toWorker[i]) PROVE toWorker[i].id = watch[c]
  <2>1. IsWork(toWorker[i]) /\ toWorker[i].type = "SYNTH_REQ"
    BY <1>4 DEF IsSynth, IsWork
  <2>2. ~NoWork(toWorker)
    BY <1>4, <2>1 DEF NoWork
  <2>3. WorkIs(toWorker, JobType(ioMutex), JobArg(ioMutex))
    BY <1>2, <2>2 DEF JobKind
  <2>4. JobType(ioMutex) = "SYNTH_REQ"
    BY <1>4, <2>1, <2>3 DEF WorkIs
  <2>5. Waiting(c)
    BY <1>2, <1>3, <2>2, <2>4
  <2>6. WorkOf(toWorker, req[c])
    BY <2>5 DEF IInv, JobInv, JobIsCallers
  <2> QED
    BY <1>1, <1>4, <2>1, <2>6 DEF WorkOf
<1>5. ASSUME NEW i \in 1..Len(workQueue), IsSynth(workQueue[i]) PROVE workQueue[i].id = watch[c]
  <2>1. workQueue[i].type = "SYNTH_REQ"
    BY <1>5 DEF IsSynth
  <2>2. workQueue # <<>>
    BY <1>5, EmptySeq
  <2>3. QueueIs(workQueue, JobType(ioMutex), JobArg(ioMutex))
    BY <1>2, <2>2 DEF JobKind
  <2>4. JobType(ioMutex) = "SYNTH_REQ"
    BY <1>5, <2>1, <2>3 DEF QueueIs
  <2>5. Waiting(c)
    BY <1>2, <1>3, <2>2, <2>4
  <2>6. AllOf(workQueue, req[c])
    BY <2>5 DEF IInv, JobInv, JobIsCallers
  <2> QED
    BY <1>1, <1>5, <2>6 DEF AllOf
<1> QED
  BY <1>4, <1>5

\* Cancels stay with the synthesis they are for.
LEMMA CancelNext ==
  ASSUME IInv, CallInv, JobKind, CancelInv, [Next]_vars
  PROVE  CancelInv'
<1> USE SessionAssumption DEF sessionVars, callerVars, workerVars, parentVars
<1> TypeOK /\ ControlInv /\ JobInv
  BY DEF IInv
<1> /\ toWorker \in Seq(Frames) /\ workQueue \in Seq(Frames)
    /\ mainReq \in Frames /\ mainReq.id \in Nat /\ nextReqId \in Nat
    /\ mode \in [Callers -> {"stream", "whole"}]
    /\ watch \in [Callers -> 0..MaxReq] /\ MaxReq \in Nat
  BY FrameFields DEF TypeOK
<1>1. ASSUME NEW c \in Callers, BeginSynth(c) PROVE CancelInv'
  BY <1>1, SameCancel DEF BeginSynth
<1>2. ASSUME NEW c \in Callers, BeginRegister(c) PROVE CancelInv'
  BY <1>2, SameCancel DEF BeginRegister
<1>3. ASSUME NEW c \in Callers, EndRequest(c) PROVE CancelInv'
  BY <1>3, SameCancel DEF EndRequest
<1>4. ASSUME NEW c \in Callers, Shutdown(c) PROVE CancelInv'
  <2>1. KillWorker
    BY <1>4 DEF Shutdown
  <2> QED
    BY <2>1, EmptyCancel DEF KillWorker, WorkerState
<1>5. ASSUME NEW c \in Callers, EnsureFast(c) PROVE CancelInv'
  BY <1>5, SameCancel DEF EnsureFast
<1>6. ASSUME NEW c \in Callers, EnsureSpawn(c) PROVE CancelInv'
  BY <1>6, EmptyCancel DEF EnsureSpawn, WorkerState
<1>7. ASSUME NEW c \in Callers, EnsureSpawnFails(c) PROVE CancelInv'
  <2>1. KillWorker
    BY <1>7 DEF EnsureSpawnFails
  <2> QED
    BY <2>1, EmptyCancel DEF KillWorker, WorkerState
<1>8. ASSUME NEW c \in Callers, RecvHello(c) PROVE CancelInv'
  <2> DEFINE f == Frame("LOAD_REQ", 0, "none")
  <2>1. toWorker' = Append(toWorker, f) /\ UNCHANGED workerVars
    BY <1>8 DEF RecvHello
  <2>a. pc[c] = "hello" /\ Alive
    BY <1>8 DEF RecvHello
  <2>2. workQueue = <<>> /\ 0 \in 0..MaxReq
    BY <2>a DEF JobInv, Booting, InHello
  <2>3. f \in Frames /\ f.type = "LOAD_REQ" /\ f.id = 0
    BY <2>2, FrameType DEF Frame, FrameTypes, Payloads
  <2>4. ~IsCancel(f) /\ (IsSynth(f) => f.id # mainReq.id)
    BY <2>3 DEF IsCancel, IsSynth, CallInv, IdsKnown
  <2> HIDE DEF f
  <2> QED
    BY <2>1, <2>2, <2>3, <2>4, RequestSent
<1>9. ASSUME NEW c \in Callers, RecvHelloFails(c) PROVE CancelInv'
  <2>1. KillWorker
    BY <1>9 DEF RecvHelloFails, EnsureFailed
  <2> QED
    BY <2>1, EmptyCancel DEF KillWorker, WorkerState
<1>10. ASSUME NEW c \in Callers, RecvLoadResp(c) PROVE CancelInv'
  BY <1>10, SameCancel DEF RecvLoadResp
<1>11. ASSUME NEW c \in Callers, RecvLoadRespFails(c) PROVE CancelInv'
  <2>1. KillWorker
    BY <1>11 DEF RecvLoadRespFails, EnsureFailed
  <2> QED
    BY <2>1, EmptyCancel DEF KillWorker, WorkerState
<1>12. ASSUME NEW c \in Callers, SendSynth(c) PROVE CancelInv'
  <2> DEFINE f == Frame("SYNTH_REQ", nextReqId, mode[c])
  <2>1. toWorker' = Append(toWorker, f) /\ UNCHANGED workerVars
    BY <1>12 DEF SendSynth
  <2>2. workQueue = <<>> /\ nextReqId \in 0..MaxReq
    BY <1>12 DEF SendSynth, TakesReqId, JobInv, Idle
  <2>3. f \in Frames /\ f.type = "SYNTH_REQ" /\ f.id = nextReqId
    BY <2>2, FrameType DEF Frame, FrameTypes, Payloads
  <2>4. ~IsCancel(f) /\ (IsSynth(f) => f.id # mainReq.id)
    BY <2>3 DEF IsCancel, IsSynth, CallInv, IdsKnown
  <2> HIDE DEF f
  <2> QED
    BY <2>1, <2>2, <2>3, <2>4, RequestSent
<1>13. ASSUME NEW c \in Callers, SendSynthFails(c) PROVE CancelInv'
  <2>1. KillWorker
    BY <1>13 DEF SendSynthFails
  <2> QED
    BY <2>1, EmptyCancel DEF KillWorker, WorkerState
<1>14. ASSUME NEW c \in Callers, SynthNotReady(c) PROVE CancelInv'
  BY <1>14, SameCancel DEF SynthNotReady
<1>15. ASSUME NEW c \in Callers, PublishSynth(c) PROVE CancelInv'
  BY <1>15, SameCancel DEF PublishSynth
<1>16. ASSUME NEW c \in Callers, RecvAudio(c) PROVE CancelInv'
  BY <1>16, SameCancel DEF RecvAudio
<1>17. ASSUME NEW c \in Callers, RecvSynthEnd(c) PROVE CancelInv'
  BY <1>17, SameCancel DEF RecvSynthEnd
<1>18. ASSUME NEW c \in Callers, RecvSynthFails(c) PROVE CancelInv'
  <2>1. KillWorker
    BY <1>18 DEF RecvSynthFails
  <2> QED
    BY <2>1, EmptyCancel DEF KillWorker, WorkerState
<1>19. ASSUME NEW c \in Callers, SendCall(c) PROVE CancelInv'
  <2> DEFINE f == Frame("CALL_REQ", nextReqId, "none")
  <2>1. toWorker' = Append(toWorker, f) /\ UNCHANGED workerVars
    BY <1>19 DEF SendCall
  <2>2. workQueue = <<>> /\ nextReqId \in 0..MaxReq
    BY <1>19 DEF SendCall, TakesReqId, JobInv, Idle
  <2>3. f \in Frames /\ f.type = "CALL_REQ" /\ f.id = nextReqId
    BY <2>2, FrameType DEF Frame, FrameTypes, Payloads
  <2>4. ~IsCancel(f) /\ (IsSynth(f) => f.id # mainReq.id)
    BY <2>3 DEF IsCancel, IsSynth, CallInv, IdsKnown
  <2> HIDE DEF f
  <2> QED
    BY <2>1, <2>2, <2>3, <2>4, RequestSent
<1>20. ASSUME NEW c \in Callers, SendCallFails(c) PROVE CancelInv'
  <2>1. KillWorker
    BY <1>20 DEF SendCallFails
  <2> QED
    BY <2>1, EmptyCancel DEF KillWorker, WorkerState
<1>21. ASSUME NEW c \in Callers, RecvCall(c) PROVE CancelInv'
  BY <1>21, SameCancel DEF RecvCall
<1>22. ASSUME NEW c \in Callers, RecvCallFails(c) PROVE CancelInv'
  <2>1. KillWorker
    BY <1>22 DEF RecvCallFails
  <2> QED
    BY <2>1, EmptyCancel DEF KillWorker, WorkerState
<1>23. ASSUME NEW c \in Callers, DispatchCancel(c) PROVE CancelInv'
  BY <1>23, SameCancel DEF DispatchCancel
<1>24. ASSUME NEW c \in Callers, SendCancel(c) PROVE CancelInv'
  <2> DEFINE f == Frame("CANCEL_REQ", watch[c], "none")
  <2>1. UNCHANGED workerVars /\ watch[c] # 0
    BY <1>24 DEF SendCancel
  <2>4. \/ toWorker' = toWorker
        \/ Alive /\ toWorker' = Append(toWorker, f)
    <3>1. CASE pid # 0 /\ Alive
      BY <1>24, <3>1 DEF SendCancel
    <3>2. CASE ~(pid # 0 /\ Alive)
      BY <1>24, <3>2 DEF SendCancel
    <3> QED
      BY <3>1, <3>2
  <2>2. CASE toWorker' = toWorker
    BY <2>1, <2>2, SameCancel
  <2>3. CASE Alive /\ toWorker' = Append(toWorker, f)
    <3>1. f \in Frames /\ f.id = watch[c] /\ ~IsSynth(f) /\ IsCancel(f)
      BY FrameType DEF Frame, FrameTypes, Payloads, IsSynth, IsCancel
    <3> HIDE DEF f
    <3>2. /\ \A i \in 1..Len(toWorker) : IsSynth(toWorker[i]) => toWorker[i].id = f.id
          /\ \A i \in 1..Len(workQueue) : IsSynth(workQueue[i]) => workQueue[i].id = f.id
      BY <2>1, <2>3, <3>1, WatchdogIsOwn
    <3>3. InOrder(toWorker')
      BY <2>3, <3>1, <3>2, AppendMore DEF CancelInv, CancelsInOrder
    <3>4. UNCHANGED <<workQueue, mainPc, mainReq>>
      BY <2>1
    <3>5. ASSUME NEW i \in 1..Len(workQueue), IsSynth(workQueue[i])
          PROVE  CancelsOf(toWorker', workQueue[i].id)
      <4> DEFINE id == workQueue[i].id
      <4>1. CancelsOf(toWorker, id) /\ f.id = id
        BY <3>2, <3>5 DEF CancelInv, CancelsInOrder
      <4> HIDE DEF id
      <4>2. CancelsOf(toWorker', id)
        BY <2>3, <3>1, <4>1, AppendMore
      <4> QED
        BY <4>2 DEF id
    <3>6. CancelsInOrder'
      BY <3>3, <3>4, <3>5 DEF CancelsInOrder
    <3>7. NewIsOther'
      <4> SUFFICES ASSUME mainPc = "unpublish"
                   PROVE  NoSynthOf(toWorker', mainReq.id) /\ NoSynthOf(workQueue, mainReq.id)
        BY <3>4 DEF NewIsOther
      <4>1. NoSynthOf(toWorker, mainReq.id) /\ NoSynthOf(workQueue, mainReq.id)
        BY DEF CancelInv, NewIsOther
      <4> QED
        BY <2>3, <3>1, <4>1, AppendMore
    <3>8. ActiveIsMain' /\ MatchStands' /\ FlagIsOwn'
      BY <2>1 DEF CancelInv, ActiveIsMain, MatchStands, FlagIsOwn
    <3> QED
      BY <3>6, <3>7, <3>8 DEF CancelInv
  <2> QED
    BY <2>2, <2>3, <2>4
<1>25. CASE ReaderQueues
  <2> DEFINE f == Head(toWorker)
  <2>1. /\ toWorker # <<>> /\ readerMatch = 0
        /\ toWorker' = Tail(toWorker) /\ workQueue' = Append(workQueue, f)
        /\ UNCHANGED <<mainPc, mainReq, readerMatch, activeSynthReqId, cancelRequested>>
    BY <1>25 DEF ReaderQueues
  <2>2. f \in Frames
    BY <2>1, TailFrames
  <2>3. InOrder(Tail(toWorker)) /\ (IsSynth(f) => CancelsOf(Tail(toWorker), f.id))
    BY <2>1, TailMore DEF CancelInv, CancelsInOrder
  <2>4. ASSUME NEW i \in 1..Len(workQueue), IsSynth(workQueue[i])
        PROVE  CancelsOf(Tail(toWorker), workQueue[i].id)
    <3> DEFINE id == workQueue[i].id
    <3>1. CancelsOf(toWorker, id)
      BY <2>4 DEF CancelInv, CancelsInOrder
    <3> HIDE DEF id
    <3>2. CancelsOf(Tail(toWorker), id)
      BY <2>1, <3>1, TailMore
    <3> QED
      BY <3>2 DEF id
  <2>5. CancelsInOrder'
    <3> HIDE DEF f
    <3>1. /\ Len(workQueue) \in Nat /\ Len(workQueue') = Len(workQueue) + 1
          /\ workQueue'[Len(workQueue) + 1] = f
          /\ \A i \in 1..Len(workQueue) : workQueue'[i] = workQueue[i]
      BY <2>1, <2>2, AppendFrames
    <3>2. ASSUME NEW i \in 1..Len(workQueue'), IsSynth(workQueue'[i])
          PROVE  CancelsOf(toWorker', workQueue'[i].id)
      <4>1. CASE i \in 1..Len(workQueue)
        <5>1. workQueue'[i] = workQueue[i]
          BY <3>1, <4>1
        <5> QED
          BY <2>1, <2>4, <3>2, <4>1, <5>1
      <4>2. CASE i = Len(workQueue) + 1
        <5>1. workQueue'[i] = f
          BY <3>1, <4>2
        <5> QED
          BY <2>1, <2>3, <3>2, <5>1
      <4> QED
        BY <3>1, <4>1, <4>2
    <3> QED
      BY <2>1, <2>3, <3>2 DEF CancelsInOrder
  <2>6. NewIsOther'
    <3> SUFFICES ASSUME mainPc = "unpublish"
                 PROVE  NoSynthOf(toWorker', mainReq.id) /\ NoSynthOf(workQueue', mainReq.id)
      BY <2>1 DEF NewIsOther
    <3>1. NoSynthOf(toWorker, mainReq.id) /\ NoSynthOf(workQueue, mainReq.id)
      BY DEF CancelInv, NewIsOther
    <3>2. NoSynthOf(toWorker', mainReq.id) /\ (IsSynth(f) => f.id # mainReq.id)
      BY <2>1, <3>1, TailMore
    <3>3. NoSynthOf(workQueue', mainReq.id)
      BY <2>1, <2>2, <3>1, <3>2, AppendMore
    <3> QED
      BY <3>2, <3>3
  <2>7. ActiveIsMain' /\ MatchStands' /\ FlagIsOwn'
    BY <2>1 DEF CancelInv, ActiveIsMain, MatchStands, FlagIsOwn
  <2> QED
    BY <2>5, <2>6, <2>7 DEF CancelInv
<1>26. CASE ReaderMatches
  <2> DEFINE f == Head(toWorker)
  <2>1. /\ toWorker # <<>> /\ IsCancel(f) /\ toWorker' = Tail(toWorker)
        /\ UNCHANGED <<workQueue, mainPc, mainReq, activeSynthReqId, cancelRequested>>
    BY <1>26 DEF ReaderMatches, IsCancel
  <2>2. /\ child \in {"run", "exit"}
        /\ readerMatch' # 0 => readerMatch' = activeSynthReqId /\ activeSynthReqId = f.id
    BY <1>26 DEF ReaderMatches
  <2> HIDE DEF f
  <2>3. CancelsInOrder'
    <3>1. InOrder(toWorker')
      BY <2>1, TailMore DEF CancelInv, CancelsInOrder
    <3>2. ASSUME NEW i \in 1..Len(workQueue), IsSynth(workQueue[i])
          PROVE  CancelsOf(toWorker', workQueue[i].id)
      <4> DEFINE id == workQueue[i].id
      <4>1. CancelsOf(toWorker, id)
        BY <3>2 DEF CancelInv, CancelsInOrder
      <4> HIDE DEF id
      <4>2. CancelsOf(toWorker', id)
        BY <2>1, <4>1, TailMore
      <4> QED
        BY <4>2 DEF id
    <3> QED
      BY <2>1, <3>1, <3>2 DEF CancelsInOrder
  <2>4. NewIsOther'
    <3> SUFFICES ASSUME mainPc = "unpublish"
                 PROVE  NoSynthOf(toWorker', mainReq.id) /\ NoSynthOf(workQueue, mainReq.id)
      BY <2>1 DEF NewIsOther
    <3>1. NoSynthOf(toWorker, mainReq.id) /\ NoSynthOf(workQueue, mainReq.id)
      BY DEF CancelInv, NewIsOther
    <3>2. NoSynthOf(toWorker', mainReq.id)
      BY <2>1, <3>1, TailMore
    <3> QED
      BY <3>1, <3>2
  <2>5. MatchStands'
    <3> SUFFICES ASSUME readerMatch' # 0
                 PROVE  /\ NoSynth(workQueue) /\ mainPc \notin {"prepare", "publish"}
                        /\ mainPc = "synth" => mainReq.id = readerMatch'
      BY <2>1 DEF MatchStands
    <3>1. /\ mainPc \in {"synth", "unpublish"} /\ mainReq.id = f.id
          /\ readerMatch' = mainReq.id
      BY <2>2 DEF CancelInv, ActiveIsMain
    <3>2. CASE mainPc = "synth"
      <4>1. Alive /\ Busy /\ ~InHello
        BY <2>2, <3>2 DEF Alive, Busy, JobInv, Booting
      <4>2. child = "run"
        BY <2>2, <3>2, <4>1 DEF JobInv, OneJob
      <4>3. workQueue = <<>>
        BY <4>1, <4>2, BusyJob
      <4> QED
        BY <3>1, <4>3, EmptyMore
    <3>3. CASE mainPc = "unpublish"
      <4> SUFFICES ASSUME NEW i \in 1..Len(workQueue), IsSynth(workQueue[i]) PROVE FALSE
        BY <3>1, <3>3 DEF NoSynth
      <4> DEFINE id == workQueue[i].id
      <4>1. CancelsOf(toWorker, id)
        BY DEF CancelInv, CancelsInOrder
      <4>2. id # mainReq.id
        BY <3>3 DEF CancelInv, NewIsOther, NoSynthOf
      <4> HIDE DEF id
      <4>3. f.id = id
        BY <2>1, <4>1, TailMore DEF f
      <4> QED
        BY <3>1, <4>2, <4>3
    <3> QED
      BY <3>1, <3>2, <3>3
  <2>6. ActiveIsMain' /\ FlagIsOwn'
    BY <2>1 DEF CancelInv, ActiveIsMain, FlagIsOwn
  <2> QED
    BY <2>3, <2>4, <2>5, <2>6 DEF CancelInv
<1>27. CASE ReaderCancels
  <2>1. /\ readerMatch # 0 /\ cancelRequested' = readerMatch /\ readerMatch' = 0
        /\ UNCHANGED <<toWorker, workQueue, mainPc, mainReq, activeSynthReqId>>
    BY <1>27 DEF ReaderCancels
  <2>3. CancelsInOrder' /\ NewIsOther'
    BY <2>1 DEF CancelInv, CancelsInOrder, NewIsOther
  <2>4. ActiveIsMain' /\ MatchStands' /\ FlagIsOwn'
    BY <2>1 DEF CancelInv, ActiveIsMain, MatchStands, FlagIsOwn
  <2> QED
    BY <2>3, <2>4 DEF CancelInv
<1>28. CASE MainHello
  <2>1. /\ mainPc = "boot" /\ mainPc' = "wait"
        /\ UNCHANGED <<toWorker, workQueue, mainReq, readerMatch, activeSynthReqId,
                       cancelRequested>>
    BY <1>28 DEF MainHello, MainAt
  <2>3. CancelsInOrder' /\ NewIsOther'
    BY <2>1 DEF CancelInv, CancelsInOrder, NewIsOther
  <2>4. ActiveIsMain' /\ MatchStands' /\ FlagIsOwn'
    BY <2>1 DEF CancelInv, ActiveIsMain, MatchStands, FlagIsOwn
  <2> QED
    BY <2>3, <2>4 DEF CancelInv
<1>29. CASE MainTakes
  <2>1. /\ mainPc = "wait" /\ workQueue # <<>>
        /\ workQueue' = Tail(workQueue) /\ mainReq' = Head(workQueue)
        /\ mainPc' = Handler(Head(workQueue).type)
        /\ UNCHANGED <<toWorker, readerMatch, activeSynthReqId, cancelRequested>>
    BY <1>29 DEF MainTakes, MainAt
  <2>2. mainPc' \in {"load", "prepare", "call"}
    BY <2>1 DEF Handler
  <2>3. CancelsInOrder'
    <3>1. /\ Len(Tail(workQueue)) \in Nat
          /\ \A i \in 1..Len(Tail(workQueue)) :
               i + 1 \in 1..Len(workQueue) /\ Tail(workQueue)[i] = workQueue[i + 1]
      BY <2>1, TailFrames
    <3>2. ASSUME NEW i \in 1..Len(Tail(workQueue)), IsSynth(Tail(workQueue)[i])
          PROVE  CancelsOf(toWorker, Tail(workQueue)[i].id)
      <4>1. i + 1 \in 1..Len(workQueue) /\ Tail(workQueue)[i] = workQueue[i + 1]
        BY <3>1
      <4> QED
        BY <3>2, <4>1 DEF CancelInv, CancelsInOrder
    <3> QED
      BY <2>1, <3>2 DEF CancelInv, CancelsInOrder
  <2>4. NewIsOther' /\ ActiveIsMain' /\ FlagIsOwn'
    BY <2>1, <2>2 DEF CancelInv, NewIsOther, ActiveIsMain, FlagIsOwn
  <2>5. MatchStands'
    <3> SUFFICES ASSUME readerMatch # 0
                 PROVE  NoSynth(workQueue') /\ mainPc' # "prepare"
      BY <2>1, <2>2 DEF MatchStands
    <3>1. NoSynth(workQueue') /\ ~IsSynth(Head(workQueue))
      BY <2>1, TailMore DEF CancelInv, MatchStands
    <3> QED
      BY <2>1, <3>1 DEF IsSynth, Handler
  <2> QED
    BY <2>3, <2>4, <2>5 DEF CancelInv
<1>30. CASE MainLoads
  <2>1. /\ mainPc = "load" /\ mainPc' = "wait"
        /\ UNCHANGED <<toWorker, workQueue, mainReq, readerMatch, activeSynthReqId,
                       cancelRequested>>
    BY <1>30 DEF MainLoads, MainAt, Answers
  <2>3. CancelsInOrder' /\ NewIsOther'
    BY <2>1 DEF CancelInv, CancelsInOrder, NewIsOther
  <2>4. ActiveIsMain' /\ MatchStands' /\ FlagIsOwn'
    BY <2>1 DEF CancelInv, ActiveIsMain, MatchStands, FlagIsOwn
  <2> QED
    BY <2>3, <2>4 DEF CancelInv
<1>31. CASE MainAnswers
  <2>1. /\ mainPc = "call" /\ mainPc' = "wait"
        /\ UNCHANGED <<toWorker, workQueue, mainReq, readerMatch, activeSynthReqId,
                       cancelRequested>>
    BY <1>31 DEF MainAnswers, MainAt, Answers
  <2>3. CancelsInOrder' /\ NewIsOther'
    BY <2>1 DEF CancelInv, CancelsInOrder, NewIsOther
  <2>4. ActiveIsMain' /\ MatchStands' /\ FlagIsOwn'
    BY <2>1 DEF CancelInv, ActiveIsMain, MatchStands, FlagIsOwn
  <2> QED
    BY <2>3, <2>4 DEF CancelInv
<1>32. CASE MainRejects
  <2>1. /\ mainPc = "prepare" /\ mainPc' = "wait"
        /\ UNCHANGED <<toWorker, workQueue, mainReq, readerMatch, activeSynthReqId,
                       cancelRequested>>
    BY <1>32 DEF MainRejects, MainAt
  <2>3. CancelsInOrder' /\ NewIsOther'
    BY <2>1 DEF CancelInv, CancelsInOrder, NewIsOther
  <2>4. ActiveIsMain' /\ MatchStands' /\ FlagIsOwn'
    BY <2>1 DEF CancelInv, ActiveIsMain, MatchStands, FlagIsOwn
  <2> QED
    BY <2>3, <2>4 DEF CancelInv
<1>33. CASE MainClearsCancel
  <2>1. /\ mainPc = "prepare" /\ mainPc' = "publish" /\ cancelRequested' = 0
        /\ UNCHANGED <<toWorker, workQueue, mainReq, readerMatch, activeSynthReqId>>
    BY <1>33 DEF MainClearsCancel, MainAt
  <2>3. CancelsInOrder' /\ NewIsOther'
    BY <2>1 DEF CancelInv, CancelsInOrder, NewIsOther
  <2>4. ActiveIsMain' /\ MatchStands' /\ FlagIsOwn'
    BY <2>1 DEF CancelInv, ActiveIsMain, MatchStands, FlagIsOwn
  <2> QED
    BY <2>3, <2>4 DEF CancelInv
<1>34. CASE MainPublishes
  <2>1. /\ mainPc = "publish" /\ mainPc' = "synth"
        /\ activeSynthReqId' = mainReq.id
        /\ UNCHANGED <<toWorker, workQueue, mainReq, readerMatch, cancelRequested>>
    BY <1>34 DEF MainPublishes, MainAt
  <2>3. CancelsInOrder' /\ NewIsOther'
    BY <2>1 DEF CancelInv, CancelsInOrder, NewIsOther
  <2>4. ActiveIsMain' /\ MatchStands' /\ FlagIsOwn'
    BY <2>1 DEF CancelInv, ActiveIsMain, MatchStands, FlagIsOwn
  <2> QED
    BY <2>3, <2>4 DEF CancelInv
<1>35. CASE MainAudio
  <2>1. UNCHANGED <<toWorker, workQueue, mainPc, mainReq, readerMatch,
                    activeSynthReqId, cancelRequested>>
    BY <1>35 DEF MainAudio
  <2>3. CancelsInOrder' /\ NewIsOther'
    BY <2>1 DEF CancelInv, CancelsInOrder, NewIsOther
  <2>4. ActiveIsMain' /\ MatchStands' /\ FlagIsOwn'
    BY <2>1 DEF CancelInv, ActiveIsMain, MatchStands, FlagIsOwn
  <2> QED
    BY <2>3, <2>4 DEF CancelInv
<1>36. CASE MainFinishes
  <2>1. /\ mainPc = "synth" /\ mainPc' = "unpublish" /\ child = "run"
        /\ UNCHANGED <<toWorker, workQueue, mainReq, readerMatch, activeSynthReqId,
                       cancelRequested>>
    BY <1>36 DEF MainFinishes, MainAt
  <2>2. NoWork(toWorker) /\ workQueue = <<>>
    BY <2>1, BusyJob DEF Busy
  <2>3. NewIsOther'
    BY <2>1, <2>2, NoWorkMore, EmptyMore DEF NewIsOther
  <2>4. CancelsInOrder' /\ ActiveIsMain' /\ MatchStands' /\ FlagIsOwn'
    BY <2>1 DEF CancelInv, CancelsInOrder, ActiveIsMain, MatchStands, FlagIsOwn
  <2> QED
    BY <2>3, <2>4 DEF CancelInv
<1>37. CASE MainOversize
  <2>1. /\ mainPc = "synth" /\ mainPc' = "none" /\ activeSynthReqId' = 0
        /\ UNCHANGED <<toWorker, workQueue, mainReq, readerMatch, cancelRequested>>
    BY <1>37 DEF MainOversize, MainAt
  <2>3. CancelsInOrder' /\ NewIsOther'
    BY <2>1 DEF CancelInv, CancelsInOrder, NewIsOther
  <2>4. ActiveIsMain' /\ MatchStands' /\ FlagIsOwn'
    BY <2>1 DEF CancelInv, ActiveIsMain, MatchStands, FlagIsOwn
  <2> QED
    BY <2>3, <2>4 DEF CancelInv
<1>38. CASE MainUnpublishes
  <2>1. /\ mainPc = "unpublish" /\ mainPc' = "wait" /\ activeSynthReqId' = 0
        /\ UNCHANGED <<toWorker, workQueue, mainReq, readerMatch, cancelRequested>>
    BY <1>38 DEF MainUnpublishes, MainAt
  <2>3. CancelsInOrder' /\ NewIsOther'
    BY <2>1 DEF CancelInv, CancelsInOrder, NewIsOther
  <2>4. ActiveIsMain' /\ MatchStands' /\ FlagIsOwn'
    BY <2>1 DEF CancelInv, ActiveIsMain, MatchStands, FlagIsOwn
  <2> QED
    BY <2>3, <2>4 DEF CancelInv
<1>39. CASE Crash
  <2>1. /\ workQueue' = <<>> /\ mainPc' = "none" /\ readerMatch' = 0
        /\ activeSynthReqId' = 0 /\ UNCHANGED toWorker
    BY <1>39 DEF Crash, WorkerState
  <2>2. CancelsInOrder'
    <3>1. Len(workQueue') = 0
      BY <2>1, EmptySeq
    <3> QED
      BY <2>1, <3>1 DEF CancelInv, CancelsInOrder
  <2> QED
    BY <2>1, <2>2 DEF CancelInv, NewIsOther, ActiveIsMain, MatchStands, FlagIsOwn
<1>40. CASE UNCHANGED vars
  BY <1>40, SameCancel DEF vars
<1> QED
  BY <1>1, <1>2, <1>3, <1>4, <1>5, <1>6, <1>7, <1>8, <1>9, <1>10, <1>11, <1>12,
     <1>13, <1>14, <1>15, <1>16, <1>17, <1>18, <1>19, <1>20, <1>21, <1>22,
     <1>23, <1>24, <1>25, <1>26, <1>27, <1>28, <1>29, <1>30, <1>31, <1>32,
     <1>33, <1>34, <1>35, <1>36, <1>37, <1>38, <1>39, <1>40 DEF Next,
     Environment, Ensure, Synth, Receive, Reader, Main

-----------------------------------------------------------------------------
(* The invariant, and the cancel.                                          *)

LEMMA SInvInit == Init => SInv
<1> SUFFICES ASSUME Init PROVE SInv
  OBVIOUS
<1>1. IInv
  BY IInvInit
<1>2. /\ toWorker = <<>> /\ toParent = <<>> /\ workQueue = <<>> /\ mainPc = "none"
      /\ activeSynthReqId = 0 /\ readerMatch = 0 /\ nextReqId = 1
      /\ mainReq.id = 0 /\ currentSynthReqId = 0
      /\ \A c \in Callers : pc[c] = "idle" /\ req[c] = 0 /\ watch[c] = 0
  BY DEF Init, NoFrame, Frame
<1>3. CallInv
  <2>1. AllBelow(toWorker, nextReqId) /\ AllBelow(workQueue, nextReqId)
    BY <1>2, EmptyMore
  <2>2. mainReq.id < nextReqId /\ \A c \in Callers : req[c] < nextReqId
    BY <1>2
  <2>3. IdsKnown
    BY <2>1, <2>2, Zenon DEF IdsKnown
  <2>4. SynthHolds /\ NotLoaded /\ Published /\ Watched /\ HasId
    BY <1>2 DEF SynthHolds, NotLoaded, Published, Watched, HasId, Waiting
  <2> QED
    BY <2>3, <2>4 DEF CallInv, Placed
<1>4. JobKind
  BY <1>2 DEF JobKind, Expecting
<1>5. CancelInv
  <2>1. Len(workQueue) = 0
    BY <1>2, EmptySeq
  <2>2. CancelsInOrder
    BY <1>2, <2>1, EmptyMore DEF CancelsInOrder
  <2> QED
    BY <1>2, <2>2 DEF CancelInv, NewIsOther, ActiveIsMain, MatchStands, FlagIsOwn
<1> QED
  BY <1>1, <1>3, <1>4, <1>5 DEF SInv

LEMMA SInvNext == SInv /\ [Next]_vars => SInv'
<1> SUFFICES ASSUME SInv, [Next]_vars PROVE SInv'
  OBVIOUS
<1>1. IInv /\ CallInv /\ JobKind /\ CancelInv /\ TypeOK /\ ControlInv
  BY DEF SInv, IInv
<1>2. IInv' /\ ControlInv'
  BY <1>1, IInvNext DEF IInv
<1>3. Placed'
  BY <1>1, PlacesNext DEF CallInv
<1>4. IdsKnown'
  BY <1>1, IdsNext DEF CallInv, Placed
<1>5. JobKind'
  BY <1>1, <1>2, KindNext
<1>6. CancelInv'
  BY <1>1, CancelNext
<1> QED
  BY <1>2, <1>3, <1>4, <1>5, <1>6 DEF SInv, CallInv

LEMMA SInvAlways == Spec => []SInv
BY SInvInit, SInvNext, PTL DEF Spec

(* The id a canceller can see is that of a synthesis its caller waits for, *)
(* and the flag that can abort a synthesis was set by a cancel of that     *)
(* very request, for any number of callers, requests and worker restarts.  *)
THEOREM CancelSafe == Spec => []CancelHitsItsTarget
<1>1. SInv => CancelHitsItsTarget
  <2> SUFFICES ASSUME SInv PROVE CancelHitsItsTarget
    OBVIOUS
  <2>1. PublishedIsInFlight
    <3> SUFFICES ASSUME currentSynthReqId # 0
                 PROVE  \E c \in Callers : /\ ioMutex = c /\ pc[c] = "synth"
                                           /\ req[c] = currentSynthReqId
      BY DEF PublishedIsInFlight
    <3>1. PICK c \in Callers : pc[c] = "synth" /\ req[c] = currentSynthReqId
      BY DEF SInv, CallInv, Placed, Published
    <3>2. ioMutex = c
      BY <3>1 DEF SInv, IInv, ControlInv, HolderInSession, InSession
    <3> QED
      BY <3>1, <3>2
  <2>2. mainPc = "synth" => cancelRequested \in {0, mainReq.id}
    BY DEF SInv, CancelInv, FlagIsOwn
  <2> QED
    BY <2>1, <2>2 DEF CancelHitsItsTarget
<1> QED
  BY <1>1, SInvAlways, PTL

-----------------------------------------------------------------------------
(* The service.                                                            *)

AnswerTypes == {"SYNTH_RESP", "SYNTH_DONE", "SYNTH_ERR", "CALL_RESP"}
AnswersIn(s) == {s[i].id : i \in {j \in 1..Len(s) : s[j].type \in AnswerTypes}}

WorkerIs == IF pid = 0 THEN "down" ELSE IF loadedOk THEN "up" ELSE "starting"
CallIs   == IF InCall THEN req[ioMutex] ELSE 0
AnswerIs == IF InCall THEN Answered ELSE {}

LEMMA AnswersWhat ==
  ASSUME TypeOK
  PROVE  Answered = AnswersIn(toParent)
<1>1. DOMAIN toParent = 1..Len(toParent)
  BY LenProperties DEF TypeOK
<1>2. SynthEnd("stream") \cup SynthEnd("whole") \cup {"CALL_RESP"} = AnswerTypes
  BY DEF SynthEnd, AnswerTypes
<1> QED
  BY <1>1, <1>2 DEF Answered, AnswersIn

LEMMA AnswersWhatPrime ==
  ASSUME TypeOK'
  PROVE  Answered' = AnswersIn(toParent')
<1>1. DOMAIN toParent' = 1..Len(toParent')
  BY LenProperties DEF TypeOK
<1>2. SynthEnd("stream") \cup SynthEnd("whole") \cup {"CALL_RESP"} = AnswerTypes
  BY DEF SynthEnd, AnswerTypes
<1> QED
  BY <1>1, <1>2 DEF Answered, AnswersIn, SynthEnd

\* The answers in a channel, as frames are sent and received.
LEMMA AnswersKeep ==
  ASSUME NEW s \in Seq(Frames), NEW f \in Frames, NEW id
  PROVE  /\ AnswersIn(<<>>) = {}
         /\ NoEnd(s) => AnswersIn(s) = {}
         /\ f.type \notin AnswerTypes => AnswersIn(Append(s, f)) = AnswersIn(s)
         /\ AnswersIn(s) = {} /\ f.type \in AnswerTypes => AnswersIn(Append(s, f)) = {f.id}
         /\ s # <<>> /\ Head(s).type \notin AnswerTypes => AnswersIn(Tail(s)) = AnswersIn(s)
         /\ s # <<>> /\ Head(s).type \in AnswerTypes /\ AllOf(s, id) => AnswersIn(s) = {id}
<1>1. /\ Len(s) \in Nat /\ Len(Append(s, f)) = Len(s) + 1
      /\ Append(s, f)[Len(s) + 1] = f
      /\ \A i \in 1..Len(s) : Append(s, f)[i] = s[i]
  BY AppendFrames
<1>2. \A i \in 1..Len(Append(s, f)) : i \in 1..Len(s) \/ i = Len(s) + 1
  BY <1>1
<1>3. \A i \in 1..Len(s) : i \in 1..Len(Append(s, f))
  BY <1>1
<1>4. Len(s) + 1 \in 1..Len(Append(s, f))
  BY <1>1
<1>5. AnswersIn(<<>>) = {}
  BY EmptySeq DEF AnswersIn
<1>6. NoEnd(s) => AnswersIn(s) = {}
  BY DEF NoEnd, Ends, Terminal, AnswersIn, AnswerTypes
<1>7. f.type \notin AnswerTypes => AnswersIn(Append(s, f)) = AnswersIn(s)
  BY <1>1, <1>2, <1>3 DEF AnswersIn
<1>8. AnswersIn(s) = {} /\ f.type \in AnswerTypes => AnswersIn(Append(s, f)) = {f.id}
  <2> SUFFICES ASSUME AnswersIn(s) = {}, f.type \in AnswerTypes
               PROVE  AnswersIn(Append(s, f)) = {f.id}
    OBVIOUS
  <2>1. \A i \in 1..Len(s) : s[i].type \notin AnswerTypes
    BY DEF AnswersIn
  <2>2. f.id \in AnswersIn(Append(s, f))
    BY <1>1, <1>4 DEF AnswersIn
  <2>3. \A x \in AnswersIn(Append(s, f)) : x = f.id
    BY <1>1, <1>2, <2>1 DEF AnswersIn
  <2> QED
    BY <2>2, <2>3
<1>9. ASSUME s # <<>>, Head(s).type \notin AnswerTypes
      PROVE  AnswersIn(Tail(s)) = AnswersIn(s)
  <2>1. /\ Head(s) = s[1] /\ Len(s) \in Nat \ {0} /\ Len(Tail(s)) = Len(s) - 1
        /\ \A i \in 1..Len(Tail(s)) : i + 1 \in 1..Len(s) /\ Tail(s)[i] = s[i + 1]
    BY <1>9, TailFrames
  <2>2. \A i \in 1..Len(s) : i = 1 \/ (i - 1 \in 1..Len(Tail(s)) /\ s[i] = Tail(s)[i - 1])
    BY <2>1
  <2>3. \A x \in AnswersIn(Tail(s)) : x \in AnswersIn(s)
    BY <2>1 DEF AnswersIn
  <2>4. \A x \in AnswersIn(s) : x \in AnswersIn(Tail(s))
    BY <1>9, <2>1, <2>2 DEF AnswersIn
  <2> QED
    BY <2>3, <2>4
<1>10. ASSUME s # <<>>, Head(s).type \in AnswerTypes, AllOf(s, id)
       PROVE  AnswersIn(s) = {id}
  <2>1. Head(s) = s[1] /\ 1 \in 1..Len(s)
    BY <1>10, TailFrames
  <2>2. s[1].id \in AnswersIn(s)
    BY <1>10, <2>1 DEF AnswersIn
  <2>3. \A x \in AnswersIn(s) : x = id
    BY <1>10 DEF AnswersIn, AllOf
  <2> QED
    BY <1>10, <2>1, <2>2, <2>3 DEF AllOf
<1> QED
  BY <1>5, <1>6, <1>7, <1>8, <1>9, <1>10

\* What the service sees does not change.
LEMMA ServiceStutters ==
  ASSUME TypeOK, TypeOK', UNCHANGED <<ioMutex, pid, loadedOk, nextReqId>>, InCall' <=> InCall,
         InCall => req'[ioMutex] = req[ioMutex] /\ AnswersIn(toParent') = AnswersIn(toParent)
  PROVE  UNCHANGED Service!vars
<1>1. Answered' = AnswersIn(toParent') /\ Answered = AnswersIn(toParent)
  BY AnswersWhat, AnswersWhatPrime
<1>2. WorkerIs' = WorkerIs /\ CallIs' = CallIs /\ AnswerIs' = AnswerIs
  BY <1>1 DEF WorkerIs, CallIs, AnswerIs
<1> QED
  BY <1>2 DEF Service!vars, WorkerIs, CallIs, AnswerIs

\* A call, or a start, that ends with the worker killed; and a shutdown.
LEMMA FailMaps ==
  ASSUME ControlInv', KillWorker, ioMutex' = NoCaller,
         \/ UNCHANGED nextReqId
         \/ ioMutex = NoCaller /\ Ready /\ nextReqId' = nextReqId + 1
  PROVE  Service!Next
<1>1. WorkerIs' = "down" /\ ~InCall'
  BY SessionAssumption DEF KillWorker, WorkerIs, InCall
<1>2. CallIs' = 0 /\ AnswerIs' = {}
  BY <1>1 DEF CallIs, AnswerIs
<1>3. Ready => WorkerIs = "up"
  BY DEF Ready, WorkerIs
<1>4. Service!Fail
  BY <1>1, <1>2, <1>3 DEF Service!Fail, WorkerIs, CallIs, AnswerIs
<1> QED
  BY <1>4 DEF Service!Next

\* A request sent to an idle worker.
LEMMA CallMaps ==
  ASSUME TypeOK', JobInv, NEW c \in Callers, ioMutex = NoCaller, Alive, Ready,
         UNCHANGED <<pid, loadedOk, toParent>>, ioMutex' = c, Waiting(c)',
         req'[c] = nextReqId, nextReqId' = nextReqId + 1
  PROVE  Service!Next
<1>1. toParent' = <<>>
  BY DEF JobInv, Idle
<1>2. Answered' = {}
  BY <1>1, AnswersWhatPrime, EmptySeq DEF AnswersIn
<1>3. ~InCall /\ InCall'
  BY SessionAssumption DEF InCall
<1>4. /\ CallIs = 0 /\ AnswerIs = {} /\ WorkerIs = "up"
      /\ CallIs' = nextReqId /\ AnswerIs' = {} /\ WorkerIs' = WorkerIs
  BY <1>2, <1>3 DEF CallIs, AnswerIs, WorkerIs, Ready
<1>5. Service!Call(c)
  BY <1>4 DEF Service!Call, WorkerIs, CallIs, AnswerIs
<1> QED
  BY <1>5 DEF Service!Next

\* The last frame of a job is the answer to the call that waits for it.
LEMMA AnswerMaps ==
  ASSUME SInv, TypeOK', child = "run", Busy, UNCHANGED parentVars,
         NEW type \in AnswerTypes, NEW arg \in Payloads, Send(type, arg)
  PROVE  Service!Next \/ UNCHANGED Service!vars
<1>1. TypeOK /\ JobInv /\ toParent \in Seq(Frames) /\ mainReq \in Frames
  BY DEF SInv, IInv, TypeOK
<1>2. /\ UNCHANGED <<ioMutex, pid, loadedOk, nextReqId, pc, req>>
      /\ InCall' <=> InCall
  BY DEF parentVars, sessionVars, callerVars, InCall, Waiting
<1>3. CASE ~InCall
  BY <1>1, <1>2, <1>3, ServiceStutters
<1>4. CASE InCall
  <2>1. ioMutex \in Callers /\ Waiting(ioMutex)
    BY <1>4 DEF InCall
  <2>2. req[ioMutex] # 0 /\ mainReq.id = req[ioMutex] /\ NoEnd(toParent)
    BY <1>1, <2>1, BusyJob DEF SInv, CallInv, Placed, HasId
  <2> DEFINE f == Frame(type, mainReq.id, arg)
  <2>3. f \in Frames /\ f.type = type /\ f.id = req[ioMutex]
    <3>1. type \in FrameTypes
      BY DEF AnswerTypes, FrameTypes
    <3> QED
      BY <1>1, <2>2, <3>1, FrameFields, FrameType DEF Frame
  <2>4. toParent' = Append(toParent, f)
    BY DEF Send
  <2> HIDE DEF f
  <2>5. AnswersIn(toParent) = {}
    BY <1>1, <2>2, <2>3, AnswersKeep
  <2>6. AnswersIn(toParent') = {req[ioMutex]}
    BY <1>1, <2>3, <2>4, <2>5, AnswersKeep
  <2>7. /\ CallIs = req[ioMutex] /\ AnswerIs = {} /\ AnswerIs' = {req[ioMutex]}
        /\ CallIs' = CallIs /\ WorkerIs' = WorkerIs
    BY <1>1, <1>2, <1>4, <2>5, <2>6, AnswersWhat, AnswersWhatPrime
       DEF CallIs, AnswerIs, WorkerIs
  <2>8. Service!Answer
    BY <1>2, <2>2, <2>7 DEF Service!Answer, WorkerIs, CallIs, AnswerIs
  <2> QED
    BY <2>8 DEF Service!Next
<1> QED
  BY <1>3, <1>4

\* The caller takes the answer that was made for it.
LEMMA DeliverMaps ==
  ASSUME SInv, NEW c \in Callers, Waiting(c), toParent # <<>>,
         Head(toParent).type \in AnswerTypes,
         ioMutex' = NoCaller, UNCHANGED <<pid, loadedOk, nextReqId>>
  PROVE  Service!Next
<1>1. TypeOK /\ toParent \in Seq(Frames) /\ AllOf(toParent, req[c]) /\ ioMutex = c
  BY DEF SInv, IInv, TypeOK, JobInv, JobIsCallers, ControlInv, HolderInSession,
     Waiting, InSession
<1>2. req[c] # 0
  BY DEF SInv, CallInv, Placed, HasId
<1>3. AnswersIn(toParent) = {req[c]}
  BY <1>1, AnswersKeep, NoFrameType
<1>4. InCall /\ ~InCall'
  BY <1>1, SessionAssumption DEF InCall
<1>5. /\ CallIs = req[c] /\ AnswerIs = {req[c]} /\ CallIs' = 0 /\ AnswerIs' = {}
      /\ WorkerIs' = WorkerIs
  BY <1>1, <1>3, <1>4, AnswersWhat DEF CallIs, AnswerIs, WorkerIs
<1>6. Service!Deliver
  BY <1>2, <1>5 DEF Service!Deliver, WorkerIs, CallIs, AnswerIs
<1> QED
  BY <1>6 DEF Service!Next

\* Every step of the session is a step of the service, or none.
LEMMA StepMaps ==
  ASSUME SInv, TypeOK', ControlInv', [Next]_vars
  PROVE  [Service!Next]_(Service!vars)
<1> USE SessionAssumption DEF sessionVars, callerVars, workerVars, parentVars
<1> TypeOK /\ ControlInv /\ JobInv /\ CallInv
  BY DEF SInv, IInv
<1> /\ toWorker \in Seq(Frames) /\ toParent \in Seq(Frames)
    /\ mainReq \in Frames /\ spawned \in Nat /\ MaxReq \in Nat
    /\ pc \in [Callers -> PcLabels] /\ req \in [Callers -> 0..MaxReq]
    /\ mode \in [Callers -> {"stream", "whole"}]
  BY DEF TypeOK
<1>1. ASSUME NEW c \in Callers, BeginSynth(c)
      PROVE  Service!Next \/ UNCHANGED Service!vars
  <2>1. UNCHANGED <<ioMutex, pid, loadedOk, nextReqId, toParent>>
    BY <1>1 DEF BeginSynth
  <2>2. \A d \in Callers : (Waiting(d)' <=> Waiting(d)) /\ (Waiting(d) => req'[d] = req[d])
    BY <1>1 DEF BeginSynth, Goto, Waiting
  <2>3. InCall' <=> InCall
    BY <2>1, <2>2 DEF InCall
  <2> QED
    BY <2>1, <2>2, <2>3, ServiceStutters DEF InCall
<1>2. ASSUME NEW c \in Callers, BeginRegister(c)
      PROVE  Service!Next \/ UNCHANGED Service!vars
  <2>1. UNCHANGED <<ioMutex, pid, loadedOk, nextReqId, toParent>>
    BY <1>2 DEF BeginRegister
  <2>2. \A d \in Callers : (Waiting(d)' <=> Waiting(d)) /\ (Waiting(d) => req'[d] = req[d])
    BY <1>2 DEF BeginRegister, Goto, Waiting
  <2>3. InCall' <=> InCall
    BY <2>1, <2>2 DEF InCall
  <2> QED
    BY <2>1, <2>2, <2>3, ServiceStutters DEF InCall
<1>3. ASSUME NEW c \in Callers, EndRequest(c)
      PROVE  Service!Next \/ UNCHANGED Service!vars
  <2>1. UNCHANGED <<ioMutex, pid, loadedOk, nextReqId, toParent>>
    BY <1>3 DEF EndRequest
  <2>2. \A d \in Callers : (Waiting(d)' <=> Waiting(d)) /\ (Waiting(d) => req'[d] = req[d])
    BY <1>3 DEF EndRequest, Goto, Waiting
  <2>3. InCall' <=> InCall
    BY <2>1, <2>2 DEF InCall
  <2> QED
    BY <2>1, <2>2, <2>3, ServiceStutters DEF InCall
<1>4. ASSUME NEW c \in Callers, Shutdown(c)
      PROVE  Service!Next \/ UNCHANGED Service!vars
  <2>1. KillWorker /\ ioMutex' = NoCaller
    BY <1>4 DEF Shutdown
  <2>2. UNCHANGED nextReqId
    BY <1>4 DEF Shutdown, callerVars
  <2> QED
    BY <2>1, <2>2, FailMaps
<1>5. ASSUME NEW c \in Callers, EnsureFast(c)
      PROVE  Service!Next \/ UNCHANGED Service!vars
  <2>1. UNCHANGED <<ioMutex, pid, loadedOk, nextReqId, toParent>>
    BY <1>5 DEF EnsureFast
  <2>2. \A d \in Callers : (Waiting(d)' <=> Waiting(d)) /\ (Waiting(d) => req'[d] = req[d])
    BY <1>5 DEF EnsureFast, AfterEnsure, Goto, Waiting
  <2>3. InCall' <=> InCall
    BY <2>1, <2>2 DEF InCall
  <2> QED
    BY <2>1, <2>2, <2>3, ServiceStutters DEF InCall
<1>6. ASSUME NEW c \in Callers, EnsureSpawn(c)
      PROVE  Service!Next \/ UNCHANGED Service!vars
  <2>1. /\ ioMutex = NoCaller /\ ioMutex' = c /\ pc'[c] = "hello"
        /\ pid' = spawned + 1 /\ loadedOk' = FALSE /\ UNCHANGED nextReqId
    BY <1>6 DEF EnsureSpawn, Goto
  <2>2. ~InCall /\ ~InCall'
    BY <2>1, SessionAssumption DEF InCall, Waiting
  <2>3. WorkerIs' = "starting"
    BY <2>1 DEF WorkerIs
  <2>4. CallIs = 0 /\ CallIs' = 0 /\ AnswerIs = {} /\ AnswerIs' = {}
    BY <2>2 DEF CallIs, AnswerIs
  <2>5. Service!Start(c)
    BY <2>1, <2>3, <2>4 DEF Service!Start, WorkerIs, CallIs, AnswerIs
  <2> QED
    BY <2>5 DEF Service!Next
<1>7. ASSUME NEW c \in Callers, EnsureSpawnFails(c)
      PROVE  Service!Next \/ UNCHANGED Service!vars
  <2>1. KillWorker /\ ioMutex' = NoCaller
    BY <1>7 DEF EnsureSpawnFails
  <2>2. UNCHANGED nextReqId
    BY <1>7 DEF EnsureSpawnFails, callerVars
  <2> QED
    BY <2>1, <2>2, FailMaps
<1>8. ASSUME NEW c \in Callers, RecvHello(c)
      PROVE  Service!Next \/ UNCHANGED Service!vars
  <2>1. /\ UNCHANGED <<ioMutex, pid, loadedOk, nextReqId>>
        /\ pc[c] = "hello" /\ pc' = [pc EXCEPT ![c] = "loading"]
    BY <1>8 DEF RecvHello, Goto
  <2>2. ioMutex = c
    BY <2>1 DEF ControlInv, HolderInSession, InSession
  <2>3. ~InCall /\ ~InCall'
    BY <2>1, <2>2 DEF InCall, Waiting
  <2> QED
    BY <2>1, <2>3, ServiceStutters
<1>9. ASSUME NEW c \in Callers, RecvHelloFails(c)
      PROVE  Service!Next \/ UNCHANGED Service!vars
  <2>1. KillWorker /\ ioMutex' = NoCaller
    BY <1>9 DEF RecvHelloFails, EnsureFailed, Return
  <2>2. UNCHANGED nextReqId
    BY <1>9 DEF RecvHelloFails, EnsureFailed, Return, callerVars
  <2> QED
    BY <2>1, <2>2, FailMaps
<1>10. ASSUME NEW c \in Callers, RecvLoadResp(c)
      PROVE  Service!Next \/ UNCHANGED Service!vars
  <2>1. /\ pc[c] = "loading" /\ ioMutex' = NoCaller /\ loadedOk' = TRUE
        /\ UNCHANGED <<pid, nextReqId>>
    BY <1>10 DEF RecvLoadResp, Return
  <2>2. ioMutex = c /\ pid # 0 /\ ~loadedOk
    BY <2>1 DEF ControlInv, HolderInSession, InSession, CallInv, Placed, NotLoaded
  <2>3. ~InCall /\ ~InCall'
    BY <2>1, <2>2, SessionAssumption DEF InCall, Waiting
  <2>4. WorkerIs = "starting" /\ WorkerIs' = "up"
    BY <2>1, <2>2 DEF WorkerIs
  <2>5. CallIs = 0 /\ CallIs' = 0 /\ AnswerIs = {} /\ AnswerIs' = {}
    BY <2>3 DEF CallIs, AnswerIs
  <2>6. Service!Started
    BY <2>1, <2>4, <2>5 DEF Service!Started, WorkerIs, CallIs, AnswerIs
  <2> QED
    BY <2>6 DEF Service!Next
<1>11. ASSUME NEW c \in Callers, RecvLoadRespFails(c)
      PROVE  Service!Next \/ UNCHANGED Service!vars
  <2>1. KillWorker /\ ioMutex' = NoCaller
    BY <1>11 DEF RecvLoadRespFails, EnsureFailed, Return
  <2>2. UNCHANGED nextReqId
    BY <1>11 DEF RecvLoadRespFails, EnsureFailed, Return, callerVars
  <2> QED
    BY <2>1, <2>2, FailMaps
<1>12. ASSUME NEW c \in Callers, SendSynth(c)
      PROVE  Service!Next \/ UNCHANGED Service!vars
  <2>1. /\ ioMutex = NoCaller /\ Alive /\ Ready /\ ioMutex' = c
        /\ UNCHANGED <<pid, loadedOk, toParent>>
        /\ nextReqId' = nextReqId + 1 /\ req'[c] = nextReqId
    BY <1>12 DEF SendSynth, TakesReqId
  <2>2. Waiting(c)'
    BY <1>12 DEF SendSynth, Goto, Waiting
  <2> QED
    BY <2>1, <2>2, CallMaps
<1>13. ASSUME NEW c \in Callers, SendSynthFails(c)
      PROVE  Service!Next \/ UNCHANGED Service!vars
  <2>1. KillWorker /\ ioMutex' = NoCaller
    BY <1>13 DEF SendSynthFails, TakesReqId
  <2>2. ioMutex = NoCaller /\ Ready /\ nextReqId' = nextReqId + 1
    BY <1>13 DEF SendSynthFails, TakesReqId, callerVars
  <2> QED
    BY <2>1, <2>2, FailMaps
<1>14. ASSUME NEW c \in Callers, SynthNotReady(c)
      PROVE  Service!Next \/ UNCHANGED Service!vars
  <2>1. UNCHANGED <<ioMutex, pid, loadedOk, nextReqId, toParent>>
    BY <1>14 DEF SynthNotReady
  <2>2. \A d \in Callers : (Waiting(d)' <=> Waiting(d)) /\ (Waiting(d) => req'[d] = req[d])
    BY <1>14 DEF SynthNotReady, Goto, Waiting
  <2>3. InCall' <=> InCall
    BY <2>1, <2>2 DEF InCall
  <2> QED
    BY <2>1, <2>2, <2>3, ServiceStutters DEF InCall
<1>15. ASSUME NEW c \in Callers, PublishSynth(c)
      PROVE  Service!Next \/ UNCHANGED Service!vars
  <2>1. UNCHANGED <<ioMutex, pid, loadedOk, nextReqId, toParent>>
    BY <1>15 DEF PublishSynth
  <2>2. \A d \in Callers : (Waiting(d)' <=> Waiting(d)) /\ (Waiting(d) => req'[d] = req[d])
    BY <1>15 DEF PublishSynth, Goto, Waiting
  <2>3. InCall' <=> InCall
    BY <2>1, <2>2 DEF InCall
  <2> QED
    BY <2>1, <2>2, <2>3, ServiceStutters DEF InCall
<1>16. ASSUME NEW c \in Callers, RecvAudio(c)
      PROVE  Service!Next \/ UNCHANGED Service!vars
  <2>1. /\ UNCHANGED <<ioMutex, pid, loadedOk, nextReqId, pc, req>>
        /\ pc[c] = "synth" /\ mode[c] = "stream" /\ toParent # <<>>
        /\ Head(toParent).type \notin SynthEnd("stream")
        /\ toParent' = Tail(toParent)
    BY <1>16 DEF RecvAudio
  <2>3. AllAmong(toParent, JobReplies(c))
    BY <2>1 DEF SInv, JobKind, Expecting
  <2>4. Head(toParent).type \in JobReplies(c)
    BY <2>1, <2>3, TailMore
  <2>5. Head(toParent).type \notin AnswerTypes
    BY <2>1, <2>4 DEF JobReplies, SynthEnd, AnswerTypes
  <2>6. AnswersIn(toParent') = AnswersIn(toParent)
    BY <2>1, <2>5, AnswersKeep, NoFrameType
  <2>2. InCall' <=> InCall
    BY <2>1 DEF InCall, Waiting
  <2> QED
    BY <2>1, <2>2, <2>6, ServiceStutters DEF InCall
<1>17. ASSUME NEW c \in Callers, RecvSynthEnd(c)
      PROVE  Service!Next \/ UNCHANGED Service!vars
  <2>1. /\ Waiting(c) /\ toParent # <<>> /\ ioMutex' = NoCaller
        /\ UNCHANGED <<pid, loadedOk, nextReqId>>
    BY <1>17 DEF RecvSynthEnd, SynthReturns, Return, Waiting
  <2>2. Head(toParent).type \in AnswerTypes
    BY <1>17 DEF RecvSynthEnd, SynthEnd, AnswerTypes
  <2> QED
    BY <2>1, <2>2, DeliverMaps
<1>18. ASSUME NEW c \in Callers, RecvSynthFails(c)
      PROVE  Service!Next \/ UNCHANGED Service!vars
  <2>1. KillWorker /\ ioMutex' = NoCaller
    BY <1>18 DEF RecvSynthFails, SynthReturns, Return
  <2>2. UNCHANGED nextReqId
    BY <1>18 DEF RecvSynthFails, SynthReturns, Return, callerVars
  <2> QED
    BY <2>1, <2>2, FailMaps
<1>19. ASSUME NEW c \in Callers, SendCall(c)
      PROVE  Service!Next \/ UNCHANGED Service!vars
  <2>1. /\ ioMutex = NoCaller /\ Alive /\ Ready /\ ioMutex' = c
        /\ UNCHANGED <<pid, loadedOk, toParent>>
        /\ nextReqId' = nextReqId + 1 /\ req'[c] = nextReqId
    BY <1>19 DEF SendCall, TakesReqId
  <2>2. Waiting(c)'
    BY <1>19 DEF SendCall, Goto, Waiting
  <2> QED
    BY <2>1, <2>2, CallMaps
<1>20. ASSUME NEW c \in Callers, SendCallFails(c)
      PROVE  Service!Next \/ UNCHANGED Service!vars
  <2>1. KillWorker /\ ioMutex' = NoCaller
    BY <1>20 DEF SendCallFails, TakesReqId
  <2>2. ioMutex = NoCaller /\ Ready /\ nextReqId' = nextReqId + 1
    BY <1>20 DEF SendCallFails, TakesReqId, callerVars
  <2> QED
    BY <2>1, <2>2, FailMaps
<1>21. ASSUME NEW c \in Callers, RecvCall(c)
      PROVE  Service!Next \/ UNCHANGED Service!vars
  <2>1. /\ Waiting(c) /\ toParent # <<>> /\ ioMutex' = NoCaller
        /\ UNCHANGED <<pid, loadedOk, nextReqId>>
    BY <1>21 DEF RecvCall, Return, Waiting
  <2>2. Head(toParent).type \in AnswerTypes
    BY <1>21 DEF RecvCall, SynthEnd, AnswerTypes
  <2> QED
    BY <2>1, <2>2, DeliverMaps
<1>22. ASSUME NEW c \in Callers, RecvCallFails(c)
      PROVE  Service!Next \/ UNCHANGED Service!vars
  <2>1. KillWorker /\ ioMutex' = NoCaller
    BY <1>22 DEF RecvCallFails, Return
  <2>2. UNCHANGED nextReqId
    BY <1>22 DEF RecvCallFails, Return, callerVars
  <2> QED
    BY <2>1, <2>2, FailMaps
<1>23. ASSUME NEW c \in Callers, DispatchCancel(c)
      PROVE  Service!Next \/ UNCHANGED Service!vars
  <2>1. UNCHANGED <<ioMutex, pid, loadedOk, nextReqId, toParent>>
    BY <1>23 DEF DispatchCancel
  <2>2. \A d \in Callers : (Waiting(d)' <=> Waiting(d)) /\ (Waiting(d) => req'[d] = req[d])
    BY <1>23 DEF DispatchCancel, Waiting
  <2>3. InCall' <=> InCall
    BY <2>1, <2>2 DEF InCall
  <2> QED
    BY <2>1, <2>2, <2>3, ServiceStutters DEF InCall
<1>24. ASSUME NEW c \in Callers, SendCancel(c)
      PROVE  Service!Next \/ UNCHANGED Service!vars
  <2>1. UNCHANGED <<ioMutex, pid, loadedOk, nextReqId, toParent>>
    BY <1>24 DEF SendCancel
  <2>2. \A d \in Callers : (Waiting(d)' <=> Waiting(d)) /\ (Waiting(d) => req'[d] = req[d])
    BY <1>24 DEF SendCancel, Waiting
  <2>3. InCall' <=> InCall
    BY <2>1, <2>2 DEF InCall
  <2> QED
    BY <2>1, <2>2, <2>3, ServiceStutters DEF InCall
<1>25. ASSUME ReaderQueues
      PROVE  Service!Next \/ UNCHANGED Service!vars
  <2>1. UNCHANGED <<ioMutex, pid, loadedOk, nextReqId, pc, req, toParent>>
    BY <1>25 DEF ReaderQueues
  <2>2. InCall' <=> InCall
    BY <2>1 DEF InCall, Waiting
  <2> QED
    BY <2>1, <2>2, ServiceStutters DEF InCall
<1>26. ASSUME ReaderMatches
      PROVE  Service!Next \/ UNCHANGED Service!vars
  <2>1. UNCHANGED <<ioMutex, pid, loadedOk, nextReqId, pc, req, toParent>>
    BY <1>26 DEF ReaderMatches
  <2>2. InCall' <=> InCall
    BY <2>1 DEF InCall, Waiting
  <2> QED
    BY <2>1, <2>2, ServiceStutters DEF InCall
<1>27. ASSUME ReaderCancels
      PROVE  Service!Next \/ UNCHANGED Service!vars
  <2>1. UNCHANGED <<ioMutex, pid, loadedOk, nextReqId, pc, req, toParent>>
    BY <1>27 DEF ReaderCancels
  <2>2. InCall' <=> InCall
    BY <2>1 DEF InCall, Waiting
  <2> QED
    BY <2>1, <2>2, ServiceStutters DEF InCall
<1>28. ASSUME MainHello
      PROVE  Service!Next \/ UNCHANGED Service!vars
  <2>1. UNCHANGED <<ioMutex, pid, loadedOk, nextReqId, pc, req>>
    BY <1>28 DEF MainHello
  <2> DEFINE f == Frame("HELLO", 0, "none")
  <2>3. toParent' = Append(toParent, f)
    BY <1>28 DEF MainHello, Send
  <2>4. f \in Frames /\ f.type \notin AnswerTypes
    <3>1. "HELLO" \in FrameTypes /\ "none" \in Payloads /\ 0 \in 0..MaxReq
      BY FrameFields DEF FrameTypes, Payloads
    <3> QED
      BY <3>1, FrameType DEF Frame, AnswerTypes
  <2> HIDE DEF f
  <2>5. AnswersIn(toParent') = AnswersIn(toParent)
    BY <2>3, <2>4, AnswersKeep
  <2>2. InCall' <=> InCall
    BY <2>1 DEF InCall, Waiting
  <2> QED
    BY <2>1, <2>2, <2>5, ServiceStutters DEF InCall
<1>29. ASSUME MainTakes
      PROVE  Service!Next \/ UNCHANGED Service!vars
  <2>1. UNCHANGED <<ioMutex, pid, loadedOk, nextReqId, pc, req, toParent>>
    BY <1>29 DEF MainTakes
  <2>2. InCall' <=> InCall
    BY <2>1 DEF InCall, Waiting
  <2> QED
    BY <2>1, <2>2, ServiceStutters DEF InCall
<1>30. ASSUME MainLoads
      PROVE  Service!Next \/ UNCHANGED Service!vars
  <2>1. UNCHANGED <<ioMutex, pid, loadedOk, nextReqId, pc, req>>
    BY <1>30 DEF MainLoads, Answers
  <2>a. PICK ok \in {"ok", "failed"} : Send("LOAD_RESP", ok)
    BY <1>30 DEF MainLoads, Answers
  <2> DEFINE f == Frame("LOAD_RESP", mainReq.id, ok)
  <2>3. toParent' = Append(toParent, f)
    BY <1>30, <2>a DEF MainLoads, Answers, Send
  <2>4. f \in Frames /\ f.type \notin AnswerTypes
    <3>1. "LOAD_RESP" \in FrameTypes /\ ok \in Payloads /\ mainReq.id \in 0..MaxReq
      BY FrameFields DEF FrameTypes, Payloads
    <3> QED
      BY <3>1, FrameType DEF Frame, AnswerTypes
  <2> HIDE DEF f
  <2>5. AnswersIn(toParent') = AnswersIn(toParent)
    BY <2>3, <2>4, AnswersKeep
  <2>2. InCall' <=> InCall
    BY <2>1 DEF InCall, Waiting
  <2> QED
    BY <2>1, <2>2, <2>5, ServiceStutters DEF InCall
<1>31. ASSUME MainAnswers
      PROVE  Service!Next \/ UNCHANGED Service!vars
  <2>1. child = "run" /\ Busy /\ UNCHANGED parentVars
    BY <1>31 DEF MainAnswers, Answers, MainAt, Busy
  <2>2. PICK arg \in {"ok", "failed"} : Send("CALL_RESP", arg)
    BY <1>31 DEF MainAnswers, Answers
  <2>3. "CALL_RESP" \in AnswerTypes /\ arg \in Payloads
    BY DEF AnswerTypes, Payloads
  <2> QED
    BY <2>1, <2>2, <2>3, AnswerMaps
<1>32. ASSUME MainRejects
      PROVE  Service!Next \/ UNCHANGED Service!vars
  <2>1. child = "run" /\ Busy /\ UNCHANGED parentVars
    BY <1>32 DEF MainRejects, MainAt, Busy
  <2> DEFINE arg == "failed"
  <2>2. Send("SYNTH_ERR", arg)
    BY <1>32 DEF MainRejects
  <2>3. "SYNTH_ERR" \in AnswerTypes /\ arg \in Payloads
    BY DEF AnswerTypes, Payloads
  <2> QED
    BY <2>1, <2>2, <2>3, AnswerMaps
<1>33. ASSUME MainClearsCancel
      PROVE  Service!Next \/ UNCHANGED Service!vars
  <2>1. UNCHANGED <<ioMutex, pid, loadedOk, nextReqId, pc, req, toParent>>
    BY <1>33 DEF MainClearsCancel
  <2>2. InCall' <=> InCall
    BY <2>1 DEF InCall, Waiting
  <2> QED
    BY <2>1, <2>2, ServiceStutters DEF InCall
<1>34. ASSUME MainPublishes
      PROVE  Service!Next \/ UNCHANGED Service!vars
  <2>1. UNCHANGED <<ioMutex, pid, loadedOk, nextReqId, pc, req, toParent>>
    BY <1>34 DEF MainPublishes
  <2>2. InCall' <=> InCall
    BY <2>1 DEF InCall, Waiting
  <2> QED
    BY <2>1, <2>2, ServiceStutters DEF InCall
<1>35. ASSUME MainAudio
      PROVE  Service!Next \/ UNCHANGED Service!vars
  <2>1. UNCHANGED <<ioMutex, pid, loadedOk, nextReqId, pc, req>>
    BY <1>35 DEF MainAudio
  <2> DEFINE f == Frame("AUDIO_FRAME", mainReq.id, "none")
  <2>3. toParent' = Append(toParent, f)
    BY <1>35 DEF MainAudio, Send
  <2>4. f \in Frames /\ f.type \notin AnswerTypes
    <3>1. "AUDIO_FRAME" \in FrameTypes /\ "none" \in Payloads /\ mainReq.id \in 0..MaxReq
      BY FrameFields DEF FrameTypes, Payloads
    <3> QED
      BY <3>1, FrameType DEF Frame, AnswerTypes
  <2> HIDE DEF f
  <2>5. AnswersIn(toParent') = AnswersIn(toParent)
    BY <2>3, <2>4, AnswersKeep
  <2>2. InCall' <=> InCall
    BY <2>1 DEF InCall, Waiting
  <2> QED
    BY <2>1, <2>2, <2>5, ServiceStutters DEF InCall
<1>36. ASSUME MainFinishes
      PROVE  Service!Next \/ UNCHANGED Service!vars
  <2> DEFINE type == IF mainReq.arg = "stream" THEN "SYNTH_DONE" ELSE "SYNTH_RESP"
  <2>1. child = "run" /\ Busy /\ UNCHANGED parentVars
    BY <1>36 DEF MainFinishes, MainAt, Busy
  <2>2. PICK arg \in {"ok", "failed"} : Send(type, arg)
    BY <1>36 DEF MainFinishes
  <2>3. type \in AnswerTypes /\ arg \in Payloads
    BY DEF AnswerTypes, Payloads
  <2> HIDE DEF type
  <2> QED
    BY <2>1, <2>2, <2>3, AnswerMaps
<1>37. ASSUME MainOversize
      PROVE  Service!Next \/ UNCHANGED Service!vars
  <2>1. UNCHANGED <<ioMutex, pid, loadedOk, nextReqId, pc, req, toParent>>
    BY <1>37 DEF MainOversize
  <2>2. InCall' <=> InCall
    BY <2>1 DEF InCall, Waiting
  <2> QED
    BY <2>1, <2>2, ServiceStutters DEF InCall
<1>38. ASSUME MainUnpublishes
      PROVE  Service!Next \/ UNCHANGED Service!vars
  <2>1. UNCHANGED <<ioMutex, pid, loadedOk, nextReqId, pc, req, toParent>>
    BY <1>38 DEF MainUnpublishes
  <2>2. InCall' <=> InCall
    BY <2>1 DEF InCall, Waiting
  <2> QED
    BY <2>1, <2>2, ServiceStutters DEF InCall
<1>39. ASSUME Crash
      PROVE  Service!Next \/ UNCHANGED Service!vars
  <2>1. UNCHANGED <<ioMutex, pid, loadedOk, nextReqId, pc, req, toParent>>
    BY <1>39 DEF Crash
  <2>2. InCall' <=> InCall
    BY <2>1 DEF InCall, Waiting
  <2> QED
    BY <2>1, <2>2, ServiceStutters DEF InCall
<1>40. ASSUME UNCHANGED vars
      PROVE  Service!Next \/ UNCHANGED Service!vars
  <2>1. UNCHANGED <<ioMutex, pid, loadedOk, nextReqId, pc, req, toParent>>
    BY <1>40 DEF vars
  <2>2. InCall' <=> InCall
    BY <2>1 DEF InCall, Waiting
  <2> QED
    BY <2>1, <2>2, ServiceStutters DEF InCall
<1> QED
  BY <1>1, <1>2, <1>3, <1>4, <1>5, <1>6, <1>7, <1>8, <1>9, <1>10, <1>11, <1>12,
     <1>13, <1>14, <1>15, <1>16, <1>17, <1>18, <1>19, <1>20, <1>21, <1>22,
     <1>23, <1>24, <1>25, <1>26, <1>27, <1>28, <1>29, <1>30, <1>31, <1>32,
     <1>33, <1>34, <1>35, <1>36, <1>37, <1>38, <1>39, <1>40 DEF Next,
     Environment, Ensure, Synth, Receive, Reader, Main

LEMMA InitMaps == Init => Service!Init
<1> SUFFICES ASSUME Init PROVE Service!Init
  OBVIOUS
<1>1. ioMutex = NoCaller /\ pid = 0 /\ nextReqId = 1
  BY DEF Init
<1>2. ~InCall
  BY <1>1, SessionAssumption DEF InCall
<1> QED
  BY <1>1, <1>2 DEF Service!Init

\* The session is SessionService, for any number of callers, of requests and
\* of worker deaths: a call is answered at most once, by the answer made for
\* it, or it fails and leaves no worker behind.
THEOREM ServiceImplemented == Spec => ServiceSpec
<1>1. SInv /\ SInv' /\ [Next]_vars => [Service!Next]_(Service!vars)
  BY StepMaps DEF SInv, IInv
<1> QED
  BY <1>1, InitMaps, SInvAlways, PTL DEF Spec, ServiceSpec, Service!Spec
=============================================================================
