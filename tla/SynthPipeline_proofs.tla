------------------------ MODULE SynthPipeline_proofs ------------------------
(***************************************************************************)
(* SynthPipeline implements PcmStream, for every size of a batch and every *)
(* number of frames: whatever the talker, the vocoder thread, a cancel, an *)
(* error and the consumer do in whatever order, the consumer's stream has  *)
(* no gap, no repetition and nothing after a refusal, and a success has    *)
(* delivered all of it. With it: the caller is alone whenever it touches   *)
(* what the vocoder thread uses.                                           *)
(*                                                                         *)
(* The argument: while nothing was lost, the frames lie in line - heard,   *)
(* then the chunk in work, then the queue, then what is buffered, without  *)
(* a gap (InLine); a loss stops everybody who could deliver (Silent) and   *)
(* is known to the one who reports (Told); and who works when follows from *)
(* the program's places (Places).                                          *)
(*                                                                         *)
(* The second and third parts are about what goes through the pipeline:    *)
(* TalkerPrompt (the talker is told its own prompt and its whole text) and *)
(* FramePredictor (a code is drawn from its own frame's inputs).           *)
(***************************************************************************)
EXTENDS SynthPipeline, TalkerPrompt, FramePredictor,
        SequenceTheorems, FiniteSetTheorems, WellFoundedInduction, TLAPS

\* The places of the two threads.
Installed == {"installed", "generate", "callback", "notify", "decode", "deliver",
              "generated"}
Draining == {"signal", "wake", "join"}
Alone == {"idle", "setup", "decode", "deliver", "judge", "flush", "flushed",
          "finish", "unwind"}

Places ==
  /\ worker # "none" => streaming /\ build.async
  /\ pc \in Alone => worker = "none"
  /\ pc \in Draining => worker # "none"
  /\ frameCb = "own" => streaming /\ pc \in Installed /\ (build.async => worker # "none")
  /\ streaming /\ pc \in Installed => frameCb = "own"
  /\ pc \in {"installed", "notify", "decode", "deliver", "flush", "flushed", "finish",
             "unwind"}
            \cup Draining => streaming
  /\ pc \in {"decode", "deliver"} => ~build.async
  /\ done => pc \in {"idle", "wake", "join", "judge", "flush", "flushed", "finish",
                     "unwind"}

\* The frame that was sampled and is not yet in stream_buf.
Unseen == IF pc = "callback" THEN 1 ELSE 0
Buffered == buffered + Unseen <= frames

\* Nothing is decoded or queued before it was sampled.
Sampled ==
  /\ chunk.to <= frames
  /\ \A i \in 1..Len(queue) : queue[i].to <= frames

\* A lost or refused chunk leaves nobody who would deliver another.
Silent ==
  over => /\ worker \in {"none", "exited"}
          /\ pc \notin {"setup", "decode", "deliver", "flush", "flushed"}
          /\ ~build.async => pc \in {"generated", "judge", "finish", "unwind", "idle"}

\* Who reports the synthesis knows of it.
Told == over /\ pc \notin {"idle", "unwind"} => cbAborted \/ (worker # "none" /\ err)

\* A thread that has left, or was never there, has left nothing in the queue.
QueueLeft ==
  ~over /\ pc # "idle" => /\ worker = "none" => queue = <<>>
                          /\ worker = "exited" => queue = <<>> /\ done

\* The chunks of q follow one another, the first of them follows the frame a.
Chained(a, q) ==
  \A i \in 1..Len(q) : /\ q[i].from = 1 + IF i = 1 THEN a ELSE q[i - 1].to
                       /\ q[i].from <= q[i].to
EndOf(a, q) == IF q = <<>> THEN a ELSE q[Len(q)].to

HeardTo == Stream!End(heard)
Working == worker \in {"decode", "deliver"} \/ pc \in {"decode", "deliver"}
Reached == IF Working THEN chunk.to ELSE HeardTo
Speaking == {"setup", "installed", "generate", "callback", "notify", "decode", "deliver"}
Complete == pc \in Speaking \/ (genOk /\ pc \in {"generated", "judge"} \cup Draining)

InLine ==
  ~over /\ streaming /\ pc # "idle" =>
    /\ Working => chunk.from = HeardTo + 1 /\ chunk.from <= chunk.to
    /\ Chained(Reached, queue)
    /\ Complete => EndOf(Reached, queue) + buffered + Unseen = frames

\* What is left over follows what was heard.
LastChunk ==
  /\ pc \in {"flush", "flushed"} =>
       chunk.from = HeardTo + 1 /\ chunk.from <= chunk.to /\ chunk.to = frames
  /\ pc = "finish" /\ ~cbAborted => ~over /\ HeardTo = frames

IInv ==
  /\ TypeOK /\ Places /\ Buffered /\ Sampled
  /\ Silent /\ Told /\ QueueLeft /\ InLine /\ LastChunk
-----------------------------------------------------------------------------
(* The queue.                                                              *)

\* What a chunk is, and where a queue ends.
LEMMA EndNat ==
  ASSUME NEW q \in Seq(Chunks), NEW a \in Nat
  PROVE  EndOf(a, q) \in Nat
<1>1. CASE q = <<>>
  BY <1>1 DEF EndOf
<1>2. CASE q # <<>>
  <2>1. q[Len(q)] \in Chunks
    BY <1>2
  <2> QED
    BY <1>2, <2>1 DEF EndOf, Chunks
<1> QED
  BY <1>1, <1>2

\* CallbackPushes: a chunk that follows the queue's end lengthens the chain.
LEMMA AppendChained ==
  ASSUME NEW q \in Seq(Chunks), NEW a \in Nat, NEW c \in Chunks,
         Chained(a, q), c.from = EndOf(a, q) + 1, c.from <= c.to
  PROVE  /\ Append(q, c) \in Seq(Chunks)
         /\ Chained(a, Append(q, c)) /\ EndOf(a, Append(q, c)) = c.to
<1> DEFINE r == Append(q, c)
<1>1. r \in Seq(Chunks) /\ Len(r) = Len(q) + 1 /\ Len(q) \in Nat
  OBVIOUS
<1>2. r[Len(q) + 1] = c /\ \A i \in 1..Len(q) : r[i] = q[i]
  OBVIOUS
<1>3. EndOf(a, r) = c.to
  BY <1>1, <1>2 DEF EndOf
<1>4. ASSUME NEW i \in 1..Len(r)
      PROVE  /\ r[i].from = 1 + IF i = 1 THEN a ELSE r[i - 1].to
             /\ r[i].from <= r[i].to
  <2>1. CASE i \in 1..Len(q)
    <3>1. r[i] = q[i] /\ (i # 1 => r[i - 1] = q[i - 1])
      BY <1>1, <1>2, <2>1
    <3> QED
      BY <2>1, <3>1 DEF Chained
  <2>2. CASE i = Len(q) + 1 /\ q = <<>>
    BY <1>2, <2>2 DEF EndOf
  <2>3. CASE i = Len(q) + 1 /\ q # <<>>
    <3>1. i # 1 /\ i - 1 \in 1..Len(q) /\ r[i - 1] = q[Len(q)]
      BY <1>1, <1>2, <2>3
    <3>2. q[Len(q)] \in Chunks
      BY <2>3
    <3> QED
      BY <1>2, <2>3, <3>1, <3>2 DEF EndOf, Chunks
  <2> QED
    BY <1>1, <2>1, <2>2, <2>3
<1>5. Chained(a, r)
  BY <1>4 DEF Chained
<1> QED
  BY <1>1, <1>3, <1>5

\* Take: the first chunk of a chain follows a, the others follow it.
LEMMA TailChained ==
  ASSUME NEW q \in Seq(Chunks), NEW a \in Nat, Chained(a, q), q # <<>>
  PROVE  /\ Head(q) \in Chunks /\ Tail(q) \in Seq(Chunks)
         /\ Head(q).from = a + 1 /\ Head(q).from <= Head(q).to
         /\ Chained(Head(q).to, Tail(q))
         /\ EndOf(Head(q).to, Tail(q)) = EndOf(a, q)
<1> DEFINE t == Tail(q)
<1>1. /\ t \in Seq(Chunks) /\ Len(t) = Len(q) - 1 /\ Len(q) \in Nat \ {0}
      /\ Head(q) = q[1] /\ q[1] \in Chunks
  OBVIOUS
<1>2. \A i \in 1..Len(t) : t[i] = q[i + 1]
  OBVIOUS
<1>3. q[1].from = a + 1 /\ q[1].from <= q[1].to
  BY <1>1 DEF Chained, Chunks
<1>4. ASSUME NEW i \in 1..Len(t)
      PROVE  /\ t[i].from = 1 + IF i = 1 THEN q[1].to ELSE t[i - 1].to
             /\ t[i].from <= t[i].to
  <2>1. i + 1 \in 1..Len(q) /\ i + 1 # 1 /\ (i + 1) - 1 = i /\ t[i] = q[i + 1]
    BY <1>1, <1>2
  <2>2. i # 1 => t[i - 1] = q[i]
    BY <1>1, <1>2
  <2>3. q[i + 1].from = 1 + q[i].to /\ q[i + 1].from <= q[i + 1].to
    BY <2>1 DEF Chained
  <2> QED
    BY <2>1, <2>2, <2>3
<1>5. Chained(q[1].to, t)
  BY <1>4 DEF Chained
<1>6. EndOf(q[1].to, t) = EndOf(a, q)
  <2>1. CASE t = <<>>
    <3>1. Len(q) = 1
      BY <1>1, <2>1
    <3> QED
      BY <2>1, <3>1 DEF EndOf
  <2>2. CASE t # <<>>
    <3>1. Len(t) \in 1..Len(t) /\ Len(t) + 1 = Len(q)
      BY <1>1, <2>2
    <3> QED
      BY <1>2, <2>2, <3>1 DEF EndOf
  <2> QED
    BY <2>1, <2>2
<1> QED
  BY <1>1, <1>3, <1>5, <1>6

\* What was heard ends at its last chunk.
LEMMA HeardNat ==
  ASSUME TypeOK PROVE HeardTo \in Nat
<1>1. CASE heard = <<>>
  BY <1>1 DEF HeardTo, Stream!End
<1>2. CASE heard # <<>>
  <2>1. heard[Len(heard)] \in Chunks
    BY <1>2 DEF TypeOK
  <2> QED
    BY <1>2, <2>1 DEF HeardTo, Stream!End, Chunks
<1> QED
  BY <1>1, <1>2

LEMMA HeardGrows ==
  ASSUME TypeOK, heard' = Append(heard, chunk)
  PROVE  heard' \in Seq(Chunks) /\ HeardTo' = chunk.to
<1>1. heard \in Seq(Chunks) /\ chunk \in Chunks
  BY DEF TypeOK
<1>2. heard' \in Seq(Chunks) /\ heard' # <<>> /\ heard'[Len(heard')] = chunk
  BY <1>1
<1> QED
  BY <1>2 DEF HeardTo, Stream!End

\* Where the chunks that were taken end, and where the queue ends.
LEMMA ReachedNat ==
  ASSUME TypeOK PROVE Reached \in Nat /\ EndOf(Reached, queue) \in Nat
<1>1. Reached \in Nat
  BY HeardNat DEF TypeOK, Reached, Chunks
<1> QED
  BY <1>1, EndNat DEF TypeOK

\* What the caller is told.
LEMMA ReturnTyped ==
  ASSUME NEW msg \in Messages, Return(msg)
  PROVE  result' \in [success : BOOLEAN, msg : Messages]
<1>1. (msg = "none") \in BOOLEAN
  BY Zenon
<1> QED
  BY <1>1, Zenon DEF Return

-----------------------------------------------------------------------------
(* One lemma for each action.                                              *)

\* A synthesis starts from nothing.
LEMMA BeginIInv ==
  ASSUME IInv, NEW s \in BOOLEAN, Begin(s)
  PROVE  IInv'
<1> USE DEF IInv, Begin, Goto, NoChunk, NoResult
<1>1. /\ cancel' \in BOOLEAN /\ done' \in BOOLEAN /\ over' \in BOOLEAN
      /\ cbAborted' \in BOOLEAN /\ err' \in BOOLEAN
      /\ result' \in [success : BOOLEAN, msg : Messages]
  BY Zenon DEF Messages
<1>2. TypeOK'
  BY <1>1, SizesAssumption DEF TypeOK, Chunks, Messages
<1>3. Places' /\ Buffered' /\ Sampled' /\ Silent' /\ Told' /\ QueueLeft'
  BY DEF TypeOK, Places, Installed, Draining, Alone, Buffered, Unseen,
     Sampled, Silent, Told, QueueLeft
<1>4. HeardTo' = 0 /\ Chained(0, queue') /\ EndOf(0, queue') = 0
  BY DEF HeardTo, Stream!End, Chained, EndOf
<1>5. Reached' = 0 /\ ~Working'
  BY <1>4 DEF Places, Alone, Reached, Working
<1>6. InLine' /\ LastChunk'
  BY <1>4, <1>5 DEF InLine, Complete, Speaking, Unseen, LastChunk
<1> QED
  BY <1>2, <1>3, <1>6

\* Nothing was begun that could be lost.
LEMMA SetupFailsIInv ==
  ASSUME IInv, SetupFails
  PROVE  IInv'
<1> USE DEF IInv, SetupFails, Return, queueVars, chunkVars
<1>1. TypeOK'
  BY DEF TypeOK, Chunks, Messages
<1>2. Places' /\ Buffered' /\ Sampled' /\ Silent' /\ Told' /\ QueueLeft'
  BY DEF TypeOK, Places, Installed, Draining, Alone, Buffered, Unseen,
     Sampled, Silent, Told, QueueLeft
<1>3. HeardTo' = HeardTo /\ HeardTo \in Nat /\ EndOf(Reached, queue) \in Nat
  BY HeardNat, ReachedNat DEF HeardTo, Stream!End
<1>4. InLine' /\ LastChunk'
  BY <1>3 DEF TypeOK, Places, Alone, InLine, Working, Reached, Speaking,
     Complete, Draining, Unseen, LastChunk
<1> QED
  BY <1>1, <1>2, <1>4

\* The thread exists for a streamed synthesis only.
LEMMA SetupIInv ==
  ASSUME IInv, Setup
  PROVE  IInv'
<1> USE DEF IInv, Setup, Goto, queueVars, chunkVars
<1>1. TypeOK'
  BY DEF TypeOK, Chunks, Messages
<1>2. Places' /\ Buffered' /\ Sampled' /\ Silent' /\ Told' /\ QueueLeft'
  BY DEF TypeOK, Places, Installed, Draining, Alone, Buffered, Unseen,
     Sampled, Silent, Told, QueueLeft
<1>3. HeardTo' = HeardTo /\ HeardTo \in Nat /\ EndOf(Reached, queue) \in Nat
  BY HeardNat, ReachedNat DEF HeardTo, Stream!End
<1>4. InLine' /\ LastChunk'
  BY <1>3 DEF TypeOK, Places, Alone, InLine, Working, Reached, Speaking,
     Complete, Draining, Unseen, LastChunk
<1> QED
  BY <1>1, <1>2, <1>4

\* The scope says nothing of the stream.
LEMMA LeaveScopeIInv ==
  ASSUME IInv, LeaveScope
  PROVE  IInv'
<1> USE DEF IInv, LeaveScope, Goto, queueVars, chunkVars
<1>1. scope' \in BOOLEAN
  BY Zenon DEF TypeOK
<1>2. TypeOK'
  BY <1>1 DEF TypeOK, Chunks, Messages
<1>3. Places' /\ Buffered' /\ Sampled' /\ Silent' /\ Told' /\ QueueLeft'
  BY DEF TypeOK, Places, Installed, Draining, Alone, Buffered, Unseen,
     Sampled, Silent, Told, QueueLeft
<1>4. HeardTo' = HeardTo /\ HeardTo \in Nat /\ EndOf(Reached, queue) \in Nat
  BY HeardNat, ReachedNat DEF HeardTo, Stream!End
<1>5. InLine' /\ LastChunk'
  BY <1>4 DEF TypeOK, Places, Alone, InLine, Working, Reached, Speaking,
     Complete, Draining, Unseen, LastChunk
<1> QED
  BY <1>2, <1>3, <1>5

\* A new frame is not yet in stream_buf.
LEMMA FrameIInv ==
  ASSUME IInv, Frame
  PROVE  IInv'
<1> USE DEF IInv, Frame, Budget, Goto, queueVars, chunkVars
<1>1. TypeOK'
  BY SizesAssumption DEF TypeOK, Chunks, Messages
<1>2. Sampled'
  <2>1. frames \in Nat /\ chunk.to \in Nat
    BY SizesAssumption DEF TypeOK, Chunks
  <2>2. ASSUME NEW i \in 1..Len(queue) PROVE queue[i].to \in Nat
    <3>1. queue \in Seq(Chunks)
      BY DEF TypeOK
    <3>2. queue[i] \in Chunks
      BY <3>1
    <3> QED
      BY <3>2 DEF Chunks
  <2> QED
    BY <2>1, <2>2 DEF Sampled
<1>3. Places' /\ Buffered' /\ Silent' /\ Told' /\ QueueLeft'
  BY DEF TypeOK, Places, Installed, Draining, Alone, Buffered, Unseen,
     Silent, Told, QueueLeft
<1>4. HeardTo' = HeardTo /\ Reached' = Reached /\ EndOf(Reached, queue) \in Nat
  BY ReachedNat DEF HeardTo, Reached, Working, Stream!End
<1>5. streaming => Unseen = 0 /\ Unseen' = 1
  BY DEF Places, Installed, Unseen
<1>6. InLine' /\ LastChunk'
  BY <1>4, <1>5 DEF TypeOK, InLine, Working, Complete, Speaking, LastChunk
<1> QED
  BY <1>1, <1>2, <1>3, <1>6

\* Every frame has been through the callback.
LEMMA GenerateEndsIInv ==
  ASSUME IInv, GenerateEnds
  PROVE  IInv'
<1> USE DEF IInv, GenerateEnds, Goto, queueVars, chunkVars
<1>1. TypeOK'
  BY DEF TypeOK, Chunks, Messages
<1>2. Places' /\ Buffered' /\ Sampled' /\ Silent' /\ Told' /\ QueueLeft'
  BY DEF TypeOK, Places, Installed, Draining, Alone, Buffered, Unseen,
     Sampled, Silent, Told, QueueLeft
<1>3. HeardTo' = HeardTo /\ HeardTo \in Nat /\ EndOf(Reached, queue) \in Nat
  BY HeardNat, ReachedNat DEF HeardTo, Stream!End
<1>4. InLine' /\ LastChunk'
  BY <1>3 DEF TypeOK, Places, Alone, InLine, Working, Reached, Speaking,
     Complete, Draining, Unseen, LastChunk
<1> QED
  BY <1>1, <1>2, <1>4

\* The synthesis has failed and says so.
LEMMA CallbackStopsIInv ==
  ASSUME IInv, CallbackStops
  PROVE  IInv'
<1> USE DEF IInv, CallbackStops, InCallback, Refuses, queueVars
<1>1. genOk' \in BOOLEAN /\ cbAborted' \in BOOLEAN
  BY Zenon DEF TypeOK
<1>2. TypeOK'
  BY <1>1 DEF TypeOK, Chunks, Messages
<1>3. Places' /\ Buffered' /\ Sampled' /\ Silent' /\ Told' /\ QueueLeft'
  BY DEF TypeOK, Places, Installed, Draining, Alone, Buffered, Unseen,
     Sampled, Silent, Told, QueueLeft
<1>4. HeardTo' = HeardTo /\ HeardTo \in Nat /\ EndOf(Reached, queue) \in Nat
  BY HeardNat, ReachedNat DEF HeardTo, Stream!End
<1>5. InLine' /\ LastChunk'
  BY <1>4 DEF TypeOK, Places, Alone, InLine, Working, Reached, Speaking,
     Complete, Draining, Unseen, LastChunk
<1> QED
  BY <1>2, <1>3, <1>5

\* The frame joins those in stream_buf.
LEMMA CallbackBuffersIInv ==
  ASSUME IInv, CallbackBuffers
  PROVE  IInv'
<1> USE DEF IInv, CallbackBuffers, InCallback, queueVars, chunkVars
<1>1. TypeOK'
  BY SizesAssumption DEF TypeOK, Buffered, Unseen
<1>2. Places' /\ Buffered' /\ Sampled' /\ Silent' /\ Told' /\ QueueLeft'
  BY DEF TypeOK, Places, Installed, Draining, Alone, Buffered, Unseen,
     Sampled, Silent, Told, QueueLeft
<1>3. HeardTo' = HeardTo /\ Reached' = Reached /\ EndOf(Reached, queue) \in Nat
  BY ReachedNat DEF HeardTo, Reached, Working, Stream!End
<1>4. InLine' /\ LastChunk'
  BY <1>3 DEF TypeOK, InLine, Working, Complete, Speaking, Unseen, LastChunk
<1> QED
  BY <1>1, <1>2, <1>4

\* The batch follows what is in the queue.
LEMMA CallbackPushesIInv ==
  ASSUME IInv, CallbackPushes
  PROVE  IInv'
<1> USE DEF IInv, CallbackPushes, InCallback, chunkVars
<1>1. Batched \in Chunks /\ Batched.from <= Batched.to
  BY DEF TypeOK, Buffered, Unseen, Batched, Chunks
<1>2. queue' \in Seq(Chunks)
  BY <1>1 DEF TypeOK
<1>3. TypeOK'
  BY <1>2, SizesAssumption DEF TypeOK
<1>4. Sampled'
  <2>1. Batched.to = frames
    BY DEF Batched
  <2>2. /\ Len(queue) \in Nat /\ Len(queue') = Len(queue) + 1
        /\ queue'[Len(queue) + 1] = Batched
        /\ \A i \in 1..Len(queue) : queue'[i] = queue[i]
    BY <1>1 DEF TypeOK
  <2> QED
    BY <2>1, <2>2 DEF TypeOK, Sampled
<1>5. Places' /\ Buffered' /\ Silent' /\ Told' /\ QueueLeft'
  BY DEF TypeOK, Places, Installed, Draining, Alone, Buffered, Unseen,
     Silent, Told, QueueLeft
<1>6. HeardTo' = HeardTo /\ Reached' = Reached
  BY DEF HeardTo, Reached, Working, Stream!End
<1>7. ASSUME ~over PROVE InLine' /\ LastChunk'
  <2>1. /\ streaming /\ Complete /\ Chained(Reached, queue)
        /\ EndOf(Reached, queue) + buffered + 1 = frames
    BY <1>7 DEF InLine, Places, Complete, Speaking, Unseen
  <2>2. Reached \in Nat /\ EndOf(Reached, queue) \in Nat
    BY ReachedNat
  <2>3. Batched.from = EndOf(Reached, queue) + 1 /\ Batched.to = frames
    <3>1. Batched.from = frames - buffered /\ Batched.to = frames
      BY DEF Batched
    <3>2. frames \in Nat /\ buffered \in Nat
      BY DEF TypeOK
    <3> QED
      BY <2>1, <2>2, <3>1, <3>2
  <2>4. Chained(Reached, queue') /\ EndOf(Reached, queue') = frames
    BY <1>1, <2>1, <2>2, <2>3, AppendChained DEF TypeOK
  <2> QED
    BY <1>6, <1>7, <2>1, <2>4
       DEF TypeOK, InLine, Working, Complete, Speaking, Unseen, LastChunk
<1>8. ASSUME over PROVE InLine' /\ LastChunk'
  <2>1. over'
    BY <1>8, Zenon
  <2> QED
    BY <2>1 DEF InLine, LastChunk
<1> QED
  BY <1>3, <1>4, <1>5, <1>7, <1>8 DEF TypeOK

\* A wake-up changes no chunk.
LEMMA NotifyIInv ==
  ASSUME IInv, Notify
  PROVE  IInv'
<1> USE DEF IInv, Notify, Woken, Goto, queueVars, chunkVars
<1>1. TypeOK'
  BY DEF TypeOK, Chunks, Messages
<1>2. Places' /\ Buffered' /\ Sampled' /\ Silent' /\ Told' /\ QueueLeft'
  BY DEF TypeOK, Places, Installed, Draining, Alone, Buffered, Unseen,
     Sampled, Silent, Told, QueueLeft
<1>3. HeardTo' = HeardTo /\ HeardTo \in Nat /\ EndOf(Reached, queue) \in Nat
  BY HeardNat, ReachedNat DEF HeardTo, Stream!End
<1>4. InLine' /\ LastChunk'
  BY <1>3 DEF TypeOK, Places, Alone, InLine, Working, Reached, Speaking,
     Complete, Draining, Unseen, LastChunk
<1> QED
  BY <1>1, <1>2, <1>4

\* Without a thread the batch follows what was heard.
LEMMA CallbackRunsIInv ==
  ASSUME IInv, CallbackRuns
  PROVE  IInv'
<1> USE DEF IInv, CallbackRuns, InCallback, Decoder, queueVars
<1>1. Batched \in Chunks /\ Batched.from <= Batched.to
  BY DEF TypeOK, Buffered, Unseen, Batched, Chunks
<1>2. TypeOK'
  BY <1>1, SizesAssumption DEF TypeOK
<1>3. Sampled'
  BY DEF TypeOK, Sampled, Batched
<1>4. Places' /\ Buffered' /\ Silent' /\ Told' /\ QueueLeft'
  BY DEF TypeOK, Places, Installed, Draining, Alone, Buffered, Unseen,
     Silent, Told, QueueLeft
<1>5. HeardTo' = HeardTo /\ HeardTo \in Nat
  BY HeardNat DEF HeardTo, Stream!End
<1>6. worker = "none" /\ ~Working /\ Reached = HeardTo
  BY DEF TypeOK, Places, Working, Reached
<1>7. ASSUME ~over PROVE InLine' /\ LastChunk'
  <2>1. streaming /\ Complete /\ queue = <<>>
    BY <1>6, <1>7 DEF Places, QueueLeft, Complete, Speaking
  <2>2. HeardTo + buffered + 1 = frames
    BY <1>5, <1>6, <1>7, <2>1 DEF InLine, EndOf, Unseen
  <2>3. chunk'.from = HeardTo + 1 /\ chunk'.to = frames
    BY <1>5, <2>2 DEF Batched, TypeOK
  <2>4. Working' /\ Reached' = frames
    BY <2>3 DEF Working, Reached
  <2>5. Chained(frames, queue') /\ EndOf(frames, queue') = frames
    BY <2>1 DEF Chained, EndOf
  <2> QED
    BY <1>1, <1>5, <2>3, <2>4, <2>5 DEF TypeOK, InLine, Unseen, LastChunk
<1>8. ASSUME over PROVE InLine' /\ LastChunk'
  <2>1. over'
    BY <1>8, Zenon
  <2> QED
    BY <2>1 DEF InLine, LastChunk
<1> QED
  BY <1>2, <1>3, <1>4, <1>7, <1>8 DEF TypeOK

\* A failed decode ends the callback with false.
LEMMA RunDecodeIInv ==
  ASSUME IInv, RunDecode
  PROVE  IInv'
<1> USE DEF IInv, RunDecode, DecodeFails, DecodeWorks, queueVars
<1>1. /\ genOk' \in BOOLEAN
     /\ err' \in BOOLEAN /\ cbAborted' \in BOOLEAN /\ over' \in BOOLEAN
  BY Zenon DEF TypeOK
<1>2. TypeOK'
  BY <1>1 DEF TypeOK, Chunks, Messages
<1>3. Places' /\ Buffered' /\ Sampled' /\ Silent' /\ Told' /\ QueueLeft'
  BY DEF TypeOK, Places, Installed, Draining, Alone, Buffered, Unseen,
     Sampled, Silent, Told, QueueLeft
<1>4. HeardTo' = HeardTo /\ HeardTo \in Nat /\ EndOf(Reached, queue) \in Nat
  BY HeardNat, ReachedNat DEF HeardTo, Stream!End
<1>5. InLine' /\ LastChunk'
  BY <1>4 DEF TypeOK, Places, Alone, InLine, Working, Reached, Speaking,
     Complete, Draining, Unseen, LastChunk
<1> QED
  BY <1>2, <1>3, <1>5

\* The chunk is heard; a no ends the callback with false.
LEMMA RunDeliverIInv ==
  ASSUME IInv, NEW yes \in BOOLEAN, RunDeliver(yes)
  PROVE  IInv'
<1> USE DEF IInv, RunDeliver, Consumed, queueVars
<1>1. TypeOK'
  BY DEF TypeOK, Chunks, Messages
<1>2. Places' /\ Buffered' /\ Sampled' /\ Silent' /\ Told' /\ QueueLeft'
  BY DEF TypeOK, Places, Installed, Draining, Alone, Buffered, Unseen,
     Sampled, Silent, Told, QueueLeft
<1>3. ASSUME yes PROVE InLine' /\ LastChunk'
  <2>1. ~over /\ streaming /\ Working /\ Reached = chunk.to
    BY DEF Places, Silent, Working, Reached
  <2>2. ~Working' /\ HeardTo' = chunk.to /\ Reached' = chunk.to
    BY <1>3, HeardGrows DEF TypeOK, Places, Working, Reached
  <2>3. Complete /\ Unseen = 0 /\ Unseen' = 0
    BY <1>3 DEF Complete, Speaking, Unseen
  <2>4. EndOf(chunk.to, queue) \in Nat
    BY <2>1, ReachedNat
  <2>5. InLine'
    BY <2>1, <2>2, <2>3, <2>4 DEF InLine, TypeOK
  <2> QED
    BY <1>3, <2>5 DEF LastChunk
<1>4. ASSUME ~yes PROVE InLine' /\ LastChunk'
  <2>1. over'
    BY <1>4, Zenon
  <2> QED
    BY <1>4, <2>1 DEF InLine, LastChunk
<1> QED
  BY <1>1, <1>2, <1>3, <1>4

\* The exception leaves everything.
LEMMA RunThrowsIInv ==
  ASSUME IInv, RunThrows
  PROVE  IInv'
<1> USE DEF IInv, RunThrows, Goto, queueVars
<1>1. TypeOK'
  BY DEF TypeOK, Chunks, Messages
<1>2. Places' /\ Buffered' /\ Sampled' /\ Silent' /\ Told' /\ QueueLeft'
  BY DEF TypeOK, Places, Installed, Draining, Alone, Buffered, Unseen,
     Sampled, Silent, Told, QueueLeft
<1>3. HeardTo' = chunk.to /\ Reached \in Nat /\ EndOf(Reached, queue) \in Nat
  BY HeardGrows, ReachedNat
<1>4. InLine' /\ LastChunk'
  BY <1>3 DEF TypeOK, Places, Alone, InLine, Working, Reached, Speaking,
     Complete, Draining, Unseen, LastChunk
<1> QED
  BY <1>1, <1>2, <1>4

\* A thread that is there is drained first.
LEMMA ClearCallbackIInv ==
  ASSUME IInv, ClearCallback
  PROVE  IInv'
<1> USE DEF IInv, ClearCallback, Drained, Goto, queueVars, chunkVars
<1>1. TypeOK'
  BY DEF TypeOK, Chunks, Messages
<1>2. Places' /\ Buffered' /\ Sampled' /\ Silent' /\ Told' /\ QueueLeft'
  BY DEF TypeOK, Places, Installed, Draining, Alone, Buffered, Unseen,
     Sampled, Silent, Told, QueueLeft
<1>3. HeardTo' = HeardTo /\ HeardTo \in Nat /\ EndOf(Reached, queue) \in Nat
  BY HeardNat, ReachedNat DEF HeardTo, Stream!End
<1>4. InLine' /\ LastChunk'
  BY <1>3 DEF TypeOK, Places, Alone, InLine, Working, Reached, Speaking,
     Complete, Draining, Unseen, LastChunk
<1> QED
  BY <1>1, <1>2, <1>4

\* The thread may now leave when the queue is empty.
LEMMA SignalDoneIInv ==
  ASSUME IInv, SignalDone
  PROVE  IInv'
<1> USE DEF IInv, SignalDone, Goto, chunkVars
<1>1. TypeOK'
  BY DEF TypeOK, Chunks, Messages
<1>2. Places' /\ Buffered' /\ Sampled' /\ Silent' /\ Told' /\ QueueLeft'
  BY DEF TypeOK, Places, Installed, Draining, Alone, Buffered, Unseen,
     Sampled, Silent, Told, QueueLeft
<1>3. HeardTo' = HeardTo /\ HeardTo \in Nat /\ EndOf(Reached, queue) \in Nat
  BY HeardNat, ReachedNat DEF HeardTo, Stream!End
<1>4. InLine' /\ LastChunk'
  BY <1>3 DEF TypeOK, Places, Alone, InLine, Working, Reached, Speaking,
     Complete, Draining, Unseen, LastChunk
<1> QED
  BY <1>1, <1>2, <1>4

\* A wake-up changes no chunk.
LEMMA WakeAllIInv ==
  ASSUME IInv, WakeAll
  PROVE  IInv'
<1> USE DEF IInv, WakeAll, Woken, Goto, queueVars, chunkVars
<1>1. TypeOK'
  BY DEF TypeOK, Chunks, Messages
<1>2. Places' /\ Buffered' /\ Sampled' /\ Silent' /\ Told' /\ QueueLeft'
  BY DEF TypeOK, Places, Installed, Draining, Alone, Buffered, Unseen,
     Sampled, Silent, Told, QueueLeft
<1>3. HeardTo' = HeardTo /\ HeardTo \in Nat /\ EndOf(Reached, queue) \in Nat
  BY HeardNat, ReachedNat DEF HeardTo, Stream!End
<1>4. InLine' /\ LastChunk'
  BY <1>3 DEF TypeOK, Places, Alone, InLine, Working, Reached, Speaking,
     Complete, Draining, Unseen, LastChunk
<1> QED
  BY <1>1, <1>2, <1>4

\* A thread that left without an error has drained the queue.
LEMMA JoinIInv ==
  ASSUME IInv, Join
  PROVE  IInv'
<1> USE DEF IInv, Join, Goto, queueVars
<1>1. cbAborted' \in BOOLEAN /\ result' \in [success : BOOLEAN, msg : Messages]
  BY Zenon DEF Messages, TypeOK
<1>2. TypeOK'
  BY <1>1 DEF TypeOK, Chunks, Messages
<1>3. Places' /\ Buffered' /\ Sampled' /\ Silent' /\ Told' /\ QueueLeft'
  BY DEF TypeOK, Places, Installed, Draining, Alone, Buffered, Unseen,
     Sampled, Silent, Told, QueueLeft
<1>4. HeardTo' = HeardTo /\ HeardTo \in Nat /\ EndOf(Reached, queue) \in Nat
  BY HeardNat, ReachedNat DEF HeardTo, Stream!End
<1>5. InLine' /\ LastChunk'
  BY <1>4 DEF TypeOK, Places, Alone, InLine, Working, Reached, Speaking,
     Complete, Draining, Unseen, LastChunk
<1> QED
  BY <1>2, <1>3, <1>5

\* Out.
LEMMA JudgeFailsIInv ==
  ASSUME IInv, JudgeFails
  PROVE  IInv'
<1> USE DEF IInv, JudgeFails, Return, Verdict, queueVars, chunkVars
<1>1. TypeOK'
  BY DEF TypeOK, Chunks, Messages
<1>2. Places' /\ Buffered' /\ Sampled' /\ Silent' /\ Told' /\ QueueLeft'
  BY DEF TypeOK, Places, Installed, Draining, Alone, Buffered, Unseen,
     Sampled, Silent, Told, QueueLeft
<1>3. HeardTo' = HeardTo /\ HeardTo \in Nat /\ EndOf(Reached, queue) \in Nat
  BY HeardNat, ReachedNat DEF HeardTo, Stream!End
<1>4. InLine' /\ LastChunk'
  BY <1>3 DEF TypeOK, Places, Alone, InLine, Working, Reached, Speaking,
     Complete, Draining, Unseen, LastChunk
<1> QED
  BY <1>1, <1>2, <1>4

\* What is left over follows what was heard, the queue being empty.
LEMMA JudgeFlushIInv ==
  ASSUME IInv, JudgeFlush
  PROVE  IInv'
<1> USE DEF IInv, JudgeFlush, Judged, Leftover, Decoder, Goto, queueVars
<1>1. chunk' \in Chunks /\ chunk'.from <= chunk'.to
  BY DEF TypeOK, Buffered, Unseen, Chunks
<1>2. TypeOK'
  BY <1>1 DEF TypeOK
<1>3. Places' /\ Buffered' /\ Sampled' /\ Silent' /\ Told' /\ QueueLeft'
  BY DEF TypeOK, Places, Installed, Draining, Alone, Buffered, Unseen,
     Sampled, Silent, Told, QueueLeft
<1>4. HeardTo' = HeardTo /\ HeardTo \in Nat
  BY HeardNat DEF HeardTo, Stream!End
<1>5. ~over /\ worker = "none" /\ queue = <<>>
  BY DEF Told, Places, Alone, QueueLeft
<1>6. HeardTo + buffered = frames
  BY <1>4, <1>5 DEF TypeOK, InLine, EndOf, Reached, Working, Complete, Unseen
<1>7. chunk'.from = HeardTo + 1 /\ chunk'.to = frames
  BY <1>4, <1>6 DEF TypeOK
<1>8. /\ ~Working' /\ Reached' = HeardTo
      /\ Chained(HeardTo, queue') /\ EndOf(HeardTo, queue') = HeardTo
  BY <1>4, <1>5 DEF Working, Reached, Chained, EndOf
<1>9. InLine' /\ LastChunk'
  BY <1>1, <1>4, <1>6, <1>7, <1>8
     DEF TypeOK, InLine, Complete, Speaking, Draining, LastChunk
<1> QED
  BY <1>2, <1>3, <1>9

\* Nothing is left over: all was heard.
LEMMA JudgeStreamedIInv ==
  ASSUME IInv, JudgeStreamed
  PROVE  IInv'
<1> USE DEF IInv, JudgeStreamed, Judged, Leftover, Goto, queueVars, chunkVars
<1>1. TypeOK'
  BY DEF TypeOK, Chunks, Messages
<1>2. Places' /\ Buffered' /\ Sampled' /\ Silent' /\ Told' /\ QueueLeft'
  BY DEF TypeOK, Places, Installed, Draining, Alone, Buffered, Unseen,
     Sampled, Silent, Told, QueueLeft
<1>3. /\ HeardTo' = HeardTo /\ HeardTo \in Nat
      /\ worker = "none" /\ ~Working /\ ~Working' /\ Reached = HeardTo
  BY HeardNat DEF HeardTo, Stream!End, Places, Alone, Working, Reached
<1>4. ASSUME ~cbAborted PROVE InLine' /\ LastChunk'
  <2>1. ~over /\ queue = <<>> /\ buffered = 0
    BY <1>3, <1>4 DEF TypeOK, Told, QueueLeft
  <2>2. Complete /\ Unseen = 0
    BY DEF Complete, Unseen
  <2>3. HeardTo = frames
    BY <1>3, <2>1, <2>2 DEF TypeOK, InLine, EndOf
  <2>4. Chained(HeardTo, queue') /\ EndOf(HeardTo, queue') = HeardTo
    BY <2>1 DEF Chained, EndOf
  <2>5. InLine'
    BY <1>3, <2>3, <2>4 DEF InLine, TypeOK, Complete, Speaking, Draining, Reached
  <2>6. ~over'
    BY <2>1, Zenon
  <2> QED
    BY <1>3, <2>3, <2>5, <2>6 DEF LastChunk
<1>5. ASSUME cbAborted PROVE InLine' /\ LastChunk'
  <2>1. cbAborted'
    BY <1>5, Zenon
  <2>2. Reached' = Reached /\ ~Complete'
    BY <1>3 DEF Reached, Complete, Speaking, Draining
  <2> QED
    BY <1>3, <2>1, <2>2 DEF InLine, LastChunk
<1> QED
  BY <1>1, <1>2, <1>4, <1>5

\* Out.
LEMMA FlushFailsIInv ==
  ASSUME IInv, FlushFails
  PROVE  IInv'
<1> USE DEF IInv, FlushFails, Return, queueVars, chunkVars
<1>1. TypeOK'
  BY DEF TypeOK, Chunks, Messages
<1>2. Places' /\ Buffered' /\ Sampled' /\ Silent' /\ Told' /\ QueueLeft'
  BY DEF TypeOK, Places, Installed, Draining, Alone, Buffered, Unseen,
     Sampled, Silent, Told, QueueLeft
<1>3. HeardTo' = HeardTo /\ HeardTo \in Nat /\ EndOf(Reached, queue) \in Nat
  BY HeardNat, ReachedNat DEF HeardTo, Stream!End
<1>4. InLine' /\ LastChunk'
  BY <1>3 DEF TypeOK, Places, Alone, InLine, Working, Reached, Speaking,
     Complete, Draining, Unseen, LastChunk
<1> QED
  BY <1>1, <1>2, <1>4

\* The leftover is decoded, not yet heard.
LEMMA FlushIInv ==
  ASSUME IInv, Flush
  PROVE  IInv'
<1> USE DEF IInv, Flush, Goto, queueVars
<1>1. TypeOK'
  BY SizesAssumption DEF TypeOK, Chunks, Messages
<1>2. Places' /\ Buffered' /\ Sampled' /\ Silent' /\ Told' /\ QueueLeft'
  BY DEF TypeOK, Places, Installed, Draining, Alone, Buffered, Unseen,
     Sampled, Silent, Told, QueueLeft
<1>3. HeardTo' = HeardTo /\ HeardTo \in Nat /\ EndOf(Reached, queue) \in Nat
  BY HeardNat, ReachedNat DEF HeardTo, Stream!End
<1>4. InLine' /\ LastChunk'
  BY <1>3 DEF TypeOK, Places, Alone, InLine, Working, Reached, Speaking,
     Complete, Draining, Unseen, LastChunk
<1> QED
  BY <1>1, <1>2, <1>4

\* With the leftover all was heard.
LEMMA FlushDeliverIInv ==
  ASSUME IInv, FlushDeliver
  PROVE  IInv'
<1> USE DEF IInv, FlushDeliver, queueVars
<1>1. cbAborted' \in BOOLEAN /\ over' \in BOOLEAN
  BY Zenon DEF TypeOK
<1>2. TypeOK'
  BY <1>1 DEF TypeOK, Chunks, Messages
<1>3. Places' /\ Buffered' /\ Sampled' /\ Silent' /\ Told' /\ QueueLeft'
  BY DEF TypeOK, Places, Installed, Draining, Alone, Buffered, Unseen,
     Sampled, Silent, Told, QueueLeft
<1>4. /\ HeardTo' = chunk.to /\ chunk.to = frames /\ frames \in Nat
      /\ ~over /\ worker = "none" /\ queue' = <<>>
  BY HeardGrows DEF TypeOK, Places, Alone, Silent, QueueLeft, LastChunk
<1>5. /\ ~Working' /\ Reached' = frames /\ ~Complete'
      /\ Chained(frames, queue') /\ EndOf(frames, queue') = frames
  BY <1>4 DEF Working, Reached, Complete, Speaking, Draining, Chained, EndOf
<1>6. InLine'
  BY <1>4, <1>5 DEF InLine
<1>7. LastChunk'
  BY <1>4 DEF LastChunk
<1> QED
  BY <1>2, <1>3, <1>6, <1>7

\* Out.
LEMMA FinishIInv ==
  ASSUME IInv, Finish
  PROVE  IInv'
<1> USE DEF IInv, Finish, Return, StreamMsg, queueVars, chunkVars
<1>1. result' \in [success : BOOLEAN, msg : Messages]
  BY ReturnTyped DEF Messages, TypeOK
<1>2. TypeOK'
  BY <1>1 DEF TypeOK, Chunks, Messages
<1>3. Places' /\ Buffered' /\ Sampled' /\ Silent' /\ Told' /\ QueueLeft'
  BY DEF TypeOK, Places, Installed, Draining, Alone, Buffered, Unseen,
     Sampled, Silent, Told, QueueLeft
<1>4. HeardTo' = HeardTo /\ HeardTo \in Nat /\ EndOf(Reached, queue) \in Nat
  BY HeardNat, ReachedNat DEF HeardTo, Stream!End
<1>5. InLine' /\ LastChunk'
  BY <1>4 DEF TypeOK, Places, Alone, InLine, Working, Reached, Speaking,
     Complete, Draining, Unseen, LastChunk
<1> QED
  BY <1>2, <1>3, <1>5

\* Out.
LEMMA OneShotIInv ==
  ASSUME IInv, OneShot
  PROVE  IInv'
<1> USE DEF IInv, OneShot, Judged, Return, queueVars
<1>1. result' \in [success : BOOLEAN, msg : Messages]
  BY ReturnTyped DEF Messages
<1>2. TypeOK'
  BY <1>1 DEF TypeOK, Chunks, Messages
<1>3. Places' /\ Buffered' /\ Sampled' /\ Silent' /\ Told' /\ QueueLeft'
  BY DEF TypeOK, Places, Installed, Draining, Alone, Buffered, Unseen,
     Sampled, Silent, Told, QueueLeft
<1>4. HeardTo' = HeardTo /\ HeardTo \in Nat /\ EndOf(Reached, queue) \in Nat
  BY HeardNat, ReachedNat DEF HeardTo, Stream!End
<1>5. InLine' /\ LastChunk'
  BY <1>4 DEF TypeOK, Places, Alone, InLine, Working, Reached, Speaking,
     Complete, Draining, Unseen, LastChunk
<1> QED
  BY <1>2, <1>3, <1>5

\* The thread waits.
LEMMA CheckIInv ==
  ASSUME IInv, Check
  PROVE  IInv'
<1> USE DEF IInv, Check, talkerVars, chunkVars
<1>1. TypeOK'
  BY DEF TypeOK, Chunks, Messages
<1>2. Places' /\ Buffered' /\ Sampled' /\ Silent' /\ Told' /\ QueueLeft'
  BY DEF TypeOK, Places, Installed, Draining, Alone, Buffered, Unseen,
     Sampled, Silent, Told, QueueLeft
<1>3. HeardTo' = HeardTo /\ HeardTo \in Nat /\ EndOf(Reached, queue) \in Nat
  BY HeardNat, ReachedNat DEF HeardTo, Stream!End
<1>4. InLine' /\ LastChunk'
  BY <1>3 DEF TypeOK, Places, Alone, InLine, Working, Reached, Speaking,
     Complete, Draining, Unseen, LastChunk
<1> QED
  BY <1>1, <1>2, <1>4

\* The thread waits.
LEMMA SleepIInv ==
  ASSUME IInv, Sleep
  PROVE  IInv'
<1> USE DEF IInv, Sleep, talkerVars, chunkVars
<1>1. TypeOK'
  BY DEF TypeOK, Chunks, Messages
<1>2. Places' /\ Buffered' /\ Sampled' /\ Silent' /\ Told' /\ QueueLeft'
  BY DEF TypeOK, Places, Installed, Draining, Alone, Buffered, Unseen,
     Sampled, Silent, Told, QueueLeft
<1>3. HeardTo' = HeardTo /\ HeardTo \in Nat /\ EndOf(Reached, queue) \in Nat
  BY HeardNat, ReachedNat DEF HeardTo, Stream!End
<1>4. InLine' /\ LastChunk'
  BY <1>3 DEF TypeOK, Places, Alone, InLine, Working, Reached, Speaking,
     Complete, Draining, Unseen, LastChunk
<1> QED
  BY <1>1, <1>2, <1>4

\* The thread looks again.
LEMMA SpuriousWakeupIInv ==
  ASSUME IInv, SpuriousWakeup
  PROVE  IInv'
<1> USE DEF IInv, SpuriousWakeup, talkerVars, queueVars, chunkVars
<1>1. TypeOK'
  BY DEF TypeOK, Chunks, Messages
<1>2. Places' /\ Buffered' /\ Sampled' /\ Silent' /\ Told' /\ QueueLeft'
  BY DEF TypeOK, Places, Installed, Draining, Alone, Buffered, Unseen,
     Sampled, Silent, Told, QueueLeft
<1>3. HeardTo' = HeardTo /\ HeardTo \in Nat /\ EndOf(Reached, queue) \in Nat
  BY HeardNat, ReachedNat DEF HeardTo, Stream!End
<1>4. InLine' /\ LastChunk'
  BY <1>3 DEF TypeOK, Places, Alone, InLine, Working, Reached, Speaking,
     Complete, Draining, Unseen, LastChunk
<1> QED
  BY <1>1, <1>2, <1>4

\* The first chunk of the queue follows what was heard.
LEMMA TakeIInv ==
  ASSUME IInv, Take
  PROVE  IInv'
<1> USE DEF IInv, Take, Decoder, talkerVars
<1>1. chunk' \in Chunks /\ queue' \in Seq(Chunks)
  BY DEF TypeOK
<1>2. TypeOK'
  BY <1>1 DEF TypeOK
<1>3. Places' /\ Buffered' /\ Sampled' /\ Silent' /\ Told' /\ QueueLeft'
  BY DEF TypeOK, Places, Installed, Draining, Alone, Buffered, Unseen,
     Sampled, Silent, Told, QueueLeft
<1>4. /\ HeardTo' = HeardTo /\ HeardTo \in Nat /\ ~over
      /\ ~Working /\ Reached = HeardTo /\ Working' /\ Reached' = chunk'.to
  BY HeardNat DEF TypeOK, HeardTo, Stream!End, Places, Silent, Working, Reached
<1>5. ASSUME streaming, pc # "idle" PROVE InLine'
  <2>1. Chained(HeardTo, queue)
    BY <1>4, <1>5 DEF InLine
  <2>2. /\ chunk'.from = HeardTo + 1 /\ chunk'.from <= chunk'.to
        /\ Chained(chunk'.to, queue') /\ EndOf(chunk'.to, queue') = EndOf(HeardTo, queue)
    BY <1>4, <2>1, TailChained DEF TypeOK
  <2>3. Unseen' = Unseen /\ Unseen \in Nat /\ (Complete' => Complete)
    BY DEF Unseen, Complete
  <2> QED
    BY <1>4, <1>5, <2>2, <2>3 DEF InLine, TypeOK
<1>6. ASSUME ~(streaming /\ pc # "idle") PROVE InLine'
  BY <1>6 DEF InLine
<1>7. LastChunk'
  BY DEF LastChunk, Places, Alone
<1> QED
  BY <1>2, <1>3, <1>5, <1>6, <1>7

\* The thread leaves an empty queue.
LEMMA ExitIInv ==
  ASSUME IInv, Exit
  PROVE  IInv'
<1> USE DEF IInv, Exit, talkerVars, queueVars, chunkVars
<1>1. TypeOK'
  BY DEF TypeOK, Chunks, Messages
<1>2. Places' /\ Buffered' /\ Sampled' /\ Silent' /\ Told' /\ QueueLeft'
  BY DEF TypeOK, Places, Installed, Draining, Alone, Buffered, Unseen,
     Sampled, Silent, Told, QueueLeft
<1>3. HeardTo' = HeardTo /\ HeardTo \in Nat /\ EndOf(Reached, queue) \in Nat
  BY HeardNat, ReachedNat DEF HeardTo, Stream!End
<1>4. InLine' /\ LastChunk'
  BY <1>3 DEF TypeOK, Places, Alone, InLine, Working, Reached, Speaking,
     Complete, Draining, Unseen, LastChunk
<1> QED
  BY <1>1, <1>2, <1>4

\* A thread that fails has left and has told.
LEMMA WorkerDecodeIInv ==
  ASSUME IInv, WorkerDecode
  PROVE  IInv'
<1> USE DEF IInv, WorkerDecode, DecodeFails, DecodeWorks, talkerVars,
   queueVars
<1>1. err' \in BOOLEAN /\ cbAborted' \in BOOLEAN /\ over' \in BOOLEAN
  BY Zenon DEF TypeOK
<1>2. TypeOK'
  BY <1>1 DEF TypeOK, Chunks, Messages
<1>3. Places' /\ Buffered' /\ Sampled' /\ Silent' /\ Told' /\ QueueLeft'
  BY DEF TypeOK, Places, Installed, Draining, Alone, Buffered, Unseen,
     Sampled, Silent, Told, QueueLeft
<1>4. HeardTo' = HeardTo /\ HeardTo \in Nat /\ EndOf(Reached, queue) \in Nat
  BY HeardNat, ReachedNat DEF HeardTo, Stream!End
<1>5. InLine' /\ LastChunk'
  BY <1>4 DEF TypeOK, Places, Alone, InLine, Working, Reached, Speaking,
     Complete, Draining, Unseen, LastChunk
<1> QED
  BY <1>2, <1>3, <1>5

\* A thread that was refused has left and has told.
LEMMA WorkerDeliverIInv ==
  ASSUME IInv, WorkerDeliver
  PROVE  IInv'
<1> USE DEF IInv, WorkerDeliver, Consumed, Thrown, talkerVars, queueVars
<1>1. /\ err' \in BOOLEAN /\ cbAborted' \in BOOLEAN /\ over' \in BOOLEAN
      /\ errMsg' \in {"none", "decode", "thrown"}
  BY Zenon DEF TypeOK
<1>2. heard' \in Seq(Chunks) /\ HeardTo' = chunk.to
  BY HeardGrows
<1>3. TypeOK'
  BY <1>1, <1>2 DEF TypeOK
<1>4. Places' /\ Buffered' /\ Sampled' /\ Silent' /\ Told' /\ QueueLeft'
  BY DEF TypeOK, Places, Installed, Draining, Alone, Buffered, Unseen,
     Sampled, Silent, Told, QueueLeft
<1>5. /\ ~over /\ Working /\ Reached = chunk.to
      /\ ~Working' /\ Reached' = chunk.to
  BY <1>2 DEF TypeOK, Places, Silent, Working, Reached
<1>6. Unseen' = Unseen /\ Complete' = Complete
  BY DEF Unseen, Complete
<1>7. InLine'
  BY <1>5, <1>6 DEF InLine
<1>8. LastChunk'
  BY DEF LastChunk, Places, Alone
<1> QED
  BY <1>3, <1>4, <1>7, <1>8

\* The flag says nothing of the stream.
LEMMA CancelIInv ==
  ASSUME IInv, Cancel
  PROVE  IInv'
<1> USE DEF IInv, Cancel, talkerVars, queueVars, chunkVars
<1>1. TypeOK'
  BY DEF TypeOK, Chunks, Messages
<1>2. Places' /\ Buffered' /\ Sampled' /\ Silent' /\ Told' /\ QueueLeft'
  BY DEF TypeOK, Places, Installed, Draining, Alone, Buffered, Unseen,
     Sampled, Silent, Told, QueueLeft
<1>3. HeardTo' = HeardTo /\ HeardTo \in Nat /\ EndOf(Reached, queue) \in Nat
  BY HeardNat, ReachedNat DEF HeardTo, Stream!End
<1>4. InLine' /\ LastChunk'
  BY <1>3 DEF TypeOK, Places, Alone, InLine, Working, Reached, Speaking,
     Complete, Draining, Unseen, LastChunk
<1> QED
  BY <1>1, <1>2, <1>4

\* The process is gone.
LEMMA DiesIInv ==
  ASSUME IInv, Dies
  PROVE  IInv'
<1> USE DEF IInv, Dies, Return, chunkVars
<1>1. TypeOK'
  <2>1. /\ pc' = "idle" /\ genOk' \in BOOLEAN /\ frameCb' = "empty" /\ scope' \in BOOLEAN
        /\ worker' = "none" /\ mutex' = "free"
    OBVIOUS
  <2>2. result' \in [success : BOOLEAN, msg : Messages]
    BY DEF Messages
  <2>3. TypeOK
    OBVIOUS
  <2> HIDE DEF IInv, Return
  <2> QED
    BY <2>1, <2>2, <2>3 DEF TypeOK
<1>2. Places' /\ Buffered' /\ Sampled' /\ Silent' /\ Told' /\ QueueLeft'
  BY DEF TypeOK, Places, Installed, Draining, Alone, Buffered, Unseen,
     Sampled, Silent, Told, QueueLeft
<1>3. HeardTo' = HeardTo /\ HeardTo \in Nat /\ EndOf(Reached, queue) \in Nat
  BY HeardNat, ReachedNat DEF HeardTo, Stream!End
<1>4. InLine' /\ LastChunk'
  BY <1>3 DEF TypeOK, Places, Alone, InLine, Working, Reached, Speaking,
     Complete, Draining, Unseen, LastChunk
<1> QED
  BY <1>1, <1>2, <1>4
-----------------------------------------------------------------------------
(* The invariant.                                                          *)

LEMMA InitIInv ==
  ASSUME Init PROVE IInv
<1> USE DEF Init
<1>1. /\ result \in [success : BOOLEAN, msg : Messages]
      /\ {streaming, genOk, scope, done, cbAborted, err, over, cancel} \subseteq BOOLEAN
  BY Zenon DEF Messages, NoResult
<1>2. TypeOK
  BY <1>1, SizesAssumption DEF TypeOK, Chunks, NoChunk
<1>3. Places /\ Buffered /\ Sampled /\ Silent /\ Told /\ QueueLeft
  BY DEF Places, Installed, Draining, Alone, Buffered, Unseen, Sampled,
     NoChunk, Silent, Told, QueueLeft
<1>4. InLine /\ LastChunk
  BY DEF InLine, LastChunk
<1> QED
  BY <1>2, <1>3, <1>4 DEF IInv

LEMMA NextIInv ==
  ASSUME IInv, [Next]_vars PROVE IInv'
<1>1. CASE Next
  <2>1. ASSUME NEW s \in BOOLEAN, Begin(s) PROVE IInv'
    BY <2>1, BeginIInv
  <2>2. ASSUME NEW yes \in BOOLEAN, RunDeliver(yes) PROVE IInv'
    BY <2>2, RunDeliverIInv
  <2>3. CASE TalkerStep
    BY <2>2, <2>3, SetupFailsIInv, SetupIInv, LeaveScopeIInv, FrameIInv,
       GenerateEndsIInv, CallbackStopsIInv, CallbackBuffersIInv,
       CallbackPushesIInv, NotifyIInv, CallbackRunsIInv, RunDecodeIInv,
       RunThrowsIInv, ClearCallbackIInv, SignalDoneIInv, WakeAllIInv,
       JoinIInv, JudgeFailsIInv, JudgeFlushIInv, JudgeStreamedIInv,
       FlushFailsIInv, FlushIInv, FlushDeliverIInv, FinishIInv, OneShotIInv,
       Zenon DEF TalkerStep
  <2>4. CASE WorkerStep
    BY <2>4, CheckIInv, SleepIInv, TakeIInv, ExitIInv, WorkerDecodeIInv,
       WorkerDeliverIInv, Zenon DEF WorkerStep
  <2> QED
    BY <1>1, <2>1, <2>3, <2>4, SpuriousWakeupIInv, CancelIInv, DiesIInv DEF Next
<1>2. CASE UNCHANGED vars
  <2>1. UNCHANGED <<build, pc, streaming, frames, buffered, genOk, frameCb, scope>>
    BY <1>2 DEF vars, talkerVars
  <2>2. UNCHANGED <<queue, mutex, done, worker, cancel, result>>
    BY <1>2 DEF vars, queueVars
  <2>3. UNCHANGED <<chunk, audio, heard, cbCount, cbAborted, err, errMsg, over>>
    BY <1>2 DEF vars, chunkVars
  <2>4. TypeOK'
    BY <2>1, <2>2, <2>3 DEF IInv, TypeOK
  <2>5. Places' /\ Buffered' /\ Sampled' /\ Silent' /\ Told' /\ QueueLeft'
    BY <2>1, <2>2, <2>3
       DEF IInv, Places, Buffered, Unseen, Sampled, Silent, Told, QueueLeft
  <2>6. HeardTo' = HeardTo
    BY <2>3 DEF HeardTo, Stream!End
  <2>7. InLine' /\ LastChunk'
    BY <2>1, <2>2, <2>3, <2>6
       DEF IInv, InLine, Working, Reached, Complete, Unseen, LastChunk
  <2> QED
    BY <2>4, <2>5, <2>7 DEF IInv
<1> QED
  BY <1>1, <1>2

THEOREM Invariance == Spec => []IInv
<1> QED
  BY InitIInv, NextIInv, PTL DEF Spec

\* The types of the variables, whatever the sizes of the batches.
THEOREM TypeCorrect == Spec => []TypeOK
<1>1. IInv => TypeOK
  BY DEF IInv
<1> QED
  BY <1>1, Invariance, PTL

\* Frames are kept: the leftover buffer, the chunk in work and the queue hold
\* only frames the talker has sampled; and while nothing was lost what was heard,
\* the chunk in work, the queue and the buffer follow one another without a gap
\* or an overlap, up to the last frame sampled.
THEOREM FramesKept == Spec => [](Buffered /\ Sampled /\ InLine)
<1>1. IInv => Buffered /\ Sampled /\ InLine
  BY DEF IInv
<1> QED
  BY <1>1, Invariance, PTL

\* synthesize_internal touches the decoder, the result and the leftover frames
\* only while no vocoder thread exists.
THEOREM CallerAlone == Spec => []CallerIsAlone
<1>1. IInv => CallerIsAlone
  BY DEF IInv, Places, Alone, CallerIsAlone
<1> QED
  BY <1>1, Invariance, PTL

-----------------------------------------------------------------------------
(* The refinement.                                                         *)

\* A step within a synthesis that the consumer does not see.
LEMMA Stutters ==
  ASSUME pc # "idle", pc' # "idle", UNCHANGED <<streaming, frames, heard, over>>
  PROVE  UNCHANGED Stream!vars
BY DEF Stream!vars

\* Return, with the result that the caller reads.
LEMMA Closes ==
  ASSUME NEW msg \in Messages, pc # "idle", Return(msg),
         UNCHANGED <<streaming, frames, heard, over>>,
         msg = "none" /\ streaming => ~over /\ HeardTo = frames
  PROVE  \E v \in {"whole", "failed"} : Stream!Close(v)
<1> DEFINE v == IF msg = "none" THEN "whole" ELSE "failed"
<1>1. result' # NoResult
  <2>1. result'.msg = msg /\ result'.success = (msg = "none")
    BY DEF Return
  <2>2. CASE msg = "none"
    <3>1. result'.success = TRUE /\ NoResult.success = FALSE
      BY <2>1, <2>2 DEF NoResult
    <3> QED
      BY <3>1
  <2>3. CASE msg # "none"
    BY <2>1, <2>3 DEF NoResult
  <2> QED
    BY <2>2, <2>3
<1>2. (IF result'.success THEN "whole" ELSE "failed") = v
  BY DEF Return
<1>3. Stream!Close(v)
  BY <1>1, <1>2 DEF Stream!Close, Return, HeardTo
<1> QED
  BY <1>3

\* run_vocoder_chunk calls on_pcm with the next frames.
LEMMA Delivers ==
  ASSUME TypeOK, pc # "idle", pc' # "idle", streaming, ~over,
         chunk.from = HeardTo + 1, chunk.from <= chunk.to, chunk.to <= frames,
         heard' = Append(heard, chunk), over' \in BOOLEAN,
         UNCHANGED <<streaming, frames>>
  PROVE  \E to \in (Stream!End(heard) + 1)..frames : Stream!Deliver(to)
<1>1. chunk = [from |-> Stream!End(heard) + 1, to |-> chunk.to]
  BY DEF TypeOK, Chunks, HeardTo
<1>2. chunk.to \in (Stream!End(heard) + 1)..frames
  BY HeardNat DEF TypeOK, Chunks, HeardTo
<1>3. Stream!Deliver(chunk.to)
  BY <1>1 DEF Stream!Deliver
<1> QED
  BY <1>2, <1>3

LEMMA InitMaps ==
  ASSUME Init PROVE Stream!Init
BY DEF Init, Stream!Init

\* Every step of the pipeline is one of the stream's, or none.
LEMMA StepMaps ==
  ASSUME IInv, [Next]_vars
  PROVE  [Stream!Next]_(Stream!vars)
<1> USE DEF IInv
<1>1. ASSUME NEW s \in BOOLEAN, Begin(s) PROVE Stream!Open
  BY <1>1 DEF Begin, Goto, Stream!Open
<1>2. ASSUME Frame PROVE Stream!Make
  BY <1>2 DEF Frame, Goto, chunkVars, Stream!Make
<1>3. ASSUME SetupFails \/ JudgeFails \/ FlushFails
      PROVE  Stream!Next
  <2>1. PICK msg \in Messages \ {"none"} : Return(msg)
    BY <1>3 DEF SetupFails, JudgeFails, FlushFails, Verdict, Messages, TypeOK
  <2>2. pc # "idle" /\ UNCHANGED <<streaming, frames, heard, over>>
    BY <1>3 DEF SetupFails, JudgeFails, FlushFails, chunkVars
  <2> QED
    BY <2>1, <2>2, Closes DEF Stream!Next
<1>4. ASSUME Finish PROVE Stream!Next
  <2>1. pc # "idle" /\ UNCHANGED <<streaming, frames, heard, over>>
    BY <1>4 DEF Finish, chunkVars
  <2>2. CASE pc = "finish"
    <3>1. Return(StreamMsg) /\ StreamMsg \in Messages
      BY <1>4, <2>2 DEF Finish, StreamMsg, Messages, TypeOK
    <3>2. CASE StreamMsg = "none"
      <4>1. ~cbAborted \/ result.msg # "none"
        BY <3>2 DEF StreamMsg
      <4> QED
        BY <2>1, <2>2, <3>1, <3>2, <4>1, Closes DEF StreamMsg, LastChunk, Stream!Next
    <3>3. CASE StreamMsg # "none"
      BY <2>1, <3>1, <3>3, Closes DEF Stream!Next
    <3> QED
      BY <3>2, <3>3
  <2>3. CASE pc = "unwind"
    BY <1>4, <2>1, <2>3, Closes DEF Finish, Messages, Stream!Next
  <2> QED
    BY <1>4, <2>2, <2>3 DEF Finish
<1>5. ASSUME OneShot PROVE Stream!Next
  <2>1. pc # "idle" /\ ~streaming /\ UNCHANGED <<streaming, frames, heard, over>>
    BY <1>5 DEF OneShot
  <2>2. PICK msg \in Messages : Return(msg)
    BY <1>5 DEF OneShot, Messages
  <2> QED
    BY <2>1, <2>2, Closes DEF Stream!Next
<1>6. ASSUME Dies PROVE Stream!Next
  <2>1. pc # "idle" /\ UNCHANGED <<streaming, frames, heard, over>>
    BY <1>6 DEF Dies, CallsDead, InCallback, Places, Alone, chunkVars
  <2>2. Return("crash") /\ "crash" \in Messages
    BY <1>6 DEF Dies, Messages
  <2> QED
    BY <2>1, <2>2, Closes DEF Stream!Next
<1>7. ASSUME DecodeFails, pc # "idle", pc' # "idle", UNCHANGED <<streaming, frames>>
      PROVE  Stream!Lose
  BY <1>7 DEF DecodeFails, Stream!Lose
<1>8. ASSUME RunDecode PROVE [Stream!Next]_(Stream!vars)
  <2>1. pc # "idle" /\ pc' # "idle" /\ UNCHANGED <<streaming, frames>>
    BY <1>8 DEF RunDecode
  <2>2. DecodeFails \/ UNCHANGED <<heard, over>>
    BY <1>8 DEF RunDecode, DecodeWorks
  <2> QED
    BY <1>7, <2>1, <2>2, Stutters DEF Stream!Next
<1>9. ASSUME WorkerDecode PROVE [Stream!Next]_(Stream!vars)
  <2>1. pc # "idle" /\ pc' # "idle" /\ UNCHANGED <<streaming, frames>>
    BY <1>9 DEF WorkerDecode, Places, Alone, talkerVars
  <2>2. DecodeFails \/ UNCHANGED <<heard, over>>
    BY <1>9 DEF WorkerDecode, DecodeWorks
  <2> QED
    BY <1>7, <2>1, <2>2, Stutters DEF Stream!Next
<1>10. ASSUME (\E yes \in BOOLEAN : RunDeliver(yes)) \/ RunThrows \/ WorkerDeliver
       PROVE  Stream!Next
  <2>1. Working /\ ~over /\ streaming /\ pc # "idle" /\ pc' # "idle"
    BY <1>10 DEF RunDeliver, RunThrows, WorkerDeliver, Goto, Working, Places, Alone,
                 Silent, talkerVars
  <2>2. chunk.from = HeardTo + 1 /\ chunk.from <= chunk.to /\ chunk.to <= frames
    BY <2>1 DEF InLine, Sampled
  <2>3. heard' = Append(heard, chunk) /\ UNCHANGED <<streaming, frames>>
    BY <1>10 DEF RunDeliver, RunThrows, WorkerDeliver, Consumed, Thrown, talkerVars
  <2>4. over' \in BOOLEAN
    BY <1>10, Zenon DEF RunDeliver, RunThrows, WorkerDeliver, Consumed, Thrown
  <2> QED
    BY <2>1, <2>2, <2>3, <2>4, Delivers DEF Stream!Next
<1>11. ASSUME FlushDeliver PROVE Stream!Next
  <2>1. ~over /\ streaming /\ pc # "idle" /\ pc' # "idle"
    BY <1>11 DEF FlushDeliver, Places, Silent
  <2>2. chunk.from = HeardTo + 1 /\ chunk.from <= chunk.to /\ chunk.to <= frames
    BY <1>11 DEF FlushDeliver, LastChunk, Sampled
  <2>3. heard' = Append(heard, chunk) /\ UNCHANGED <<streaming, frames>>
    BY <1>11 DEF FlushDeliver
  <2>4. over' \in BOOLEAN
    BY <1>11, Zenon DEF FlushDeliver, TypeOK
  <2> QED
    BY <2>1, <2>2, <2>3, <2>4, Delivers DEF Stream!Next
<1>12. ASSUME \/ Setup \/ LeaveScope \/ GenerateEnds \/ CallbackStops
              \/ CallbackBuffers \/ CallbackPushes \/ Notify \/ CallbackRuns
       PROVE  UNCHANGED Stream!vars
  <2>1. pc # "idle" /\ pc' # "idle" /\ UNCHANGED <<streaming, frames>>
    BY <1>12 DEF Setup, LeaveScope, GenerateEnds, CallbackStops, CallbackBuffers,
       CallbackPushes, Notify, CallbackRuns, InCallback, Goto
  <2>2. UNCHANGED <<heard, over>>
    BY <1>12 DEF Setup, LeaveScope, GenerateEnds, CallbackStops, CallbackBuffers,
       CallbackPushes, Notify, CallbackRuns, Decoder, chunkVars
  <2> QED
    BY <2>1, <2>2, Stutters
<1>13. ASSUME \/ ClearCallback \/ SignalDone \/ WakeAll \/ Join
              \/ JudgeFlush \/ JudgeStreamed \/ Flush
       PROVE  UNCHANGED Stream!vars
  <2>1. pc # "idle" /\ pc' # "idle" /\ UNCHANGED <<streaming, frames>>
    BY <1>13 DEF ClearCallback, Drained, SignalDone, WakeAll, Join, JudgeFlush,
       JudgeStreamed, Flush, Goto
  <2>2. UNCHANGED <<heard, over>>
    BY <1>13 DEF ClearCallback, SignalDone, WakeAll, Join, JudgeFlush,
       JudgeStreamed, Flush, Decoder, chunkVars
  <2> QED
    BY <2>1, <2>2, Stutters
<1>14. ASSUME Check \/ Sleep \/ Take \/ Exit \/ SpuriousWakeup \/ Cancel
       PROVE  UNCHANGED Stream!vars
  <2>1. pc # "idle" /\ pc' # "idle" /\ UNCHANGED <<streaming, frames>>
    BY <1>14 DEF Check, Sleep, Take, Exit, SpuriousWakeup, Cancel, Places, Alone, talkerVars
  <2>2. UNCHANGED <<heard, over>>
    BY <1>14 DEF Check, Sleep, Take, Exit, SpuriousWakeup, Cancel, Decoder, chunkVars
  <2> QED
    BY <2>1, <2>2, Stutters
<1>15. CASE Next
  <2>1. CASE TalkerStep
    BY <1>2, <1>3, <1>4, <1>5, <1>8, <1>10, <1>11, <1>12, <1>13, <2>1, Zenon
       DEF TalkerStep, Stream!Next
  <2>2. CASE WorkerStep
    BY <1>9, <1>10, <1>14, <2>2, Zenon DEF WorkerStep
  <2>3. CASE \E s \in BOOLEAN : Begin(s)
    BY <1>1, <2>3 DEF Stream!Next
  <2> QED
    BY <1>6, <1>14, <1>15, <2>1, <2>2, <2>3, Zenon DEF Next
<1>16. CASE UNCHANGED vars
  BY <1>16 DEF vars, talkerVars, chunkVars, Stream!vars
<1> QED
  BY <1>15, <1>16

\* The consumer's stream is PcmStream, whatever the sizes of the batches and
\* however long the speech: what is heard are the generated frames in their
\* order, each once; nothing follows a refusal or a loss; and a success has
\* delivered every frame.
THEOREM StreamKept == Spec => StreamSpec
<1>1. IInv /\ [Next]_vars => [Stream!Next]_(Stream!vars)
  BY StepMaps
<1> QED
  BY <1>1, InitMaps, Invariance, PTL DEF Spec, StreamSpec, Stream!Spec

-----------------------------------------------------------------------------
(* Sequences cut and put together.                                         *)

\* u is s followed by t; u is what s has from a to b.
Joined(u, s, t, S) ==
  /\ u \in Seq(S) /\ Len(u) = Len(s) + Len(t)
  /\ \A i \in 1..Len(s) : u[i] = s[i]
  /\ \A i \in 1..Len(t) : u[Len(s) + i] = t[i]

Sliced(u, s, a, b, S) ==
  /\ u \in Seq(S) /\ Len(u) = b - a + 1
  /\ \A i \in 1..b - a + 1 : u[i] = s[a + i - 1]

LEMMA Cat ==
  ASSUME NEW S, NEW s \in Seq(S), NEW t \in Seq(S)
  PROVE  Joined(s \o t, s, t, S)
<1>1. Len(s) \in Nat /\ Len(t) \in Nat
  OBVIOUS
<1> QED
  BY <1>1 DEF Joined

LEMMA Part ==
  ASSUME NEW S, NEW s \in Seq(S), NEW a \in Nat, NEW b \in Nat, 1 <= a, a <= b + 1, b <= Len(s)
  PROVE  Sliced(SubSeq(s, a, b), s, a, b, S)
<1>1. Len(s) \in Nat
  OBVIOUS
<1>2. \A i \in a..b : i \in 1..Len(s) /\ s[i] \in S
  BY <1>1
<1>3. SubSeq(s, a, b) \in Seq(S) /\ Len(SubSeq(s, a, b)) = IF a <= b THEN b - a + 1 ELSE 0
  BY <1>2, SubSeqProperties
<1>4. \A i \in 1..b - a + 1 : SubSeq(s, a, b)[i] = s[a + i - 1]
  BY <1>2, SubSeqProperties
<1> QED
  BY <1>3, <1>4 DEF Sliced

\* The beginning and the rest of a sequence are the sequence.
LEMMA PutBack ==
  ASSUME NEW S, NEW s \in Seq(S), NEW n \in 0..Len(s)
  PROVE  SubSeq(s, 1, n) \o SubSeq(s, n + 1, Len(s)) = s
<1> DEFINE a == SubSeq(s, 1, n)
           b == SubSeq(s, n + 1, Len(s))
           u == a \o b
<1>1. Len(s) \in Nat /\ n \in Nat /\ n + 1 \in Nat
  OBVIOUS
<1>2. Sliced(a, s, 1, n, S) /\ Sliced(b, s, n + 1, Len(s), S)
  BY <1>1, Part
<1> HIDE DEF a, b
<1>3. /\ a \in Seq(S) /\ Len(a) = n /\ \A i \in 1..n : a[i] = s[i]
      /\ b \in Seq(S) /\ Len(b) = Len(s) - n /\ \A i \in 1..Len(s) - n : b[i] = s[n + i]
  BY <1>1, <1>2 DEF Sliced
<1>4. Joined(u, a, b, S)
  BY <1>3, Cat
<1> HIDE DEF u
<1>5. u \in Seq(S) /\ Len(u) = Len(s)
  BY <1>1, <1>3, <1>4 DEF Joined
<1>6. ASSUME NEW i \in 1..Len(s) PROVE u[i] = s[i]
  <2>1. CASE i <= n
    <3>1. i \in 1..n
      BY <2>1
    <3> QED
      BY <1>3, <1>4, <3>1 DEF Joined
  <2>2. CASE i > n
    <3>1. i - n \in 1..Len(s) - n /\ n + (i - n) = i
      BY <1>1, <2>2
    <3>2. u[n + (i - n)] = b[i - n]
      BY <1>3, <1>4, <3>1 DEF Joined
    <3>3. b[i - n] = s[n + (i - n)]
      BY <1>3, <3>1
    <3> QED
      BY <3>1, <3>2, <3>3
  <2> QED
    BY <2>1, <2>2
<1>7. u = s
  BY <1>5, <1>6, SeqEqual
<1> QED
  BY <1>7 DEF a, b, u

\* What is left when a beginning is cut off; the beginning itself.
LEMMA CutApart ==
  ASSUME NEW S, NEW s \in Seq(S), NEW t \in Seq(S)
  PROVE  /\ SubSeq(s \o t, Len(s) + 1, Len(s \o t)) = t
         /\ SubSeq(s \o t, 1, Len(s)) = s
<1> DEFINE u == s \o t
           v == SubSeq(u, Len(s) + 1, Len(u))
           w == SubSeq(u, 1, Len(s))
<1>1. Joined(u, s, t, S) /\ Len(s) \in Nat /\ Len(t) \in Nat
  BY Cat
<1> HIDE DEF u
<1>2. u \in Seq(S) /\ Len(u) = Len(s) + Len(t)
  BY <1>1 DEF Joined
<1>3. Sliced(v, u, Len(s) + 1, Len(u), S) /\ Sliced(w, u, 1, Len(s), S)
  BY <1>1, <1>2, Part
<1> HIDE DEF v, w
<1>4. ASSUME NEW i \in 1..Len(t) PROVE v[i] = t[i]
  <2>1. (Len(s) + 1) + i - 1 = Len(s) + i /\ i \in 1..Len(u) - (Len(s) + 1) + 1
    BY <1>1, <1>2
  <2>2. v[i] = u[Len(s) + i]
    BY <1>3, <2>1 DEF Sliced
  <2> QED
    BY <1>1, <2>2 DEF Joined
<1>5. ASSUME NEW i \in 1..Len(s) PROVE w[i] = s[i]
  <2>1. 1 + i - 1 = i /\ i \in 1..Len(s) - 1 + 1
    BY <1>1
  <2>2. w[i] = u[i]
    BY <1>3, <2>1 DEF Sliced
  <2> QED
    BY <1>1, <2>2 DEF Joined
<1>6. v \in Seq(S) /\ Len(v) = Len(t) /\ w \in Seq(S) /\ Len(w) = Len(s)
  BY <1>1, <1>2, <1>3 DEF Sliced
<1>7. v = t
  BY <1>4, <1>6, SeqEqual
<1>8. w = s
  BY <1>5, <1>6, SeqEqual
<1> QED
  BY <1>7, <1>8 DEF u, v, w

-----------------------------------------------------------------------------
(* TalkerPrompt: tokens and rows.                                          *)

Marks == {"none", "im_start", "im_end", "assistant", "user", "newline", "do", "lang",
          "speaker", "ref", "code", "frame", "think", "nothink", "think_bos", "think_eos",
          "tts_pad", "tts_bos", "tts_eos", "codec_pad", "codec_bos"}
Names == Marks \cup ({"say"} \X Nat)
Toks  == Names \X Nat
Rows  == [text : Toks, codec : Toks]
Reqs  == [q : Nat \ {0}, lang : Languages, speaker : Speakers, instruct : InstructLens,
          ref : RefLens, content : ContentLens]

LEMMA TokTyped == ASSUME NEW t \in Names PROVE Tok(t) \in Toks
  BY DEF Tok, Toks

LEMMA ReqTyped ==
  ASSUME TalkerPromptAssumption, NEW r \in Reqs
  PROVE  /\ r.lang \in Nat /\ r.speaker \in Nat /\ r.instruct \in Nat /\ r.ref \in Nat
         /\ r.content \in Nat \ {0} /\ r.q \in Nat \ {0}
  BY DEF Reqs, TalkerPromptAssumption

LEMMA WordsTyped ==
  ASSUME NEW t \in Names, NEW n \in Nat
  PROVE  /\ Words(t, n) \in Seq(Toks) /\ Len(Words(t, n)) = n
         /\ \A i \in 1..n : Words(t, n)[i] = <<t, i>>
<1>1. \A i \in 1..n : <<t, i>> \in Toks
  BY DEF Toks
<1> QED
  BY <1>1 DEF Words

LEMMA PairTyped ==
  ASSUME NEW S, NEW x \in S, NEW y \in S
  PROVE  <<x, y>> \in Seq(S) /\ Len(<<x, y>>) = 2 /\ <<x, y>>[1] = x /\ <<x, y>>[2] = y
  OBVIOUS

LEMMA TripleTyped ==
  ASSUME NEW S, NEW x \in S, NEW y \in S, NEW z \in S
  PROVE  <<x, y, z>> \in Seq(S) /\ Len(<<x, y, z>>) = 3
  OBVIOUS

LEMMA MarksTyped ==
  /\ Nothing \in Toks /\ Tok("im_start") \in Toks /\ Tok("assistant") \in Toks
  /\ Tok("user") \in Toks /\ Tok("newline") \in Toks /\ Tok("im_end") \in Toks
  /\ Tok("tts_pad") \in Toks /\ Tok("tts_eos") \in Toks /\ Tok("tts_bos") \in Toks
  /\ Tok("codec_pad") \in Toks /\ Tok("codec_bos") \in Toks /\ Tok("think") \in Toks
  /\ Tok("nothink") \in Toks /\ Tok("think_bos") \in Toks /\ Tok("think_eos") \in Toks
<1>1. \A t \in Marks : Tok(t) \in Toks
  BY TokTyped DEF Names
<1> QED
  BY <1>1 DEF Marks, Nothing

LEMMA FramingTyped ==
  Role \in Seq(Toks) /\ Len(Role) = 3 /\ Suffix \in Seq(Toks) /\ Len(Suffix) = 5
<1>3. Role \in Seq(Toks) /\ Len(Role) = 3
  BY MarksTyped, TripleTyped DEF Role
<1> DEFINE ends == <<Tok("im_end"), Tok("newline")>>
<1>4. ends \in Seq(Toks) /\ Len(ends) = 2
  BY MarksTyped, PairTyped
<1>5. Suffix = ends \o Role
  BY DEF Suffix
<1> HIDE DEF ends
<1>6. Joined(Suffix, ends, Role, Toks)
  BY <1>3, <1>4, <1>5, Cat
<1> QED
  BY <1>3, <1>4, <1>6 DEF Joined

LEMMA WrappedTyped ==
  ASSUME NEW x \in Seq(Toks)
  PROVE  /\ Wrapped(x) \in Seq(Toks) /\ Len(Wrapped(x)) = Len(x) + 8
         /\ SubSeq(Wrapped(x), 1, 3) = Role
         /\ \A i \in 1..Len(x) : Wrapped(x)[3 + i] = x[i]
<1> DEFINE a == Role \o x
           w == a \o Suffix
           v == SubSeq(w, 1, 3)
<1>1. /\ Role \in Seq(Toks) /\ Len(Role) = 3 /\ Suffix \in Seq(Toks) /\ Len(Suffix) = 5
      /\ Len(x) \in Nat
  BY FramingTyped
<1>2. Joined(a, Role, x, Toks)
  BY <1>1, Cat
<1> HIDE DEF a
<1>3. a \in Seq(Toks) /\ Len(a) = 3 + Len(x)
  BY <1>1, <1>2 DEF Joined
<1>4. Joined(w, a, Suffix, Toks)
  BY <1>1, <1>3, Cat
<1>5. Wrapped(x) = w
  BY DEF Wrapped, a
<1> HIDE DEF w
<1>6. w \in Seq(Toks) /\ Len(w) = Len(x) + 8
  BY <1>1, <1>3, <1>4 DEF Joined
<1>7. ASSUME NEW i \in 1..Len(x) PROVE w[3 + i] = x[i]
  <2>1. 3 + i \in 1..Len(a)
    BY <1>1, <1>3
  <2>2. a[3 + i] = x[i]
    BY <1>1, <1>2 DEF Joined
  <2> QED
    BY <1>4, <2>1, <2>2 DEF Joined
<1>8. Sliced(v, w, 1, 3, Toks)
  BY <1>1, <1>6, Part
<1> HIDE DEF v
<1>9. v \in Seq(Toks) /\ Len(v) = 3
  BY <1>8 DEF Sliced
<1>10. ASSUME NEW i \in 1..3 PROVE v[i] = Role[i]
  <2>1. i \in 1..Len(a) /\ i \in 1..Len(Role) /\ 1 + i - 1 = i /\ i \in 1..3 - 1 + 1
    BY <1>1, <1>3
  <2>2. v[i] = w[i]
    BY <1>8, <2>1 DEF Sliced
  <2> QED
    BY <1>2, <1>4, <2>1, <2>2 DEF Joined
<1>11. v = Role
  BY <1>1, <1>9, <1>10, SeqEqual
<1> QED
  BY <1>5, <1>6, <1>7, <1>11 DEF v

\* What is cut out of the framing.
LEMMA Unwrapped ==
  ASSUME NEW x \in Seq(Toks)
  PROVE  SubSeq(Wrapped(x), 4, Len(x) + 3) = x
<1> DEFINE w == Wrapped(x)
           v == SubSeq(w, 4, Len(x) + 3)
<1>1. /\ w \in Seq(Toks) /\ Len(w) = Len(x) + 8 /\ \A i \in 1..Len(x) : w[3 + i] = x[i]
      /\ Len(x) \in Nat
  BY WrappedTyped
<1> HIDE DEF w
<1>2. Sliced(v, w, 4, Len(x) + 3, Toks)
  BY <1>1, Part
<1> HIDE DEF v
<1>3. v \in Seq(Toks) /\ Len(v) = Len(x) /\ \A i \in 1..Len(x) : v[i] = x[i]
  <2>1. (Len(x) + 3) - 4 + 1 = Len(x)
    BY <1>1
  <2>2. ASSUME NEW i \in 1..Len(x) PROVE 4 + i - 1 = 3 + i
    OBVIOUS
  <2> QED
    BY <1>1, <1>2, <2>1, <2>2 DEF Sliced
<1>4. v = x
  BY <1>3, SeqEqual
<1> QED
  BY <1>4 DEF v, w

LEMMA ContentTyped ==
  ASSUME TalkerPromptAssumption, NEW r \in Reqs
  PROVE  /\ Content(r) \in Seq(Toks) /\ Len(Content(r)) = r.content
         /\ Tokens(r) \in Seq(Toks) /\ Len(Tokens(r)) = r.content + 8
         /\ SubSeq(Tokens(r), 1, 3) = Role
         /\ \A i \in 1..r.content : Tokens(r)[3 + i] = Content(r)[i]
         /\ NewText(r) = Content(r)
<1>1. r.content \in Nat /\ <<"say", r.q>> \in Names
  BY ReqTyped DEF Names
<1>2. Content(r) \in Seq(Toks) /\ Len(Content(r)) = r.content
  BY <1>1, WordsTyped DEF Content
<1>3. /\ Tokens(r) \in Seq(Toks) /\ Len(Tokens(r)) = r.content + 8
      /\ SubSeq(Tokens(r), 1, 3) = Role
      /\ \A i \in 1..r.content : Tokens(r)[3 + i] = Content(r)[i]
  BY <1>2, WrappedTyped DEF Tokens
<1>4. NewText(r) = Content(r)
  <2>1. 3 + Count(r, 8) = Len(Content(r)) + 3
    BY <1>1, <1>2, <1>3 DEF Count
  <2> QED
    BY <1>2, <2>1, Unwrapped DEF NewText, Tokens
<1> QED
  BY <1>2, <1>3, <1>4

LEMMA RefTextIs ==
  ASSUME TalkerPromptAssumption, NEW r \in Reqs
  PROVE  RefText(r) = Words("ref", r.ref)
<1> DEFINE x == Words("ref", r.ref)
<1>1. x \in Seq(Toks) /\ Len(x) \in Nat
  <2>1. "ref" \in Names /\ r.ref \in Nat
    BY ReqTyped DEF Names, Marks
  <2> QED
    BY <2>1, WordsTyped
<1> HIDE DEF x
<1>2. Len(Wrapped(x)) - 5 = Len(x) + 3
  BY <1>1, WrappedTyped
<1> QED
  BY <1>1, <1>2, Unwrapped DEF RefText, x

-----------------------------------------------------------------------------
(* The prompt: a prefix, and what follows it.                              *)

LEMMA RowTyped ==
  ASSUME NEW x \in Toks, NEW c \in Toks
  PROVE  [text |-> x, codec |-> c] \in Rows
  BY DEF Rows

LEMMA OverTyped ==
  ASSUME NEW x \in Seq(Toks), NEW c \in Toks
  PROVE  /\ TextOver(x, c) \in Seq(Rows) /\ Len(TextOver(x, c)) = Len(x)
         /\ \A i \in 1..Len(x) : TextOver(x, c)[i] = [text |-> x[i], codec |-> c]
         /\ CodecOver(x, c) \in Seq(Rows) /\ Len(CodecOver(x, c)) = Len(x)
         /\ \A i \in 1..Len(x) : CodecOver(x, c)[i] = [text |-> c, codec |-> x[i]]
         /\ TextOnly(x) \in Seq(Rows)
<1>1. DOMAIN x = 1..Len(x) /\ Len(x) \in Nat
  OBVIOUS
<1>2. ASSUME NEW i \in 1..Len(x)
      PROVE  /\ [text |-> x[i], codec |-> c] \in Rows /\ [text |-> c, codec |-> x[i]] \in Rows
             /\ [text |-> x[i], codec |-> Nothing] \in Rows
  <2>1. x[i] \in Toks
    OBVIOUS
  <2> QED
    BY <2>1, RowTyped, MarksTyped
<1> DEFINE a == TextOver(x, c)
           b == CodecOver(x, c)
           d == TextOnly(x)
<1>3. /\ a = [i \in 1..Len(x) |-> [text |-> x[i], codec |-> c]]
      /\ b = [i \in 1..Len(x) |-> [text |-> c, codec |-> x[i]]]
      /\ d = [i \in 1..Len(x) |-> [text |-> x[i], codec |-> Nothing]]
  BY <1>1 DEF TextOver, CodecOver, TextOnly
<1> HIDE DEF a, b, d
<1>4. a \in [1..Len(x) -> Rows] /\ b \in [1..Len(x) -> Rows] /\ d \in [1..Len(x) -> Rows]
  BY <1>2, <1>3
<1>5. /\ a \in Seq(Rows) /\ Len(a) = Len(x) /\ b \in Seq(Rows) /\ Len(b) = Len(x)
      /\ d \in Seq(Rows)
  BY <1>1, <1>4, SMTT(40)
<1> QED
  BY <1>3, <1>5 DEF a, b, d

LEMMA CatTyped ==
  ASSUME NEW S, NEW s \in Seq(S), NEW t \in Seq(S)
  PROVE  s \o t \in Seq(S)
  OBVIOUS

LEMMA PrefixTyped ==
  ASSUME TalkerPromptAssumption, NEW r \in Reqs
  PROVE  PromptPrefix(r) \in Seq(Rows)
<1>1. r.lang \in Nat /\ r.speaker \in Nat /\ r.instruct \in Nat
  BY ReqTyped
<1>2. EncodeInstruct(r.instruct) \in Seq(Toks)
  <2>1. <<Tok("im_start"), Tok("user"), Tok("newline")>> \in Seq(Toks)
    BY MarksTyped, TripleTyped
  <2>2. <<Tok("im_end"), Tok("newline")>> \in Seq(Toks)
    BY MarksTyped, PairTyped
  <2>3. Words("do", r.instruct) \in Seq(Toks)
    <3>1. "do" \in Names
      BY DEF Names, Marks
    <3> QED
      BY <1>1, <3>1, WordsTyped
  <2>4. <<>> \in Seq(Toks)
    BY EmptySeq
  <2> QED
    BY <2>1, <2>2, <2>3, <2>4, CatTyped DEF EncodeInstruct
<1>3. CodecPrefill(r) \in Seq(Toks)
  <2>1. <<Tok("nothink"), Tok("think_bos"), Tok("think_eos")>> \in Seq(Toks)
    BY MarksTyped, TripleTyped
  <2>2. <<"lang", r.lang>> \in Toks
    BY <1>1 DEF Toks, Names, Marks
  <2>3. <<Tok("think"), Tok("think_bos"), <<"lang", r.lang>>, Tok("think_eos")>> \in Seq(Toks)
    BY <2>2, MarksTyped
  <2> QED
    BY <2>1, <2>3 DEF CodecPrefill
<1> DEFINE voice == IF r.speaker = 0 THEN <<>> ELSE << <<"speaker", r.speaker>> >>
<1>4. voice \in Seq(Toks)
  <2>1. <<"speaker", r.speaker>> \in Toks
    BY <1>1 DEF Toks, Names, Marks
  <2> QED
    BY <2>1
<1> HIDE DEF voice
<1>5. Overlay(r) \in Seq(Rows)
  <2>1. CodecPrefill(r) \o voice \in Seq(Toks)
    BY <1>3, <1>4, CatTyped
  <2>2. CodecOver(CodecPrefill(r) \o voice, Tok("tts_pad")) \in Seq(Rows)
    BY <2>1, OverTyped, MarksTyped
  <2>3. <<[text |-> Tok("tts_bos"), codec |-> Tok("codec_pad")]>> \in Seq(Rows)
    <3>1. [text |-> Tok("tts_bos"), codec |-> Tok("codec_pad")] \in Rows
      BY MarksTyped, RowTyped
    <3> QED
      BY <3>1
  <2>4. Overlay(r) = CodecOver(CodecPrefill(r) \o voice, Tok("tts_pad"))
                     \o <<[text |-> Tok("tts_bos"), codec |-> Tok("codec_pad")]>>
    BY DEF Overlay, voice
  <2> QED
    BY <2>2, <2>3, <2>4, CatTyped
<1>6. TextOnly(EncodeInstruct(r.instruct)) \in Seq(Rows)
  BY <1>2, OverTyped, MarksTyped
<1>7. TextOnly(SubSeq(Tokens(r), 1, 3)) \in Seq(Rows)
  <2>1. SubSeq(Tokens(r), 1, 3) \in Seq(Toks)
    BY ContentTyped, FramingTyped
  <2> QED
    BY <2>1, OverTyped, MarksTyped
<1> QED
  BY <1>5, <1>6, <1>7, CatTyped DEF PromptPrefix

\* The text of a cloned voice and of the request; without a voice, its first token.
HeardText(r) == TextOver(Words("ref", r.ref), Tok("codec_pad"))
OwnText(r) ==
  IF Icl(r) THEN TextOver(Content(r) \o <<Tok("tts_eos")>>, Tok("codec_pad")) \o CodecSection(r)
  ELSE <<[text |-> Content(r)[1], codec |-> Tok("codec_bos")]>>

\* What a key stands for, and what follows it.
Keyed(r) == IF Icl(r) THEN PromptPrefix(r) \o HeardText(r) ELSE PromptPrefix(r)

LEMMA OverCat ==
  ASSUME NEW x \in Seq(Toks), NEW y \in Seq(Toks), NEW c \in Toks
  PROVE  TextOver(x \o y, c) = TextOver(x, c) \o TextOver(y, c)
<1> DEFINE u == x \o y
           a == TextOver(x, c)
           b == TextOver(y, c)
           l == TextOver(u, c)
           m == a \o b
<1>1. Joined(u, x, y, Toks)
  BY Cat
<1> HIDE DEF u
<1>2. /\ a \in Seq(Rows) /\ Len(a) = Len(x) /\ b \in Seq(Rows) /\ Len(b) = Len(y)
      /\ \A i \in 1..Len(x) : a[i] = [text |-> x[i], codec |-> c]
      /\ \A i \in 1..Len(y) : b[i] = [text |-> y[i], codec |-> c]
  BY OverTyped
<1> HIDE DEF a, b
<1>3. u \in Seq(Toks) /\ Len(u) = Len(x) + Len(y) /\ Len(x) \in Nat /\ Len(y) \in Nat
  BY <1>1 DEF Joined
<1>4. /\ l \in Seq(Rows) /\ Len(l) = Len(u)
      /\ \A i \in 1..Len(u) : l[i] = [text |-> u[i], codec |-> c]
  BY <1>3, OverTyped
<1> HIDE DEF l
<1>5. Joined(m, a, b, Rows)
  BY <1>2, Cat
<1> HIDE DEF m
<1>6. m \in Seq(Rows) /\ Len(m) = Len(x) + Len(y)
  BY <1>2, <1>5 DEF Joined
<1>7. ASSUME NEW i \in 1..Len(u) PROVE l[i] = m[i]
  <2>1. CASE i <= Len(x)
    <3>1. i \in 1..Len(x)
      BY <1>3, <2>1
    <3>2. u[i] = x[i]
      BY <1>1, <3>1 DEF Joined
    <3>3. m[i] = a[i]
      BY <1>2, <1>5, <3>1 DEF Joined
    <3> QED
      BY <1>2, <1>4, <3>1, <3>2, <3>3
  <2>2. CASE i > Len(x)
    <3>1. PICK k \in 1..Len(y) : i = Len(x) + k
      <4>1. i - Len(x) \in 1..Len(y) /\ i = Len(x) + (i - Len(x))
        BY <1>3, <2>2
      <4> QED
        BY <4>1
    <3>2. u[i] = y[k]
      BY <1>1, <3>1 DEF Joined
    <3>3. m[i] = b[k]
      BY <1>2, <1>5, <3>1 DEF Joined
    <3> QED
      BY <1>2, <1>4, <3>1, <3>2, <3>3
  <2> QED
    BY <1>3, <2>1, <2>2
<1>8. l = m
  BY <1>3, <1>4, <1>6, <1>7, SeqEqual
<1> QED
  BY <1>8 DEF l, m, a, b, u

LEMMA TextsTyped ==
  ASSUME TalkerPromptAssumption, NEW r \in Reqs
  PROVE  /\ HeardText(r) \in Seq(Rows) /\ Len(HeardText(r)) = r.ref
         /\ OwnText(r) \in Seq(Rows) /\ Keyed(r) \in Seq(Rows)
         /\ CodecSection(r) \in Seq(Rows) /\ Len(CodecSection(r)) = r.ref + 1
         /\ Content(r) \o <<Tok("tts_eos")>> \in Seq(Toks)
         /\ Words("ref", r.ref) \in Seq(Toks) /\ Len(Words("ref", r.ref)) = r.ref
<1>1. r.ref \in Nat /\ r.content \in Nat \ {0}
  BY ReqTyped
<1>2. "ref" \in Names /\ "code" \in Names
  BY DEF Names, Marks
<1>3. /\ Words("ref", r.ref) \in Seq(Toks) /\ Len(Words("ref", r.ref)) = r.ref
      /\ Words("code", r.ref) \in Seq(Toks) /\ Len(Words("code", r.ref)) = r.ref
  BY <1>1, <1>2, WordsTyped
<1>4. HeardText(r) \in Seq(Rows) /\ Len(HeardText(r)) = r.ref
  BY <1>3, OverTyped, MarksTyped DEF HeardText
<1>5. Content(r) \o <<Tok("tts_eos")>> \in Seq(Toks)
  <2>1. <<Tok("tts_eos")>> \in Seq(Toks)
    BY MarksTyped
  <2> QED
    BY <2>1, ContentTyped, CatTyped
<1>6. CodecSection(r) \in Seq(Rows) /\ Len(CodecSection(r)) = r.ref + 1
  <2> DEFINE w == Words("code", r.ref)
             bos == <<Tok("codec_bos")>>
             u == bos \o w
  <2>1. bos \in Seq(Toks) /\ Len(bos) = 1
    BY MarksTyped
  <2> HIDE DEF bos
  <2>2. w \in Seq(Toks) /\ Len(w) = r.ref
    BY <1>3
  <2> HIDE DEF w
  <2>3. Joined(u, bos, w, Toks)
    BY <2>1, <2>2, Cat
  <2>4. CodecSection(r) = CodecOver(u, Tok("tts_pad"))
    BY DEF CodecSection, w, bos
  <2> HIDE DEF u
  <2>5. u \in Seq(Toks) /\ Len(u) = r.ref + 1
    BY <1>1, <2>1, <2>2, <2>3 DEF Joined
  <2> QED
    BY <2>4, <2>5, OverTyped, MarksTyped
<1>7. OwnText(r) \in Seq(Rows)
  <2>1. CASE Icl(r)
    <3>1. TextOver(Content(r) \o <<Tok("tts_eos")>>, Tok("codec_pad")) \in Seq(Rows)
      BY <1>5, OverTyped, MarksTyped
    <3> QED
      BY <1>6, <2>1, <3>1, CatTyped DEF OwnText
  <2>2. CASE ~Icl(r)
    <3>1. Content(r)[1] \in Toks
      BY <1>1, ContentTyped
    <3>2. [text |-> Content(r)[1], codec |-> Tok("codec_bos")] \in Rows
      BY <3>1, RowTyped, MarksTyped
    <3>3. <<[text |-> Content(r)[1], codec |-> Tok("codec_bos")]>> \in Seq(Rows)
      BY <3>2
    <3> QED
      BY <2>2, <3>3 DEF OwnText
  <2> QED
    BY <2>1, <2>2
<1>8. Keyed(r) \in Seq(Rows)
  BY <1>4, PrefixTyped, CatTyped DEF Keyed
<1> QED
  BY <1>3, <1>4, <1>5, <1>6, <1>7, <1>8

Regroups(s, t, u, v) ==
  /\ (s \o (t \o u)) \o v = (s \o t) \o (u \o v)
  /\ (s \o (t \o u)) \o v = s \o ((t \o u) \o v)

LEMMA Regrouped ==
  ASSUME NEW S, NEW s \in Seq(S), NEW t \in Seq(S), NEW u \in Seq(S), NEW v \in Seq(S)
  PROVE  Regroups(s, t, u, v)
<1>1. PICK a, b : a = s \o t /\ b = t \o u
  OBVIOUS
<1>2. a \in Seq(S) /\ b \in Seq(S)
  BY <1>1, CatTyped
<1>3. s \o b = a \o u
  BY <1>1, ConcatAssociative, SMTT(40)
<1>4. (a \o u) \o v = a \o (u \o v)
  BY <1>2, ConcatAssociative, SMTT(40)
<1>5. (s \o b) \o v = s \o (b \o v)
  BY <1>2, ConcatAssociative, SMTT(40)
<1> QED
  BY <1>1, <1>3, <1>4, <1>5 DEF Regroups

\* All the text there is to hear, and the codes once n frames are fed.
Said(r) == Words("ref", r.ref) \o Content(r) \o <<Tok("tts_eos")>>
Shown(r, n) == <<Tok("codec_bos")>> \o Words("code", r.ref) \o Words("frame", n)

\* The prompt in the order it is forwarded in.
LEMMA PromptParts ==
  ASSUME TalkerPromptAssumption, NEW r \in Reqs
  PROVE  /\ Prompt(r) = Keyed(r) \o OwnText(r)
         /\ Len(Keyed(r)) = CacheableLen(r)
         /\ Icl(r) => Prompt(r) = PromptPrefix(r)
                                  \o (TextOver(Said(r), Tok("codec_pad")) \o CodecSection(r))
<1> DEFINE p == PromptPrefix(r)
           h == HeardText(r)
           n == TextOver(Content(r) \o <<Tok("tts_eos")>>, Tok("codec_pad"))
           c == CodecSection(r)
<1>1. p \in Seq(Rows) /\ h \in Seq(Rows) /\ n \in Seq(Rows) /\ c \in Seq(Rows) /\ Len(h) = r.ref
  BY PrefixTyped, TextsTyped, OverTyped, MarksTyped
<1>2. CASE Icl(r)
  <2> DEFINE w == Words("ref", r.ref)
             x == Content(r)
             e == <<Tok("tts_eos")>>
  <2>1. w \in Seq(Toks) /\ x \in Seq(Toks) /\ e \in Seq(Toks) /\ x \o e \in Seq(Toks)
    BY TextsTyped, ContentTyped, MarksTyped
  <2>2. RefText(r) = w /\ NewText(r) = x
    BY RefTextIs, ContentTyped
  <2>3. h = TextOver(w, Tok("codec_pad")) /\ n = TextOver(x \o e, Tok("codec_pad"))
    BY DEF HeardText
  <2>4. Prompt(r) = (p \o TextOver((w \o x) \o e, Tok("codec_pad"))) \o c
    <3> HIDE DEF w, x
    <3> QED
      BY <1>2, <2>2 DEF Prompt
  <2> HIDE DEF w, x, e
  <2>5. (w \o x) \o e = w \o (x \o e)
    BY <2>1, ConcatAssociative
  <2>6. TextOver((w \o x) \o e, Tok("codec_pad")) = h \o n
    <3>1. PICK y : y = x \o e
      OBVIOUS
    <3>2. TextOver(w \o y, Tok("codec_pad"))
          = TextOver(w, Tok("codec_pad")) \o TextOver(y, Tok("codec_pad"))
      <4>1. y \in Seq(Toks) /\ w \in Seq(Toks) /\ Tok("codec_pad") \in Toks
        BY <2>1, <3>1, MarksTyped
      <4> QED
        BY <4>1, OverCat, Zenon
    <3> HIDE DEF h, n
    <3> QED
      BY <2>3, <2>5, <3>1, <3>2
  <2>7. Keyed(r) = p \o h /\ OwnText(r) = n \o c
    BY <1>2 DEF Keyed, OwnText
  <2>8. CacheableLen(r) = Len(p) + r.ref
    BY <1>2 DEF CacheableLen
  <2> HIDE DEF p, h, n, c
  <2>9. Joined(p \o h, p, h, Rows)
    BY <1>1, Cat
  <2>10. /\ (p \o (h \o n)) \o c = (p \o h) \o (n \o c)
         /\ (p \o (h \o n)) \o c = p \o ((h \o n) \o c)
    <3>1. Regroups(p, h, n, c)
      BY <1>1, Regrouped
    <3> QED
      BY <3>1 DEF Regroups
  <2>11. Len(p \o h) = Len(p) + r.ref
    BY <1>1, <2>9 DEF Joined
  <2>12. TextOver(Said(r), Tok("codec_pad")) = h \o n
    BY <2>6 DEF Said, w, x, e
  <2>13. Prompt(r) = (p \o h) \o (n \o c) /\ Prompt(r) = p \o ((h \o n) \o c)
    BY <2>4, <2>6, <2>10
  <2> QED
    BY <2>7, <2>8, <2>11, <2>12, <2>13 DEF p, c
<1>3. CASE ~Icl(r)
  <2>1. r.content \in Nat \ {0}
    BY ReqTyped
  <2>2. 1 \in 1..r.content /\ 3 + 1 = 4
    BY <2>1
  <2>3. Tokens(r)[4] = Content(r)[1]
    BY <2>2, ContentTyped
  <2>4. Prompt(r) = p \o OwnText(r) /\ Keyed(r) = p
    BY <1>3, <2>3 DEF Prompt, OwnText, Keyed
  <2>5. CacheableLen(r) = Len(p)
    <3>1. Len(p) \in Nat
      BY <1>1
    <3> HIDE DEF p
    <3> QED
      BY <1>3, <3>1 DEF CacheableLen, p
  <2> QED
    BY <1>3, <2>4, <2>5
<1> QED
  BY <1>2, <1>3

\* The prefix is a function of what it is kept under.
LEMMA KeyedAlike ==
  ASSUME TalkerPromptAssumption, NEW a \in Reqs, NEW b \in Reqs, KeyOf(a) = KeyOf(b)
  PROVE  Keyed(a) = Keyed(b)
<1>1. a.lang = b.lang /\ a.speaker = b.speaker /\ a.instruct = b.instruct /\ a.ref = b.ref
      /\ (Icl(a) <=> Icl(b))
  BY DEF KeyOf, Icl
<1>2. SubSeq(Tokens(a), 1, 3) = SubSeq(Tokens(b), 1, 3)
  BY ContentTyped
<1>3. Overlay(a) = Overlay(b)
  BY <1>1 DEF Overlay, CodecPrefill
<1>4. PromptPrefix(a) = PromptPrefix(b)
  BY <1>1, <1>2, <1>3 DEF PromptPrefix
<1>5. HeardText(a) = HeardText(b)
  BY <1>1 DEF HeardText
<1> QED
  BY <1>1, <1>4, <1>5 DEF Keyed

LEMMA PromptTyped ==
  ASSUME TalkerPromptAssumption, NEW r \in Reqs
  PROVE  /\ Prompt(r) \in Seq(Rows) /\ CacheableLen(r) \in 0..Len(Prompt(r))
         /\ SubSeq(Prompt(r), 1, CacheableLen(r)) = Keyed(r)
         /\ Keyed(r) \o SubSeq(Prompt(r), CacheableLen(r) + 1, Len(Prompt(r))) = Prompt(r)
<1> DEFINE k == Keyed(r)
           o == OwnText(r)
           u == k \o o
<1>1. k \in Seq(Rows) /\ o \in Seq(Rows)
  BY TextsTyped
<1>2. Prompt(r) = u /\ Len(k) = CacheableLen(r)
  BY PromptParts
<1> HIDE DEF k, o
<1>3. Joined(u, k, o, Rows)
  BY <1>1, Cat
<1>4. SubSeq(u, 1, Len(k)) = k
  BY <1>1, CutApart
<1> HIDE DEF u
<1>5. u \in Seq(Rows) /\ Len(k) \in 0..Len(u)
  <2>1. Len(k) \in Nat /\ Len(o) \in Nat
    BY <1>1
  <2> QED
    BY <1>3, <2>1 DEF Joined
<1>6. SubSeq(u, 1, Len(k)) \o SubSeq(u, Len(k) + 1, Len(u)) = u
  BY <1>5, PutBack
<1> QED
  BY <1>2, <1>4, <1>5, <1>6 DEF k

-----------------------------------------------------------------------------
(* The requests.                                                           *)

Keys == [icl : BOOLEAN, lang : Languages, speaker : Speakers,
         instruct : InstructLens, ref : RefLens]
PromptJobs ==
  [kind : {"prompt"}, at : {"prefill", "step", "end"}, r : Reqs,
   kept : SUBSET [key : Keys, rows : Seq(Rows)], rows : Seq(Rows), fed : Seq(Rows)]

\* What a decode step is given.
StepRow(r, s) ==
  [text |-> IF s <= Len(Trailing(r)) THEN Trailing(r)[s] ELSE Tok("tts_pad"),
   codec |-> <<"frame", s>>]

\* Kept rows are the prefix of the requests with their key; the prompt and what
\* was fed after it are the request's.
KeptOwn(kept) == \A c \in kept : \E q \in Reqs : c.key = KeyOf(q) /\ c.rows = Keyed(q)
FedOwn(fed, r) == \A s \in 1..Len(fed) : fed[s] = StepRow(r, s)

PromptIInv ==
  /\ job \in PromptJobs /\ KeptOwn(job.kept)
  /\ job.at = "prefill" => job.fed = <<>>
  /\ job.at = "step" => job.rows = Prompt(job.r) /\ FedOwn(job.fed, job.r)

LEMMA TrailingTyped ==
  ASSUME TalkerPromptAssumption, NEW r \in Reqs
  PROVE  /\ Trailing(r) \in Seq(Toks)
         /\ Len(Trailing(r)) = IF Icl(r) THEN 1 ELSE r.content
         /\ Icl(r) => Trailing(r)[1] = Tok("tts_pad")
         /\ ~Icl(r) => /\ \A s \in 1..r.content - 1 : Trailing(r)[s] = Content(r)[s + 1]
                       /\ Trailing(r)[r.content] = Tok("tts_eos")
<1>1. CASE Icl(r)
  <2>1. Trailing(r) = <<Tok("tts_pad")>>
    BY <1>1 DEF Trailing
  <2> QED
    BY <1>1, <2>1, MarksTyped
<1>2. CASE ~Icl(r)
  <2> DEFINE n == r.content
             t == Tokens(r)
             a == SubSeq(t, 5, n + 3)
             e == <<Tok("tts_eos")>>
             u == a \o e
  <2>1. n \in Nat \ {0}
    BY ReqTyped
  <2>2. t \in Seq(Toks) /\ Len(t) = n + 8 /\ \A i \in 1..n : t[3 + i] = Content(r)[i]
    BY ContentTyped
  <2>3. Trailing(r) = u
    <3>1. 4 + Count(r, 9) = n + 3
      BY <2>1, <2>2 DEF Count
    <3> QED
      BY <1>2, <3>1 DEF Trailing
  <2> HIDE DEF n, t
  <2>4. Sliced(a, t, 5, n + 3, Toks)
    BY <2>1, <2>2, Part
  <2> HIDE DEF a
  <2>5. a \in Seq(Toks) /\ Len(a) = n - 1
    BY <2>1, <2>4 DEF Sliced
  <2>6. e \in Seq(Toks) /\ Len(e) = 1 /\ e[1] = Tok("tts_eos")
    BY MarksTyped
  <2> HIDE DEF e
  <2>7. Joined(u, a, e, Toks)
    BY <2>5, <2>6, Cat
  <2> HIDE DEF u
  <2>8. ASSUME NEW s \in 1..n - 1 PROVE u[s] = Content(r)[s + 1]
    <3>1. /\ s \in 1..(n + 3) - 5 + 1 /\ 5 + s - 1 = 3 + (s + 1) /\ s + 1 \in 1..n
          /\ s \in 1..Len(a)
      BY <2>1, <2>5
    <3>2. u[s] = a[s]
      BY <2>7, <3>1 DEF Joined
    <3>3. a[s] = t[3 + (s + 1)]
      BY <2>4, <3>1 DEF Sliced
    <3> QED
      BY <2>2, <3>1, <3>2, <3>3
  <2>9. u[n] = Tok("tts_eos") /\ Len(u) = n /\ u \in Seq(Toks)
    <3>1. 1 \in 1..Len(e) /\ (n - 1) + 1 = n
      BY <2>1, <2>6
    <3>2. u[Len(a) + 1] = e[1] /\ Len(u) = Len(a) + Len(e)
      BY <2>7, <3>1 DEF Joined
    <3> QED
      BY <2>5, <2>6, <2>7, <3>1, <3>2 DEF Joined
  <2> QED
    BY <1>2, <2>3, <2>8, <2>9 DEF n
<1> QED
  BY <1>1, <1>2

LEMMA StepRowTyped ==
  ASSUME TalkerPromptAssumption, NEW r \in Reqs, NEW s \in Nat \ {0}
  PROVE  StepRow(r, s) \in Rows
<1>1. <<"frame", s>> \in Toks
  BY DEF Toks, Names, Marks
<1>2. (IF s <= Len(Trailing(r)) THEN Trailing(r)[s] ELSE Tok("tts_pad")) \in Toks
  <2>1. Trailing(r) \in Seq(Toks)
    BY TrailingTyped
  <2>2. s <= Len(Trailing(r)) => Trailing(r)[s] \in Toks
    BY <2>1
  <2> QED
    BY <2>2, MarksTyped
<1> QED
  BY <1>1, <1>2, RowTyped DEF StepRow

LEMMA RequestTyped ==
  ASSUME NEW q \in Nat \ {0}, NEW r \in Requests2(q)
  PROVE  r \in Reqs
  BY DEF Requests2, Reqs

LEMMA PromptStarts == TalkerPromptAssumption /\ PromptInit => PromptIInv
<1> SUFFICES ASSUME TalkerPromptAssumption, PromptInit PROVE PromptIInv
  OBVIOUS
<1>1. PICK r \in Requests2(1) :
        job = [kind |-> "prompt", at |-> "prefill", r |-> r, kept |-> {},
               rows |-> <<>>, fed |-> <<>>]
  BY DEF PromptInit
<1>2. r \in Reqs
  BY RequestTyped
<1>3. <<>> \in Seq(Rows)
  BY EmptySeq
<1>4. job \in PromptJobs /\ KeptOwn(job.kept)
  BY <1>1, <1>2, <1>3 DEF PromptJobs, KeptOwn
<1> QED
  BY <1>1, <1>4 DEF PromptIInv

LEMMA PrefilledKeeps ==
  ASSUME TalkerPromptAssumption, PromptIInv, Prefilled
  PROVE  PromptIInv'
<1> DEFINE r == job.r
           all == Prompt(r)
           n == CacheableLen(r)
<1>1. job \in PromptJobs /\ job.fed = <<>> /\ KeptOwn(job.kept)
  BY DEF PromptIInv, Prefilled
<1>2. r \in Reqs
  BY <1>1 DEF PromptJobs
<1>3. /\ all \in Seq(Rows) /\ SubSeq(all, 1, n) = Keyed(r)
      /\ Keyed(r) \o SubSeq(all, n + 1, Len(all)) = all
  BY <1>2, PromptTyped
<1>4. KeyOf(r) \in Keys /\ Keyed(r) \in Seq(Rows)
  BY <1>2, TextsTyped, SMTT(40) DEF KeyOf, Keys, Reqs, Icl
<1>5. Len(<<>>) = 0
  BY EmptySeq
<1>6. CASE Hits = {}
  <2> DEFINE new == [key |-> KeyOf(r), rows |-> Keyed(r)]
             kept == {c \in job.kept : c.key # KeyOf(r)} \cup {new}
  <2>1. job' = [job EXCEPT !.at = "step", !.rows = all, !.kept = kept]
    BY <1>1, <1>3, <1>6 DEF Prefilled, PromptJobs
  <2>2. kept \subseteq [key : Keys, rows : Seq(Rows)]
    BY <1>1, <1>4 DEF PromptJobs
  <2>3. KeptOwn(kept)
    BY <1>1, <1>2 DEF KeptOwn
  <2> HIDE DEF kept, all, r
  <2>4. /\ job' \in PromptJobs /\ job'.at = "step" /\ job'.rows = all /\ job'.kept = kept
        /\ job'.fed = job.fed /\ job'.r = job.r
    BY <1>1, <1>3, <2>1, <2>2 DEF PromptJobs
  <2>5. FedOwn(job'.fed, job'.r)
    BY <1>1, <1>5, <2>4 DEF FedOwn
  <2> QED
    BY <2>3, <2>4, <2>5 DEF PromptIInv, all, r
<1>7. CASE Hits # {}
  <2>1. PICK c \in Hits :
          job' = [job EXCEPT !.at = "step", !.rows = c.rows \o SubSeq(all, n + 1, Len(all))]
    BY <1>7 DEF Prefilled
  <2>2. c \in job.kept /\ c.key = KeyOf(r)
    BY DEF Hits
  <2>3. PICK q \in Reqs : c.key = KeyOf(q) /\ c.rows = Keyed(q)
    BY <1>1, <2>2 DEF KeptOwn
  <2>4. c.rows = Keyed(r)
    BY <1>2, <2>2, <2>3, KeyedAlike
  <2>5. job' = [job EXCEPT !.at = "step", !.rows = all]
    BY <1>3, <2>1, <2>4
  <2> HIDE DEF all, r
  <2>6. /\ job' \in PromptJobs /\ job'.at = "step" /\ job'.rows = all /\ job'.kept = job.kept
        /\ job'.fed = job.fed /\ job'.r = job.r
    BY <1>1, <1>3, <2>5 DEF PromptJobs
  <2>7. FedOwn(job'.fed, job'.r)
    BY <1>1, <1>5, <2>6 DEF FedOwn
  <2> QED
    BY <1>1, <2>6, <2>7 DEF PromptIInv, all, r
<1> QED
  BY <1>6, <1>7

LEMMA PromptStepKeeps ==
  ASSUME TalkerPromptAssumption, PromptIInv, PromptStep
  PROVE  PromptIInv'
<1> DEFINE s == Len(job.fed) + 1
           r == job.r
           row == StepRow(r, s)
           fed == Append(job.fed, row)
<1>1. /\ job \in PromptJobs /\ job.at = "step" /\ FedOwn(job.fed, r) /\ KeptOwn(job.kept)
      /\ job.rows = Prompt(r)
  BY DEF PromptIInv, PromptStep
<1>2. r \in Reqs /\ job.fed \in Seq(Rows) /\ Len(job.fed) \in Nat
  BY <1>1 DEF PromptJobs
<1>3. job' = [job EXCEPT !.fed = fed]
  BY <1>1 DEF PromptStep, StepRow, PromptJobs
<1>4. row \in Rows
  BY <1>2, StepRowTyped
<1>5. fed \in Seq(Rows) /\ Len(fed) = s /\ fed[s] = row /\ \A i \in 1..s - 1 : fed[i] = job.fed[i]
  <2> HIDE DEF row
  <2> QED
    BY <1>2, <1>4
<1> HIDE DEF fed
<1>6. FedOwn(fed, r)
  <2>1. ASSUME NEW i \in 1..s PROVE fed[i] = StepRow(r, i)
    <3>1. CASE i = s
      BY <1>5, <3>1
    <3>2. CASE i # s
      <4>1. i \in 1..Len(job.fed) /\ i \in 1..s - 1
        BY <1>2, <3>2
      <4> QED
        BY <1>1, <1>5, <4>1 DEF FedOwn
    <3> QED
      BY <3>1, <3>2
  <2> QED
    BY <1>5, <2>1 DEF FedOwn
<1>7. /\ job' \in PromptJobs /\ job'.at = "step" /\ job'.fed = fed /\ job'.r = r
      /\ job'.rows = job.rows /\ job'.kept = job.kept
  BY <1>1, <1>3, <1>5 DEF PromptJobs
<1> HIDE DEF r
<1> QED
  BY <1>1, <1>6, <1>7 DEF PromptIInv

LEMMA NextRequestKeeps ==
  ASSUME TalkerPromptAssumption, PromptIInv, NextRequest
  PROVE  PromptIInv'
<1>1. job \in PromptJobs /\ KeptOwn(job.kept)
  BY DEF PromptIInv
<1>2. CASE job' = [job EXCEPT !.at = "end"]
  <2>1. job' \in PromptJobs /\ job'.at = "end" /\ job'.kept = job.kept
    BY <1>1, <1>2 DEF PromptJobs
  <2> QED
    BY <1>1, <2>1 DEF PromptIInv
<1>3. ASSUME NEW r \in Requests2(2),
             job' = [job EXCEPT !.at = "prefill", !.r = r, !.rows = <<>>, !.fed = <<>>]
      PROVE  PromptIInv'
  <2>1. r \in Reqs /\ <<>> \in Seq(Rows)
    BY RequestTyped, EmptySeq
  <2>2. job' \in PromptJobs /\ job'.at = "prefill" /\ job'.kept = job.kept /\ job'.fed = <<>>
    BY <1>1, <1>3, <2>1 DEF PromptJobs
  <2> QED
    BY <1>1, <2>2 DEF PromptIInv
<1> QED
  BY <1>2, <1>3 DEF NextRequest

LEMMA PromptKeeps == TalkerPromptAssumption /\ PromptIInv /\ [PromptNext]_job => PromptIInv'
<1> SUFFICES ASSUME TalkerPromptAssumption, PromptIInv, [PromptNext]_job PROVE PromptIInv'
  OBVIOUS
<1>1. CASE UNCHANGED job
  BY <1>1 DEF PromptIInv
<1>2. CASE PromptNext
  BY <1>2, PrefilledKeeps, PromptStepKeeps, NextRequestKeeps DEF PromptNext
<1> QED
  BY <1>1, <1>2

-----------------------------------------------------------------------------
(* What is heard.                                                          *)

LEMMA SaidAt ==
  ASSUME TalkerPromptAssumption, NEW r \in Reqs
  PROVE  /\ Said(r) \in Seq(Toks) /\ Len(Said(r)) = r.ref + r.content + 1
         /\ r.ref = 0 => /\ \A i \in 1..r.content : Said(r)[i] = Content(r)[i]
                         /\ Said(r)[r.content + 1] = Tok("tts_eos")
<1> DEFINE w == Words("ref", r.ref)
           x == Content(r)
           e == <<Tok("tts_eos")>>
           a == w \o x
           u == a \o e
<1>1. /\ w \in Seq(Toks) /\ Len(w) = r.ref /\ x \in Seq(Toks) /\ Len(x) = r.content
      /\ r.ref \in Nat /\ r.content \in Nat
  BY TextsTyped, ContentTyped, ReqTyped
<1>2. e \in Seq(Toks) /\ Len(e) = 1 /\ e[1] = Tok("tts_eos")
  BY MarksTyped
<1>3. Said(r) = u
  BY DEF Said
<1> HIDE DEF w, x, e
<1>4. Joined(a, w, x, Toks)
  BY <1>1, Cat
<1> HIDE DEF a
<1>5. a \in Seq(Toks) /\ Len(a) = r.ref + r.content
  BY <1>1, <1>4 DEF Joined
<1>6. Joined(u, a, e, Toks)
  BY <1>2, <1>5, Cat
<1> HIDE DEF u
<1>7. u \in Seq(Toks) /\ Len(u) = r.ref + r.content + 1 /\ u[Len(a) + 1] = Tok("tts_eos")
  <2>1. 1 \in 1..Len(e)
    BY <1>2
  <2> QED
    BY <1>1, <1>2, <1>5, <1>6, <2>1 DEF Joined
<1>8. ASSUME r.ref = 0, NEW i \in 1..r.content PROVE u[i] = x[i]
  <2>1. i \in 1..Len(x) /\ i \in 1..Len(a) /\ 0 + i = i
    BY <1>1, <1>5, <1>8
  <2>2. u[i] = a[i]
    BY <1>6, <2>1 DEF Joined
  <2>3. a[0 + i] = x[i]
    BY <1>1, <1>4, <1>8, <2>1 DEF Joined
  <2> QED
    BY <2>1, <2>2, <2>3
<1>9. r.ref = 0 => Len(a) + 1 = r.content + 1
  BY <1>1, <1>5
<1> QED
  BY <1>3, <1>7, <1>8, <1>9 DEF x

\* The codes of the voice and of the frames.
VoiceCodes(r) == <<Tok("codec_bos")>> \o Words("code", r.ref)

LEMMA ShownAt ==
  ASSUME TalkerPromptAssumption, NEW r \in Reqs, NEW n \in Nat
  PROVE  /\ VoiceCodes(r) \in Seq(Toks) /\ Len(VoiceCodes(r)) = r.ref + 1
         /\ Shown(r, n) \in Seq(Toks) /\ Len(Shown(r, n)) = r.ref + 1 + n
         /\ \A i \in 1..r.ref + 1 : Shown(r, n)[i] = VoiceCodes(r)[i]
         /\ \A i \in 1..n : Shown(r, n)[(r.ref + 1) + i] = <<"frame", i>>
         /\ VoiceCodes(r)[1] = Tok("codec_bos")
<1> DEFINE b == <<Tok("codec_bos")>>
           w == Words("code", r.ref)
           f == Words("frame", n)
           a == b \o w
           u == a \o f
<1>1. /\ w \in Seq(Toks) /\ Len(w) = r.ref /\ f \in Seq(Toks) /\ Len(f) = n
      /\ r.ref \in Nat /\ \A i \in 1..n : f[i] = <<"frame", i>>
  <2>1. "code" \in Names /\ "frame" \in Names
    BY DEF Names, Marks
  <2>2. r.ref \in Nat
    BY ReqTyped
  <2> QED
    BY <2>1, <2>2, WordsTyped
<1>2. b \in Seq(Toks) /\ Len(b) = 1 /\ b[1] = Tok("codec_bos")
  BY MarksTyped
<1>3. Shown(r, n) = u /\ VoiceCodes(r) = a
  BY DEF Shown, VoiceCodes
<1> HIDE DEF b, w, f
<1>4. Joined(a, b, w, Toks)
  BY <1>1, <1>2, Cat
<1> HIDE DEF a
<1>5. a \in Seq(Toks) /\ Len(a) = r.ref + 1 /\ a[1] = Tok("codec_bos")
  <2>1. 1 \in 1..Len(b)
    BY <1>2
  <2> QED
    BY <1>1, <1>2, <1>4, <2>1 DEF Joined
<1>6. Joined(u, a, f, Toks)
  BY <1>1, <1>5, Cat
<1> HIDE DEF u
<1> QED
  BY <1>1, <1>3, <1>5, <1>6 DEF Joined

BodyRight(body, r, n) ==
  LET mute == Len(body) - Len(Shown(r, n))
  IN /\ \A i \in 1..Len(body) :
          /\ body[i].text = IF i <= Len(Said(r)) THEN Said(r)[i] ELSE Tok("tts_pad")
          /\ body[i].codec = IF i <= mute THEN Tok("codec_pad") ELSE Shown(r, n)[i - mute]
     /\ n >= r.content => Len(body) >= Len(Said(r))

LEMMA StepRowIs ==
  ASSUME TalkerPromptAssumption, NEW r \in Reqs, NEW k \in Nat \ {0}
  PROVE  /\ StepRow(r, k).codec = <<"frame", k>>
         /\ Icl(r) => StepRow(r, k).text = Tok("tts_pad")
         /\ ~Icl(r) => StepRow(r, k).text
                         = IF k + 1 <= Len(Said(r)) THEN Said(r)[k + 1] ELSE Tok("tts_pad")
<1>1. r.ref \in Nat /\ r.content \in Nat \ {0}
  BY ReqTyped
<1>2. StepRow(r, k).codec = <<"frame", k>>
      /\ StepRow(r, k).text = IF k <= Len(Trailing(r)) THEN Trailing(r)[k] ELSE Tok("tts_pad")
  BY DEF StepRow
<1>3. ASSUME Icl(r) PROVE StepRow(r, k).text = Tok("tts_pad")
  <2>1. Len(Trailing(r)) = 1 /\ Trailing(r)[1] = Tok("tts_pad")
    BY <1>3, TrailingTyped
  <2>2. k <= 1 => k = 1
    OBVIOUS
  <2> QED
    BY <1>2, <2>1, <2>2
<1>4. ASSUME ~Icl(r)
      PROVE  StepRow(r, k).text = IF k + 1 <= Len(Said(r)) THEN Said(r)[k + 1] ELSE Tok("tts_pad")
  <2>1. r.ref = 0
    BY <1>1, <1>4 DEF Icl
  <2>2. Len(Said(r)) = r.content + 1 /\ Len(Trailing(r)) = r.content
    BY <1>1, <1>4, <2>1, SaidAt, TrailingTyped
  <2>3. ASSUME k <= r.content PROVE Trailing(r)[k] = Said(r)[k + 1]
    <3>1. CASE k = r.content
      BY <1>4, <2>1, <3>1, SaidAt, TrailingTyped
    <3>2. CASE k # r.content
      <4>1. k \in 1..r.content - 1 /\ k + 1 \in 1..r.content
        BY <1>1, <2>3, <3>2
      <4>2. Trailing(r)[k] = Content(r)[k + 1]
        BY <1>4, <4>1, TrailingTyped
      <4>3. Said(r)[k + 1] = Content(r)[k + 1]
        BY <2>1, <4>1, SaidAt
      <4> QED
        BY <4>2, <4>3
    <3> QED
      BY <3>1, <3>2
  <2>4. k + 1 <= r.content + 1 <=> k <= r.content
    BY <1>1
  <2> QED
    BY <1>2, <2>2, <2>3, <2>4
<1> QED
  BY <1>2, <1>3, <1>4

\* Without a voice: the first token in the prompt, the others in the steps.
LEMMA PlainHeard ==
  ASSUME TalkerPromptAssumption, NEW r \in Reqs, ~Icl(r),
         NEW fed \in Seq(Rows), FedOwn(fed, r), NEW body, Joined(body, OwnText(r), fed, Rows)
  PROVE  BodyRight(body, r, Len(fed))
<1> DEFINE n == Len(fed)
           o == OwnText(r)
           x == Said(r)
           z == Shown(r, n)
<1>1. r.ref = 0 /\ r.content \in Nat \ {0} /\ n \in Nat
  <2>1. r.ref \in Nat /\ r.content \in Nat \ {0}
    BY ReqTyped
  <2> QED
    BY <2>1 DEF Icl
<1>2. o = <<[text |-> Content(r)[1], codec |-> Tok("codec_bos")]>>
  BY DEF OwnText
<1>3. o \in Seq(Rows) /\ Len(o) = 1 /\ o[1] = [text |-> Content(r)[1], codec |-> Tok("codec_bos")]
  <2>1. o \in Seq(Rows)
    BY TextsTyped
  <2> QED
    BY <1>2, <2>1
<1> HIDE DEF o
<1>4. Joined(body, o, fed, Rows)
  BY DEF o
<1>5. Len(body) = n + 1 /\ body[1] = o[1] /\ \A k \in 1..n : body[1 + k] = fed[k]
  <2>1. 1 \in 1..Len(o)
    BY <1>3
  <2> QED
    BY <1>1, <1>3, <1>4, <2>1 DEF Joined
<1>6. /\ Len(x) = r.content + 1 /\ Len(z) = n + 1 /\ x[1] = Content(r)[1]
      /\ z[1] = Tok("codec_bos") /\ \A k \in 1..n : z[1 + k] = <<"frame", k>>
  <2>1. 1 \in 1..r.content /\ 1 \in 1..r.ref + 1
    BY <1>1
  <2>2. Len(x) = r.content + 1 /\ x[1] = Content(r)[1]
    BY <1>1, <2>1, SaidAt
  <2>3. /\ Len(z) = r.ref + 1 + n /\ VoiceCodes(r)[1] = Tok("codec_bos")
        /\ \A i \in 1..r.ref + 1 : z[i] = VoiceCodes(r)[i]
        /\ \A k \in 1..n : z[(r.ref + 1) + k] = <<"frame", k>>
    BY <1>1, ShownAt, ZenonT(40)
  <2>4. r.ref + 1 = 1 /\ r.ref + 1 + n = n + 1
    BY <1>1
  <2> HIDE DEF z
  <2> QED
    BY <2>1, <2>2, <2>3, <2>4
<1> HIDE DEF x, z
<1>7. ASSUME NEW i \in 1..n + 1
      PROVE  /\ body[i].text = IF i <= Len(x) THEN x[i] ELSE Tok("tts_pad")
             /\ body[i].codec = z[i]
  <2>1. CASE i = 1
    <3>1. 1 <= r.content + 1
      BY <1>1
    <3> QED
      BY <1>3, <1>5, <1>6, <2>1, <3>1
  <2>2. CASE i # 1
    <3>1. PICK k \in 1..n : i = 1 + k
      <4>1. i - 1 \in 1..n /\ i = 1 + (i - 1)
        BY <1>1, <2>2
      <4> QED
        BY <4>1
    <3>2. body[i] = StepRow(r, k)
      BY <1>5, <3>1 DEF FedOwn
    <3>3. /\ StepRow(r, k).codec = <<"frame", k>>
          /\ StepRow(r, k).text = IF k + 1 <= Len(x) THEN x[k + 1] ELSE Tok("tts_pad")
      <4>1. k \in Nat \ {0}
        BY <1>1, <3>1
      <4> QED
        BY <4>1, StepRowIs DEF x
    <3>4. i = k + 1
      BY <3>1
    <3> QED
      BY <1>6, <3>1, <3>2, <3>3, <3>4
  <2> QED
    BY <2>1, <2>2
<1>8. Len(body) - Len(z) = 0 /\ \A i \in 1..n + 1 : ~(i <= 0) /\ i - 0 = i
  BY <1>1, <1>5, <1>6
<1>9. n >= r.content => Len(body) >= Len(x)
  BY <1>1, <1>5, <1>6
<1>10. PICK mute : mute = Len(body) - Len(z)
  OBVIOUS
<1>11. \A i \in 1..n + 1 : body[i].codec = IF i <= mute THEN Tok("codec_pad") ELSE z[i - mute]
  BY <1>7, <1>8, <1>10
<1> HIDE DEF n
<1>12. BodyRight(body, r, n)
  BY <1>5, <1>7, <1>9, <1>10, <1>11 DEF BodyRight, x, z
<1> QED
  BY <1>12 DEF n

\* A place is in the text, in the voice's codes or in the steps.
LEMMA Thirds ==
  ASSUME NEW m \in Nat, NEW w \in Nat, NEW n \in Nat, NEW i \in 1..m + w + n
  PROVE  \/ i \in 1..m /\ i \in 1..m + w
         \/ \E k \in 1..w : i = m + k /\ i - m = k /\ ~(i <= m) /\ i \in 1..m + w
         \/ \E k \in 1..n : i = (m + w) + k /\ i - m = w + k /\ ~(i <= m)
<1>1. CASE i <= m
  BY <1>1
<1>2. CASE i > m /\ i <= m + w
  <2>1. i - m \in 1..w /\ i = m + (i - m)
    BY <1>2
  <2> QED
    BY <1>2, <2>1
<1>3. CASE i > m + w
  <2>1. i - (m + w) \in 1..n /\ i = (m + w) + (i - (m + w)) /\ i - m = w + (i - (m + w))
    BY <1>3
  <2> QED
    BY <1>3, <2>1
<1> QED
  BY <1>1, <1>2, <1>3

\* With a voice: all the text in the prompt, then its codes, then the frames.
ThreeParts(m, w, n, x, v, z, t, c, fed, pad, mute) ==
  /\ \A i \in 1..m : t[i].text = x[i] /\ t[i].codec = mute
  /\ \A i \in 1..w : c[i].text = pad /\ c[i].codec = v[i]
  /\ \A k \in 1..n : fed[k].text = pad /\ fed[k].codec = z[w + k]
  /\ \A i \in 1..w : z[i] = v[i]

LaidOut(body, m, w, n, x, z, pad, mute) ==
  /\ Len(body) = m + w + n
  /\ \A i \in 1..m + w + n :
       /\ body[i].text = IF i <= m THEN x[i] ELSE pad
       /\ body[i].codec = IF i <= m THEN mute ELSE z[i - m]

LEMMA InThreeParts ==
  ASSUME NEW m \in Nat, NEW w \in Nat, NEW n \in Nat, NEW x, NEW v, NEW z, NEW t, NEW c,
         NEW a, NEW fed, NEW body, Joined(a, t, c, Rows), Joined(body, a, fed, Rows),
         Len(t) = m, Len(c) = w, Len(fed) = n, NEW pad, NEW mute,
         ThreeParts(m, w, n, x, v, z, t, c, fed, pad, mute)
  PROVE  LaidOut(body, m, w, n, x, z, pad, mute)
<1>1. Len(a) = m + w /\ Len(body) = m + w + n
  BY DEF Joined
<1>2. ASSUME NEW i \in 1..m + w + n
      PROVE  /\ body[i].text = IF i <= m THEN x[i] ELSE pad
             /\ body[i].codec = IF i <= m THEN mute ELSE z[i - m]
  <2>1. ASSUME i \in 1..m, i \in 1..m + w
        PROVE  /\ body[i].text = x[i] /\ body[i].codec = mute /\ i <= m
    <3>1. body[i] = t[i]
      BY <1>1, <2>1 DEF Joined
    <3> QED
      BY <2>1, <3>1 DEF ThreeParts
  <2>2. ASSUME NEW k \in 1..w, i = m + k, i \in 1..m + w
        PROVE  body[i].text = pad /\ body[i].codec = z[k]
    <3>1. body[i] = a[i]
      BY <1>1, <2>2 DEF Joined
    <3>2. a[i] = c[k]
      BY <2>2 DEF Joined
    <3> QED
      BY <3>1, <3>2 DEF ThreeParts
  <2>3. ASSUME NEW k \in 1..n, i = (m + w) + k
        PROVE  body[i].text = pad /\ body[i].codec = z[w + k]
    <3>1. body[i] = fed[k]
      BY <1>1, <2>3 DEF Joined
    <3> QED
      BY <3>1 DEF ThreeParts
  <2>4. \/ i \in 1..m /\ i \in 1..m + w
        \/ \E k \in 1..w : i = m + k /\ i - m = k /\ ~(i <= m) /\ i \in 1..m + w
        \/ \E k \in 1..n : i = (m + w) + k /\ i - m = w + k /\ ~(i <= m)
    BY Thirds
  <2> QED
    BY <2>1, <2>2, <2>3, <2>4
<1> QED
  BY <1>1, <1>2 DEF LaidOut

LEMMA CloneHeard ==
  ASSUME TalkerPromptAssumption, NEW r \in Reqs, Icl(r),
         NEW fed \in Seq(Rows), FedOwn(fed, r), NEW a, NEW body,
         Joined(a, TextOver(Said(r), Tok("codec_pad")), CodecSection(r), Rows),
         Joined(body, a, fed, Rows)
  PROVE  BodyRight(body, r, Len(fed))
<1>0. PICK m, w, n, x, v, z, t, c, pad, mute :
        /\ m = Len(Said(r)) /\ w = r.ref + 1 /\ n = Len(fed) /\ x = Said(r) /\ v = VoiceCodes(r)
        /\ z = Shown(r, Len(fed)) /\ t = TextOver(Said(r), Tok("codec_pad"))
        /\ c = CodecSection(r) /\ pad = Tok("tts_pad") /\ mute = Tok("codec_pad")
  OBVIOUS
<1>1. r.ref \in Nat /\ w \in Nat /\ n \in Nat /\ r.content \in Nat
  BY <1>0, ReqTyped
<1>2. x \in Seq(Toks) /\ m = r.ref + r.content + 1 /\ m \in Nat
  BY <1>0, <1>1, SaidAt
<1>3. /\ v \in Seq(Toks) /\ Len(v) = w /\ Len(z) = w + n
      /\ \A i \in 1..w : z[i] = v[i]
      /\ \A k \in 1..n : z[w + k] = <<"frame", k>>
  BY <1>0, <1>1, ShownAt
<1>4. Len(t) = m /\ \A i \in 1..m : t[i].text = x[i] /\ t[i].codec = mute
  <2>1. mute \in Toks /\ t = TextOver(x, mute)
    BY <1>0, MarksTyped
  <2>2. /\ Len(TextOver(x, mute)) = Len(x)
        /\ \A i \in 1..Len(x) :
              TextOver(x, mute)[i].text = x[i] /\ TextOver(x, mute)[i].codec = mute
    <3>1. /\ Len(TextOver(x, mute)) = Len(x)
          /\ \A i \in 1..Len(x) : TextOver(x, mute)[i] = [text |-> x[i], codec |-> mute]
      BY <1>2, <2>1, OverTyped
    <3>2. PICK o : o = TextOver(x, mute)
      OBVIOUS
    <3>3. ASSUME NEW i \in 1..Len(x) PROVE o[i].text = x[i] /\ o[i].codec = mute
      <4>1. o[i] = [text |-> x[i], codec |-> mute]
        BY <3>1, <3>2, Zenon
      <4> QED
        BY <4>1
    <3> QED
      BY <3>1, <3>2, <3>3, Zenon
  <2>3. m = Len(x)
    BY <1>0
  <2> QED
    BY <2>1, <2>2, <2>3, Zenon
<1>5. Len(c) = w /\ \A i \in 1..w : c[i].text = pad /\ c[i].codec = v[i]
  <2>1. pad \in Toks /\ c = CodecOver(v, pad)
    BY <1>0, MarksTyped DEF CodecSection, VoiceCodes
  <2>2. /\ Len(CodecOver(v, pad)) = Len(v)
        /\ \A i \in 1..Len(v) : CodecOver(v, pad)[i] = [text |-> pad, codec |-> v[i]]
    BY <1>3, <2>1, OverTyped
  <2> QED
    BY <1>3, <2>1, <2>2
<1>6. \A k \in 1..n : fed[k].text = pad /\ fed[k].codec = z[w + k]
  <2> SUFFICES ASSUME NEW k \in 1..n PROVE fed[k].text = pad /\ fed[k].codec = z[w + k]
    OBVIOUS
  <2>1. k \in Nat \ {0} /\ k \in 1..Len(fed)
    BY <1>0, <1>1
  <2>2. fed[k] = StepRow(r, k)
    BY <2>1 DEF FedOwn
  <2>3. StepRow(r, k).codec = <<"frame", k>> /\ StepRow(r, k).text = Tok("tts_pad")
    BY <2>1, StepRowIs
  <2> QED
    BY <1>0, <1>3, <2>2, <2>3
<1>7. Joined(a, t, c, Rows)
  BY <1>0
<1>8. Len(fed) = n
  BY <1>0
<1>9. /\ Len(body) = m + w + n
      /\ \A i \in 1..m + w + n :
           /\ body[i].text = IF i <= m THEN x[i] ELSE pad
           /\ body[i].codec = IF i <= m THEN mute ELSE z[i - m]
  <2>1. ThreeParts(m, w, n, x, v, z, t, c, fed, pad, mute)
    BY <1>3, <1>4, <1>5, <1>6, Zenon DEF ThreeParts
  <2>2. Len(t) = m /\ Len(c) = w
    BY <1>4, <1>5
  <2>3. LaidOut(body, m, w, n, x, z, pad, mute)
    BY <1>1, <1>2, <1>7, <1>8, <2>1, <2>2, InThreeParts
  <2> QED
    BY <2>3 DEF LaidOut
<1>10. Len(body) - Len(z) = m /\ Len(body) >= m
  BY <1>1, <1>2, <1>3, <1>9
<1> QED
  BY <1>0, <1>9, <1>10 DEF BodyRight

\* For any languages, speakers, instructions, voices and lengths of text: what
\* the talker is given is the request's own prompt, also when its prefix is one
\* kept from another request with the same key, and through prompt and steps its
\* whole text in order (build_prefill_graph, generate).
THEOREM PromptHeard == PromptSpec => []PromptFaithful
<1>1. TalkerPromptAssumption /\ PromptIInv => PromptFaithful
  <2> SUFFICES ASSUME TalkerPromptAssumption, PromptIInv, job.at = "step"
               PROVE  PromptFaithful
    BY DEF PromptFaithful, HearsItsText, PromptIsOwn
  <2> DEFINE r == job.r
             p == PromptPrefix(r)
             rest == SubSeq(job.rows, Len(p) + 1, Len(job.rows))
             body == rest \o job.fed
  <2>1. /\ r \in Reqs /\ job.rows = Prompt(r) /\ FedOwn(job.fed, r) /\ job.fed \in Seq(Rows)
    BY DEF PromptIInv, PromptJobs
  <2>2. p \in Seq(Rows)
    BY <2>1, PrefixTyped
  <2>3. ASSUME Icl(r) PROVE BodyRight(body, r, Len(job.fed))
    <3> DEFINE t == TextOver(Said(r), Tok("codec_pad")) \o CodecSection(r)
    <3>1. t \in Seq(Rows)
      <4>1. Said(r) \in Seq(Toks)
        BY <2>1, SaidAt
      <4>2. TextOver(Said(r), Tok("codec_pad")) \in Seq(Rows)
        BY <4>1, OverTyped, MarksTyped
      <4> QED
        BY <2>1, <4>2, TextsTyped, CatTyped
    <3>2. job.rows = p \o t
      BY <2>1, <2>3, PromptParts
    <3> HIDE DEF t, p
    <3>3. rest = t
      BY <2>2, <3>1, <3>2, CutApart
    <3> HIDE DEF rest
    <3>4. Joined(body, t, job.fed, Rows)
      BY <2>1, <3>1, <3>3, Cat
    <3>5. Joined(t, TextOver(Said(r), Tok("codec_pad")), CodecSection(r), Rows)
      <4>1. Said(r) \in Seq(Toks)
        BY <2>1, SaidAt
      <4>2. TextOver(Said(r), Tok("codec_pad")) \in Seq(Rows)
        BY <4>1, OverTyped, MarksTyped
      <4> QED
        BY <2>1, <4>2, TextsTyped, Cat DEF t
    <3> HIDE DEF body
    <3> QED
      BY <2>1, <2>3, <3>4, <3>5, CloneHeard
  <2>4. ASSUME ~Icl(r) PROVE BodyRight(body, r, Len(job.fed))
    <3>1. job.rows = p \o OwnText(r) /\ OwnText(r) \in Seq(Rows)
      BY <2>1, <2>4, PromptParts, TextsTyped DEF Keyed
    <3> HIDE DEF p
    <3>2. rest = OwnText(r)
      BY <2>2, <3>1, CutApart
    <3> HIDE DEF rest
    <3>3. Joined(body, OwnText(r), job.fed, Rows)
      BY <2>1, <3>1, <3>2, Cat
    <3> HIDE DEF body
    <3> QED
      BY <2>1, <2>4, <3>3, PlainHeard
  <2>5. BodyRight(body, r, Len(job.fed))
    BY <2>3, <2>4
  <2>6. HearsItsText
    BY <2>5 DEF HearsItsText, BodyRight, Said, Shown
  <2>7. PromptIsOwn
    BY <2>1 DEF PromptIsOwn
  <2> QED
    BY <2>6, <2>7 DEF PromptFaithful
<1>2. TalkerPromptAssumption
  BY TalkerPromptAssumption
<1> QED
  BY <1>1, <1>2, PromptStarts, PromptKeeps, PTL DEF PromptSpec

-----------------------------------------------------------------------------
(* Induction over the natural numbers, by the least number not in a set:   *)
(* the library's theorem takes an operator for a parameter.                *)

LEMMA LeastNat ==
  ASSUME NEW T, T \subseteq Nat, T # {}
  PROVE  \E x \in T : \A y \in T : x <= y
<1> DEFINE Below(x) == 0..x - 1
           B == {Below(x) : x \in T}
<1>1. B \subseteq FiniteSubsetsOf(Nat) /\ B # {}
  <2>1. ASSUME NEW x \in T PROVE Below(x) \subseteq Nat /\ IsFiniteSet(Below(x))
    BY FS_Interval
  <2> QED
    BY <2>1 DEF FiniteSubsetsOf
<1>2. \E b \in B : \A a \in B : ~(<<a, b>> \in StrictSubsetOrdering(Nat))
  <2> HIDE DEF B
  <2> QED
    BY <1>1, WFMin, FS_StrictSubsetOrderingWellFounded
<1>3. PICK x \in T : \A y \in T : ~(<<Below(y), Below(x)>> \in StrictSubsetOrdering(Nat))
  BY <1>2
<1>4. ASSUME NEW y \in T PROVE x <= y
  <2> SUFFICES ASSUME y < x PROVE FALSE
    OBVIOUS
  <2>1. x \in Nat /\ y \in Nat
    OBVIOUS
  <2>2. Below(y) \subseteq Below(x) /\ Below(y) # Below(x)
    <3>1. y \in Below(x) /\ y \notin Below(y)
      BY <2>1
    <3> QED
      BY <2>1, <3>1
  <2>3. Below(y) \in SUBSET Nat /\ Below(x) \in SUBSET Nat
    BY <2>1
  <2> HIDE DEF Below
  <2> QED
    BY <1>3, <2>2, <2>3 DEF StrictSubsetOrdering
<1> QED
  BY <1>4

LEMMA SetInduction ==
  ASSUME NEW S, 0 \in S, \A n \in Nat : n \in S => n + 1 \in S
  PROVE  \A n \in Nat : n \in S
<1> SUFFICES ASSUME Nat \ S # {} PROVE FALSE
  OBVIOUS
<1>1. PICK x \in Nat \ S : \A y \in Nat \ S : x <= y
  BY LeastNat
<1>2. x # 0 /\ x - 1 \in Nat /\ x - 1 \in S
  BY <1>1
<1> QED
  BY <1>1, <1>2

-----------------------------------------------------------------------------
(* FramePredictor: what a code is drawn from.                              *)

Inputs == [frame : Nat, table : Int, code : Int]
Cached == [hot : BOOLEAN, k : Nat, pen : BOOLEAN, temp : Nat, penalty : Nat]
Drawn  == [head : Nat, sees : UNION {[0..i -> Inputs] : i \in Nat}, col : Nat, temp : Nat]
Envs   == [coreml : BOOLEAN, only : BOOLEAN, full : BOOLEAN, keep : BOOLEAN]

FrameJobs ==
  [kind : {"frame"}, env : Envs, asked : Settings, req : Nat \ {0}, frame : Nat \ {0},
   at : {"token", "coreml", "start", "prefill", "steps", "graph", "done", "end"},
   rows : [0..KvRows - 1 -> Inputs], seq : Seq(Inputs), codes : Seq(Drawn),
   token : Cached, talker : Cached, graph : Cached]

\* The input of table t in frame f; the frame's own n first inputs.
Input(f, t) == [frame |-> f, table |-> t, code |-> t]
OwnInputs(f, n) == [p \in 0..n - 1 |-> Input(f, p - 1)]

OwnCode(c, f, s) == c.head = s /\ c.col = s /\ c.sees = OwnInputs(f, s + 2)
OwnCodes(codes, f) == \A i \in 1..Len(codes) : OwnCode(codes[i], f, i - 1)

\* The first n rows of the predictor's cache are the frame's.
RowsOwn(rows, f, n) == \A p \in 0..n - 1 : rows[p] = Input(f, p - 1)

LEMMA InputTyped ==
  ASSUME NEW f \in Nat, NEW t \in Int
  PROVE  Input(f, t) \in Inputs
  BY DEF Input, Inputs

LEMMA InputsTyped ==
  ASSUME NEW f \in Nat, NEW n \in Nat
  PROVE  OwnInputs(f, n + 1) \in [0..n -> Inputs]
<1>1. ASSUME NEW p \in 0..n PROVE Input(f, p - 1) \in Inputs
  BY InputTyped
<1> QED
  BY <1>1 DEF OwnInputs

LEMMA CodeTyped ==
  ASSUME NEW f \in Nat, NEW s \in Nat, NEW sees, sees = OwnInputs(f, s + 2), NEW temp \in Nat
  PROVE  Code(s, sees, temp) \in Drawn /\ OwnCode(Code(s, sees, temp), f, s)
<1>1. s + 1 \in Nat /\ (s + 1) + 1 = s + 2
  OBVIOUS
<1>2. sees \in [0..s + 1 -> Inputs]
  BY <1>1, InputsTyped
<1>3. sees \in UNION {[0..i -> Inputs] : i \in Nat}
  BY <1>1, <1>2
<1> QED
  BY <1>3 DEF Code, Drawn, OwnCode

\* One more code.
LEMMA CodeAdded ==
  ASSUME NEW f \in Nat, NEW codes \in Seq(Drawn), OwnCodes(codes, f),
         NEW c \in Drawn, OwnCode(c, f, Len(codes))
  PROVE  /\ Append(codes, c) \in Seq(Drawn) /\ Len(Append(codes, c)) = Len(codes) + 1
         /\ OwnCodes(Append(codes, c), f)
<1>1. Append(codes, c) \in Seq(Drawn) /\ Len(Append(codes, c)) = Len(codes) + 1
  OBVIOUS
<1>2. ASSUME NEW i \in 1..Len(codes) + 1 PROVE OwnCode(Append(codes, c)[i], f, i - 1)
  <2>1. CASE i = Len(codes) + 1
    BY <2>1
  <2>2. CASE i # Len(codes) + 1
    <3>1. i \in 1..Len(codes) /\ Append(codes, c)[i] = codes[i]
      BY <2>2
    <3> QED
      BY <3>1 DEF OwnCodes
  <2> QED
    BY <2>1, <2>2
<1> QED
  BY <1>1, <1>2 DEF OwnCodes

\* Nothing drawn yet.
LEMMA NoCodes == ASSUME NEW f PROVE <<>> \in Seq(Drawn) /\ Len(<<>>) = 0 /\ OwnCodes(<<>>, f)
  BY DEF OwnCodes

-----------------------------------------------------------------------------
(* The rows of the cache.                                                  *)

LEMMA PrefillsOwn ==
  ASSUME FramePredictorAssumption, job.frame \in Nat, NEW rows \in [0..KvRows - 1 -> Inputs]
  PROVE  /\ PrefillRows(rows) \in [0..KvRows - 1 -> Inputs]
         /\ RowsOwn(PrefillRows(rows), job.frame, 2)
<1>1. 0 \in 0..KvRows - 1 /\ 1 \in 0..KvRows - 1 /\ KvRows - 1 \in Nat
  BY DEF KvRows, FramePredictorAssumption
<1>2. Hidden = Input(job.frame, -1) /\ Cb0 = Input(job.frame, 0)
  BY DEF Hidden, Cb0, Row0, Input
<1>3. Input(job.frame, -1) \in Inputs /\ Input(job.frame, 0) \in Inputs
  BY InputTyped
<1> DEFINE r == PrefillRows(rows)
<1>4. r \in [0..KvRows - 1 -> Inputs] /\ r[0] = Input(job.frame, -1) /\ r[1] = Input(job.frame, 0)
  BY <1>1, <1>2, <1>3 DEF PrefillRows
<1> HIDE DEF r
<1>5. ASSUME NEW p \in 0..1 PROVE r[p] = Input(job.frame, p - 1)
  <2>1. CASE p = 0
    BY <1>4, <2>1
  <2>2. CASE p = 1
    BY <1>4, <2>2
  <2> QED
    BY <2>1, <2>2
<1> QED
  BY <1>4, <1>5 DEF r, RowsOwn

LEMMA StepsOwn ==
  ASSUME FramePredictorAssumption, job.frame \in Nat, NEW rows \in [0..KvRows - 1 -> Inputs],
         NEW s \in Nat, s < Codes, RowsOwn(rows, job.frame, s + 1)
  PROVE  /\ StepRows(rows, s) \in [0..KvRows - 1 -> Inputs]
         /\ RowsOwn(StepRows(rows, s), job.frame, s + 2)
<1>1. s + 1 \in 0..KvRows - 1 /\ KvRows - 1 \in Nat
  BY DEF KvRows, FramePredictorAssumption
<1>2. Row0(s) = Input(job.frame, s) /\ Input(job.frame, s) \in Inputs
  BY InputTyped DEF Row0, Input
<1> DEFINE r == StepRows(rows, s)
<1>4. r \in [0..KvRows - 1 -> Inputs] /\ r[s + 1] = Input(job.frame, s)
      /\ \A p \in 0..s : r[p] = rows[p]
  BY <1>1, <1>2 DEF StepRows
<1> HIDE DEF r
<1>5. ASSUME NEW p \in 0..s + 1 PROVE r[p] = Input(job.frame, p - 1)
  <2>1. CASE p = s + 1
    BY <1>4, <2>1
  <2>2. CASE p # s + 1
    <3>1. p \in 0..s
      BY <2>2
    <3>2. rows[p] = Input(job.frame, p - 1)
      BY <3>1 DEF RowsOwn
    <3> QED
      BY <1>4, <3>1, <3>2
  <2> QED
    BY <2>1, <2>2
<1> QED
  BY <1>4, <1>5 DEF r, RowsOwn

\* The step at position past attends every row up to its own and no other.
LEMMA AttendsAll ==
  ASSUME FramePredictorAssumption, NEW f, NEW rows, NEW past \in 1..Codes,
         RowsOwn(rows, f, past + 1)
  PROVE  Attended(rows, past) = OwnInputs(f, past + 1)
<1>1. Opens(past) = 0..past
  BY DEF Opens, KvRows, FramePredictorAssumption
<1>2. \A p \in 0..past : rows[p] = Input(f, p - 1)
  BY DEF RowsOwn
<1> QED
  BY <1>1, <1>2 DEF Attended, OwnInputs

-----------------------------------------------------------------------------
(* The graph of all codebooks: its recursion over the steps has a solution,*)
(* and every solution has the frame's rows.                                *)

Recursion(f) ==
  f = [s \in 0..Codes - 1 |-> IF s = 0 THEN PrefillRows(job.rows) ELSE StepRows(f[s - 1], s)]

\* The rows after step s, said without recursion.
RowsThrough(s) ==
  [p \in 0..KvRows - 1 |-> IF p <= s + 1 THEN Row0(p - 1) ELSE job.rows[p]]

LEMMA RecursionSolved ==
  ASSUME FramePredictorAssumption, job.rows \in [0..KvRows - 1 -> Inputs]
  PROVE  \E f : Recursion(f)
<1> DEFINE f == [s \in 0..Codes - 1 |-> RowsThrough(s)]
<1>1. KvRows - 1 = Codes /\ Codes \in Nat \ {0}
  BY DEF KvRows, FramePredictorAssumption
<1>2. RowsThrough(0) = PrefillRows(job.rows)
  BY <1>1, SMTT(40) DEF RowsThrough, PrefillRows, Hidden, Cb0
<1>3. ASSUME NEW s \in 1..Codes - 1 PROVE RowsThrough(s) = StepRows(RowsThrough(s - 1), s)
  <2>1. s + 1 \in 0..KvRows - 1 /\ (s + 1) - 1 = s /\ (s - 1) + 1 = s
    BY <1>1
  <2> DEFINE a == RowsThrough(s - 1)
             b == RowsThrough(s)
  <2>2. /\ a = [p \in 0..KvRows - 1 |-> IF p <= s THEN Row0(p - 1) ELSE job.rows[p]]
        /\ b = [p \in 0..KvRows - 1 |-> IF p <= s + 1 THEN Row0(p - 1) ELSE job.rows[p]]
    BY <2>1 DEF RowsThrough
  <2> HIDE DEF a, b
  <2>3. ASSUME NEW p \in 0..KvRows - 1 PROVE b[p] = [a EXCEPT ![s + 1] = Row0(s)][p]
    <3>1. CASE p = s + 1
      BY <1>1, <2>1, <2>2, <3>1
    <3>2. CASE p # s + 1
      <4>1. p <= s + 1 <=> p <= s
        BY <1>1, <3>2
      <4> QED
        BY <2>2, <3>2, <4>1
    <3> QED
      BY <3>1, <3>2
  <2> QED
    BY <2>2, <2>3 DEF a, b, StepRows
<1>4. ASSUME NEW s \in 0..Codes - 1
      PROVE  RowsThrough(s) = IF s = 0 THEN PrefillRows(job.rows) ELSE StepRows(f[s - 1], s)
  <2>1. CASE s = 0
    BY <1>2, <2>1
  <2>2. CASE s # 0
    <3>1. s \in 1..Codes - 1 /\ s - 1 \in 0..Codes - 1
      BY <1>1, <2>2
    <3>2. f[s - 1] = RowsThrough(s - 1)
      BY <3>1
    <3> QED
      BY <1>3, <2>2, <3>1, <3>2
  <2> QED
    BY <2>1, <2>2
<1>5. Recursion(f)
  BY <1>4 DEF Recursion
<1> QED
  BY <1>5

LEMMA GraphRows ==
  ASSUME FramePredictorAssumption, job.frame \in Nat, job.rows \in [0..KvRows - 1 -> Inputs]
  PROVE  \A s \in 0..Codes - 1 :
           /\ RowsAfter[s] \in [0..KvRows - 1 -> Inputs]
           /\ RowsOwn(RowsAfter[s], job.frame, s + 2)
<1>1. Recursion(RowsAfter)
  <2>1. RowsAfter = CHOOSE f : Recursion(f)
    BY DEF RowsAfter, Recursion
  <2> QED
    BY <2>1, RecursionSolved
<1>2. Codes \in Nat \ {0}
  BY DEF FramePredictorAssumption
<1>3. PICK g : g = RowsAfter
  OBVIOUS
<1>4. \A s \in 0..Codes - 1 :
        g[s] = IF s = 0 THEN PrefillRows(job.rows) ELSE StepRows(g[s - 1], s)
  <2>1. g = [s \in 0..Codes - 1 |->
               IF s = 0 THEN PrefillRows(job.rows) ELSE StepRows(g[s - 1], s)]
    BY <1>1, <1>3 DEF Recursion
  <2> QED
    BY <2>1
<1> DEFINE Good(s) == g[s] \in [0..KvRows - 1 -> Inputs] /\ RowsOwn(g[s], job.frame, s + 2)
           S == {s \in Nat : s < Codes => Good(s)}
<1>5. 0 \in S
  <2>1. g[0] = PrefillRows(job.rows)
    BY <1>2, <1>4
  <2> QED
    BY <2>1, PrefillsOwn
<1>6. ASSUME NEW n \in Nat, n \in S PROVE n + 1 \in S
  <2> SUFFICES ASSUME n + 1 < Codes PROVE Good(n + 1)
    OBVIOUS
  <2>1. n < Codes /\ n + 1 \in 0..Codes - 1 /\ n + 1 # 0 /\ (n + 1) - 1 = n
        /\ (n + 1) + 1 = n + 2 /\ n + 1 \in Nat
    BY <1>2
  <2>2. g[n + 1] = StepRows(g[n], n + 1)
    BY <1>4, <2>1
  <2>3. g[n] \in [0..KvRows - 1 -> Inputs] /\ RowsOwn(g[n], job.frame, (n + 1) + 1)
    BY <1>6, <2>1
  <2>4. /\ StepRows(g[n], n + 1) \in [0..KvRows - 1 -> Inputs]
        /\ RowsOwn(StepRows(g[n], n + 1), job.frame, (n + 1) + 2)
    BY <2>1, <2>3, StepsOwn
  <2> QED
    BY <2>2, <2>4
<1> HIDE DEF S
<1>7. \A n \in Nat : n \in S
  BY <1>5, <1>6, SetInduction
<1> QED
  BY <1>2, <1>3, <1>7 DEF S

LEMMA PrefillCodeOwn ==
  ASSUME job.frame \in Nat, NEW temp \in Nat
  PROVE  PrefillCode(temp) \in Drawn /\ OwnCode(PrefillCode(temp), job.frame, 0)
<1>1. Hidden = Input(job.frame, 0 - 1) /\ Cb0 = Input(job.frame, 1 - 1)
  BY DEF Hidden, Cb0, Row0, Input
<1>2. [p \in 0..1 |-> <<Hidden, Cb0>>[p + 1]] = OwnInputs(job.frame, 0 + 2)
  <2>1. ASSUME NEW p \in 0..1 PROVE <<Hidden, Cb0>>[p + 1] = Input(job.frame, p - 1)
    <3>1. CASE p = 0
      BY <1>1, <3>1
    <3>2. CASE p = 1
      BY <1>1, <3>2
    <3> QED
      BY <3>1, <3>2
  <2> QED
    BY <2>1 DEF OwnInputs
<1> QED
  BY <1>2, CodeTyped DEF PrefillCode

LEMMA GraphCodesOwn ==
  ASSUME FramePredictorAssumption, job.frame \in Nat, job.rows \in [0..KvRows - 1 -> Inputs],
         NEW temp \in Nat
  PROVE  /\ GraphCodes(temp) \in Seq(Drawn) /\ Len(GraphCodes(temp)) = Codes
         /\ OwnCodes(GraphCodes(temp), job.frame)
<1>1. Codes \in Nat \ {0}
  BY DEF FramePredictorAssumption
<1> DEFINE At(i) == IF i = 1 THEN PrefillCode(temp)
                    ELSE Code(i - 1, Attended(RowsAfter[i - 1], i), temp)
<1>2. ASSUME NEW i \in 1..Codes PROVE At(i) \in Drawn /\ OwnCode(At(i), job.frame, i - 1)
  <2>1. CASE i = 1
    BY <2>1, PrefillCodeOwn
  <2>2. CASE i # 1
    <3>1. i - 1 \in 0..Codes - 1 /\ i - 1 \in Nat /\ (i - 1) + 2 = i + 1
      BY <1>1
    <3>2. RowsOwn(RowsAfter[i - 1], job.frame, i + 1)
      BY <3>1, GraphRows
    <3>3. Attended(RowsAfter[i - 1], i) = OwnInputs(job.frame, (i - 1) + 2)
      BY <3>1, <3>2, AttendsAll
    <3> QED
      BY <2>2, <3>1, <3>3, CodeTyped
  <2> QED
    BY <2>1, <2>2
<1> DEFINE c == GraphCodes(temp)
<1>3. c = [i \in 1..Codes |-> At(i)]
  BY DEF GraphCodes
<1> HIDE DEF At, c
<1>4. c \in Seq(Drawn) /\ Len(c) = Codes /\ \A i \in 1..Codes : c[i] = At(i)
  BY <1>1, <1>2, <1>3
<1> QED
  BY <1>2, <1>4 DEF c, OwnCodes

-----------------------------------------------------------------------------
(* The frames.                                                             *)

\* What there is at each place of a frame: while CoreML works, the sequence it
\* is given; in the steps, the rows of the codes drawn.
SeqOwn(q, f) == \A i \in 1..Len(q) : q[i] = Input(f, i - 2)
SequenceOwn(j) ==
  Len(j.codes) > 0 => /\ Len(j.seq) = Len(j.codes) + 1
                      /\ SeqOwn(j.seq, j.frame)

FrameOwn(j) ==
  /\ j.at # "token" => OwnCodes(j.codes, j.frame)
  /\ j.at \in {"start", "prefill", "graph"} => j.codes = <<>>
  /\ j.at = "coreml" => Len(j.codes) < Codes /\ SequenceOwn(j)
  /\ j.at = "steps" => /\ Len(j.codes) \in 1..Codes - 1
                       /\ RowsOwn(j.rows, j.frame, Len(j.codes) + 1)

CodesIInv == job \in FrameJobs /\ FrameOwn(job)

LEMMA BuiltTyped ==
  ASSUME FramePredictorAssumption, NEW s, s.temp \in Nat, s.k \in Nat, s.penalty \in Nat
  PROVE  Built(s) \in Cached
  BY DEF Built, Cached

LEMMA SettingsTyped ==
  ASSUME FramePredictorAssumption, NEW s \in Settings
  PROVE  s.temp \in Nat /\ s.k \in Nat /\ s.penalty \in Nat
  BY DEF Settings, FramePredictorAssumption

LEMMA FrameStarts == FramePredictorAssumption /\ FrameInit => CodesIInv
<1> SUFFICES ASSUME FramePredictorAssumption, FrameInit PROVE CodesIInv
  OBVIOUS
<1>1. PICK env \in Envs, s \in Settings :
        job = [kind |-> "frame", at |-> "token", env |-> env, asked |-> s, req |-> 1,
               frame |-> 1, rows |-> [p \in 0..KvRows - 1 |-> NoInput], seq |-> <<>>,
               token |-> NoCached, talker |-> NoCached, graph |-> NoCached, codes |-> <<>>]
  BY DEF FrameInit, Envs
<1>2. NoInput \in Inputs /\ NoCached \in Cached
  BY DEF NoInput, Inputs, NoCached, Cached
<1>3. [p \in 0..KvRows - 1 |-> NoInput] \in [0..KvRows - 1 -> Inputs]
  BY <1>2
<1>4. <<>> \in Seq(Inputs) /\ <<>> \in Seq(Drawn)
  BY EmptySeq
<1>5. job \in FrameJobs
  BY <1>1, <1>2, <1>3, <1>4 DEF FrameJobs
<1>6. FrameOwn(job)
  BY <1>1 DEF FrameOwn
<1> QED
  BY <1>5, <1>6 DEF CodesIInv

LEMMA DrawTokenKeeps ==
  ASSUME FramePredictorAssumption, CodesIInv, DrawToken
  PROVE  CodesIInv'
<1>1. job \in FrameJobs
  BY DEF CodesIInv
<1>2. Built(job.asked) \in Cached /\ StepGraph \in Cached
  BY <1>1, SettingsTyped, BuiltTyped DEF FrameJobs, StepGraph
<1>3. PICK at \in {"coreml", "start"}, talker \in Cached, token \in Cached :
        job' = [job EXCEPT !.at = at, !.codes = <<>>, !.seq = <<>>,
                            !.talker = talker, !.token = token]
  <2>1. PICK at, talker, token :
          /\ at \in {"coreml", "start"} /\ talker \in {job.talker, StepGraph}
          /\ token \in {Built(job.asked), StepGraph}
          /\ job' = [job EXCEPT !.at = at, !.codes = <<>>, !.seq = <<>>, !.talker = talker,
                                !.token = token]
    BY DEF DrawToken
  <2> QED
    BY <1>1, <1>2, <2>1 DEF FrameJobs
<1>4. <<>> \in Seq(Inputs) /\ <<>> \in Seq(Drawn) /\ Len(<<>>) = 0
  BY NoCodes, EmptySeq
<1>5. job' \in FrameJobs /\ job'.at = at /\ job'.codes = <<>>
  BY <1>1, <1>3, <1>4 DEF FrameJobs
<1>6. FrameOwn(job')
  <2>1. Len(job'.codes) = 0 /\ OwnCodes(job'.codes, job'.frame)
    BY <1>5, NoCodes
  <2>2. 0 < Codes
    BY DEF FramePredictorAssumption
  <2> QED
    BY <1>3, <1>5, <2>1, <2>2 DEF FrameOwn, SequenceOwn
<1> QED
  BY <1>5, <1>6 DEF CodesIInv

LEMMA SequenceBegun ==
  ASSUME NEW f \in Nat, NEW q, q = <<Input(f, -1), Input(f, 0)>>
  PROVE  q \in Seq(Inputs) /\ Len(q) = 2 /\ SeqOwn(q, f)
<1>1. Input(f, -1) \in Inputs /\ Input(f, 0) \in Inputs
  BY InputTyped
<1>2. q \in Seq(Inputs) /\ Len(q) = 2 /\ q[1] = Input(f, -1) /\ q[2] = Input(f, 0)
  BY <1>1
<1>3. ASSUME NEW i \in 1..2 PROVE q[i] = Input(f, i - 2)
  <2>1. CASE i = 1
    BY <1>2, <2>1
  <2>2. CASE i = 2
    BY <1>2, <2>2
  <2> QED
    BY <2>1, <2>2
<1> QED
  BY <1>2, <1>3 DEF SeqOwn

LEMMA SequenceGrown ==
  ASSUME NEW f \in Nat, NEW n \in Nat, NEW q \in Seq(Inputs), Len(q) = n + 1, SeqOwn(q, f),
         NEW r, r = Append(q, Input(f, n))
  PROVE  r \in Seq(Inputs) /\ Len(r) = n + 2 /\ SeqOwn(r, f)
<1>1. Input(f, n) \in Inputs
  BY InputTyped
<1>2. /\ r \in Seq(Inputs) /\ Len(r) = n + 2 /\ r[n + 2] = Input(f, n)
      /\ \A i \in 1..n + 1 : r[i] = q[i]
  BY <1>1
<1>3. ASSUME NEW i \in 1..n + 2 PROVE r[i] = Input(f, i - 2)
  <2>1. CASE i = n + 2
    BY <1>2, <2>1
  <2>2. CASE i # n + 2
    <3>1. i \in 1..n + 1
      BY <2>2
    <3> QED
      BY <1>2, <3>1 DEF SeqOwn
  <2> QED
    BY <2>1, <2>2
<1> QED
  BY <1>2, <1>3 DEF SeqOwn

LEMMA CoremlStepKeeps ==
  ASSUME FramePredictorAssumption, CodesIInv, CoremlStep
  PROVE  CodesIInv'
<1> DEFINE step == Len(job.codes)
           f == job.frame
           seq == IF step = 0 THEN <<Hidden, Cb0>> ELSE Append(job.seq, Row0(step))
           sees == [p \in 0..step + 1 |-> seq[p + 1]]
           c == Code(step, sees, job.asked.temp)
           at == IF step + 1 = Codes THEN "done" ELSE job.at
<1>1. job \in FrameJobs /\ job.at = "coreml" /\ OwnCodes(job.codes, f) /\ step < Codes
     /\ SequenceOwn(job)
  BY DEF CodesIInv, FrameOwn, CoremlStep
<1>2. job' = [job EXCEPT !.seq = seq, !.codes = Append(@, c), !.at = at]
  BY DEF CoremlStep
<1>3. /\ step \in Nat /\ f \in Nat /\ job.asked \in Settings /\ job.codes \in Seq(Drawn)
      /\ job.seq \in Seq(Inputs)
  BY <1>1 DEF FrameJobs
<1>4. \A t \in Int : Row0(t) = Input(f, t) /\ Row0(t) \in Inputs
  BY <1>3, InputTyped DEF Row0, Input
<1>5. seq \in Seq(Inputs) /\ Len(seq) = step + 2 /\ SeqOwn(seq, f)
  <2>1. PICK q, n, m, past : q = seq /\ n = step /\ m = f /\ past = job.seq
    OBVIOUS
  <2>2. n \in Nat /\ m \in Nat /\ past \in Seq(Inputs)
    BY <1>3, <2>1
  <2>3. CASE n = 0
    <3>1. q = <<Input(m, -1), Input(m, 0)>>
      BY <1>4, <2>1, <2>3 DEF Hidden, Cb0
    <3>2. q \in Seq(Inputs) /\ Len(q) = 2 /\ SeqOwn(q, m)
      BY <2>2, <3>1, SequenceBegun
    <3> QED
      BY <2>1, <2>3, <3>2
  <2>4. CASE n # 0
    <3>1. /\ Len(past) = n + 1 /\ q = Append(past, Input(m, n)) /\ SeqOwn(past, m)
      BY <1>1, <1>3, <1>4, <2>1, <2>4 DEF SequenceOwn
    <3>2. q \in Seq(Inputs) /\ Len(q) = n + 2 /\ SeqOwn(q, m)
      BY <2>2, <3>1, SequenceGrown
    <3> QED
      BY <2>1, <3>2
  <2> QED
    BY <2>3, <2>4
<1> HIDE DEF seq
<1>6. sees = OwnInputs(f, step + 2)
  <2>1. ASSUME NEW p \in 0..step + 1 PROVE seq[p + 1] = Input(f, p - 1)
    <3>1. p + 1 \in 1..step + 2 /\ (p + 1) - 2 = p - 1
      BY <1>3
    <3> QED
      BY <1>5, <3>1 DEF SeqOwn
  <2>2. (step + 2) - 1 = step + 1
    BY <1>3
  <2> QED
    BY <2>1, <2>2 DEF OwnInputs
<1>7. c \in Drawn /\ OwnCode(c, f, step)
  <2> HIDE DEF sees
  <2>1. job.asked.temp \in Nat
    BY <1>3, SettingsTyped
  <2> QED
    BY <1>3, <1>6, <2>1, CodeTyped
<1> HIDE DEF c
<1> DEFINE codes == Append(job.codes, c)
<1>8. codes \in Seq(Drawn) /\ Len(codes) = step + 1 /\ OwnCodes(codes, f)
  BY <1>1, <1>3, <1>7, CodeAdded
<1> HIDE DEF codes
<1>9. /\ job' \in FrameJobs /\ job'.at = at /\ job'.codes = codes /\ job'.seq = seq
      /\ job'.frame = f
  <2>1. job' = [job EXCEPT !.seq = seq, !.codes = codes, !.at = at]
    BY <1>1, <1>2 DEF FrameJobs, codes
  <2> QED
    BY <1>1, <1>5, <1>8, <2>1 DEF FrameJobs
<1>10. at \in {"coreml", "done"} /\ (at = "coreml" => step + 1 < Codes)
  BY <1>1, <1>3 DEF FramePredictorAssumption
<1>11. SequenceOwn(job')
  <2>1. Len(seq) = Len(codes) + 1
    BY <1>3, <1>5, <1>8
  <2> QED
    BY <1>5, <1>9, <2>1 DEF SequenceOwn
<1> HIDE DEF at
<1>12. FrameOwn(job')
  BY <1>8, <1>9, <1>10, <1>11 DEF FrameOwn
<1> QED
  BY <1>9, <1>12 DEF CodesIInv

LEMMA CoremlFailsKeeps ==
  ASSUME FramePredictorAssumption, CodesIInv, CoremlFails
  PROVE  CodesIInv'
<1>1. job \in FrameJobs
  BY DEF CodesIInv
<1>2. job' = [job EXCEPT !.at = "start", !.env.coreml = FALSE, !.codes = <<>>]
  BY DEF CoremlFails
<1>3. <<>> \in Seq(Drawn) /\ [job.env EXCEPT !.coreml = FALSE] \in Envs
  BY <1>1, NoCodes DEF FrameJobs, Envs
<1>4. job' = [job EXCEPT !.at = "start", !.env = [job.env EXCEPT !.coreml = FALSE], !.codes = <<>>]
  BY <1>1, <1>2 DEF FrameJobs
<1>5. job' \in FrameJobs /\ job'.at = "start" /\ job'.codes = <<>>
  BY <1>1, <1>3, <1>4 DEF FrameJobs
<1>6. FrameOwn(job')
  BY <1>5, NoCodes DEF FrameOwn
<1> QED
  BY <1>5, <1>6 DEF CodesIInv

LEMMA StartPredictKeeps ==
  ASSUME FramePredictorAssumption, CodesIInv, StartPredict
  PROVE  CodesIInv'
<1>1. job \in FrameJobs /\ job.codes = <<>>
  BY DEF CodesIInv, FrameOwn, StartPredict
<1>2. PICK at \in {"graph", "prefill"} :
        job' = [job EXCEPT !.rows = [p \in 0..KvRows - 1 |-> NoInput], !.at = at]
  BY DEF StartPredict
<1>3. [p \in 0..KvRows - 1 |-> NoInput] \in [0..KvRows - 1 -> Inputs]
  BY DEF NoInput, Inputs
<1>4. job' \in FrameJobs /\ job'.at = at /\ job'.codes = <<>>
  BY <1>1, <1>2, <1>3 DEF FrameJobs
<1>5. FrameOwn(job')
  BY <1>4, NoCodes DEF FrameOwn
<1> QED
  BY <1>4, <1>5 DEF CodesIInv

LEMMA PredictPrefillKeeps ==
  ASSUME FramePredictorAssumption, CodesIInv, PredictPrefill
  PROVE  CodesIInv'
<1> DEFINE c == PrefillCode(job.asked.temp)
           r == PrefillRows(job.rows)
           at == IF Codes = 1 THEN "done" ELSE "steps"
<1>1. job \in FrameJobs
  BY DEF CodesIInv
<1>2. job' = [job EXCEPT !.rows = r, !.codes = <<c>>, !.at = at]
  BY DEF PredictPrefill
<1>3. /\ job.frame \in Nat /\ job.asked.temp \in Nat /\ job.rows \in [0..KvRows - 1 -> Inputs]
  BY <1>1, SettingsTyped DEF FrameJobs
<1>4. c \in Drawn /\ OwnCode(c, job.frame, 0)
  BY <1>3, PrefillCodeOwn
<1>5. r \in [0..KvRows - 1 -> Inputs] /\ RowsOwn(r, job.frame, 2)
  BY <1>3, PrefillsOwn
<1> HIDE DEF c, r
<1>6. <<c>> \in Seq(Drawn) /\ Len(<<c>>) = 1 /\ OwnCodes(<<c>>, job.frame)
  <2>1. <<c>> \in Seq(Drawn) /\ Len(<<c>>) = 1 /\ <<c>>[1] = c
    BY <1>4
  <2>2. ASSUME NEW i \in 1..1 PROVE OwnCode(<<c>>[i], job.frame, i - 1)
    BY <1>4, <2>1
  <2> QED
    BY <2>1, <2>2 DEF OwnCodes
<1> DEFINE codes == <<c>>
<1> HIDE DEF codes
<1>7. /\ job' \in FrameJobs /\ job'.at = at /\ job'.codes = codes /\ job'.rows = r
      /\ job'.frame = job.frame
  <2>1. job' = [job EXCEPT !.rows = r, !.codes = codes, !.at = at]
    BY <1>2 DEF codes
  <2>2. codes \in Seq(Drawn)
    BY <1>6 DEF codes
  <2> QED
    BY <1>1, <1>5, <2>1, <2>2 DEF FrameJobs
<1>8. at \in {"done", "steps"} /\ (at = "steps" => 1 \in 1..Codes - 1)
  BY DEF FramePredictorAssumption
<1>9. Len(codes) = 1 /\ OwnCodes(codes, job.frame) /\ 1 + 1 = 2
  BY <1>6 DEF codes
<1> HIDE DEF at
<1>10. FrameOwn(job')
  BY <1>5, <1>7, <1>8, <1>9 DEF FrameOwn
<1> QED
  BY <1>7, <1>10 DEF CodesIInv

LEMMA PredictStepKeeps ==
  ASSUME FramePredictorAssumption, CodesIInv, PredictStep
  PROVE  CodesIInv'
<1> DEFINE s == Len(job.codes)
           f == job.frame
           r == StepRows(job.rows, s)
           c == Code(s, Attended(r, s + 1), job.asked.temp)
           at == IF s + 1 = Codes THEN "done" ELSE job.at
<1>1. /\ job \in FrameJobs /\ job.at = "steps" /\ OwnCodes(job.codes, f) /\ s \in 1..Codes - 1
      /\ RowsOwn(job.rows, f, s + 1)
  BY DEF CodesIInv, FrameOwn, PredictStep
<1>2. job' = [job EXCEPT !.rows = r, !.codes = Append(@, c), !.at = at]
  BY DEF PredictStep
<1>3. /\ f \in Nat /\ job.asked.temp \in Nat /\ job.rows \in [0..KvRows - 1 -> Inputs]
      /\ job.codes \in Seq(Drawn)
  BY <1>1, SettingsTyped DEF FrameJobs
<1>4. /\ s \in Nat /\ s < Codes /\ s + 1 \in 1..Codes /\ (s + 1) + 1 = s + 2
  BY <1>1 DEF FramePredictorAssumption
<1>5. r \in [0..KvRows - 1 -> Inputs] /\ RowsOwn(r, f, s + 2)
  BY <1>1, <1>3, <1>4, StepsOwn
<1> HIDE DEF r
<1>6. Attended(r, s + 1) = OwnInputs(f, s + 2)
  BY <1>4, <1>5, AttendsAll
<1>7. c \in Drawn /\ OwnCode(c, f, s)
  BY <1>3, <1>4, <1>6, CodeTyped
<1> HIDE DEF c
<1> DEFINE codes == Append(job.codes, c)
<1>8. codes \in Seq(Drawn) /\ Len(codes) = s + 1 /\ OwnCodes(codes, f)
  BY <1>1, <1>3, <1>7, CodeAdded
<1> HIDE DEF codes
<1>9. /\ job' \in FrameJobs /\ job'.at = at /\ job'.codes = codes /\ job'.rows = r
      /\ job'.frame = f
  <2>1. job' = [job EXCEPT !.rows = r, !.codes = codes, !.at = at]
    BY <1>1, <1>2 DEF FrameJobs, codes
  <2> QED
    BY <1>1, <1>5, <1>8, <2>1 DEF FrameJobs
<1>10. at \in {"steps", "done"} /\ (at = "steps" => s + 1 \in 1..Codes - 1)
  BY <1>1, <1>4 DEF FramePredictorAssumption
<1> HIDE DEF at
<1>11. FrameOwn(job')
  BY <1>4, <1>5, <1>8, <1>9, <1>10 DEF FrameOwn
<1> QED
  BY <1>9, <1>11 DEF CodesIInv

LEMMA PredictGraphKeeps ==
  ASSUME FramePredictorAssumption, CodesIInv, PredictGraph
  PROVE  CodesIInv'
<1> DEFINE s == Unpenalised(job.asked)
           g == IF job.env.keep /\ SameShape(job.graph, s) THEN job.graph ELSE Built(s)
           kept == IF job.env.keep THEN g ELSE job.graph
           codes == GraphCodes(g.temp)
           r == RowsAfter[Codes - 1]
<1>1. job \in FrameJobs
  BY DEF CodesIInv
<1>2. job' = [job EXCEPT !.graph = kept, !.rows = r, !.codes = codes, !.at = "done"]
  BY <1>1 DEF PredictGraph, FrameJobs
<1>3. /\ job.frame \in Nat /\ job.rows \in [0..KvRows - 1 -> Inputs] /\ job.graph \in Cached
      /\ Codes - 1 \in 0..Codes - 1
  BY <1>1 DEF FrameJobs, FramePredictorAssumption
<1>4. g \in Cached /\ kept \in Cached
  <2>1. s.temp \in Nat /\ s.k \in Nat /\ s.penalty \in Nat
    <3>1. job.asked \in Settings
      BY <1>1 DEF FrameJobs
    <3> QED
      BY <3>1, SettingsTyped DEF Unpenalised, Settings
  <2>2. Built(s) \in Cached
    BY <2>1, BuiltTyped
  <2> QED
    BY <1>3, <2>2
<1>5. g.temp \in Nat
  BY <1>4 DEF Cached
<1>6. r \in [0..KvRows - 1 -> Inputs]
  BY <1>3, GraphRows
<1> HIDE DEF g, kept, r
<1>7. codes \in Seq(Drawn) /\ OwnCodes(codes, job.frame)
  BY <1>3, <1>5, GraphCodesOwn
<1> HIDE DEF codes
<1>8. job' \in FrameJobs /\ job'.at = "done" /\ job'.codes = codes /\ job'.frame = job.frame
  BY <1>1, <1>2, <1>4, <1>6, <1>7 DEF FrameJobs
<1>9. FrameOwn(job')
  BY <1>7, <1>8 DEF FrameOwn
<1> QED
  BY <1>8, <1>9 DEF CodesIInv

LEMMA PredictFailsKeeps ==
  ASSUME FramePredictorAssumption, CodesIInv, PredictFails
  PROVE  CodesIInv'
<1>1. job \in FrameJobs
  BY DEF CodesIInv
<1>2. PICK s \in Settings :
        job' = [job EXCEPT !.graph = NoCached, !.at = "token", !.asked = s,
                           !.req = @ + 1, !.frame = FramesEach * job.req + 1]
  BY DEF PredictFails
<1>3. NoCached \in Cached
  BY DEF NoCached, Cached
<1>4. job.req + 1 \in Nat \ {0} /\ FramesEach * job.req + 1 \in Nat \ {0}
  <2>1. job.req \in Nat \ {0} /\ FramesEach \in Nat \ {0}
    BY <1>1 DEF FrameJobs, FramePredictorAssumption
  <2>2. FramesEach * job.req \in Nat
    BY <2>1
  <2> QED
    BY <2>1, <2>2
<1> DEFINE next == FramesEach * job.req + 1
<1> HIDE DEF next
<1>5. job' \in FrameJobs /\ job'.at = "token"
  <2>1. job' = [job EXCEPT !.graph = NoCached, !.at = "token", !.asked = s,
                           !.req = job.req + 1, !.frame = next]
    BY <1>1, <1>2 DEF FrameJobs, next
  <2>2. next \in Nat \ {0}
    BY <1>4 DEF next
  <2> QED
    BY <1>1, <1>3, <1>4, <2>1, <2>2 DEF FrameJobs
<1>6. FrameOwn(job')
  BY <1>5 DEF FrameOwn
<1> QED
  BY <1>5, <1>6 DEF CodesIInv

LEMMA NextFrameKeeps ==
  ASSUME FramePredictorAssumption, CodesIInv, NextFrame
  PROVE  CodesIInv'
<1>1. job \in FrameJobs /\ job.at = "done" /\ OwnCodes(job.codes, job.frame)
  BY DEF CodesIInv, FrameOwn, NextFrame
<1>2. job.frame + 1 \in Nat \ {0} /\ job.req + 1 \in Nat \ {0}
  BY <1>1 DEF FrameJobs
<1>3. CASE job' = [job EXCEPT !.at = "token", !.frame = @ + 1]
  <2>1. job' \in FrameJobs /\ job'.at = "token"
    BY <1>1, <1>2, <1>3 DEF FrameJobs
  <2> QED
    BY <2>1 DEF CodesIInv, FrameOwn
<1>4. CASE job' = [job EXCEPT !.at = "end"]
  <2>1. /\ job' \in FrameJobs /\ job'.at = "end" /\ job'.codes = job.codes
        /\ job'.frame = job.frame
    BY <1>1, <1>4 DEF FrameJobs
  <2> QED
    BY <1>1, <2>1 DEF CodesIInv, FrameOwn
<1>5. ASSUME NEW s \in Settings,
             job' = [job EXCEPT !.at = "token", !.frame = @ + 1, !.req = @ + 1, !.asked = s]
      PROVE  CodesIInv'
  <2>1. job' \in FrameJobs /\ job'.at = "token"
    BY <1>1, <1>2, <1>5 DEF FrameJobs
  <2> QED
    BY <2>1 DEF CodesIInv, FrameOwn
<1> QED
  BY <1>3, <1>4, <1>5 DEF NextFrame

LEMMA FrameKeeps == FramePredictorAssumption /\ CodesIInv /\ [FrameNext]_job => CodesIInv'
<1> SUFFICES ASSUME FramePredictorAssumption, CodesIInv, [FrameNext]_job PROVE CodesIInv'
  OBVIOUS
<1>1. CASE UNCHANGED job
  BY <1>1 DEF CodesIInv, FrameOwn, SequenceOwn, SeqOwn
<1>2. CASE FrameNext
  BY <1>2, DrawTokenKeeps, CoremlStepKeeps, CoremlFailsKeeps, StartPredictKeeps,
     PredictPrefillKeeps, PredictStepKeeps, PredictGraphKeeps, PredictFailsKeeps,
     NextFrameKeeps DEF FrameNext
<1> QED
  BY <1>1, <1>2

\* Whichever implementation draws them, also when CoreML fails half-way through
\* a frame or a request fails: a code is drawn from its own head and noise and
\* from the inputs of its own frame, all up to its own (predict_codes_autoregressive).
THEOREM CodesOwn == FrameSpec => []CodesFollow
<1>1. CodesIInv => CodesFollow
  <2> SUFFICES ASSUME CodesIInv, job.at # "token", NEW i \in DOMAIN job.codes
               PROVE  /\ job.codes[i].head = i - 1 /\ job.codes[i].col = i - 1
                      /\ job.codes[i].sees = [p \in 0..i |-> Row0(p - 1)]
    BY DEF CodesFollow
  <2>1. job \in FrameJobs /\ OwnCodes(job.codes, job.frame)
    BY DEF CodesIInv, FrameOwn
  <2>2. job.codes \in Seq(Drawn)
    BY <2>1 DEF FrameJobs
  <2>3. i \in 1..Len(job.codes)
    BY <2>2
  <2>4. OwnCode(job.codes[i], job.frame, i - 1)
    BY <2>1, <2>3 DEF OwnCodes
  <2>5. OwnInputs(job.frame, (i - 1) + 2) = [p \in 0..i |-> Row0(p - 1)]
    <3>1. ((i - 1) + 2) - 1 = i
      BY <2>3
    <3> QED
      BY <3>1 DEF OwnInputs, Input, Row0
  <2> QED
    BY <2>4, <2>5 DEF OwnCode
<1>2. FramePredictorAssumption
  BY FramePredictorAssumption
<1> QED
  BY <1>1, <1>2, FrameStarts, FrameKeeps, PTL DEF FrameSpec
=============================================================================
