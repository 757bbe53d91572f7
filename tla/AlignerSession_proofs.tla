------------------------ MODULE AlignerSession_proofs ------------------------
(***************************************************************************)
(* Theorems about AlignerSession, for every number of streams, chunks,     *)
(* words and aligner processes, and for frames of any size.                *)
(*                                                                         *)
(* None of the properties is inductive. That timings are those of the      *)
(* stream's own audio rests on there being at most one partial and one     *)
(* FINAL anywhere between handler and aligner (WireInv), and on what the   *)
(* aligner holds, is working on and has been sent, and what still waits to *)
(* be sent, being together the audio that was pushed (AudioInv).           *)
(***************************************************************************)
EXTENDS AlignerSession, SequenceTheorems, TLAPS

\* The load is over; a frame is being written; a FINAL has been sent.
Booted == pc \notin {"hello", "loading"}
Writing == pc = "write" \/ reader = "write"
Finishing == pc \in {"finalwrite", "finalwait"}

-----------------------------------------------------------------------------
(* The inductive invariant.                                                *)

\* Who is where: io_mutex_ is held by the thread that is inside; a reader
\* exists only while its request streams; a stream has a loaded aligner.
Threads ==
  /\ io = "handler" <=> pc \in {"write", "final", "finalwrite", "finalwait"}
  /\ io = "reader" <=> reader \in {"drain", "write"}
  /\ reader # "off" => pc \in {"synth", "write", "join"}
Streaming == pc \in {"synth", "write", "join", "final", "finalwrite", "finalwait"}
Streams ==
  /\ Streaming => active
  /\ active => pid # 0 /\ stream > 0
  /\ pc = "begin" => pid # 0
  /\ pc \in {"hello", "loading"} => pid # 0 /\ ~active
  /\ Len(pushed) <= MaxChunks
Process ==
  /\ pid = 0 => child = "none"
  /\ ~Alive => toChild = <<>>
  /\ child = "none" => toParent = <<>>
  /\ child # "work" => task = NoFrame
  /\ child = "boot" => pc = "hello"

ControlInv == Threads /\ Streams /\ Process

\* An aligner that starts has seen nothing but the LOAD_REQ.
Booting ==
  /\ pc = "hello" =>
       /\ toParent = <<>> \/ (Len(toParent) = 1 /\ toParent[1].type = "HELLO")
       /\ Alive => /\ toChild = <<>>
                   /\ \/ child = "boot" /\ toParent = <<>>
                      \/ child = "recv" /\ Len(toParent) = 1
  /\ pc = "loading" =>
       /\ toParent = <<>> \/ (Len(toParent) = 1 /\ toParent[1].type = "LOAD_RESP")
       /\ Alive =>
            \/ /\ child = "recv" /\ toParent = <<>>
               /\ Len(toChild) = 1 /\ toChild[1].type = "LOAD_REQ"
            \/ /\ child = "work" /\ toParent = <<>> /\ toChild = <<>>
               /\ task.type = "LOAD_REQ"
            \/ child = "recv" /\ toChild = <<>> /\ Len(toParent) = 1

\* In a socket there is at most one partial and, behind it, one FINAL.
InOrder(s, partial, final) ==
  \/ s = <<>>
  \/ Len(s) = 1 /\ s[1].type \in {partial, final}
  \/ Len(s) = 2 /\ s[1].type = partial /\ s[2].type = final
Wires ==
  Booted => /\ InOrder(toChild, "PARTIAL_REQ", "FINAL_REQ")
            /\ InOrder(toParent, "PARTIAL_RESP", "FINAL_RESP")
            /\ child = "work" => task.type \in {"PARTIAL_REQ", "FINAL_REQ"}

\* The last frame of a socket, the first of it.
LastIs(s, type) == s # <<>> /\ s[Len(s)].type = type
FirstIs(s, type) == s # <<>> /\ s[1].type = type

PartialAsked == FirstIs(toChild, "PARTIAL_REQ")
PartialMade  == task.type = "PARTIAL_REQ"
PartialSaid  == FirstIs(toParent, "PARTIAL_RESP")
FinalAsked   == LastIs(toChild, "FINAL_REQ")
FinalMade    == task.type = "FINAL_REQ"
FinalSaid    == LastIs(toParent, "FINAL_RESP")

\* One partial anywhere, and it has the slot; one FINAL anywhere, behind it.
OnePartial ==
  Booted /\ Alive =>
    /\ PartialAsked => ~PartialMade /\ ~PartialSaid
    /\ PartialMade => toParent = <<>>
    /\ ~active => ~PartialAsked /\ ~PartialMade /\ ~PartialSaid
    /\ (PartialAsked \/ PartialMade \/ PartialSaid) /\ ~Writing => inflight = 1
OneFinal ==
  /\ FinalAsked \/ FinalMade \/ FinalSaid => Finishing
  /\ FinalMade => toChild = <<>>
  /\ FinalSaid => toChild = <<>> /\ task = NoFrame
SlotTaken == Writing => inflight = 0

WireInv == Booting /\ Wires /\ OnePartial /\ OneFinal /\ SlotTaken

\* What the aligner will have accumulated once it has worked on its task, on
\* the first frame it has been sent, on all of them.
After(a, f) == (IF f.flag THEN <<>> ELSE a) \o f.pcm
Held0 == After(acc, task)
Held1 == IF toChild = <<>> THEN Held0 ELSE After(Held0, toChild[1])
Total == IF Len(toChild) < 2 THEN Held1 ELSE After(Held1, toChild[2])

Idles == toChild = <<>> /\ task = NoFrame /\ toParent = <<>>

\* What the aligner has or will have, and what waits to be sent, is the
\* audio of the stream.
Accounted ==
  Alive /\ active =>
    IF Writing \/ Finishing THEN Total = pushed
    ELSE IF hasSent THEN Total \o pending = pushed
    ELSE pending = pushed /\ Idles
CacheIsPrefix ==
  cached # <<>> => /\ Len(cached[1]) <= Len(acc)
                   /\ cached[1] = SubSeq(acc, 1, Len(cached[1]))

\* The beginning, not empty, of the stream's audio.
Own(s) == Len(s) \in 1..Len(pushed) /\ s = SubSeq(pushed, 1, Len(s))
PartialsOwned ==
  Booted /\ Alive =>
    /\ PartialAsked => Own(Held1)
    /\ PartialMade => Own(Held0)
    /\ PartialSaid /\ toParent[1].flag => Own(toParent[1].pcm)
FinalOwned ==
  FinalSaid /\ toParent[Len(toParent)].flag => toParent[Len(toParent)].pcm = pushed

AudioInv == Accounted /\ CacheIsPrefix /\ PartialsOwned /\ FinalOwned

\* Words shown, heard, on their way and emitted, each at least the one before;
\* the aligner starts again from none only when none was shown.
Reading == reader # "off"
RespN == PartialSaid /\ toParent[1].flag
Shown ==
  Reading =>
    /\ reader = "callback" => shown <= heard.n
    /\ RespN => shown <= toParent[1].n
    /\ RespN /\ reader = "callback" => heard.n <= toParent[1].n
Reset == task.flag \/ (toChild # <<>> /\ toChild[1].flag)
NothingShown == shown = 0 /\ reader # "callback" /\ ~RespN
Emitted ==
  Reading /\ Alive =>
    \/ NothingShown
    \/ /\ ~Reset
       /\ shown <= maxEmitted
       /\ reader = "callback" => heard.n <= maxEmitted
       /\ RespN => toParent[1].n <= maxEmitted
NotYetShown == Reading /\ Alive /\ ~hasSent /\ ~Writing => NothingShown
ShownInv == Shown /\ Emitted /\ NotYetShown
IInv == ControlInv /\ WireInv /\ AudioInv /\ ShownInv

-----------------------------------------------------------------------------
(* Frames and channels.                                                    *)

USE AlignerAssumption

LEMMA FrameType ==
  ASSUME NEW type \in FrameTypes, NEW pcm \in Seq(Chunks), NEW seen \in 0..MaxChunks,
         NEW flag \in BOOLEAN, NEW n \in 0..Words, NEW big \in BOOLEAN
  PROVE  /\ Frame(type, pcm, seen, flag, n, big) \in Frames
         /\ Frame(type, pcm, seen, flag, n, big).type = type
         /\ Frame(type, pcm, seen, flag, n, big).pcm = pcm
         /\ Frame(type, pcm, seen, flag, n, big).flag = flag
         /\ Frame(type, pcm, seen, flag, n, big).n = n
BY DEF Frame, Frames

LEMMA FrameFields ==
  ASSUME NEW f \in Frames
  PROVE  /\ f.type \in FrameTypes /\ f.pcm \in Seq(Chunks) /\ f.seen \in 0..MaxChunks
         /\ f.flag \in BOOLEAN /\ f.n \in 0..Words /\ f.big \in BOOLEAN
BY DEF Frames

LEMMA NoFrameType ==
  /\ NoFrame \in Frames /\ NoFrame.type = "NONE" /\ NoFrame.pcm = <<>>
  /\ NoFrame.flag = FALSE
<1>1. /\ "NONE" \in FrameTypes /\ <<>> \in Seq(Chunks)
      /\ 0 \in 0..MaxChunks /\ 0 \in 0..Words /\ FALSE \in BOOLEAN
  BY EmptySeq DEF FrameTypes
<1>2. NoFrame \in Frames
  BY <1>1, FrameType DEF NoFrame
<1> QED
  BY <1>2 DEF NoFrame, Frame

\* Taking the first frame of a channel leaves the others in order.
LEMMA TailFrames ==
  ASSUME NEW s \in Seq(Frames), s # <<>>
  PROVE  /\ Head(s) \in Frames /\ Head(s) = s[1]
         /\ Tail(s) \in Seq(Frames)
         /\ Len(s) \in Nat \ {0} /\ Len(Tail(s)) = Len(s) - 1
         /\ \A i \in 1..Len(Tail(s)) : i + 1 \in 1..Len(s) /\ Tail(s)[i] = s[i + 1]
         /\ Len(s) = 1 => Tail(s) = <<>>
         /\ Len(s) = 2 => Tail(s) # <<>> /\ Len(Tail(s)) = 1 /\ Tail(s)[1] = s[2]
<1>1. Len(s) \in Nat \ {0}
  BY EmptySeq, LenProperties
<1>2. Head(s) \in Frames /\ Head(s) = s[1]
  BY <1>1, HeadTailProperties, LenProperties, ElementOfSeq
<1>3. Tail(s) \in Seq(Frames) /\ Len(Tail(s)) = Len(s) - 1
  BY HeadTailProperties
<1>4. \A i \in 1..Len(Tail(s)) : i + 1 \in 1..Len(s) /\ Tail(s)[i] = s[i + 1]
  BY <1>1, <1>3
<1>5. ASSUME Len(s) = 1 PROVE Tail(s) = <<>>
  <2>1. Len(Tail(s)) = 0
    BY <1>3, <1>5
  <2> QED
    BY <1>3, <2>1, EmptySeq
<1>6. ASSUME Len(s) = 2 PROVE Tail(s) # <<>> /\ Len(Tail(s)) = 1 /\ Tail(s)[1] = s[2]
  <2>1. Len(Tail(s)) = 1
    BY <1>3, <1>6
  <2>2. Tail(s) # <<>>
    <3>1. Len(<<>>) = 0
      BY EmptySeq
    <3> QED
      BY <2>1, <3>1
  <2>3. Tail(s)[1] = s[2]
    BY <1>4, <2>1
  <2> QED
    BY <2>1, <2>2, <2>3
<1> QED
  BY <1>1, <1>2, <1>3, <1>4, <1>5, <1>6

\* Sending puts the frame behind what is in the channel.
LEMMA AppendFrames ==
  ASSUME NEW s \in Seq(Frames), NEW f \in Frames
  PROVE  /\ Append(s, f) \in Seq(Frames) /\ Append(s, f) # <<>>
         /\ Len(s) \in Nat /\ Len(Append(s, f)) = Len(s) + 1
         /\ Append(s, f)[Len(s) + 1] = f
         /\ s # <<>> => Len(s) >= 1 /\ Append(s, f)[1] = s[1]
         /\ s = <<>> => Len(Append(s, f)) = 1 /\ Append(s, f)[1] = f
<1>1. /\ Append(s, f) \in Seq(Frames) /\ Append(s, f) # <<>>
      /\ Len(s) \in Nat /\ Len(Append(s, f)) = Len(s) + 1
      /\ Append(s, f)[Len(s) + 1] = f
      /\ \A i \in 1..Len(s) : Append(s, f)[i] = s[i]
  BY AppendProperties, LenProperties
<1>2. s # <<>> => Len(s) >= 1
  BY <1>1, EmptySeq
<1>3. s = <<>> => Len(s) = 0
  BY EmptySeq
<1> QED
  BY <1>1, <1>2, <1>3

\* The frame whose writer died is taken back.
LEMMA CutFrames ==
  ASSUME NEW s \in Seq(Frames), s # <<>>
  PROVE  /\ SubSeq(s, 1, Len(s) - 1) \in Seq(Frames)
         /\ Len(SubSeq(s, 1, Len(s) - 1)) = Len(s) - 1
         /\ Len(s) = 1 => SubSeq(s, 1, Len(s) - 1) = <<>>
         /\ Len(s) = 2 => /\ SubSeq(s, 1, Len(s) - 1) # <<>>
                          /\ SubSeq(s, 1, Len(s) - 1)[1] = s[1]
<1>1. Len(s) \in Nat \ {0}
  BY EmptySeq, LenProperties
<1>2. \A i \in 1..(Len(s) - 1) : s[i] \in Frames
  BY <1>1, ElementOfSeq
<1>3. /\ SubSeq(s, 1, Len(s) - 1) \in Seq(Frames)
      /\ Len(SubSeq(s, 1, Len(s) - 1)) = IF 1 <= Len(s) - 1 THEN Len(s) - 1 - 1 + 1 ELSE 0
      /\ \A i \in 1..(Len(s) - 1 - 1 + 1) : SubSeq(s, 1, Len(s) - 1)[i] = s[1 + i - 1]
  BY <1>1, <1>2, SubSeqProperties
<1>4. Len(SubSeq(s, 1, Len(s) - 1)) = Len(s) - 1
  <2> DEFINE k == Len(s)
             cut == Len(SubSeq(s, 1, Len(s) - 1))
  <2>1. k \in Nat /\ k # 0 /\ cut = IF 1 <= k - 1 THEN k - 1 - 1 + 1 ELSE 0
    BY <1>1, <1>3
  <2> HIDE DEF k, cut
  <2>2. cut = k - 1
    BY <2>1
  <2> QED
    BY <2>2 DEF k, cut
<1>5. Len(s) = 1 => SubSeq(s, 1, Len(s) - 1) = <<>>
  BY <1>1, SubSeqEmpty
<1>6. Len(s) = 2 => SubSeq(s, 1, Len(s) - 1) # <<>>
  BY <1>3, <1>4, EmptySeq
<1>7. Len(s) = 2 => SubSeq(s, 1, Len(s) - 1)[1] = s[1]
  BY <1>3
<1> QED
  BY <1>3, <1>4, <1>5, <1>6, <1>7

\* Audio: a prefix stays one when more is appended; what a frame adds.
LEMMA PrefixGrows ==
  ASSUME NEW s \in Seq(Chunks), NEW p \in Seq(Chunks), NEW t \in Seq(Chunks),
         Len(s) <= Len(p), s = SubSeq(p, 1, Len(s))
  PROVE  Len(s) <= Len(p \o t) /\ s = SubSeq(p \o t, 1, Len(s))
<1>1. Len(s) \in Nat /\ Len(p) \in Nat /\ Len(t) \in Nat
  BY LenProperties
<1>2. Len(s) <= Len(p \o t)
  BY <1>1, ConcatProperties
<1>3. CASE Len(s) = 0
  BY <1>2, <1>3, EmptySeq, SubSeqEmpty
<1>4. CASE Len(s) # 0
  <2>1. 1 \in 1..Len(p) /\ Len(s) \in 1..Len(p)
    BY <1>1, <1>4
  <2>2. SubSeq(p \o t, 1, Len(s)) = SubSeq(p, 1, Len(s))
    BY <2>1, SubSeqOfConcat1
  <2> QED
    BY <1>2, <2>2
<1> QED
  BY <1>3, <1>4

LEMMA FullPrefix ==
  ASSUME NEW s \in Seq(Chunks)
  PROVE  Len(s) \in Nat /\ s = SubSeq(s, 1, Len(s))
BY SubSeqFull, LenProperties

LEMMA AfterType ==
  ASSUME NEW a \in Seq(Chunks), NEW f \in Frames
  PROVE  /\ After(a, f) \in Seq(Chunks)
         /\ After(a, NoFrame) = a
         /\ f.flag => After(a, f) = f.pcm
         /\ ~f.flag => After(a, f) = a \o f.pcm
<1>1. f.pcm \in Seq(Chunks) /\ f.flag \in BOOLEAN
  BY FrameFields
<1>2. <<>> \in Seq(Chunks)
  BY EmptySeq
<1>3. a \o <<>> = a /\ <<>> \o f.pcm = f.pcm
  BY <1>1, ConcatEmptySeq
<1>4. After(a, f) \in Seq(Chunks)
  BY <1>1, <1>2, ConcatProperties DEF After
<1>5. After(a, NoFrame) = a
  BY <1>3, NoFrameType DEF After
<1> QED
  BY <1>1, <1>3, <1>4, <1>5 DEF After

-----------------------------------------------------------------------------
(* Type correctness.                                                       *)

ChildTypes == {"none", "boot", "recv", "work", "write", "dead"}

\* An aligner that starts, dies or is killed has the state of a fresh one.
LEMMA ChildStateType ==
  ASSUME NEW s \in ChildTypes, ChildState(s)
  PROVE  /\ child' \in ChildTypes /\ task' \in Frames
         /\ acc' \in Seq(Chunks) /\ maxEmitted' \in 0..Words /\ cached' = <<>>
BY NoFrameType, EmptySeq DEF ChildState

FlagType ==
  /\ loadedOk \in BOOLEAN /\ active \in BOOLEAN /\ hasSent \in BOOLEAN
  /\ eager \in BOOLEAN /\ cancelled \in BOOLEAN /\ stop \in BOOLEAN
ThreadType ==
  /\ pid \in 0..MaxSpawn /\ spawned \in 0..MaxSpawn
  /\ io \in {"free", "handler", "reader"}
  /\ pc \in {"idle", "ensure", "hello", "loading", "begin", "synth", "write",
             "join", "final", "finalwrite", "finalwait"}
  /\ stream \in 0..MaxStreams /\ inflight \in 0..1
  /\ reader \in {"off", "poll", "drain", "write", "callback"}
AudioType == pending \in Seq(Chunks) /\ pushed \in Seq(Chunks)
HeardType == heard \in Frames /\ shown \in 0..Words
WireType == toChild \in Seq(Frames) /\ toParent \in Seq(Frames)
ChildType ==
  /\ child \in ChildTypes /\ task \in Frames /\ acc \in Seq(Chunks)
  /\ maxEmitted \in 0..Words
  /\ cached = <<>> \/ cached \in Seq(Chunks) \X (0..MaxChunks)

LEMMA TypeParts ==
  TypeOK <=> /\ FlagType /\ ThreadType /\ AudioType /\ HeardType /\ WireType
             /\ ChildType
BY DEF TypeOK, FlagType, ThreadType, AudioType, HeardType, WireType, ChildType,
       ChildTypes

LEMMA TypePartsPrime ==
  TypeOK' <=> /\ FlagType' /\ ThreadType' /\ AudioType' /\ HeardType' /\ WireType'
              /\ ChildType'
BY DEF TypeOK, FlagType, ThreadType, AudioType, HeardType, WireType, ChildType,
       ChildTypes

LEMMA InitType == Init => TypeOK
<1> SUFFICES ASSUME Init PROVE TypeOK
  OBVIOUS
<1>1. AudioType /\ WireType
  BY EmptySeq DEF Init, AudioType, WireType
<1>2. HeardType
  BY NoFrameType DEF Init, HeardType
<1>3. FlagType
  BY DEF Init, FlagType
<1>4. ThreadType
  BY DEF Init, ThreadType
<1>5. ChildType
  BY NoFrameType, EmptySeq DEF Init, ChildType, ChildTypes
<1> QED
  BY <1>1, <1>2, <1>3, <1>4, <1>5, TypeParts

\* The chunk that comes next is one of the stream's; a frame has room for its
\* number.
LEMMA NextChunk ==
  ASSUME IInv, TypeOK, pc = "synth", Len(pushed) < MaxChunks
  PROVE  <<stream, Len(pushed) + 1>> \in Chunks /\ Len(pushed) + 1 \in 0..MaxChunks
<1>1. stream \in 1..MaxStreams
  BY DEF IInv, ControlInv, Streams, Streaming, TypeOK
<1>2. Len(pushed) \in Nat
  BY LenProperties DEF TypeOK
<1>3. Len(pushed) + 1 \in 1..MaxChunks
  BY <1>2
<1> QED
  BY <1>1, <1>3 DEF Chunks

LEMMA PushedLen == ASSUME IInv, TypeOK PROVE Len(pushed) \in 0..MaxChunks
BY LenProperties DEF TypeOK, IInv, ControlInv, Streams

\* What a thread sends is a frame: the audio it was given, and a flag only in
\* the first of a stream.
LEMMA SendType ==
  ASSUME TypeOK, NEW pcm \in Seq(Chunks), Len(pushed') \in 0..MaxChunks, SendPartial(pcm)
  PROVE  \E f \in Frames : /\ toChild' = Append(toChild, f)
                           /\ f.type = "PARTIAL_REQ" /\ f.pcm = pcm /\ f.flag = ~hasSent
<1>1. PICK big \in {FALSE, BigRequests} :
        toChild' = Append(toChild,
                     Frame("PARTIAL_REQ", pcm, Len(pushed'), ~hasSent, 0, big))
  BY DEF SendPartial
<1>2. "PARTIAL_REQ" \in FrameTypes /\ 0 \in 0..Words
  BY DEF FrameTypes
<1>3. big \in BOOLEAN
  BY Zenon, <1>1
<1> DEFINE first == ~hasSent
           f == Frame("PARTIAL_REQ", pcm, Len(pushed'), first, 0, big)
<1>4. first \in BOOLEAN
  BY Zenon
<1>5. toChild' = Append(toChild, f)
  BY <1>1
<1> HIDE DEF first
<1>6. f \in Frames /\ f.type = "PARTIAL_REQ" /\ f.pcm = pcm /\ f.flag = first
  BY <1>2, <1>3, <1>4, FrameType
<1> HIDE DEF f
<1>7. \E g \in Frames : /\ toChild' = Append(toChild, g)
                        /\ g.type = "PARTIAL_REQ" /\ g.pcm = pcm /\ g.flag = first
  BY <1>5, <1>6
<1> QED
  BY <1>7 DEF first

LEMMA ReplyType ==
  ASSUME TypeOK, NEW type \in FrameTypes, NEW pcm \in Seq(Chunks), NEW ok \in BOOLEAN,
         NEW n \in 0..Words, Reply(type, pcm, ok, n)
  PROVE  /\ task' = NoFrame /\ child' \in {"write", "recv"}
         /\ \E f \in Frames : /\ toParent' = Append(toParent, f)
                              /\ f.type = type /\ f.pcm = pcm /\ f.flag = ok /\ f.n = n
<1>1. PICK big \in {FALSE, BigPartials \/ type = "FINAL_RESP"} :
        /\ toParent' = Append(toParent, Frame(type, pcm, task.seen, ok, n, big))
        /\ child' = IF big THEN "write" ELSE "recv"
  BY DEF Reply
<1>2. task.seen \in 0..MaxChunks /\ big \in BOOLEAN
  BY <1>1, FrameFields DEF TypeOK
<1> QED
  BY <1>1, <1>2, FrameType DEF Reply

LEMMA AccumulatedType ==
  ASSUME TypeOK
  PROVE  Accumulated \in Seq(Chunks) /\ Accumulated = Held0
<1>1. task \in Frames /\ acc \in Seq(Chunks)
  BY DEF TypeOK
<1> QED
  BY <1>1, AfterType DEF Accumulated, After, Held0

LEMMA EmitsType ==
  ASSUME TypeOK, NEW n \in 0..Words
  PROVE  Emits(n) \in 0..Words /\ (~task.flag => Emits(n) >= maxEmitted)
BY DEF Emits, TypeOK


\* What a pass leaves and answers.
LEMMA PassType ==
  ASSUME TypeOK, ChildAlignsPartial \/ ChildAlignsFinal
  PROVE  ChildType' /\ toParent' \in Seq(Frames)
<1>1. Accumulated \in Seq(Chunks) /\ task.seen \in 0..MaxChunks
  BY AccumulatedType, FrameFields DEF TypeOK
<1>2. /\ <<>> \in Seq(Chunks) /\ 0 \in 0..Words /\ Words \in 0..Words
      /\ {"PARTIAL_RESP", "FINAL_RESP"} \subseteq FrameTypes
      /\ TRUE \in BOOLEAN /\ FALSE \in BOOLEAN
  BY EmptySeq DEF FrameTypes
<1>3. acc' \in Seq(Chunks)
  BY <1>1 DEF ChildAlignsPartial, ChildAlignsFinal
<1>4. ASSUME NEW type \in {"PARTIAL_RESP", "FINAL_RESP"}, NEW pcm \in Seq(Chunks),
             NEW ok \in BOOLEAN, NEW n \in 0..Words, Reply(type, pcm, ok, n)
      PROVE  toParent' \in Seq(Frames) /\ task' \in Frames /\ child' \in ChildTypes
  <2>1. PICK f \in Frames : toParent' = Append(toParent, f)
    BY <1>2, <1>4, ReplyType
  <2>2. task' = NoFrame /\ child' \in {"write", "recv"}
    BY <1>2, <1>4, ReplyType
  <2>3. toParent' \in Seq(Frames)
    BY <2>1, AppendFrames DEF TypeOK
  <2> QED
    BY <2>2, <2>3, NoFrameType DEF ChildTypes
<1>5. ASSUME ChildAlignsPartial PROVE ChildType' /\ toParent' \in Seq(Frames)
  <2>1. ASSUME NEW n \in 0..Words,
               Reply("PARTIAL_RESP", Accumulated, TRUE, Emits(n)),
               maxEmitted' = Emits(n), cached' = <<Accumulated, task.seen>>
        PROVE  ChildType' /\ toParent' \in Seq(Frames)
    <3>1. Emits(n) \in 0..Words
      BY EmitsType
    <3>2. toParent' \in Seq(Frames) /\ task' \in Frames /\ child' \in ChildTypes
      BY <1>1, <1>2, <1>4, <2>1, <3>1
    <3>3. cached' \in Seq(Chunks) \X (0..MaxChunks)
      BY <1>1, <2>1
    <3>4. maxEmitted' \in 0..Words
      BY <2>1, <3>1
    <3> QED
      BY <1>3, <3>2, <3>3, <3>4 DEF ChildType
  <2>2. ASSUME Reply("PARTIAL_RESP", <<>>, FALSE, 0),
               maxEmitted' = IF task.flag THEN 0 ELSE maxEmitted,
               cached' = IF task.flag THEN <<>> ELSE cached
        PROVE  ChildType' /\ toParent' \in Seq(Frames)
    <3>1. toParent' \in Seq(Frames) /\ task' \in Frames /\ child' \in ChildTypes
      BY <1>2, <1>4, <2>2
    <3>2. cached' = <<>> \/ cached' \in Seq(Chunks) \X (0..MaxChunks)
      BY <2>2 DEF TypeOK
    <3>3. maxEmitted' \in 0..Words
      BY <1>2, <2>2 DEF TypeOK
    <3> QED
      BY <1>3, <3>1, <3>2, <3>3 DEF ChildType
  <2> QED
    BY <1>5, <2>1, <2>2 DEF ChildAlignsPartial
<1>6. ASSUME ChildAlignsFinal PROVE ChildType' /\ toParent' \in Seq(Frames)
  <2>1. toParent' \in Seq(Frames) /\ task' \in Frames /\ child' \in ChildTypes
    <3>1. ASSUME Reusable, Reply("FINAL_RESP", cached[1], TRUE, Words)
          PROVE  toParent' \in Seq(Frames) /\ task' \in Frames /\ child' \in ChildTypes
      <4>1. cached[1] \in Seq(Chunks)
        BY <3>1 DEF Reusable, TypeOK
      <4> QED
        BY <1>2, <1>4, <3>1, <4>1
    <3>2. ASSUME NEW ok \in BOOLEAN,
                 Reply("FINAL_RESP", IF ok THEN Accumulated ELSE <<>>, ok, Words)
          PROVE  toParent' \in Seq(Frames) /\ task' \in Frames /\ child' \in ChildTypes
      <4>1. (IF ok THEN Accumulated ELSE <<>>) \in Seq(Chunks)
        BY <1>1, <1>2
      <4> QED
        BY <1>2, <1>4, <3>2, <4>1
    <3> QED
      BY <1>6, <3>1, <3>2 DEF ChildAlignsFinal
  <2>2. cached' = <<>> \/ cached' \in Seq(Chunks) \X (0..MaxChunks)
    BY <1>6 DEF ChildAlignsFinal, TypeOK
  <2>3. maxEmitted' \in 0..Words
    BY <1>2, <1>6 DEF ChildAlignsFinal, TypeOK
  <2> QED
    BY <1>3, <2>1, <2>2, <2>3 DEF ChildType
<1> QED
  BY <1>5, <1>6

\* One step per action: what it assigns stays in range.
LEMMA NextType == TypeOK /\ IInv /\ [Next]_vars => TypeOK'
<1> SUFFICES ASSUME TypeOK /\ IInv, [Next]_vars PROVE TypeOK'
  OBVIOUS
<1> USE TypeParts DEF FlagType, ThreadType, AudioType, HeardType, WireType,
   ChildType
<1>1. CASE TakeMutex
  <2>1. FlagType'
    BY <1>1 DEF FlagType, TakeMutex, session, request, readerVars, childVars,
       parentVars
  <2>2. ThreadType'
    BY <1>1 DEF ThreadType, TakeMutex, session, request, readerVars, childVars,
       parentVars
  <2>3. AudioType'
    BY <1>1 DEF AudioType, TakeMutex, session, request, readerVars, childVars,
       parentVars
  <2>4. HeardType'
    BY <1>1 DEF HeardType, TakeMutex, session, request, readerVars, childVars,
       parentVars
  <2>5. WireType'
    BY <1>1 DEF WireType, TakeMutex, session, request, readerVars, childVars,
       parentVars
  <2>6. ChildType'
    BY <1>1 DEF ChildType, TakeMutex, session, request, readerVars, childVars,
       parentVars
  <2> QED
    BY <2>1, <2>2, <2>3, <2>4, <2>5, <2>6, TypePartsPrime
<1>2. CASE Shutdown
  <2>1. FlagType'
    BY <1>2 DEF FlagType, Shutdown, KillAligner, ForgetStream, ChildState,
       session, request, readerVars, childVars, parentVars
  <2>2. ThreadType'
    BY <1>2 DEF ThreadType, Shutdown, KillAligner, ForgetStream, ChildState,
       session, request, readerVars, childVars, parentVars
  <2>3. AudioType'
    BY <1>2, EmptySeq DEF AudioType, Shutdown, KillAligner, ForgetStream,
       ChildState, session, request, readerVars, childVars, parentVars
  <2>4. HeardType'
    BY <1>2 DEF HeardType, Shutdown, KillAligner, ForgetStream, ChildState,
       session, request, readerVars, childVars, parentVars
  <2>5. WireType'
    BY <1>2, EmptySeq DEF WireType, Shutdown, KillAligner, ForgetStream,
       ChildState, session, request, readerVars, childVars, parentVars
  <2>6. ChildType'
    <3>1. /\ child' \in ChildTypes /\ task' \in Frames /\ acc' \in Seq(Chunks)
          /\ maxEmitted' \in 0..Words /\ cached' = <<>>
      BY <1>2, ChildStateType DEF Shutdown, KillAligner, ChildTypes
    <3> QED
      BY <3>1
  <2> QED
    BY <2>1, <2>2, <2>3, <2>4, <2>5, <2>6, TypePartsPrime
<1>3. CASE Push
  <2>1. FlagType'
    BY <1>3 DEF FlagType, Push, session, request, readerVars, childVars,
       parentVars
  <2>2. ThreadType'
    BY <1>3 DEF ThreadType, Push, session, request, readerVars, childVars,
       parentVars
  <2>3. AudioType'
    <3>1. <<stream, Len(pushed) + 1>> \in Chunks
      BY <1>3, NextChunk DEF Push
    <3>2. pushed \in Seq(Chunks) /\ pending \in Seq(Chunks)
      OBVIOUS
    <3>3. /\ Append(pushed, <<stream, Len(pushed) + 1>>) \in Seq(Chunks)
          /\ Append(pending, <<stream, Len(pushed) + 1>>) \in Seq(Chunks)
      BY <3>1, <3>2, AppendProperties
    <3> QED
      BY <1>3, <3>3 DEF Push
  <2>4. HeardType'
    BY <1>3 DEF HeardType, Push, session, request, readerVars, childVars,
       parentVars
  <2>5. WireType'
    <3>1. toChild' = toChild \/ SendPartial(pending')
      BY <1>3 DEF Push
    <3>2. <<stream, Len(pushed) + 1>> \in Chunks /\ Len(pushed) + 1 \in 0..MaxChunks
      BY <1>3, NextChunk DEF Push
    <3>3. pushed' = Append(pushed, <<stream, Len(pushed) + 1>>)
      BY <1>3 DEF Push
    <3>4. Len(pushed') \in 0..MaxChunks /\ pending' \in Seq(Chunks)
      BY <2>3, <3>2, <3>3, AppendProperties
    <3>5. ASSUME SendPartial(pending') PROVE toChild' \in Seq(Frames)
      <4>1. PICK f \in Frames : toChild' = Append(toChild, f)
        BY <3>4, <3>5, SendType
      <4> QED
        BY <4>1, AppendFrames
    <3> QED
      BY <1>3, <3>1, <3>5 DEF Push
  <2>6. ChildType'
    BY <1>3 DEF ChildType, Push, session, request, readerVars, childVars,
       parentVars
  <2> QED
    BY <2>1, <2>2, <2>3, <2>4, <2>5, <2>6, TypePartsPrime
<1>4. CASE Cancel
  <2>1. FlagType'
    BY <1>4 DEF FlagType, Cancel, session, request, readerVars, childVars,
       parentVars
  <2>2. ThreadType'
    BY <1>4 DEF ThreadType, Cancel, session, request, readerVars, childVars,
       parentVars
  <2>3. AudioType'
    BY <1>4 DEF AudioType, Cancel, session, request, readerVars, childVars,
       parentVars
  <2>4. HeardType'
    BY <1>4 DEF HeardType, Cancel, session, request, readerVars, childVars,
       parentVars
  <2>5. WireType'
    BY <1>4 DEF WireType, Cancel, session, request, readerVars, childVars,
       parentVars
  <2>6. ChildType'
    BY <1>4 DEF ChildType, Cancel, session, request, readerVars, childVars,
       parentVars
  <2> QED
    BY <2>1, <2>2, <2>3, <2>4, <2>5, <2>6, TypePartsPrime
<1>5. CASE ChildCrashes
  <2>1. FlagType'
    BY <1>5 DEF FlagType, ChildCrashes, ChildState, session, request,
       readerVars, childVars, parentVars
  <2>2. ThreadType'
    BY <1>5 DEF ThreadType, ChildCrashes, ChildState, session, request,
       readerVars, childVars, parentVars
  <2>3. AudioType'
    BY <1>5 DEF AudioType, ChildCrashes, ChildState, session, request,
       readerVars, childVars, parentVars
  <2>4. HeardType'
    BY <1>5 DEF HeardType, ChildCrashes, ChildState, session, request,
       readerVars, childVars, parentVars
  <2>5. WireType'
    <3>1. toParent' \in Seq(Frames)
      BY <1>5, CutFrames DEF ChildCrashes
    <3>2. toChild' \in Seq(Frames)
      BY <1>5, EmptySeq DEF ChildCrashes
    <3> QED
      BY <3>1, <3>2
  <2>6. ChildType'
    <3>1. /\ child' \in ChildTypes /\ task' \in Frames /\ acc' \in Seq(Chunks)
          /\ maxEmitted' \in 0..Words /\ cached' = <<>>
      BY <1>5, ChildStateType DEF ChildCrashes, ChildTypes
    <3> QED
      BY <3>1
  <2> QED
    BY <2>1, <2>2, <2>3, <2>4, <2>5, <2>6, TypePartsPrime
<1>6. CASE EnsureFast
  <2>1. FlagType'
    BY <1>6 DEF FlagType, EnsureFast, AfterEnsure, Goto, session, request,
       readerVars, childVars, parentVars
  <2>2. ThreadType'
    BY <1>6 DEF ThreadType, EnsureFast, AfterEnsure, Goto, session, request,
       readerVars, childVars, parentVars
  <2>3. AudioType'
    BY <1>6 DEF AudioType, EnsureFast, AfterEnsure, Goto, session, request,
       readerVars, childVars, parentVars
  <2>4. HeardType'
    BY <1>6 DEF HeardType, EnsureFast, AfterEnsure, Goto, session, request,
       readerVars, childVars, parentVars
  <2>5. WireType'
    BY <1>6 DEF WireType, EnsureFast, AfterEnsure, Goto, session, request,
       readerVars, childVars, parentVars
  <2>6. ChildType'
    BY <1>6 DEF ChildType, EnsureFast, AfterEnsure, Goto, session, request,
       readerVars, childVars, parentVars
  <2> QED
    BY <2>1, <2>2, <2>3, <2>4, <2>5, <2>6, TypePartsPrime
<1>7. CASE EnsureSpawn
  <2>1. FlagType'
    BY <1>7 DEF FlagType, EnsureSpawn, ForgetStream, ChildState, Goto, session,
       request, readerVars, childVars, parentVars
  <2>2. ThreadType'
    BY <1>7 DEF ThreadType, EnsureSpawn, ForgetStream, ChildState, Goto,
       session, request, readerVars, childVars, parentVars
  <2>3. AudioType'
    BY <1>7, EmptySeq DEF AudioType, EnsureSpawn, ForgetStream, ChildState,
       Goto, session, request, readerVars, childVars, parentVars
  <2>4. HeardType'
    BY <1>7 DEF HeardType, EnsureSpawn, ForgetStream, ChildState, Goto,
       session, request, readerVars, childVars, parentVars
  <2>5. WireType'
    BY <1>7, EmptySeq DEF WireType, EnsureSpawn, ForgetStream, ChildState,
       Goto, session, request, readerVars, childVars, parentVars
  <2>6. ChildType'
    <3>1. /\ child' \in ChildTypes /\ task' \in Frames /\ acc' \in Seq(Chunks)
          /\ maxEmitted' \in 0..Words /\ cached' = <<>>
      BY <1>7, ChildStateType DEF EnsureSpawn, ChildTypes
    <3> QED
      BY <3>1
  <2> QED
    BY <2>1, <2>2, <2>3, <2>4, <2>5, <2>6, TypePartsPrime
<1>8. CASE EnsureFails
  <2>1. FlagType'
    BY <1>8 DEF FlagType, EnsureFails, KillAligner, ForgetStream, ChildState,
       Goto, session, request, readerVars, childVars, parentVars
  <2>2. ThreadType'
    BY <1>8 DEF ThreadType, EnsureFails, KillAligner, ForgetStream, ChildState,
       Goto, session, request, readerVars, childVars, parentVars
  <2>3. AudioType'
    BY <1>8, EmptySeq DEF AudioType, EnsureFails, KillAligner, ForgetStream,
       ChildState, Goto, session, request, readerVars, childVars, parentVars
  <2>4. HeardType'
    BY <1>8 DEF HeardType, EnsureFails, KillAligner, ForgetStream, ChildState,
       Goto, session, request, readerVars, childVars, parentVars
  <2>5. WireType'
    BY <1>8, EmptySeq DEF WireType, EnsureFails, KillAligner, ForgetStream,
       ChildState, Goto, session, request, readerVars, childVars, parentVars
  <2>6. ChildType'
    <3>1. /\ child' \in ChildTypes /\ task' \in Frames /\ acc' \in Seq(Chunks)
          /\ maxEmitted' \in 0..Words /\ cached' = <<>>
      BY <1>8, ChildStateType DEF EnsureFails, KillAligner, ChildTypes
    <3> QED
      BY <3>1
  <2> QED
    BY <2>1, <2>2, <2>3, <2>4, <2>5, <2>6, TypePartsPrime
<1>9. CASE RecvHello
  <2>1. FlagType'
    BY <1>9 DEF FlagType, RecvHello, Goto, session, request, readerVars,
       childVars, parentVars
  <2>2. ThreadType'
    BY <1>9 DEF ThreadType, RecvHello, Goto, session, request, readerVars,
       childVars, parentVars
  <2>3. AudioType'
    BY <1>9 DEF AudioType, RecvHello, Goto, session, request, readerVars,
       childVars, parentVars
  <2>4. HeardType'
    BY <1>9 DEF HeardType, RecvHello, Goto, session, request, readerVars,
       childVars, parentVars
  <2>5. WireType'
    <3>1. /\ "LOAD_REQ" \in FrameTypes /\ <<>> \in Seq(Chunks) /\ 0 \in 0..MaxChunks
          /\ FALSE \in BOOLEAN /\ 0 \in 0..Words
      BY EmptySeq DEF FrameTypes
    <3>2. Frame("LOAD_REQ", <<>>, 0, FALSE, 0, FALSE) \in Frames
      BY <3>1, FrameType
    <3>3. toChild' \in Seq(Frames)
      BY <1>9, <3>2, AppendFrames DEF RecvHello
    <3>4. toParent' \in Seq(Frames)
      BY <1>9, TailFrames DEF RecvHello
    <3> QED
      BY <3>3, <3>4
  <2>6. ChildType'
    BY <1>9 DEF ChildType, RecvHello, Goto, session, request, readerVars,
       childVars, parentVars
  <2> QED
    BY <2>1, <2>2, <2>3, <2>4, <2>5, <2>6, TypePartsPrime
<1>10. CASE RecvLoadResp
  <2>1. FlagType'
    BY <1>10 DEF FlagType, RecvLoadResp, AfterEnsure, Goto, session, request,
       readerVars, childVars, parentVars
  <2>2. ThreadType'
    BY <1>10 DEF ThreadType, RecvLoadResp, AfterEnsure, Goto, session, request,
       readerVars, childVars, parentVars
  <2>3. AudioType'
    BY <1>10 DEF AudioType, RecvLoadResp, AfterEnsure, Goto, session, request,
       readerVars, childVars, parentVars
  <2>4. HeardType'
    BY <1>10 DEF HeardType, RecvLoadResp, AfterEnsure, Goto, session, request,
       readerVars, childVars, parentVars
  <2>5. WireType'
    BY <1>10, TailFrames DEF WireType, RecvLoadResp, AfterEnsure, Goto, session,
       request, readerVars, childVars, parentVars
  <2>6. ChildType'
    BY <1>10 DEF ChildType, RecvLoadResp, AfterEnsure, Goto, session, request,
       readerVars, childVars, parentVars
  <2> QED
    BY <2>1, <2>2, <2>3, <2>4, <2>5, <2>6, TypePartsPrime
<1>11. CASE Begin
  <2>1. FlagType'
    BY <1>11 DEF FlagType, Begin, session, request, readerVars, childVars,
       parentVars
  <2>2. ThreadType'
    BY <1>11 DEF ThreadType, Begin, session, request, readerVars, childVars,
       parentVars
  <2>3. AudioType'
    BY <1>11, EmptySeq DEF AudioType, Begin, session, request, readerVars,
       childVars, parentVars
  <2>4. HeardType'
    BY <1>11 DEF HeardType, Begin, session, request, readerVars, childVars,
       parentVars
  <2>5. WireType'
    BY <1>11 DEF WireType, Begin, session, request, readerVars, childVars,
       parentVars
  <2>6. ChildType'
    BY <1>11 DEF ChildType, Begin, session, request, readerVars, childVars,
       parentVars
  <2> QED
    BY <2>1, <2>2, <2>3, <2>4, <2>5, <2>6, TypePartsPrime
<1>12. CASE BeginFails
  <2>1. FlagType'
    BY <1>12 DEF FlagType, BeginFails, Goto, session, request, readerVars,
       childVars, parentVars
  <2>2. ThreadType'
    BY <1>12 DEF ThreadType, BeginFails, Goto, session, request, readerVars,
       childVars, parentVars
  <2>3. AudioType'
    BY <1>12 DEF AudioType, BeginFails, Goto, session, request, readerVars,
       childVars, parentVars
  <2>4. HeardType'
    BY <1>12 DEF HeardType, BeginFails, Goto, session, request, readerVars,
       childVars, parentVars
  <2>5. WireType'
    BY <1>12 DEF WireType, BeginFails, Goto, session, request, readerVars,
       childVars, parentVars
  <2>6. ChildType'
    BY <1>12 DEF ChildType, BeginFails, Goto, session, request, readerVars,
       childVars, parentVars
  <2> QED
    BY <2>1, <2>2, <2>3, <2>4, <2>5, <2>6, TypePartsPrime
<1>13. CASE PushReturns
  <2>1. FlagType'
    BY <1>13 DEF FlagType, PushReturns, PartialSent, Goto, session, request,
       readerVars, childVars, parentVars
  <2>2. ThreadType'
    <3>1. inflight = 0
      BY <1>13 DEF PushReturns, IInv, WireInv, SlotTaken, Writing
    <3> QED
      BY <1>13, <3>1 DEF PushReturns, PartialSent, Goto, session, request,
         readerVars, childVars, parentVars
  <2>3. AudioType'
    BY <1>13, EmptySeq DEF AudioType, PushReturns, PartialSent, Goto, session,
       request, readerVars, childVars, parentVars
  <2>4. HeardType'
    BY <1>13 DEF HeardType, PushReturns, PartialSent, Goto, session, request,
       readerVars, childVars, parentVars
  <2>5. WireType'
    BY <1>13 DEF WireType, PushReturns, PartialSent, Goto, session, request,
       readerVars, childVars, parentVars
  <2>6. ChildType'
    BY <1>13 DEF ChildType, PushReturns, PartialSent, Goto, session, request,
       readerVars, childVars, parentVars
  <2> QED
    BY <2>1, <2>2, <2>3, <2>4, <2>5, <2>6, TypePartsPrime
<1>14. CASE SynthEnds
  <2>1. FlagType'
    BY <1>14 DEF FlagType, SynthEnds, session, request, readerVars, childVars,
       parentVars
  <2>2. ThreadType'
    BY <1>14 DEF ThreadType, SynthEnds, session, request, readerVars, childVars,
       parentVars
  <2>3. AudioType'
    BY <1>14 DEF AudioType, SynthEnds, session, request, readerVars, childVars,
       parentVars
  <2>4. HeardType'
    BY <1>14 DEF HeardType, SynthEnds, session, request, readerVars, childVars,
       parentVars
  <2>5. WireType'
    BY <1>14 DEF WireType, SynthEnds, session, request, readerVars, childVars,
       parentVars
  <2>6. ChildType'
    BY <1>14 DEF ChildType, SynthEnds, session, request, readerVars, childVars,
       parentVars
  <2> QED
    BY <2>1, <2>2, <2>3, <2>4, <2>5, <2>6, TypePartsPrime
<1>15. CASE Joined
  <2>1. FlagType'
    BY <1>15 DEF FlagType, Joined, Goto, session, request, readerVars,
       childVars, parentVars
  <2>2. ThreadType'
    BY <1>15 DEF ThreadType, Joined, Goto, session, request, readerVars,
       childVars, parentVars
  <2>3. AudioType'
    BY <1>15 DEF AudioType, Joined, Goto, session, request, readerVars,
       childVars, parentVars
  <2>4. HeardType'
    BY <1>15 DEF HeardType, Joined, Goto, session, request, readerVars,
       childVars, parentVars
  <2>5. WireType'
    BY <1>15 DEF WireType, Joined, Goto, session, request, readerVars,
       childVars, parentVars
  <2>6. ChildType'
    BY <1>15 DEF ChildType, Joined, Goto, session, request, readerVars,
       childVars, parentVars
  <2> QED
    BY <2>1, <2>2, <2>3, <2>4, <2>5, <2>6, TypePartsPrime
<1>16. CASE FinalDrains
  <2>1. FlagType'
    BY <1>16 DEF FlagType, FinalDrains, session, request, readerVars, childVars,
       parentVars
  <2>2. ThreadType'
    BY <1>16 DEF ThreadType, FinalDrains, session, request, readerVars,
       childVars, parentVars
  <2>3. AudioType'
    BY <1>16 DEF AudioType, FinalDrains, session, request, readerVars,
       childVars, parentVars
  <2>4. HeardType'
    BY <1>16 DEF HeardType, FinalDrains, session, request, readerVars,
       childVars, parentVars
  <2>5. WireType'
    BY <1>16, TailFrames DEF WireType, FinalDrains, session, request,
       readerVars, childVars, parentVars
  <2>6. ChildType'
    BY <1>16 DEF ChildType, FinalDrains, session, request, readerVars,
       childVars, parentVars
  <2> QED
    BY <2>1, <2>2, <2>3, <2>4, <2>5, <2>6, TypePartsPrime
<1>17. CASE FinalSends
  <2>1. FlagType'
    BY <1>17 DEF FlagType, FinalSends, Goto, session, request, readerVars,
       childVars, parentVars
  <2>2. ThreadType'
    BY <1>17 DEF ThreadType, FinalSends, Goto, session, request, readerVars,
       childVars, parentVars
  <2>3. AudioType'
    BY <1>17, EmptySeq DEF AudioType, FinalSends, Goto, session, request,
       readerVars, childVars, parentVars
  <2>4. HeardType'
    BY <1>17 DEF HeardType, FinalSends, Goto, session, request, readerVars,
       childVars, parentVars
  <2>5. WireType'
    <3>1. PICK big \in {FALSE, BigRequests /\ pending # <<>>} :
            toChild' = Append(toChild, Frame("FINAL_REQ", pending, Len(pushed),
                                             ~hasSent, 0, big))
      BY <1>17 DEF FinalSends
    <3>2. big \in BOOLEAN
      BY Zenon, <3>1
    <3>3. /\ "FINAL_REQ" \in FrameTypes /\ Len(pushed) \in 0..MaxChunks
          /\ 0 \in 0..Words
      BY PushedLen DEF FrameTypes
    <3>4. (~hasSent) \in BOOLEAN
      BY Zenon
    <3>5. toChild' \in Seq(Frames)
      BY <3>1, <3>2, <3>3, <3>4, FrameType, AppendFrames
    <3> QED
      BY <1>17, <3>5 DEF FinalSends
  <2>6. ChildType'
    BY <1>17 DEF ChildType, FinalSends, Goto, session, request, readerVars,
       childVars, parentVars
  <2> QED
    BY <2>1, <2>2, <2>3, <2>4, <2>5, <2>6, TypePartsPrime
<1>18. CASE FinalWriteReturns
  <2>1. FlagType'
    BY <1>18 DEF FlagType, FinalWriteReturns, Goto, session, request,
       readerVars, childVars, parentVars
  <2>2. ThreadType'
    BY <1>18 DEF ThreadType, FinalWriteReturns, Goto, session, request,
       readerVars, childVars, parentVars
  <2>3. AudioType'
    BY <1>18 DEF AudioType, FinalWriteReturns, Goto, session, request,
       readerVars, childVars, parentVars
  <2>4. HeardType'
    BY <1>18 DEF HeardType, FinalWriteReturns, Goto, session, request,
       readerVars, childVars, parentVars
  <2>5. WireType'
    BY <1>18 DEF WireType, FinalWriteReturns, Goto, session, request,
       readerVars, childVars, parentVars
  <2>6. ChildType'
    BY <1>18 DEF ChildType, FinalWriteReturns, Goto, session, request,
       readerVars, childVars, parentVars
  <2> QED
    BY <2>1, <2>2, <2>3, <2>4, <2>5, <2>6, TypePartsPrime
<1>19. CASE FinalSkips
  <2>1. FlagType'
    BY <1>19 DEF FlagType, FinalSkips, session, request, readerVars, childVars,
       parentVars
  <2>2. ThreadType'
    BY <1>19 DEF ThreadType, FinalSkips, session, request, readerVars,
       childVars, parentVars
  <2>3. AudioType'
    BY <1>19 DEF AudioType, FinalSkips, session, request, readerVars, childVars,
       parentVars
  <2>4. HeardType'
    BY <1>19 DEF HeardType, FinalSkips, session, request, readerVars, childVars,
       parentVars
  <2>5. WireType'
    BY <1>19, TailFrames DEF WireType, FinalSkips, session, request, readerVars,
       childVars, parentVars
  <2>6. ChildType'
    BY <1>19 DEF ChildType, FinalSkips, session, request, readerVars, childVars,
       parentVars
  <2> QED
    BY <2>1, <2>2, <2>3, <2>4, <2>5, <2>6, TypePartsPrime
<1>20. CASE FinalRecv
  <2>1. FlagType'
    BY <1>20 DEF FlagType, FinalRecv, FinalExit, ForgetStream, Goto, session,
       request, readerVars, childVars, parentVars
  <2>2. ThreadType'
    BY <1>20 DEF ThreadType, FinalRecv, FinalExit, ForgetStream, Goto, session,
       request, readerVars, childVars, parentVars
  <2>3. AudioType'
    BY <1>20, EmptySeq DEF AudioType, FinalRecv, FinalExit, ForgetStream, Goto,
       session, request, readerVars, childVars, parentVars
  <2>4. HeardType'
    BY <1>20 DEF HeardType, FinalRecv, FinalExit, ForgetStream, Goto, session,
       request, readerVars, childVars, parentVars
  <2>5. WireType'
    BY <1>20, TailFrames DEF WireType, FinalRecv, FinalExit, ForgetStream, Goto,
       session, request, readerVars, childVars, parentVars
  <2>6. ChildType'
    BY <1>20 DEF ChildType, FinalRecv, FinalExit, ForgetStream, Goto, session,
       request, readerVars, childVars, parentVars
  <2> QED
    BY <2>1, <2>2, <2>3, <2>4, <2>5, <2>6, TypePartsPrime
<1>21. CASE FinalFails
  <2>1. FlagType'
    BY <1>21 DEF FlagType, FinalFails, FinalExit, ForgetStream, Goto, Eof,
       FinalWriteFails, session, request, readerVars, childVars, parentVars
  <2>2. ThreadType'
    BY <1>21 DEF ThreadType, FinalFails, FinalExit, ForgetStream, Goto, Eof,
       FinalWriteFails, session, request, readerVars, childVars, parentVars
  <2>3. AudioType'
    BY <1>21, EmptySeq DEF AudioType, FinalFails, FinalExit, ForgetStream, Goto,
       Eof, FinalWriteFails, session, request, readerVars, childVars,
       parentVars
  <2>4. HeardType'
    BY <1>21 DEF HeardType, FinalFails, FinalExit, ForgetStream, Goto, Eof,
       FinalWriteFails, session, request, readerVars, childVars, parentVars
  <2>5. WireType'
    BY <1>21 DEF WireType, FinalFails, FinalExit, ForgetStream, Goto, Eof,
       FinalWriteFails, session, request, readerVars, childVars, parentVars
  <2>6. ChildType'
    BY <1>21 DEF ChildType, FinalFails, FinalExit, ForgetStream, Goto, Eof,
       FinalWriteFails, session, request, readerVars, childVars, parentVars
  <2> QED
    BY <2>1, <2>2, <2>3, <2>4, <2>5, <2>6, TypePartsPrime
<1>22. CASE ReaderEnters
  <2>1. FlagType'
    BY <1>22 DEF FlagType, ReaderEnters, ReaderStep, session, request,
       readerVars, childVars, parentVars
  <2>2. ThreadType'
    BY <1>22 DEF ThreadType, ReaderEnters, ReaderStep, session, request,
       readerVars, childVars, parentVars
  <2>3. AudioType'
    BY <1>22 DEF AudioType, ReaderEnters, ReaderStep, session, request,
       readerVars, childVars, parentVars
  <2>4. HeardType'
    BY <1>22 DEF HeardType, ReaderEnters, ReaderStep, session, request,
       readerVars, childVars, parentVars
  <2>5. WireType'
    BY <1>22 DEF WireType, ReaderEnters, ReaderStep, session, request,
       readerVars, childVars, parentVars
  <2>6. ChildType'
    BY <1>22 DEF ChildType, ReaderEnters, ReaderStep, session, request,
       readerVars, childVars, parentVars
  <2> QED
    BY <2>1, <2>2, <2>3, <2>4, <2>5, <2>6, TypePartsPrime
<1>23. CASE ReaderStops
  <2>1. FlagType'
    BY <1>23 DEF FlagType, ReaderStops, ReaderStep, session, request,
       readerVars, childVars, parentVars
  <2>2. ThreadType'
    BY <1>23 DEF ThreadType, ReaderStops, ReaderStep, session, request,
       readerVars, childVars, parentVars
  <2>3. AudioType'
    BY <1>23 DEF AudioType, ReaderStops, ReaderStep, session, request,
       readerVars, childVars, parentVars
  <2>4. HeardType'
    BY <1>23 DEF HeardType, ReaderStops, ReaderStep, session, request,
       readerVars, childVars, parentVars
  <2>5. WireType'
    BY <1>23 DEF WireType, ReaderStops, ReaderStep, session, request,
       readerVars, childVars, parentVars
  <2>6. ChildType'
    BY <1>23 DEF ChildType, ReaderStops, ReaderStep, session, request,
       readerVars, childVars, parentVars
  <2> QED
    BY <2>1, <2>2, <2>3, <2>4, <2>5, <2>6, TypePartsPrime
<1>24. CASE ReaderRecv
  <2>1. FlagType'
    BY <1>24 DEF FlagType, ReaderRecv, ReaderStep, session, request, readerVars,
       childVars, parentVars
  <2>2. ThreadType'
    BY <1>24 DEF ThreadType, ReaderRecv, ReaderStep, session, request,
       readerVars, childVars, parentVars
  <2>3. AudioType'
    BY <1>24 DEF AudioType, ReaderRecv, ReaderStep, session, request,
       readerVars, childVars, parentVars
  <2>4. HeardType'
    BY <1>24, TailFrames DEF ReaderRecv, ReaderStep
  <2>5. WireType'
    BY <1>24, TailFrames DEF WireType, ReaderRecv, ReaderStep, session, request,
       readerVars, childVars, parentVars
  <2>6. ChildType'
    BY <1>24 DEF ChildType, ReaderRecv, ReaderStep, session, request,
       readerVars, childVars, parentVars
  <2> QED
    BY <2>1, <2>2, <2>3, <2>4, <2>5, <2>6, TypePartsPrime
<1>25. CASE ReaderDelivers
  <2>1. FlagType'
    BY <1>25 DEF FlagType, ReaderDelivers, session, request, readerVars,
       childVars, parentVars
  <2>2. ThreadType'
    BY <1>25 DEF ThreadType, ReaderDelivers, session, request, readerVars,
       childVars, parentVars
  <2>3. AudioType'
    BY <1>25 DEF AudioType, ReaderDelivers, session, request, readerVars,
       childVars, parentVars
  <2>4. HeardType'
    BY <1>25, FrameFields, NoFrameType DEF ReaderDelivers
  <2>5. WireType'
    BY <1>25 DEF WireType, ReaderDelivers, session, request, readerVars,
       childVars, parentVars
  <2>6. ChildType'
    BY <1>25 DEF ChildType, ReaderDelivers, session, request, readerVars,
       childVars, parentVars
  <2> QED
    BY <2>1, <2>2, <2>3, <2>4, <2>5, <2>6, TypePartsPrime
<1>26. CASE ReaderFlushes
  <2>1. FlagType'
    BY <1>26 DEF FlagType, ReaderFlushes, ReaderStep, session, request,
       readerVars, childVars, parentVars
  <2>2. ThreadType'
    BY <1>26 DEF ThreadType, ReaderFlushes, ReaderStep, session, request,
       readerVars, childVars, parentVars
  <2>3. AudioType'
    BY <1>26 DEF AudioType, ReaderFlushes, ReaderStep, session, request,
       readerVars, childVars, parentVars
  <2>4. HeardType'
    BY <1>26 DEF HeardType, ReaderFlushes, ReaderStep, session, request,
       readerVars, childVars, parentVars
  <2>5. WireType'
    <3>1. toChild' = toChild \/ SendPartial(pending)
      BY <1>26 DEF ReaderFlushes
    <3>2. Len(pushed') \in 0..MaxChunks
      BY <1>26, PushedLen DEF ReaderFlushes, ReaderStep, request
    <3>3. ASSUME SendPartial(pending) PROVE toChild' \in Seq(Frames)
      <4>1. PICK f \in Frames : toChild' = Append(toChild, f)
        BY <3>2, <3>3, SendType
      <4> QED
        BY <4>1, AppendFrames
    <3> QED
      BY <1>26, <3>1, <3>3 DEF ReaderFlushes
  <2>6. ChildType'
    BY <1>26 DEF ChildType, ReaderFlushes, ReaderStep, session, request,
       readerVars, childVars, parentVars
  <2> QED
    BY <2>1, <2>2, <2>3, <2>4, <2>5, <2>6, TypePartsPrime
<1>27. CASE ReaderWriteReturns
  <2>1. FlagType'
    BY <1>27 DEF FlagType, ReaderWriteReturns, ReaderStep, PartialSent, session,
       request, readerVars, childVars, parentVars
  <2>2. ThreadType'
    <3>1. inflight = 0
      BY <1>27 DEF ReaderWriteReturns, IInv, WireInv, SlotTaken, Writing
    <3> QED
      BY <1>27, <3>1 DEF ReaderWriteReturns, ReaderStep, PartialSent, session,
         request, readerVars, childVars, parentVars
  <2>3. AudioType'
    BY <1>27, EmptySeq DEF AudioType, ReaderWriteReturns, ReaderStep,
       PartialSent, session, request, readerVars, childVars, parentVars
  <2>4. HeardType'
    BY <1>27 DEF HeardType, ReaderWriteReturns, ReaderStep, PartialSent,
       session, request, readerVars, childVars, parentVars
  <2>5. WireType'
    BY <1>27 DEF WireType, ReaderWriteReturns, ReaderStep, PartialSent, session,
       request, readerVars, childVars, parentVars
  <2>6. ChildType'
    BY <1>27 DEF ChildType, ReaderWriteReturns, ReaderStep, PartialSent,
       session, request, readerVars, childVars, parentVars
  <2> QED
    BY <2>1, <2>2, <2>3, <2>4, <2>5, <2>6, TypePartsPrime
<1>28. CASE ChildHello
  <2>1. FlagType'
    BY <1>28 DEF FlagType, ChildHello, session, request, readerVars, childVars,
       parentVars
  <2>2. ThreadType'
    BY <1>28 DEF ThreadType, ChildHello, session, request, readerVars,
       childVars, parentVars
  <2>3. AudioType'
    BY <1>28 DEF AudioType, ChildHello, session, request, readerVars, childVars,
       parentVars
  <2>4. HeardType'
    BY <1>28 DEF HeardType, ChildHello, session, request, readerVars, childVars,
       parentVars
  <2>5. WireType'
    <3>1. /\ "HELLO" \in FrameTypes /\ <<>> \in Seq(Chunks) /\ 0 \in 0..MaxChunks
          /\ TRUE \in BOOLEAN /\ FALSE \in BOOLEAN /\ 0 \in 0..Words
      BY EmptySeq DEF FrameTypes
    <3>2. Frame("HELLO", <<>>, 0, TRUE, 0, FALSE) \in Frames
      BY <3>1, FrameType
    <3>3. toParent' \in Seq(Frames)
      BY <1>28, <3>2, AppendFrames DEF ChildHello
    <3> QED
      BY <1>28, <3>3 DEF ChildHello
  <2>6. ChildType'
    BY <1>28 DEF ChildType, ChildTypes, ChildHello
  <2> QED
    BY <2>1, <2>2, <2>3, <2>4, <2>5, <2>6, TypePartsPrime
<1>29. CASE ChildRecv
  <2>1. FlagType'
    BY <1>29 DEF FlagType, ChildRecv, session, request, readerVars, childVars,
       parentVars
  <2>2. ThreadType'
    BY <1>29 DEF ThreadType, ChildRecv, session, request, readerVars, childVars,
       parentVars
  <2>3. AudioType'
    BY <1>29 DEF AudioType, ChildRecv, session, request, readerVars, childVars,
       parentVars
  <2>4. HeardType'
    BY <1>29 DEF HeardType, ChildRecv, session, request, readerVars, childVars,
       parentVars
  <2>5. WireType'
    BY <1>29, TailFrames DEF WireType, ChildRecv, session, request, readerVars,
       childVars, parentVars
  <2>6. ChildType'
    BY <1>29, TailFrames DEF ChildType, ChildTypes, ChildRecv
  <2> QED
    BY <2>1, <2>2, <2>3, <2>4, <2>5, <2>6, TypePartsPrime
<1>30. CASE ChildLoads
  <2>1. FlagType'
    BY <1>30 DEF FlagType, ChildLoads, session, request, readerVars, childVars,
       parentVars
  <2>2. ThreadType'
    BY <1>30 DEF ThreadType, ChildLoads, session, request, readerVars,
       childVars, parentVars
  <2>3. AudioType'
    BY <1>30 DEF AudioType, ChildLoads, session, request, readerVars, childVars,
       parentVars
  <2>4. HeardType'
    BY <1>30 DEF HeardType, ChildLoads, session, request, readerVars, childVars,
       parentVars
  <2>5. WireType'
    <3>1. PICK ok \in BOOLEAN :
            toParent' = Append(toParent, Frame("LOAD_RESP", <<>>, 0, ok, 0, FALSE))
      BY <1>30 DEF ChildLoads
    <3>2. /\ "LOAD_RESP" \in FrameTypes /\ <<>> \in Seq(Chunks) /\ 0 \in 0..MaxChunks
          /\ FALSE \in BOOLEAN /\ 0 \in 0..Words
      BY EmptySeq DEF FrameTypes
    <3>3. Frame("LOAD_RESP", <<>>, 0, ok, 0, FALSE) \in Frames
      BY <3>2, FrameType
    <3>4. toParent' \in Seq(Frames)
      BY <3>1, <3>3, AppendFrames
    <3> QED
      BY <1>30, <3>4 DEF ChildLoads
  <2>6. ChildType'
    BY <1>30, NoFrameType DEF ChildType, ChildTypes, ChildLoads
  <2> QED
    BY <2>1, <2>2, <2>3, <2>4, <2>5, <2>6, TypePartsPrime
<1>31. CASE ChildAlignsPartial
  <2>1. FlagType'
    BY <1>31 DEF FlagType, ChildAlignsPartial, Reply, session, request,
       readerVars, childVars, parentVars
  <2>2. ThreadType'
    BY <1>31 DEF ThreadType, ChildAlignsPartial, Reply, session, request,
       readerVars, childVars, parentVars
  <2>3. AudioType'
    BY <1>31 DEF AudioType, ChildAlignsPartial, Reply, session, request,
       readerVars, childVars, parentVars
  <2>4. HeardType'
    BY <1>31 DEF HeardType, ChildAlignsPartial, Reply, session, request,
       readerVars, childVars, parentVars
  <2>5. WireType'
    <3>1. toParent' \in Seq(Frames)
      BY <1>31, PassType
    <3> QED
      BY <1>31, <3>1 DEF ChildAlignsPartial
  <2>6. ChildType'
    BY <1>31, PassType
  <2> QED
    BY <2>1, <2>2, <2>3, <2>4, <2>5, <2>6, TypePartsPrime
<1>32. CASE ChildAlignsFinal
  <2>1. FlagType'
    BY <1>32 DEF FlagType, ChildAlignsFinal, Reply, session, request,
       readerVars, childVars, parentVars
  <2>2. ThreadType'
    BY <1>32 DEF ThreadType, ChildAlignsFinal, Reply, session, request,
       readerVars, childVars, parentVars
  <2>3. AudioType'
    BY <1>32 DEF AudioType, ChildAlignsFinal, Reply, session, request,
       readerVars, childVars, parentVars
  <2>4. HeardType'
    BY <1>32 DEF HeardType, ChildAlignsFinal, Reply, session, request,
       readerVars, childVars, parentVars
  <2>5. WireType'
    <3>1. toParent' \in Seq(Frames)
      BY <1>32, PassType
    <3> QED
      BY <1>32, <3>1 DEF ChildAlignsFinal
  <2>6. ChildType'
    BY <1>32, PassType
  <2> QED
    BY <2>1, <2>2, <2>3, <2>4, <2>5, <2>6, TypePartsPrime
<1>33. CASE ChildWritten
  <2>1. FlagType'
    BY <1>33 DEF FlagType, ChildWritten, session, request, readerVars,
       childVars, parentVars
  <2>2. ThreadType'
    BY <1>33 DEF ThreadType, ChildWritten, session, request, readerVars,
       childVars, parentVars
  <2>3. AudioType'
    BY <1>33 DEF AudioType, ChildWritten, session, request, readerVars,
       childVars, parentVars
  <2>4. HeardType'
    BY <1>33 DEF HeardType, ChildWritten, session, request, readerVars,
       childVars, parentVars
  <2>5. WireType'
    BY <1>33 DEF WireType, ChildWritten, session, request, readerVars,
       childVars, parentVars
  <2>6. ChildType'
    BY <1>33 DEF ChildType, ChildTypes, ChildWritten
  <2> QED
    BY <2>1, <2>2, <2>3, <2>4, <2>5, <2>6, TypePartsPrime
<1>34. CASE UNCHANGED vars
  BY <1>34, TypePartsPrime DEF vars, session, request, readerVars, childVars, parentVars
<1> QED
  BY <1>1, <1>2, <1>3, <1>4, <1>5, <1>6, <1>7, <1>8, <1>9, <1>10, <1>11, <1>12,
     <1>13, <1>14, <1>15, <1>16, <1>17, <1>18, <1>19, <1>20, <1>21, <1>22,
     <1>23, <1>24, <1>25, <1>26, <1>27, <1>28, <1>29, <1>30, <1>31, <1>32,
     <1>33, <1>34 DEF Next, Environment, Handler, PartialReader, Aligner

-----------------------------------------------------------------------------
(* Who is where.                                                           *)

\* Locks, threads and processes stay where they belong.
LEMMA ControlNext == TypeOK /\ IInv /\ [Next]_vars => ControlInv'
<1> SUFFICES ASSUME TypeOK /\ IInv, [Next]_vars PROVE ControlInv'
  OBVIOUS
<1> USE DEF IInv, ControlInv, Threads, Streams, Process, Streaming, Alive,
   ThreadType
<1>1. CASE TakeMutex
  <2>1. Threads'
    BY <1>1 DEF TakeMutex, session, request, readerVars, childVars, parentVars
  <2>2. Streams'
    BY <1>1 DEF TakeMutex, session, request, readerVars, childVars, parentVars
  <2>3. Process'
    BY <1>1 DEF TakeMutex, session, request, readerVars, childVars, parentVars
  <2> QED
    BY <2>1, <2>2, <2>3 DEF ControlInv
<1>2. CASE Shutdown
  <2>1. Threads'
    BY <1>2 DEF Shutdown, KillAligner, ForgetStream, ChildState, session,
       request, readerVars, childVars, parentVars
  <2>2. Streams'
    BY <1>2 DEF Shutdown, KillAligner, ForgetStream, ChildState, session,
       request, readerVars, childVars, parentVars
  <2>3. Process'
    BY <1>2 DEF Shutdown, KillAligner, ForgetStream, ChildState, session,
       request, readerVars, childVars, parentVars
  <2> QED
    BY <2>1, <2>2, <2>3 DEF ControlInv
<1>3. CASE Push
  <2>1. Threads'
    BY <1>3 DEF Push, session, request, readerVars, childVars, parentVars
  <2>2. Streams'
    <3>1. <<stream, Len(pushed) + 1>> \in Chunks /\ Len(pushed) + 1 \in 0..MaxChunks
      BY <1>3, NextChunk DEF Push
    <3>2. pushed' = Append(pushed, <<stream, Len(pushed) + 1>>) /\ pushed \in Seq(Chunks)
      BY <1>3 DEF Push, TypeOK
    <3>3. Len(pushed') <= MaxChunks
      BY <3>1, <3>2, AppendProperties
    <3> QED
      BY <1>3, <3>3 DEF Push
  <2>3. Process'
    BY <1>3 DEF Push, MaySend, childVars
  <2> QED
    BY <2>1, <2>2, <2>3 DEF ControlInv
<1>4. CASE Cancel
  <2>1. Threads'
    BY <1>4 DEF Cancel, session, request, readerVars, childVars, parentVars
  <2>2. Streams'
    BY <1>4 DEF Cancel, session, request, readerVars, childVars, parentVars
  <2>3. Process'
    BY <1>4 DEF Cancel, session, request, readerVars, childVars, parentVars
  <2> QED
    BY <2>1, <2>2, <2>3 DEF ControlInv
<1>5. CASE ChildCrashes
  <2>1. Threads'
    BY <1>5 DEF ChildCrashes, ChildState, session, request, readerVars,
       childVars, parentVars
  <2>2. Streams'
    BY <1>5 DEF ChildCrashes, ChildState, session, request, readerVars,
       childVars, parentVars
  <2>3. Process'
    BY <1>5 DEF ChildCrashes, ChildState, session, request, readerVars,
       childVars, parentVars
  <2> QED
    BY <2>1, <2>2, <2>3 DEF ControlInv
<1>6. CASE EnsureFast
  <2>1. Threads'
    BY <1>6 DEF EnsureFast, AfterEnsure, Goto, session, request, readerVars,
       childVars, parentVars
  <2>2. Streams'
    BY <1>6 DEF EnsureFast, AfterEnsure, Goto, session, request, readerVars,
       childVars, parentVars
  <2>3. Process'
    BY <1>6 DEF EnsureFast, AfterEnsure, Goto, session, request, readerVars,
       childVars, parentVars
  <2> QED
    BY <2>1, <2>2, <2>3 DEF ControlInv
<1>7. CASE EnsureSpawn
  <2>1. Threads'
    BY <1>7 DEF EnsureSpawn, ForgetStream, ChildState, Goto, session, request,
       readerVars, childVars, parentVars
  <2>2. Streams'
    <3>1. pid' # 0
      BY <1>7, TypeParts DEF EnsureSpawn
    <3> QED
      BY <1>7, <3>1 DEF EnsureSpawn, ForgetStream, Goto
  <2>3. Process'
    <3>1. pid' # 0
      BY <1>7, TypeParts DEF EnsureSpawn
    <3> QED
      BY <1>7, <3>1 DEF EnsureSpawn, ChildState, Goto
  <2> QED
    BY <2>1, <2>2, <2>3 DEF ControlInv
<1>8. CASE EnsureFails
  <2>1. Threads'
    BY <1>8 DEF EnsureFails, KillAligner, ForgetStream, ChildState, Goto,
       session, request, readerVars, childVars, parentVars
  <2>2. Streams'
    BY <1>8 DEF EnsureFails, KillAligner, ForgetStream, ChildState, Goto,
       session, request, readerVars, childVars, parentVars
  <2>3. Process'
    BY <1>8 DEF EnsureFails, KillAligner, ForgetStream, ChildState, Goto,
       session, request, readerVars, childVars, parentVars
  <2> QED
    BY <2>1, <2>2, <2>3 DEF ControlInv
<1>9. CASE RecvHello
  <2>1. Threads'
    BY <1>9 DEF RecvHello, Goto, session, request, readerVars, childVars,
       parentVars
  <2>2. Streams'
    BY <1>9 DEF RecvHello, Goto, session, request, readerVars, childVars,
       parentVars
  <2>3. Process'
    BY <1>9 DEF RecvHello, Goto, session, childVars, WireInv, Booting
  <2> QED
    BY <2>1, <2>2, <2>3 DEF ControlInv
<1>10. CASE RecvLoadResp
  <2>1. Threads'
    BY <1>10 DEF RecvLoadResp, AfterEnsure, Goto, session, request, readerVars,
       childVars, parentVars
  <2>2. Streams'
    BY <1>10 DEF RecvLoadResp, AfterEnsure, Goto, session, request, readerVars,
       childVars, parentVars
  <2>3. Process'
    BY <1>10 DEF RecvLoadResp, AfterEnsure, Goto, session, request, readerVars,
       childVars, parentVars
  <2> QED
    BY <2>1, <2>2, <2>3 DEF ControlInv
<1>11. CASE Begin
  <2>1. Threads'
    BY <1>11 DEF Begin, session, request, readerVars, childVars, parentVars
  <2>2. Streams'
    <3>1. stream' > 0
      BY <1>11, TypeParts DEF Begin
    <3>2. Len(pushed') <= MaxChunks
      BY <1>11, EmptySeq DEF Begin
    <3> QED
      BY <1>11, <3>1, <3>2 DEF Begin
  <2>3. Process'
    BY <1>11 DEF Begin, session, request, readerVars, childVars, parentVars
  <2> QED
    BY <2>1, <2>2, <2>3 DEF ControlInv
<1>12. CASE BeginFails
  <2>1. Threads'
    BY <1>12 DEF BeginFails, Goto, session, request, readerVars, childVars,
       parentVars
  <2>2. Streams'
    BY <1>12 DEF BeginFails, Goto, session, request, readerVars, childVars,
       parentVars
  <2>3. Process'
    BY <1>12 DEF BeginFails, Goto, session, request, readerVars, childVars,
       parentVars
  <2> QED
    BY <2>1, <2>2, <2>3 DEF ControlInv
<1>13. CASE PushReturns
  <2>1. Threads'
    BY <1>13 DEF PushReturns, PartialSent, Goto, session, request, readerVars,
       childVars, parentVars
  <2>2. Streams'
    BY <1>13 DEF PushReturns, PartialSent, Goto, session, request, readerVars,
       childVars, parentVars
  <2>3. Process'
    BY <1>13 DEF PushReturns, PartialSent, Goto, session, request, readerVars,
       childVars, parentVars
  <2> QED
    BY <2>1, <2>2, <2>3 DEF ControlInv
<1>14. CASE SynthEnds
  <2>1. Threads'
    BY <1>14 DEF SynthEnds, session, request, readerVars, childVars, parentVars
  <2>2. Streams'
    BY <1>14 DEF SynthEnds, session, request, readerVars, childVars, parentVars
  <2>3. Process'
    BY <1>14 DEF SynthEnds, session, request, readerVars, childVars, parentVars
  <2> QED
    BY <2>1, <2>2, <2>3 DEF ControlInv
<1>15. CASE Joined
  <2>1. Threads'
    BY <1>15 DEF Joined, Goto, session, request, readerVars, childVars,
       parentVars
  <2>2. Streams'
    BY <1>15 DEF Joined, Goto, session, request, readerVars, childVars,
       parentVars
  <2>3. Process'
    BY <1>15 DEF Joined, Goto, session, request, readerVars, childVars,
       parentVars
  <2> QED
    BY <2>1, <2>2, <2>3 DEF ControlInv
<1>16. CASE FinalDrains
  <2>1. Threads'
    BY <1>16 DEF FinalDrains, session, request, readerVars, childVars,
       parentVars
  <2>2. Streams'
    BY <1>16 DEF FinalDrains, session, request, readerVars, childVars,
       parentVars
  <2>3. Process'
    BY <1>16 DEF FinalDrains, session, request, readerVars, childVars,
       parentVars
  <2> QED
    BY <2>1, <2>2, <2>3 DEF ControlInv
<1>17. CASE FinalSends
  <2>1. Threads'
    BY <1>17 DEF FinalSends, Goto, session, request, readerVars, childVars,
       parentVars
  <2>2. Streams'
    BY <1>17 DEF FinalSends, Goto, session, request, readerVars, childVars,
       parentVars
  <2>3. Process'
    BY <1>17 DEF FinalSends, Goto, session, request, readerVars, childVars,
       parentVars
  <2> QED
    BY <2>1, <2>2, <2>3 DEF ControlInv
<1>18. CASE FinalWriteReturns
  <2>1. Threads'
    BY <1>18 DEF FinalWriteReturns, Goto, session, request, readerVars,
       childVars, parentVars
  <2>2. Streams'
    BY <1>18 DEF FinalWriteReturns, Goto, session, request, readerVars,
       childVars, parentVars
  <2>3. Process'
    BY <1>18 DEF FinalWriteReturns, Goto, session, request, readerVars,
       childVars, parentVars
  <2> QED
    BY <2>1, <2>2, <2>3 DEF ControlInv
<1>19. CASE FinalSkips
  <2>1. Threads'
    BY <1>19 DEF FinalSkips, session, request, readerVars, childVars, parentVars
  <2>2. Streams'
    BY <1>19 DEF FinalSkips, session, request, readerVars, childVars, parentVars
  <2>3. Process'
    BY <1>19 DEF FinalSkips, session, request, readerVars, childVars, parentVars
  <2> QED
    BY <2>1, <2>2, <2>3 DEF ControlInv
<1>20. CASE FinalRecv
  <2>1. Threads'
    BY <1>20 DEF FinalRecv, FinalExit, ForgetStream, Goto, session, request,
       readerVars, childVars, parentVars
  <2>2. Streams'
    BY <1>20 DEF FinalRecv, FinalExit, ForgetStream, Goto, session, request,
       readerVars, childVars, parentVars
  <2>3. Process'
    BY <1>20 DEF FinalRecv, FinalExit, ForgetStream, Goto, session, request,
       readerVars, childVars, parentVars
  <2> QED
    BY <2>1, <2>2, <2>3 DEF ControlInv
<1>21. CASE FinalFails
  <2>1. Threads'
    BY <1>21 DEF FinalFails, FinalExit, ForgetStream, Goto, Eof,
       FinalWriteFails, session, request, readerVars, childVars, parentVars
  <2>2. Streams'
    BY <1>21 DEF FinalFails, FinalExit, ForgetStream, Goto, Eof,
       FinalWriteFails, session, request, readerVars, childVars, parentVars
  <2>3. Process'
    BY <1>21 DEF FinalFails, FinalExit, ForgetStream, Goto, Eof,
       FinalWriteFails, session, request, readerVars, childVars, parentVars
  <2> QED
    BY <2>1, <2>2, <2>3 DEF ControlInv
<1>22. CASE ReaderEnters
  <2>1. Threads'
    BY <1>22 DEF ReaderEnters, ReaderStep, session, request, readerVars,
       childVars, parentVars
  <2>2. Streams'
    BY <1>22 DEF ReaderEnters, ReaderStep, session, request, readerVars,
       childVars, parentVars
  <2>3. Process'
    BY <1>22 DEF ReaderEnters, ReaderStep, session, request, readerVars,
       childVars, parentVars
  <2> QED
    BY <2>1, <2>2, <2>3 DEF ControlInv
<1>23. CASE ReaderStops
  <2>1. Threads'
    BY <1>23 DEF ReaderStops, ReaderStep, session, request, readerVars,
       childVars, parentVars
  <2>2. Streams'
    BY <1>23 DEF ReaderStops, ReaderStep, session, request, readerVars,
       childVars, parentVars
  <2>3. Process'
    BY <1>23 DEF ReaderStops, ReaderStep, session, request, readerVars,
       childVars, parentVars
  <2> QED
    BY <2>1, <2>2, <2>3 DEF ControlInv
<1>24. CASE ReaderRecv
  <2>1. Threads'
    BY <1>24 DEF ReaderRecv, ReaderStep, session, request, readerVars,
       childVars, parentVars
  <2>2. Streams'
    BY <1>24 DEF ReaderRecv, ReaderStep, session, request, readerVars,
       childVars, parentVars
  <2>3. Process'
    BY <1>24 DEF ReaderRecv, ReaderStep, session, request, readerVars,
       childVars, parentVars
  <2> QED
    BY <2>1, <2>2, <2>3 DEF ControlInv
<1>25. CASE ReaderDelivers
  <2>1. Threads'
    BY <1>25 DEF ReaderDelivers, session, request, readerVars, childVars,
       parentVars
  <2>2. Streams'
    BY <1>25 DEF ReaderDelivers, session, request, readerVars, childVars,
       parentVars
  <2>3. Process'
    BY <1>25 DEF ReaderDelivers, session, request, readerVars, childVars,
       parentVars
  <2> QED
    BY <2>1, <2>2, <2>3 DEF ControlInv
<1>26. CASE ReaderFlushes
  <2>1. Threads'
    BY <1>26 DEF ReaderFlushes, ReaderStep, session, request, readerVars,
       childVars, parentVars
  <2>2. Streams'
    BY <1>26 DEF ReaderFlushes, ReaderStep, session, request, readerVars,
       childVars, parentVars
  <2>3. Process'
    BY <1>26 DEF ReaderFlushes, ReaderStep, MaySend, childVars, session
  <2> QED
    BY <2>1, <2>2, <2>3 DEF ControlInv
<1>27. CASE ReaderWriteReturns
  <2>1. Threads'
    BY <1>27 DEF ReaderWriteReturns, ReaderStep, PartialSent, session, request,
       readerVars, childVars, parentVars
  <2>2. Streams'
    BY <1>27 DEF ReaderWriteReturns, ReaderStep, PartialSent, session, request,
       readerVars, childVars, parentVars
  <2>3. Process'
    BY <1>27 DEF ReaderWriteReturns, ReaderStep, PartialSent, session, request,
       readerVars, childVars, parentVars
  <2> QED
    BY <2>1, <2>2, <2>3 DEF ControlInv
<1>28. CASE ChildHello
  <2>1. Threads'
    BY <1>28 DEF ChildHello, session, request, readerVars, childVars, parentVars
  <2>2. Streams'
    BY <1>28 DEF ChildHello, session, request, readerVars, childVars, parentVars
  <2>3. Process'
    BY <1>28 DEF ChildHello, session, request, readerVars, childVars, parentVars
  <2> QED
    BY <2>1, <2>2, <2>3 DEF ControlInv
<1>29. CASE ChildRecv
  <2>1. Threads'
    BY <1>29 DEF ChildRecv, session, request, readerVars, childVars, parentVars
  <2>2. Streams'
    BY <1>29 DEF ChildRecv, session, request, readerVars, childVars, parentVars
  <2>3. Process'
    BY <1>29 DEF ChildRecv, session, request, readerVars, childVars, parentVars
  <2> QED
    BY <2>1, <2>2, <2>3 DEF ControlInv
<1>30. CASE ChildLoads
  <2>1. Threads'
    BY <1>30 DEF ChildLoads, session, request, readerVars, childVars, parentVars
  <2>2. Streams'
    BY <1>30 DEF ChildLoads, session, request, readerVars, childVars, parentVars
  <2>3. Process'
    BY <1>30 DEF ChildLoads, session, request, readerVars, childVars, parentVars
  <2> QED
    BY <2>1, <2>2, <2>3 DEF ControlInv
<1>31. CASE ChildAlignsPartial
  <2>1. Threads'
    BY <1>31 DEF ChildAlignsPartial, Reply, session, request, readerVars,
       childVars, parentVars
  <2>2. Streams'
    BY <1>31 DEF ChildAlignsPartial, Reply, session, request, readerVars,
       childVars, parentVars
  <2>3. Process'
    BY <1>31 DEF ChildAlignsPartial, Reply, session, request, readerVars,
       childVars, parentVars
  <2> QED
    BY <2>1, <2>2, <2>3 DEF ControlInv
<1>32. CASE ChildAlignsFinal
  <2>1. Threads'
    BY <1>32 DEF ChildAlignsFinal, Reply, session, request, readerVars,
       childVars, parentVars
  <2>2. Streams'
    BY <1>32 DEF ChildAlignsFinal, Reply, session, request, readerVars,
       childVars, parentVars
  <2>3. Process'
    BY <1>32 DEF ChildAlignsFinal, Reply, session, request, readerVars,
       childVars, parentVars
  <2> QED
    BY <2>1, <2>2, <2>3 DEF ControlInv
<1>33. CASE ChildWritten
  <2>1. Threads'
    BY <1>33 DEF ChildWritten, session, request, readerVars, childVars,
       parentVars
  <2>2. Streams'
    BY <1>33 DEF ChildWritten, session, request, readerVars, childVars,
       parentVars
  <2>3. Process'
    BY <1>33 DEF ChildWritten, session, request, readerVars, childVars,
       parentVars
  <2> QED
    BY <2>1, <2>2, <2>3 DEF ControlInv
<1>34. CASE UNCHANGED vars
  BY <1>34 DEF vars, ControlInv, session, request, readerVars, childVars, parentVars, Alive, Streaming
<1> QED
  BY <1>1, <1>2, <1>3, <1>4, <1>5, <1>6, <1>7, <1>8, <1>9, <1>10, <1>11, <1>12,
     <1>13, <1>14, <1>15, <1>16, <1>17, <1>18, <1>19, <1>20, <1>21, <1>22,
     <1>23, <1>24, <1>25, <1>26, <1>27, <1>28, <1>29, <1>30, <1>31, <1>32,
     <1>33, <1>34 DEF Next, Environment, Handler, PartialReader, Aligner

-----------------------------------------------------------------------------
(* What is in the sockets.                                                 *)

\* Between two requests of the aligner nothing is in the sockets: a frame may
\* be sent, and a stream begun, only then.
LEMMA FreeSlot ==
  ASSUME TypeOK, IInv, Booted, Alive, ~Writing, ~Finishing, inflight = 0 \/ ~active
  PROVE  Idles
<1> USE DEF IInv, ControlInv, WireInv
<1>1. ~PartialAsked /\ ~PartialMade /\ ~PartialSaid
  BY DEF OnePartial
<1>2. ~FinalAsked /\ ~FinalMade /\ ~FinalSaid
  BY DEF OneFinal
<1>3. toChild = <<>>
  BY <1>1, <1>2 DEF Wires, InOrder, PartialAsked, FinalAsked, FirstIs, LastIs
<1>4. toParent = <<>>
  BY <1>1, <1>2 DEF Wires, InOrder, PartialSaid, FinalSaid, FirstIs, LastIs
<1>5. task = NoFrame
  BY <1>1, <1>2 DEF Wires, Process, PartialMade, FinalMade
<1> QED
  BY <1>3, <1>4, <1>5 DEF Idles


\* A FINAL fails only with a dead aligner that has not answered it.
LEMMA FinalLost ==
  ASSUME TypeOK, IInv, FinalFails
  PROVE  ~Alive /\ ~FinalSaid
<1> USE DEF FinalSaid, LastIs
<1>1. ~Alive
  BY DEF FinalFails, Eof, FinalWriteFails
<1>2. ASSUME FinalWriteFails PROVE ~FinalSaid
  <2>1. toParent \in Seq(Frames)
    BY DEF TypeOK
  <2>2. toParent # <<>> => Len(toParent) \in 1..Len(toParent)
    BY <2>1, EmptySeq, LenProperties
  <2>3. toParent # <<>> => Len(toParent) \in DOMAIN toParent
    BY <2>1, <2>2, LenProperties
  <2> QED
    BY <1>2, <2>3 DEF FinalWriteFails, InFlight
<1> QED
  BY <1>1, <1>2 DEF FinalFails, Eof

\* What on_pcm and the partial reader send.
LEMMA PushSendsFrame ==
  ASSUME TypeOK, IInv, Push, SendPartial(pending')
  PROVE  \E f \in Frames : /\ toChild' = Append(toChild, f) /\ f.type = "PARTIAL_REQ"
                           /\ f.pcm = pending' /\ f.flag = ~hasSent
<1>1. pending' \in Seq(Chunks) /\ Len(pushed') \in 0..MaxChunks
  <2>1. <<stream, Len(pushed) + 1>> \in Chunks /\ Len(pushed) + 1 \in 0..MaxChunks
    BY NextChunk DEF Push
  <2>2. pushed \in Seq(Chunks) /\ pending \in Seq(Chunks)
    BY DEF TypeOK
  <2> QED
    BY <2>1, <2>2, AppendProperties DEF Push
<1> QED
  BY <1>1, SendType

LEMMA FlushSendsFrame ==
  ASSUME TypeOK, IInv, ReaderFlushes, SendPartial(pending)
  PROVE  \E f \in Frames : /\ toChild' = Append(toChild, f) /\ f.type = "PARTIAL_REQ"
                           /\ f.pcm = pending /\ f.flag = ~hasSent
<1>1. Len(pushed') \in 0..MaxChunks
  BY PushedLen DEF ReaderFlushes, ReaderStep, request
<1>2. pending \in Seq(Chunks)
  BY DEF TypeOK
<1> QED
  BY <1>1, <1>2, SendType

\* Steps that leave the sockets and the aligner alone.
LEMMA WireStays ==
  ASSUME TypeOK, IInv,
         UNCHANGED <<toChild, toParent, child, task, active, inflight, pc>>,
         reader' = reader \/ (reader # "write" /\ reader' # "write")
  PROVE  WireInv'
<1> USE DEF IInv, WireInv, Alive, Booted, Writing, Finishing
<1>1. Booting'
  BY DEF Booting
<1>2. Wires'
  BY DEF Wires
<1>3. OnePartial'
  BY DEF OnePartial, PartialAsked, PartialMade, PartialSaid
<1>4. OneFinal'
  BY DEF OneFinal, FinalAsked, FinalMade, FinalSaid
<1>5. SlotTaken'
  BY DEF SlotTaken
<1> QED
  BY <1>1, <1>2, <1>3, <1>4, <1>5

\* A partial request goes into empty sockets.
LEMMA WireSent ==
  ASSUME TypeOK, IInv, Booted, Alive, ~Writing, ~Finishing, inflight = 0, active,
         NEW f \in Frames, f.type = "PARTIAL_REQ", toChild' = Append(toChild, f),
         UNCHANGED <<toParent, child, task, active, inflight>>,
         Booted', ~Finishing', Writing'
  PROVE  WireInv'
<1>1. toChild = <<>> /\ task = NoFrame /\ toParent = <<>>
  BY FreeSlot DEF Idles
<1>2. Len(toChild') = 1 /\ toChild'[1] = f /\ toChild' # <<>>
  BY <1>1
<1>3. NoFrame.type = "NONE"
  BY NoFrameType
<1>4. Booting'
  BY DEF Booting, Booted
<1>5. Wires'
  BY <1>1, <1>2 DEF Wires, InOrder, IInv, ControlInv, Process, WireInv
<1>6. OnePartial'
  BY <1>1, <1>2, <1>3 DEF OnePartial, PartialAsked, PartialMade, PartialSaid, FirstIs
<1>7. OneFinal'
  BY <1>1, <1>2, <1>3 DEF OneFinal, FinalAsked, FinalMade, FinalSaid, LastIs
<1>8. SlotTaken'
  BY DEF SlotTaken
<1> QED
  BY <1>4, <1>5, <1>6, <1>7, <1>8 DEF WireInv

\* The answers of a pass.
LEMMA PartialReply ==
  ASSUME TypeOK, ChildAlignsPartial
  PROVE  /\ task' = NoFrame /\ child' \in {"write", "recv"}
         /\ \E f \in Frames :
              /\ toParent' = Append(toParent, f) /\ f.type = "PARTIAL_RESP"
              /\ \/ /\ f.flag /\ f.pcm = Accumulated /\ f.n = maxEmitted'
                    /\ cached' = <<Accumulated, task.seen>>
                    /\ \E n \in 0..Words : maxEmitted' = Emits(n)
                 \/ /\ ~f.flag
                    /\ maxEmitted' = IF task.flag THEN 0 ELSE maxEmitted
                    /\ cached' = IF task.flag THEN <<>> ELSE cached
<1>0. task.seen \in 0..MaxChunks
  BY FrameFields DEF TypeOK
<1>1. /\ Accumulated \in Seq(Chunks) /\ <<>> \in Seq(Chunks) /\ 0 \in 0..Words
      /\ "PARTIAL_RESP" \in FrameTypes /\ TRUE \in BOOLEAN /\ FALSE \in BOOLEAN
  BY AccumulatedType, EmptySeq DEF FrameTypes
<1> DEFINE Made(f) ==
      /\ toParent' = Append(toParent, f) /\ f.type = "PARTIAL_RESP"
      /\ \/ /\ f.flag /\ f.pcm = Accumulated /\ f.n = maxEmitted'
            /\ cached' = <<Accumulated, task.seen>>
            /\ \E n \in 0..Words : maxEmitted' = Emits(n)
         \/ /\ ~f.flag
            /\ maxEmitted' = IF task.flag THEN 0 ELSE maxEmitted
            /\ cached' = IF task.flag THEN <<>> ELSE cached
<1>2. ASSUME NEW n \in 0..Words,
             Reply("PARTIAL_RESP", Accumulated, TRUE, Emits(n)),
             maxEmitted' = Emits(n), cached' = <<Accumulated, task.seen>>
      PROVE  /\ task' = NoFrame /\ child' \in {"write", "recv"}
             /\ \E f \in Frames : Made(f)
  <2>1. Emits(n) \in 0..Words
    BY EmitsType
  <2>2. task' = NoFrame /\ child' \in {"write", "recv"}
    BY <1>2 DEF Reply
  <2>3. PICK big \in {FALSE, BigPartials \/ "PARTIAL_RESP" = "FINAL_RESP"} :
          toParent' = Append(toParent, Frame("PARTIAL_RESP", Accumulated, task.seen,
                                             TRUE, Emits(n), big))
    BY <1>2 DEF Reply
  <2> DEFINE f == Frame("PARTIAL_RESP", Accumulated, task.seen, TRUE, Emits(n), big)
  <2>4. big \in BOOLEAN
    OBVIOUS
  <2>5. f \in Frames /\ f.type = "PARTIAL_RESP" /\ f.pcm = Accumulated /\ f.flag /\ f.n = Emits(n)
    BY <1>1, <1>0, <2>1, <2>4 DEF Frame, Frames
  <2>6. toParent' = Append(toParent, f)
    BY <2>3
  <2> HIDE DEF f
  <2> QED
    BY <1>2, <2>2, <2>5, <2>6
<1>3. ASSUME Reply("PARTIAL_RESP", <<>>, FALSE, 0),
             maxEmitted' = IF task.flag THEN 0 ELSE maxEmitted,
             cached' = IF task.flag THEN <<>> ELSE cached
      PROVE  /\ task' = NoFrame /\ child' \in {"write", "recv"}
             /\ \E f \in Frames : Made(f)
  <2>1. task' = NoFrame /\ child' \in {"write", "recv"}
    BY <1>3 DEF Reply
  <2>2. PICK big \in {FALSE, BigPartials \/ "PARTIAL_RESP" = "FINAL_RESP"} :
          toParent' = Append(toParent, Frame("PARTIAL_RESP", <<>>, task.seen,
                                             FALSE, 0, big))
    BY <1>3 DEF Reply
  <2> DEFINE f == Frame("PARTIAL_RESP", <<>>, task.seen, FALSE, 0, big)
  <2>3. big \in BOOLEAN
    OBVIOUS
  <2>4. f \in Frames /\ f.type = "PARTIAL_RESP" /\ f.pcm = <<>> /\ ~f.flag /\ f.n = 0
    BY <1>1, <1>0, <2>3 DEF Frame, Frames
  <2>5. toParent' = Append(toParent, f)
    BY <2>2
  <2> HIDE DEF f
  <2> QED
    BY <1>3, <2>1, <2>4, <2>5
<1> QED
  BY <1>2, <1>3 DEF ChildAlignsPartial

LEMMA FinalReply ==
  ASSUME TypeOK, ChildAlignsFinal
  PROVE  /\ task' = NoFrame /\ child' \in {"write", "recv"}
         /\ \E f \in Frames :
              /\ toParent' = Append(toParent, f) /\ f.type = "FINAL_RESP"
              /\ f.flag => f.pcm = Accumulated \/ (Reusable /\ f.pcm = cached[1])
<1>0. task.seen \in 0..MaxChunks
  BY FrameFields DEF TypeOK
<1>1. /\ Accumulated \in Seq(Chunks) /\ <<>> \in Seq(Chunks) /\ Words \in 0..Words
      /\ "FINAL_RESP" \in FrameTypes /\ TRUE \in BOOLEAN
  BY AccumulatedType, EmptySeq DEF FrameTypes
<1> DEFINE Made(f) ==
      /\ toParent' = Append(toParent, f) /\ f.type = "FINAL_RESP"
      /\ f.flag => f.pcm = Accumulated \/ (Reusable /\ f.pcm = cached[1])
<1>2. ASSUME Reusable, Reply("FINAL_RESP", cached[1], TRUE, Words)
      PROVE  /\ task' = NoFrame /\ child' \in {"write", "recv"}
             /\ \E f \in Frames : Made(f)
  <2>1. cached[1] \in Seq(Chunks)
    BY <1>2 DEF Reusable, TypeOK
  <2>2. task' = NoFrame /\ child' \in {"write", "recv"}
    BY <1>2 DEF Reply
  <2>3. PICK big \in {FALSE, BigPartials \/ "FINAL_RESP" = "FINAL_RESP"} :
          toParent' = Append(toParent, Frame("FINAL_RESP", cached[1], task.seen,
                                             TRUE, Words, big))
    BY <1>2 DEF Reply
  <2> DEFINE f == Frame("FINAL_RESP", cached[1], task.seen, TRUE, Words, big)
  <2>4. big \in BOOLEAN
    OBVIOUS
  <2>5. f \in Frames /\ f.type = "FINAL_RESP" /\ f.pcm = cached[1] /\ f.flag /\ f.n = Words
    BY <1>1, <1>0, <2>1, <2>4 DEF Frame, Frames
  <2>6. toParent' = Append(toParent, f)
    BY <2>3
  <2> HIDE DEF f
  <2> QED
    BY <1>2, <2>2, <2>5, <2>6
<1>3. ASSUME NEW ok \in BOOLEAN,
             Reply("FINAL_RESP", IF ok THEN Accumulated ELSE <<>>, ok, Words)
      PROVE  /\ task' = NoFrame /\ child' \in {"write", "recv"}
             /\ \E f \in Frames : Made(f)
  <2> DEFINE pcm == IF ok THEN Accumulated ELSE <<>>
  <2>1. pcm \in Seq(Chunks) /\ (ok => pcm = Accumulated)
    BY <1>1
  <2>2. Reply("FINAL_RESP", pcm, ok, Words)
    BY <1>3
  <2> HIDE DEF pcm
  <2>3. /\ task' = NoFrame /\ child' \in {"write", "recv"}
        /\ \E f \in Frames : /\ toParent' = Append(toParent, f)
                             /\ f.type = "FINAL_RESP" /\ f.pcm = pcm /\ f.flag = ok
    BY <1>1, <2>1, <2>2, ReplyType
  <2> QED
    BY <2>1, <2>3
<1> QED
  BY <1>2, <1>3 DEF ChildAlignsFinal

\* At most one partial and one FINAL are anywhere between the two.
LEMMA WireNext == TypeOK /\ IInv /\ [Next]_vars => WireInv'
<1> SUFFICES ASSUME TypeOK /\ IInv, [Next]_vars PROVE WireInv'
  OBVIOUS
<1> USE DEF IInv, ControlInv, WireInv, Threads, Process, ThreadType, Alive,
   Booted, Writing, Finishing, Booting, Wires, OnePartial, OneFinal, SlotTaken,
   PartialAsked, PartialMade, PartialSaid, FinalAsked, FinalMade, FinalSaid,
   FirstIs, LastIs, InOrder
<1>0. toChild \in Seq(Frames) /\ toParent \in Seq(Frames)
  BY TypeParts DEF WireType
<1>1. CASE TakeMutex
  <2>1. Booting'
    BY <1>1 DEF TakeMutex, session, request, readerVars, childVars, parentVars
  <2>2. Wires'
    BY <1>1 DEF TakeMutex, session, request, readerVars, childVars, parentVars
  <2>3. OnePartial'
    BY <1>1 DEF TakeMutex, session, request, readerVars, childVars, parentVars
  <2>4. OneFinal'
    BY <1>1 DEF TakeMutex, session, request, readerVars, childVars, parentVars
  <2>5. SlotTaken'
    BY <1>1 DEF TakeMutex, session, request, readerVars, childVars, parentVars
  <2> QED
    BY <2>1, <2>2, <2>3, <2>4, <2>5 DEF WireInv
<1>2. CASE Shutdown
  <2>1. NoFrame.type = "NONE"
    BY NoFrameType
  <2>2. Booting'
    BY <1>2, <2>1 DEF Shutdown, KillAligner, ForgetStream, ChildState, session,
       request, readerVars, childVars, parentVars
  <2>3. Wires'
    BY <1>2, <2>1 DEF Shutdown, KillAligner, ForgetStream, ChildState, session,
       request, readerVars, childVars, parentVars
  <2>4. OnePartial'
    BY <1>2, <2>1 DEF Shutdown, KillAligner, ForgetStream, ChildState, session,
       request, readerVars, childVars, parentVars
  <2>5. OneFinal'
    BY <1>2, <2>1 DEF Shutdown, KillAligner, ForgetStream, ChildState, session,
       request, readerVars, childVars, parentVars
  <2>6. SlotTaken'
    BY <1>2, <2>1 DEF Shutdown, KillAligner, ForgetStream, ChildState, session,
       request, readerVars, childVars, parentVars
  <2> QED
    BY <2>2, <2>3, <2>4, <2>5, <2>6 DEF WireInv
<1>3. CASE Push
  <2>1. ASSUME UNCHANGED <<pc, toChild>> PROVE WireInv'
    <3>1. /\ UNCHANGED <<toChild, toParent, child, task, active, inflight, pc>>
          /\ reader' = reader
      BY <1>3, <2>1 DEF Push, readerVars, childVars
    <3> QED
      BY <3>1, WireStays
  <2>2. ASSUME MaySend(pending'), SendPartial(pending'), pc' = "write" PROVE WireInv'
    <3>1. PICK f \in Frames : toChild' = Append(toChild, f) /\ f.type = "PARTIAL_REQ"
      BY <1>3, <2>2, PushSendsFrame
    <3>2. UNCHANGED <<toParent, child, task, active, inflight>> /\ active
      BY <1>3 DEF Push, childVars, Streams, Streaming
    <3>3. Booted /\ Alive /\ ~Writing /\ ~Finishing
      BY <1>3, <2>2 DEF Push, MaySend
    <3>5. inflight = 0
      BY <2>2, TypeParts DEF MaySend
    <3>4. Booted' /\ ~Finishing' /\ Writing'
      BY <2>2
    <3> QED
      BY <3>1, <3>2, <3>3, <3>4, <3>5, WireSent
  <2> QED
    BY <1>3, <2>1, <2>2 DEF Push
<1>4. CASE Cancel
  <2>1. Booting'
    BY <1>4 DEF Cancel, session, request, readerVars, childVars, parentVars
  <2>2. Wires'
    BY <1>4 DEF Cancel, session, request, readerVars, childVars, parentVars
  <2>3. OnePartial'
    BY <1>4 DEF Cancel, session, request, readerVars, childVars, parentVars
  <2>4. OneFinal'
    BY <1>4 DEF Cancel, session, request, readerVars, childVars, parentVars
  <2>5. SlotTaken'
    BY <1>4 DEF Cancel, session, request, readerVars, childVars, parentVars
  <2> QED
    BY <2>1, <2>2, <2>3, <2>4, <2>5 DEF WireInv
<1>5. CASE ChildCrashes
  <2>1. NoFrame.type = "NONE"
    BY NoFrameType
  <2>2. child = "write" /\ toParent # <<>> =>
          LET s == SubSeq(toParent, 1, Len(toParent) - 1)
          IN  /\ Len(s) = Len(toParent) - 1
              /\ Len(toParent) = 1 => s = <<>>
              /\ Len(toParent) = 2 => s # <<>> /\ s[1] = toParent[1]
    BY <1>0, CutFrames
  <2>3. Booting'
    BY <1>5, <2>1, <2>2 DEF ChildCrashes, ChildState, session, request,
       readerVars, childVars, parentVars
  <2>4. Wires'
    BY <1>5, <2>1, <2>2 DEF ChildCrashes, ChildState, session, request,
       readerVars, childVars, parentVars
  <2>5. OnePartial'
    BY <1>5, <2>1, <2>2 DEF ChildCrashes, ChildState, session, request,
       readerVars, childVars, parentVars
  <2>6. OneFinal'
    BY <1>5, <2>1, <2>2 DEF ChildCrashes, ChildState, session, request,
       readerVars, childVars, parentVars
  <2>7. SlotTaken'
    BY <1>5, <2>1, <2>2 DEF ChildCrashes, ChildState, session, request,
       readerVars, childVars, parentVars
  <2> QED
    BY <2>3, <2>4, <2>5, <2>6, <2>7 DEF WireInv
<1>6. CASE EnsureFast
  <2>1. Booting'
    BY <1>6 DEF EnsureFast, AfterEnsure, Goto, session, request, readerVars,
       childVars, parentVars
  <2>2. Wires'
    BY <1>6 DEF EnsureFast, AfterEnsure, Goto, session, request, readerVars,
       childVars, parentVars
  <2>3. OnePartial'
    BY <1>6 DEF EnsureFast, AfterEnsure, Goto, session, request, readerVars,
       childVars, parentVars
  <2>4. OneFinal'
    BY <1>6 DEF EnsureFast, AfterEnsure, Goto, session, request, readerVars,
       childVars, parentVars
  <2>5. SlotTaken'
    BY <1>6 DEF EnsureFast, AfterEnsure, Goto, session, request, readerVars,
       childVars, parentVars
  <2> QED
    BY <2>1, <2>2, <2>3, <2>4, <2>5 DEF WireInv
<1>7. CASE EnsureSpawn
  <2>1. NoFrame.type = "NONE"
    BY NoFrameType
  <2>2. Booting'
    BY <1>7, <2>1 DEF EnsureSpawn, ForgetStream, ChildState, Goto, session,
       request, readerVars, childVars, parentVars
  <2>3. Wires'
    BY <1>7, <2>1 DEF EnsureSpawn, ForgetStream, ChildState, Goto, session,
       request, readerVars, childVars, parentVars
  <2>4. OnePartial'
    BY <1>7, <2>1 DEF EnsureSpawn, ForgetStream, ChildState, Goto, session,
       request, readerVars, childVars, parentVars
  <2>5. OneFinal'
    BY <1>7, <2>1 DEF EnsureSpawn, ForgetStream, ChildState, Goto, session,
       request, readerVars, childVars, parentVars
  <2>6. SlotTaken'
    BY <1>7, <2>1 DEF EnsureSpawn, ForgetStream, ChildState, Goto, session,
       request, readerVars, childVars, parentVars
  <2> QED
    BY <2>2, <2>3, <2>4, <2>5, <2>6 DEF WireInv
<1>8. CASE EnsureFails
  <2>1. NoFrame.type = "NONE"
    BY NoFrameType
  <2>2. Booting'
    BY <1>8, <2>1 DEF EnsureFails, KillAligner, ForgetStream, ChildState, Goto,
       session, request, readerVars, childVars, parentVars
  <2>3. Wires'
    BY <1>8, <2>1 DEF EnsureFails, KillAligner, ForgetStream, ChildState, Goto,
       session, request, readerVars, childVars, parentVars
  <2>4. OnePartial'
    BY <1>8, <2>1 DEF EnsureFails, KillAligner, ForgetStream, ChildState, Goto,
       session, request, readerVars, childVars, parentVars
  <2>5. OneFinal'
    BY <1>8, <2>1 DEF EnsureFails, KillAligner, ForgetStream, ChildState, Goto,
       session, request, readerVars, childVars, parentVars
  <2>6. SlotTaken'
    BY <1>8, <2>1 DEF EnsureFails, KillAligner, ForgetStream, ChildState, Goto,
       session, request, readerVars, childVars, parentVars
  <2> QED
    BY <2>2, <2>3, <2>4, <2>5, <2>6 DEF WireInv
<1>9. CASE RecvHello
  <2>1. /\ toChild' = Append(toChild, Frame("LOAD_REQ", <<>>, 0, FALSE, 0, FALSE))
        /\ toParent' = Tail(toParent) /\ pc' = "loading"
        /\ UNCHANGED <<child, task>> /\ pc = "hello" /\ toParent # <<>> /\ Alive
    BY <1>9 DEF RecvHello, Goto, childVars
  <2> DEFINE f == Frame("LOAD_REQ", <<>>, 0, FALSE, 0, FALSE)
  <2>2. f.type = "LOAD_REQ" /\ toChild' = Append(toChild, f)
    BY <2>1 DEF Frame
  <2> HIDE DEF f
  <2>3. toChild = <<>> /\ child = "recv" /\ Len(toParent) = 1
    BY <2>1
  <2>4. toParent' = <<>>
    BY <2>1, <2>3, TailFrames
  <2>5. Len(toChild') = 1 /\ toChild'[1].type = "LOAD_REQ"
    BY <2>2, <2>3
  <2>6. task = NoFrame /\ NoFrame.type = "NONE"
    BY <2>3, NoFrameType
  <2>7. Booting'
    BY <2>1, <2>3, <2>4, <2>5
  <2>8. Wires'
    BY <1>9, <2>1, <2>2, <2>3, <2>4, <2>5, <2>6 DEF RecvHello, Goto, session,
       request, readerVars, childVars, parentVars
  <2>9. OnePartial'
    BY <1>9, <2>1, <2>2, <2>3, <2>4, <2>5, <2>6 DEF RecvHello, Goto, session,
       request, readerVars, childVars, parentVars
  <2>10. OneFinal'
    BY <2>1, <2>4, <2>5, <2>6
  <2>11. SlotTaken'
    BY <1>9, <2>1, <2>2, <2>3, <2>4, <2>5, <2>6 DEF RecvHello, Goto, session,
       request, readerVars, childVars, parentVars
  <2> QED
    BY <2>7, <2>8, <2>9, <2>10, <2>11 DEF WireInv
<1>10. CASE RecvLoadResp
  <2>1. /\ pc = "loading" /\ toParent # <<>> /\ toParent' = Tail(toParent)
        /\ UNCHANGED <<toChild, child, task>> /\ pc' \in {"idle", "begin"}
        /\ UNCHANGED <<reader, io, inflight, active>>
    BY <1>10 DEF RecvLoadResp, Goto, AfterEnsure, readerVars, childVars
  <2>2. Len(toParent) = 1 /\ toParent' = <<>>
    BY <1>0, <2>1, TailFrames
  <2>3. toChild = <<>> /\ task = NoFrame /\ NoFrame.type = "NONE"
    BY <2>1, NoFrameType
  <2>4. Booting'
    BY <2>1, <2>2, <2>3
  <2>5. Wires'
    BY <2>1, <2>2, <2>3
  <2>6. OnePartial'
    BY <2>1, <2>2, <2>3
  <2>7. OneFinal'
    BY <2>1, <2>2, <2>3
  <2>8. SlotTaken'
    BY <2>1, <2>2, <2>3
  <2> QED
    BY <2>4, <2>5, <2>6, <2>7, <2>8 DEF WireInv
<1>11. CASE Begin
  <2>1. Booting'
    BY <1>11 DEF Begin, session, request, readerVars, childVars, parentVars
  <2>2. Wires'
    BY <1>11 DEF Begin, session, request, readerVars, childVars, parentVars
  <2>3. OnePartial'
    BY <1>11 DEF Begin, session, request, readerVars, childVars, parentVars
  <2>4. OneFinal'
    BY <1>11 DEF Begin, session, request, readerVars, childVars, parentVars
  <2>5. SlotTaken'
    BY <1>11 DEF Begin, session, request, readerVars, childVars, parentVars
  <2> QED
    BY <2>1, <2>2, <2>3, <2>4, <2>5 DEF WireInv
<1>12. CASE BeginFails
  <2>1. Booting'
    BY <1>12 DEF BeginFails, Goto, session, request, readerVars, childVars,
       parentVars
  <2>2. Wires'
    BY <1>12 DEF BeginFails, Goto, session, request, readerVars, childVars,
       parentVars
  <2>3. OnePartial'
    BY <1>12 DEF BeginFails, Goto, session, request, readerVars, childVars,
       parentVars
  <2>4. OneFinal'
    BY <1>12 DEF BeginFails, Goto, session, request, readerVars, childVars,
       parentVars
  <2>5. SlotTaken'
    BY <1>12 DEF BeginFails, Goto, session, request, readerVars, childVars,
       parentVars
  <2> QED
    BY <2>1, <2>2, <2>3, <2>4, <2>5 DEF WireInv
<1>13. CASE PushReturns
  <2>1. Booting'
    BY <1>13 DEF PushReturns, PartialSent, Goto, session, request, readerVars,
       childVars, parentVars
  <2>2. Wires'
    BY <1>13 DEF PushReturns, PartialSent, Goto, session, request, readerVars,
       childVars, parentVars
  <2>3. OnePartial'
    BY <1>13 DEF PushReturns, PartialSent, Goto, session, request, readerVars,
       childVars, parentVars
  <2>4. OneFinal'
    BY <1>13 DEF PushReturns, PartialSent, Goto, session, request, readerVars,
       childVars, parentVars
  <2>5. SlotTaken'
    BY <1>13 DEF PushReturns, PartialSent, Goto, session, request, readerVars,
       childVars, parentVars
  <2> QED
    BY <2>1, <2>2, <2>3, <2>4, <2>5 DEF WireInv
<1>14. CASE SynthEnds
  <2>1. Booting'
    BY <1>14 DEF SynthEnds, session, request, readerVars, childVars, parentVars
  <2>2. Wires'
    BY <1>14 DEF SynthEnds, session, request, readerVars, childVars, parentVars
  <2>3. OnePartial'
    BY <1>14 DEF SynthEnds, session, request, readerVars, childVars, parentVars
  <2>4. OneFinal'
    BY <1>14 DEF SynthEnds, session, request, readerVars, childVars, parentVars
  <2>5. SlotTaken'
    BY <1>14 DEF SynthEnds, session, request, readerVars, childVars, parentVars
  <2> QED
    BY <2>1, <2>2, <2>3, <2>4, <2>5 DEF WireInv
<1>15. CASE Joined
  <2>1. Booting'
    BY <1>15 DEF Joined, Goto, session, request, readerVars, childVars,
       parentVars
  <2>2. Wires'
    BY <1>15 DEF Joined, Goto, session, request, readerVars, childVars,
       parentVars
  <2>3. OnePartial'
    BY <1>15 DEF Joined, Goto, session, request, readerVars, childVars,
       parentVars
  <2>4. OneFinal'
    BY <1>15 DEF Joined, Goto, session, request, readerVars, childVars,
       parentVars
  <2>5. SlotTaken'
    BY <1>15 DEF Joined, Goto, session, request, readerVars, childVars,
       parentVars
  <2> QED
    BY <2>1, <2>2, <2>3, <2>4, <2>5 DEF WireInv
<1>16. CASE FinalDrains
  <2>1. Booting'
    BY <1>16 DEF FinalDrains, session, request, readerVars, childVars,
       parentVars
  <2>2. Wires'
    BY <1>16 DEF FinalDrains, session, request, readerVars, childVars,
       parentVars
  <2>3. OnePartial'
    BY <1>16 DEF FinalDrains, session, request, readerVars, childVars,
       parentVars
  <2>4. OneFinal'
    BY <1>16 DEF FinalDrains, session, request, readerVars, childVars,
       parentVars
  <2>5. SlotTaken'
    BY <1>16 DEF FinalDrains, session, request, readerVars, childVars,
       parentVars
  <2> QED
    BY <2>1, <2>2, <2>3, <2>4, <2>5 DEF WireInv
<1>17. CASE FinalSends
  <2>1. PICK big \in {FALSE, BigRequests /\ pending # <<>>} :
          toChild' = Append(toChild, Frame("FINAL_REQ", pending, Len(pushed),
                                           ~hasSent, 0, big))
    BY <1>17 DEF FinalSends
  <2> DEFINE f == Frame("FINAL_REQ", pending, Len(pushed), ~hasSent, 0, big)
  <2>2. f.type = "FINAL_REQ"
    BY DEF Frame
  <2> HIDE DEF f
  <2>3. ~FinalAsked /\ ~FinalMade /\ ~FinalSaid
    BY <1>17 DEF FinalSends
  <2>4. \/ toChild = <<>>
        \/ toChild # <<>> /\ Len(toChild) = 1 /\ toChild[1].type = "PARTIAL_REQ"
    BY <1>17, <2>3 DEF FinalSends
  <2>5. toChild' = Append(toChild, f) /\ toChild' # <<>>
    BY <2>1, AppendProperties DEF f
  <2>6. \/ toChild = <<>> /\ Len(toChild') = 1 /\ toChild'[1].type = "FINAL_REQ"
        \/ /\ PartialAsked
           /\ Len(toChild') = 2 /\ toChild'[1].type = "PARTIAL_REQ"
           /\ toChild'[2].type = "FINAL_REQ"
    BY <2>2, <2>4, <2>5
  <2>7. /\ pc = "final" /\ pc' = "finalwrite" /\ toParent = <<>> /\ Alive
        /\ UNCHANGED <<toParent, reader, active, inflight, child, task>>
    BY <1>17 DEF FinalSends, Goto, readerVars, childVars
  <2>8. Booting'
    BY <2>3, <2>5, <2>6, <2>7
  <2>9. Wires'
    BY <2>3, <2>5, <2>6, <2>7
  <2>10. OnePartial'
    BY <2>3, <2>5, <2>6, <2>7
  <2>11. OneFinal'
    BY <2>3, <2>5, <2>6, <2>7
  <2>12. SlotTaken'
    BY <2>3, <2>5, <2>6, <2>7
  <2> QED
    BY <2>8, <2>9, <2>10, <2>11, <2>12 DEF WireInv
<1>18. CASE FinalWriteReturns
  <2>1. Booting'
    BY <1>18 DEF FinalWriteReturns, Goto, session, request, readerVars,
       childVars, parentVars
  <2>2. Wires'
    BY <1>18 DEF FinalWriteReturns, Goto, session, request, readerVars,
       childVars, parentVars
  <2>3. OnePartial'
    BY <1>18 DEF FinalWriteReturns, Goto, session, request, readerVars,
       childVars, parentVars
  <2>4. OneFinal'
    BY <1>18 DEF FinalWriteReturns, Goto, session, request, readerVars,
       childVars, parentVars
  <2>5. SlotTaken'
    BY <1>18 DEF FinalWriteReturns, Goto, session, request, readerVars,
       childVars, parentVars
  <2> QED
    BY <2>1, <2>2, <2>3, <2>4, <2>5 DEF WireInv
<1>19. CASE FinalSkips
  <2>1. Booting'
    BY <1>19 DEF FinalSkips, session, request, readerVars, childVars, parentVars
  <2>2. Wires'
    BY <1>19 DEF FinalSkips, session, request, readerVars, childVars, parentVars
  <2>3. OnePartial'
    BY <1>19 DEF FinalSkips, session, request, readerVars, childVars, parentVars
  <2>4. OneFinal'
    BY <1>19 DEF FinalSkips, session, request, readerVars, childVars, parentVars
  <2>5. SlotTaken'
    BY <1>19 DEF FinalSkips, session, request, readerVars, childVars, parentVars
  <2> QED
    BY <2>1, <2>2, <2>3, <2>4, <2>5 DEF WireInv
<1>20. CASE FinalRecv
  <2>1. FinalSaid /\ Len(toParent) = 1 /\ toParent' = <<>>
    BY <1>20, TailFrames DEF FinalRecv
  <2>2. toChild = <<>> /\ task = NoFrame /\ NoFrame.type = "NONE"
    BY <2>1, NoFrameType
  <2>3. Booting'
    BY <1>20, <2>1, <2>2 DEF FinalRecv, FinalExit, ForgetStream, Goto, session,
       request, readerVars, childVars, parentVars
  <2>4. Wires'
    BY <1>20, <2>1, <2>2 DEF FinalRecv, FinalExit, ForgetStream, Goto, session,
       request, readerVars, childVars, parentVars
  <2>5. OnePartial'
    BY <1>20, <2>1, <2>2 DEF FinalRecv, FinalExit, ForgetStream, Goto, session,
       request, readerVars, childVars, parentVars
  <2>6. OneFinal'
    BY <1>20, <2>1, <2>2 DEF FinalRecv, FinalExit, ForgetStream, Goto, session,
       request, readerVars, childVars, parentVars
  <2>7. SlotTaken'
    BY <1>20, <2>1, <2>2 DEF FinalRecv, FinalExit, ForgetStream, Goto, session,
       request, readerVars, childVars, parentVars
  <2> QED
    BY <2>3, <2>4, <2>5, <2>6, <2>7 DEF WireInv
<1>21. CASE FinalFails
  <2>1. ~Alive /\ toChild = <<>> /\ task = NoFrame /\ NoFrame.type = "NONE"
    BY <1>21, NoFrameType DEF FinalFails, Eof, FinalWriteFails
  <2>2. ~FinalSaid
    BY <1>21, FinalLost
  <2>3. Booting'
    BY <1>21, <2>1, <2>2 DEF FinalFails, FinalExit, ForgetStream, Goto, Eof,
       FinalWriteFails, session, request, readerVars, childVars, parentVars
  <2>4. Wires'
    BY <1>21, <2>1, <2>2 DEF FinalFails, FinalExit, ForgetStream, Goto, Eof,
       FinalWriteFails, session, request, readerVars, childVars, parentVars
  <2>5. OnePartial'
    BY <1>21, <2>1, <2>2 DEF FinalFails, FinalExit, ForgetStream, Goto, Eof,
       FinalWriteFails, session, request, readerVars, childVars, parentVars
  <2>6. OneFinal'
    BY <1>21, <2>1, <2>2 DEF FinalFails, FinalExit, ForgetStream, Goto, Eof,
       FinalWriteFails, session, request, readerVars, childVars, parentVars
  <2>7. SlotTaken'
    BY <1>21, <2>1, <2>2 DEF FinalFails, FinalExit, ForgetStream, Goto, Eof,
       FinalWriteFails, session, request, readerVars, childVars, parentVars
  <2> QED
    BY <2>3, <2>4, <2>5, <2>6, <2>7 DEF WireInv
<1>22. CASE ReaderEnters
  <2>1. Booting'
    BY <1>22 DEF ReaderEnters, ReaderStep, session, request, readerVars,
       childVars, parentVars
  <2>2. Wires'
    BY <1>22 DEF ReaderEnters, ReaderStep, session, request, readerVars,
       childVars, parentVars
  <2>3. OnePartial'
    BY <1>22 DEF ReaderEnters, ReaderStep, session, request, readerVars,
       childVars, parentVars
  <2>4. OneFinal'
    BY <1>22 DEF ReaderEnters, ReaderStep, session, request, readerVars,
       childVars, parentVars
  <2>5. SlotTaken'
    BY <1>22 DEF ReaderEnters, ReaderStep, session, request, readerVars,
       childVars, parentVars
  <2> QED
    BY <2>1, <2>2, <2>3, <2>4, <2>5 DEF WireInv
<1>23. CASE ReaderStops
  <2>1. Booting'
    BY <1>23 DEF ReaderStops, ReaderStep, session, request, readerVars,
       childVars, parentVars
  <2>2. Wires'
    BY <1>23 DEF ReaderStops, ReaderStep, session, request, readerVars,
       childVars, parentVars
  <2>3. OnePartial'
    BY <1>23 DEF ReaderStops, ReaderStep, session, request, readerVars,
       childVars, parentVars
  <2>4. OneFinal'
    BY <1>23 DEF ReaderStops, ReaderStep, session, request, readerVars,
       childVars, parentVars
  <2>5. SlotTaken'
    BY <1>23 DEF ReaderStops, ReaderStep, session, request, readerVars,
       childVars, parentVars
  <2> QED
    BY <2>1, <2>2, <2>3, <2>4, <2>5 DEF WireInv
<1>24. CASE ReaderRecv
  <2>1. Booting'
    BY <1>24 DEF ReaderRecv, ReaderStep, session, request, readerVars,
       childVars, parentVars
  <2>2. Wires'
    BY <1>24 DEF ReaderRecv, ReaderStep, session, request, readerVars,
       childVars, parentVars
  <2>3. OnePartial'
    BY <1>24 DEF ReaderRecv, ReaderStep, session, request, readerVars,
       childVars, parentVars
  <2>4. OneFinal'
    BY <1>24 DEF ReaderRecv, ReaderStep, session, request, readerVars,
       childVars, parentVars
  <2>5. SlotTaken'
    BY <1>24 DEF ReaderRecv, ReaderStep, session, request, readerVars,
       childVars, parentVars
  <2> QED
    BY <2>1, <2>2, <2>3, <2>4, <2>5 DEF WireInv
<1>25. CASE ReaderDelivers
  <2>1. Booting'
    BY <1>25 DEF ReaderDelivers, session, request, readerVars, childVars,
       parentVars
  <2>2. Wires'
    BY <1>25 DEF ReaderDelivers, session, request, readerVars, childVars,
       parentVars
  <2>3. OnePartial'
    BY <1>25 DEF ReaderDelivers, session, request, readerVars, childVars,
       parentVars
  <2>4. OneFinal'
    BY <1>25 DEF ReaderDelivers, session, request, readerVars, childVars,
       parentVars
  <2>5. SlotTaken'
    BY <1>25 DEF ReaderDelivers, session, request, readerVars, childVars,
       parentVars
  <2> QED
    BY <2>1, <2>2, <2>3, <2>4, <2>5 DEF WireInv
<1>26. CASE ReaderFlushes
  <2>1. ASSUME UNCHANGED toChild, reader' = "poll" PROVE WireInv'
    <3>1. /\ UNCHANGED <<toChild, toParent, child, task, active, inflight, pc>>
          /\ reader # "write" /\ reader' # "write"
      BY <1>26, <2>1 DEF ReaderFlushes, ReaderStep, session, request, childVars
    <3> QED
      BY <3>1, WireStays
  <2>2. ASSUME MaySend(pending), SendPartial(pending), reader' = "write"
        PROVE  WireInv'
    <3>1. PICK f \in Frames : toChild' = Append(toChild, f) /\ f.type = "PARTIAL_REQ"
      BY <1>26, <2>2, FlushSendsFrame
    <3>2. /\ UNCHANGED <<toParent, child, task, active, inflight, pc>>
          /\ pc \in {"synth", "write", "join"}
      BY <1>26 DEF ReaderFlushes, ReaderStep, session, request, childVars
    <3>3. active
      BY <3>2 DEF Streams, Streaming
    <3>4. Booted /\ Alive /\ ~Writing /\ ~Finishing
      BY <1>26, <2>2, <3>2 DEF ReaderFlushes, MaySend
    <3>6. inflight = 0
      BY <2>2, TypeParts DEF MaySend
    <3>5. Booted' /\ ~Finishing' /\ Writing'
      BY <2>2, <3>2
    <3> QED
      BY <3>1, <3>2, <3>3, <3>4, <3>5, <3>6, WireSent
  <2> QED
    BY <1>26, <2>1, <2>2 DEF ReaderFlushes, ReaderStep
<1>27. CASE ReaderWriteReturns
  <2>1. Booting'
    BY <1>27 DEF ReaderWriteReturns, ReaderStep, PartialSent, session, request,
       readerVars, childVars, parentVars
  <2>2. Wires'
    BY <1>27 DEF ReaderWriteReturns, ReaderStep, PartialSent, session, request,
       readerVars, childVars, parentVars
  <2>3. OnePartial'
    BY <1>27 DEF ReaderWriteReturns, ReaderStep, PartialSent, session, request,
       readerVars, childVars, parentVars
  <2>4. OneFinal'
    BY <1>27 DEF ReaderWriteReturns, ReaderStep, PartialSent, session, request,
       readerVars, childVars, parentVars
  <2>5. SlotTaken'
    BY <1>27 DEF ReaderWriteReturns, ReaderStep, PartialSent, session, request,
       readerVars, childVars, parentVars
  <2> QED
    BY <2>1, <2>2, <2>3, <2>4, <2>5 DEF WireInv
<1>28. CASE ChildHello
  <2>1. /\ child = "boot" /\ toParent = <<>> /\ task = NoFrame /\ NoFrame.type = "NONE"
        /\ toChild = <<>> /\ pc = "hello"
    BY <1>28, NoFrameType DEF ChildHello
  <2> DEFINE f == Frame("HELLO", <<>>, 0, TRUE, 0, FALSE)
  <2>2. f.type = "HELLO" /\ toParent' = Append(toParent, f)
    BY <1>28 DEF ChildHello, Frame
  <2> HIDE DEF f
  <2>3. Len(toParent') = 1 /\ toParent'[1].type = "HELLO"
    BY <2>1, <2>2
  <2>4. Booting'
    BY <1>28, <2>1, <2>2, <2>3 DEF ChildHello, session, request, readerVars,
       childVars, parentVars
  <2>5. Wires'
    BY <1>28, <2>1, <2>2, <2>3 DEF ChildHello, session, request, readerVars,
       childVars, parentVars
  <2>6. OnePartial'
    BY <1>28, <2>1, <2>2, <2>3 DEF ChildHello, session, request, readerVars,
       childVars, parentVars
  <2>7. OneFinal'
    BY <1>28, <2>1, <2>2, <2>3 DEF ChildHello, session, request, readerVars,
       childVars, parentVars
  <2>8. SlotTaken'
    BY <1>28, <2>1, <2>2, <2>3 DEF ChildHello, session, request, readerVars,
       childVars, parentVars
  <2> QED
    BY <2>4, <2>5, <2>6, <2>7, <2>8 DEF WireInv
<1>29. CASE ChildRecv
  <2>1. /\ toChild # <<>> /\ task' = toChild[1] /\ toChild' = Tail(toChild)
        /\ Len(toChild) = 1 => toChild' = <<>>
        /\ Len(toChild) = 2 => Len(toChild') = 1 /\ toChild'[1] = toChild[2]
    BY <1>29, TailFrames DEF ChildRecv
  <2>2. Booting'
    BY <1>29, <2>1 DEF ChildRecv, session, request, readerVars, childVars,
       parentVars
  <2>3. Wires'
    BY <1>29, <2>1 DEF ChildRecv, session, request, readerVars, childVars,
       parentVars
  <2>4. OnePartial'
    BY <1>29, <2>1 DEF ChildRecv, session, request, readerVars, childVars,
       parentVars
  <2>5. OneFinal'
    BY <1>29, <2>1 DEF ChildRecv, session, request, readerVars, childVars,
       parentVars
  <2>6. SlotTaken'
    BY <1>29, <2>1 DEF ChildRecv, session, request, readerVars, childVars,
       parentVars
  <2> QED
    BY <2>2, <2>3, <2>4, <2>5, <2>6 DEF WireInv
<1>30. CASE ChildLoads
  <2>1. pc = "loading" /\ toParent = <<>> /\ toChild = <<>>
    BY <1>30 DEF ChildLoads
  <2>2. PICK ok \in BOOLEAN :
          toParent' = Append(toParent, Frame("LOAD_RESP", <<>>, 0, ok, 0, FALSE))
    BY <1>30 DEF ChildLoads
  <2> DEFINE f == Frame("LOAD_RESP", <<>>, 0, ok, 0, FALSE)
  <2>3. f.type = "LOAD_RESP" /\ toParent' = Append(toParent, f)
    BY <2>2 DEF Frame
  <2> HIDE DEF f
  <2>4. Len(toParent') = 1 /\ toParent'[1].type = "LOAD_RESP"
    BY <2>1, <2>3
  <2>5. NoFrame.type = "NONE"
    BY NoFrameType
  <2>6. Booting'
    BY <1>30, <2>1, <2>2, <2>3, <2>4, <2>5 DEF ChildLoads, session, request,
       readerVars, childVars, parentVars
  <2>7. Wires'
    BY <1>30, <2>1, <2>2, <2>3, <2>4, <2>5 DEF ChildLoads, session, request,
       readerVars, childVars, parentVars
  <2>8. OnePartial'
    BY <1>30, <2>1, <2>2, <2>3, <2>4, <2>5 DEF ChildLoads, session, request,
       readerVars, childVars, parentVars
  <2>9. OneFinal'
    BY <1>30, <2>1, <2>2, <2>3, <2>4, <2>5 DEF ChildLoads, session, request,
       readerVars, childVars, parentVars
  <2>10. SlotTaken'
    BY <1>30, <2>1, <2>2, <2>3, <2>4, <2>5 DEF ChildLoads, session, request,
       readerVars, childVars, parentVars
  <2> QED
    BY <2>6, <2>7, <2>8, <2>9, <2>10 DEF WireInv
<1>31. CASE ChildAlignsPartial
  <2>1. Booted /\ PartialMade /\ toParent = <<>> /\ ~PartialAsked
    BY <1>31 DEF ChildAlignsPartial
  <2>2. /\ task' = NoFrame /\ child' \in {"write", "recv"}
        /\ \E f \in Frames : toParent' = Append(toParent, f) /\ f.type = "PARTIAL_RESP"
    BY <1>31, PartialReply
  <2>3. Len(toParent') = 1 /\ toParent'[1].type = "PARTIAL_RESP"
    BY <2>1, <2>2
  <2>4. NoFrame.type = "NONE"
    BY NoFrameType
  <2>5. UNCHANGED <<pc, reader, inflight, active, toChild>> /\ Alive
    BY <1>31 DEF ChildAlignsPartial, parentVars, session, request, readerVars
  <2>6. Booting'
    BY <2>1, <2>2, <2>3, <2>4, <2>5
  <2>7. Wires'
    BY <2>1, <2>2, <2>3, <2>4, <2>5
  <2>8. OnePartial'
    BY <2>1, <2>2, <2>3, <2>4, <2>5
  <2>9. OneFinal'
    BY <2>1, <2>2, <2>3, <2>4, <2>5
  <2>10. SlotTaken'
    BY <2>1, <2>2, <2>3, <2>4, <2>5
  <2> QED
    BY <2>6, <2>7, <2>8, <2>9, <2>10 DEF WireInv
<1>32. CASE ChildAlignsFinal
  <2>1. Booted /\ FinalMade /\ toChild = <<>> /\ ~FinalSaid
    BY <1>32, NoFrameType DEF ChildAlignsFinal
  <2>2. PICK f \in Frames : toParent' = Append(toParent, f) /\ f.type = "FINAL_RESP"
    BY <1>32, FinalReply
  <2>3. task' = NoFrame /\ child' \in {"write", "recv"} /\ NoFrame.type = "NONE"
    BY <1>32, FinalReply, NoFrameType
  <2>4. \/ toParent = <<>>
        \/ toParent # <<>> /\ Len(toParent) = 1 /\ toParent[1].type = "PARTIAL_RESP"
    BY <2>1
  <2>5. \/ toParent = <<>> /\ Len(toParent') = 1 /\ toParent'[1].type = "FINAL_RESP"
        \/ /\ PartialSaid
           /\ Len(toParent') = 2 /\ toParent'[1].type = "PARTIAL_RESP"
           /\ toParent'[2].type = "FINAL_RESP"
    BY <2>2, <2>4
  <2>6. UNCHANGED <<pc, reader, inflight, active, toChild>> /\ Alive
    BY <1>32 DEF ChildAlignsFinal, parentVars, session, request, readerVars
  <2>7. Booting'
    BY <2>1, <2>3, <2>5, <2>6
  <2>8. Wires'
    BY <2>1, <2>3, <2>5, <2>6
  <2>9. OnePartial'
    BY <2>1, <2>3, <2>5, <2>6
  <2>10. OneFinal'
    BY <2>1, <2>3, <2>5, <2>6
  <2>11. SlotTaken'
    BY <2>1, <2>3, <2>5, <2>6
  <2> QED
    BY <2>7, <2>8, <2>9, <2>10, <2>11 DEF WireInv
<1>33. CASE ChildWritten
  <2>1. Booting'
    BY <1>33 DEF ChildWritten, session, request, readerVars, childVars,
       parentVars
  <2>2. Wires'
    BY <1>33 DEF ChildWritten, session, request, readerVars, childVars,
       parentVars
  <2>3. OnePartial'
    BY <1>33 DEF ChildWritten, session, request, readerVars, childVars,
       parentVars
  <2>4. OneFinal'
    BY <1>33 DEF ChildWritten, session, request, readerVars, childVars,
       parentVars
  <2>5. SlotTaken'
    BY <1>33 DEF ChildWritten, session, request, readerVars, childVars,
       parentVars
  <2> QED
    BY <2>1, <2>2, <2>3, <2>4, <2>5 DEF WireInv
<1>34. CASE UNCHANGED vars
  BY <1>34 DEF vars, WireInv, session, request, readerVars, childVars, parentVars
<1> QED
  BY <1>1, <1>2, <1>3, <1>4, <1>5, <1>6, <1>7, <1>8, <1>9, <1>10, <1>11, <1>12,
     <1>13, <1>14, <1>15, <1>16, <1>17, <1>18, <1>19, <1>20, <1>21, <1>22,
     <1>23, <1>24, <1>25, <1>26, <1>27, <1>28, <1>29, <1>30, <1>31, <1>32,
     <1>33, <1>34 DEF Next, Environment, Handler, PartialReader, Aligner

-----------------------------------------------------------------------------
(* Where the audio is.                                                     *)

\* A frame that is sent, taken or worked on changes what the aligner will
\* have accumulated in the end only by what it adds.
LEMMA HeldType ==
  ASSUME TypeOK
  PROVE  /\ Held0 \in Seq(Chunks) /\ Held1 \in Seq(Chunks) /\ Total \in Seq(Chunks)
         /\ task = NoFrame => Held0 = acc
         /\ toChild = <<>> => Held1 = Held0 /\ Total = Held0
         /\ Len(toChild) = 1 => Held1 = After(Held0, toChild[1]) /\ Total = Held1
<1>1. /\ task \in Frames /\ acc \in Seq(Chunks) /\ toChild \in Seq(Frames)
      /\ Len(toChild) \in Nat
  BY LenProperties DEF TypeOK
<1>2. Held0 \in Seq(Chunks) /\ (task = NoFrame => Held0 = acc)
  BY <1>1, AfterType DEF Held0
<1>3. toChild # <<>> => toChild[1] \in Frames
  BY <1>1, TailFrames
<1>4. Held1 \in Seq(Chunks)
  BY <1>2, <1>3, AfterType DEF Held1
<1>5. Len(toChild) >= 2 => toChild[2] \in Frames
  BY <1>1, ElementOfSeq
<1>6. ~(Len(toChild) < 2) => Len(toChild) >= 2
  BY <1>1
<1>7. Total \in Seq(Chunks)
  BY <1>4, <1>5, <1>6, AfterType DEF Total
<1>8. toChild = <<>> => Len(toChild) < 2
  BY EmptySeq
<1>9. Len(toChild) = 1 => toChild # <<>>
  BY EmptySeq
<1> QED
  BY <1>2, <1>4, <1>7, <1>8, <1>9 DEF Held1, Total

LEMMA HeldStays ==
  ASSUME UNCHANGED <<acc, task, toChild>>
  PROVE  Held0' = Held0 /\ Held1' = Held1 /\ Total' = Total
BY DEF Held0, Held1, Total

LEMMA HeldSent ==
  ASSUME TypeOK, NEW f \in Frames, toChild = <<>> \/ Len(toChild) = 1,
         toChild' = Append(toChild, f), UNCHANGED <<acc, task>>
  PROVE  /\ Held0' = Held0 /\ Total' = After(Total, f)
         /\ toChild = <<>> => Held1' = Total'
         /\ toChild # <<>> => Held1' = Held1
<1>1. Held0' = Held0
  BY DEF Held0
<1>2. CASE toChild = <<>>
  <2>1. Len(toChild') = 1 /\ toChild'[1] = f /\ toChild' # <<>>
    BY <1>2
  <2>2. Held1' = After(Held0, f) /\ Total' = Held1'
    BY <1>1, <2>1 DEF Held1, Total
  <2> QED
    BY <1>1, <1>2, <2>2, HeldType
<1>3. CASE Len(toChild) = 1
  <2>1. toChild \in Seq(Frames)
    BY DEF TypeOK
  <2>2. toChild # <<>>
    BY <1>3, EmptySeq
  <2>3. /\ Len(toChild') = 2 /\ toChild'[1] = toChild[1] /\ toChild'[2] = f
        /\ toChild' # <<>>
    <3>1. /\ Len(toChild') = Len(toChild) + 1 /\ toChild' # <<>>
          /\ toChild'[1] = toChild[1] /\ toChild'[Len(toChild) + 1] = f
      BY <2>1, <2>2, AppendFrames
    <3>2. Len(toChild) + 1 = 2
      BY <1>3
    <3> QED
      BY <3>1, <3>2
  <2>4. Held1' = Held1
    BY <1>1, <2>2, <2>3 DEF Held1
  <2>5. Total' = After(Held1, f)
    BY <2>3, <2>4 DEF Total
  <2> QED
    BY <1>1, <1>3, <2>2, <2>4, <2>5, HeldType
<1> QED
  BY <1>2, <1>3

LEMMA HeldTaken ==
  ASSUME TypeOK, task = NoFrame, Len(toChild) \in {1, 2},
         task' = toChild[1], toChild' = Tail(toChild), acc' = acc
  PROVE  Held0' = Held1 /\ Total' = Total
<1>1. toChild \in Seq(Frames)
  BY DEF TypeOK
<1>2. toChild # <<>>
  BY EmptySeq
<1>3. Held0' = Held1
  BY <1>2, HeldType DEF Held0, Held1
<1>4. CASE Len(toChild) = 1
  <2>1. toChild' = <<>>
    BY <1>1, <1>2, <1>4, TailFrames
  <2>2. Len(toChild') = 0
    BY <2>1, EmptySeq
  <2>3. Total' = Held0'
    BY <2>1, <2>2 DEF Total, Held1
  <2> QED
    BY <1>3, <1>4, <2>3, HeldType
<1>5. CASE Len(toChild) = 2
  <2>1. toChild' # <<>> /\ Len(toChild') = 1 /\ toChild'[1] = toChild[2]
    BY <1>1, <1>2, <1>5, TailFrames
  <2>2. Total' = After(Held0', toChild[2])
    BY <2>1 DEF Total, Held1
  <2>3. Total = After(Held1, toChild[2])
    BY <1>5 DEF Total
  <2> QED
    BY <1>3, <2>2, <2>3
<1> QED
  BY <1>4, <1>5

LEMMA HeldWorked ==
  ASSUME TypeOK, acc' = Accumulated, task' = NoFrame, toChild' = toChild
  PROVE  Held0' = Held0 /\ Held1' = Held1 /\ Total' = Total /\ acc' = Held0
<1>1. Accumulated = Held0 /\ Held0 \in Seq(Chunks)
  BY AccumulatedType
<1>2. Held0' = After(acc', task')
  BY DEF Held0
<1>3. After(Held0, NoFrame) = Held0
  BY <1>1, NoFrameType, AfterType
<1>4. Held0' = Held0
  BY <1>1, <1>2, <1>3
<1> QED
  BY <1>1, <1>4 DEF Held1, Total

\* A chunk more, waiting or on its way.
LEMMA ChunkAdded ==
  ASSUME NEW s \in Seq(Chunks), NEW t \in Seq(Chunks), NEW c \in Chunks
  PROVE  s \o Append(t, c) = Append(s \o t, c)
<1>1. <<c>> \in Seq(Chunks) /\ s \o t \in Seq(Chunks)
  BY ConcatProperties
<1>2. Append(t, c) = t \o <<c>> /\ Append(s \o t, c) = (s \o t) \o <<c>>
  BY <1>1, AppendIsConcat
<1> QED
  BY <1>1, <1>2, ConcatAssociative

LEMMA OwnGrows ==
  ASSUME TypeOK, NEW s \in Seq(Chunks), NEW c \in Chunks, Own(s),
         pushed' = Append(pushed, c)
  PROVE  Len(s) \in 1..Len(pushed') /\ s = SubSeq(pushed', 1, Len(s))
<1>1. pushed \in Seq(Chunks) /\ <<c>> \in Seq(Chunks)
  BY DEF TypeOK
<1>2. pushed' = pushed \o <<c>>
  BY <1>1, AppendIsConcat
<1>3. Len(s) <= Len(pushed) /\ Len(s) >= 1 /\ Len(s) \in Nat /\ Len(pushed) \in Nat
  BY <1>1, LenProperties DEF Own
<1>4. Len(s) <= Len(pushed') /\ s = SubSeq(pushed', 1, Len(s))
  BY <1>1, <1>2, <1>3, PrefixGrows DEF Own
<1>5. pushed' \in Seq(Chunks) /\ Len(pushed') \in Nat
  BY <1>1, AppendProperties, LenProperties
<1> QED
  BY <1>3, <1>4, <1>5

\* Steps that neither send nor take requests, nor touch the audio.
LEMMA AudioStays ==
  ASSUME TypeOK, IInv,
         UNCHANGED <<toChild, toParent, task, acc, cached, pushed, pending, hasSent,
                     active>>,
         Alive' => Alive, Booted' => Booted,
         Alive /\ active => ((Writing \/ Finishing)' <=> (Writing \/ Finishing))
  PROVE  AudioInv'
<1>1. Held0' = Held0 /\ Held1' = Held1 /\ Total' = Total
  BY HeldStays
<1>2. Accounted'
  BY <1>1 DEF IInv, AudioInv, Accounted, Idles
<1>3. CacheIsPrefix'
  BY DEF IInv, AudioInv, CacheIsPrefix
<1>4. PartialsOwned'
  BY <1>1 DEF IInv, AudioInv, PartialsOwned, Own, PartialAsked, PartialMade, PartialSaid
<1>5. FinalOwned'
  BY DEF IInv, AudioInv, FinalOwned, FinalSaid
<1> QED
  BY <1>2, <1>3, <1>4, <1>5 DEF AudioInv

\* After a kill there is nothing left to be right about.
LEMMA AudioGone ==
  ASSUME toChild' = <<>>, toParent' = <<>>, task' = NoFrame, cached' = <<>>, ~active'
  PROVE  AudioInv'
<1>1. NoFrame.type = "NONE"
  BY NoFrameType
<1>2. ~PartialAsked' /\ ~PartialMade' /\ ~PartialSaid' /\ ~FinalSaid'
  BY <1>1 DEF PartialAsked, PartialMade, PartialSaid, FinalSaid, FirstIs, LastIs
<1> QED
  BY <1>2 DEF AudioInv, Accounted, CacheIsPrefix, PartialsOwned, FinalOwned

\* What arrives leaves the socket; what is behind it was right before.
LEMMA AudioHeard ==
  ASSUME TypeOK, IInv, Booted, toParent # <<>>, toParent' = Tail(toParent),
         UNCHANGED <<toChild, task, acc, cached, pushed, pending, hasSent, active,
                     child>>,
         (Writing \/ Finishing)' <=> (Writing \/ Finishing)
  PROVE  AudioInv'
<1>0. toParent \in Seq(Frames)
  BY DEF TypeOK
<1>1. Held0' = Held0 /\ Held1' = Held1 /\ Total' = Total
  BY HeldStays
<1>2. \/ toParent' = <<>>
      \/ /\ Len(toParent) = 2 /\ Len(toParent') = 1 /\ toParent'[1] = toParent[2]
         /\ toParent[2].type = "FINAL_RESP"
  BY <1>0, TailFrames DEF IInv, WireInv, Wires, InOrder
<1>3. Accounted'
  BY <1>1 DEF IInv, AudioInv, Accounted, Idles, Alive
<1>4. CacheIsPrefix'
  BY DEF IInv, AudioInv, CacheIsPrefix
<1>5. ~PartialSaid'
  BY <1>2 DEF PartialSaid, FirstIs
<1>6. PartialsOwned'
  BY <1>1, <1>5 DEF IInv, AudioInv, PartialsOwned, Own, PartialAsked, PartialMade, Alive
<1>7. FinalOwned'
  BY <1>2 DEF IInv, AudioInv, FinalOwned, FinalSaid, LastIs
<1> QED
  BY <1>3, <1>4, <1>6, <1>7 DEF AudioInv

\* A partial request takes with it all that waits.
LEMMA AudioSent ==
  ASSUME TypeOK, TypeOK', IInv, Booted, Alive, active, ~Writing, ~Finishing, inflight = 0,
         NEW f \in Frames, toChild' = Append(toChild, f), f.type = "PARTIAL_REQ",
         f.pcm = pending', f.flag = ~hasSent,
         hasSent => Total \o pending' = pushed', ~hasSent => pending' = pushed',
         pending' # <<>>,
         UNCHANGED <<toParent, task, acc, cached, child, hasSent>>, Writing'
  PROVE  AudioInv'
<1>1. toChild = <<>> /\ task = NoFrame /\ toParent = <<>>
  BY FreeSlot DEF Idles
<1>2. Total' = After(Total, f) /\ Held1' = Total'
  BY <1>1, HeldSent
<1>3. Total \in Seq(Chunks) /\ pending' \in Seq(Chunks) /\ pushed' \in Seq(Chunks)
  BY HeldType DEF TypeOK
<1>4. Total' = pushed'
  BY <1>2, <1>3, AfterType
<1>5. Accounted'
  BY <1>4 DEF Accounted
<1>6. CacheIsPrefix'
  BY DEF IInv, AudioInv, CacheIsPrefix
<1>7. pushed' # <<>>
  <2>1. ASSUME hasSent, pushed' = <<>> PROVE FALSE
    <3>1. Len(Total \o pending') = Len(Total) + Len(pending')
      BY <1>3, ConcatProperties
    <3>2. Len(Total) \in Nat /\ Len(pending') \in Nat /\ Len(pending') # 0
      BY <1>3, EmptySeq, LenProperties
    <3>3. Len(Total \o pending') = 0
      BY <2>1, EmptySeq
    <3> QED
      BY ONLY <3>1, <3>2, <3>3
  <2> QED
    BY <2>1
<1>8. Own(Total)'
  <2>1. Len(pushed') \in Nat /\ Len(pushed') # 0
    BY <1>3, <1>7, EmptySeq, LenProperties
  <2>2. pushed' = SubSeq(pushed', 1, Len(pushed'))
    BY <1>3, FullPrefix
  <2>3. Len(pushed') \in 1..Len(pushed')
    BY <2>1
  <2> QED
    BY <1>4, <2>2, <2>3 DEF Own
<1>9. ~PartialMade' /\ ~PartialSaid' /\ ~FinalSaid'
  BY <1>1, NoFrameType DEF PartialMade, PartialSaid, FirstIs, FinalSaid, LastIs
<1>10. PartialsOwned'
  BY <1>2, <1>8, <1>9 DEF PartialsOwned
<1>11. FinalOwned'
  BY <1>9 DEF FinalOwned
<1> QED
  BY <1>5, <1>6, <1>10, <1>11 DEF AudioInv

\* What finalize sends: all that waits.
LEMMA FinalSendsFrame ==
  ASSUME TypeOK, IInv, FinalSends
  PROVE  \E f \in Frames : /\ toChild' = Append(toChild, f) /\ f.type = "FINAL_REQ"
                           /\ f.pcm = pending /\ f.flag = ~hasSent
<1>1. PICK big \in {FALSE, BigRequests /\ pending # <<>>} :
        toChild' = Append(toChild,
                     Frame("FINAL_REQ", pending, Len(pushed), ~hasSent, 0, big))
  BY DEF FinalSends
<1>2. "FINAL_REQ" \in FrameTypes /\ 0 \in 0..Words /\ Len(pushed) \in 0..MaxChunks
  BY PushedLen DEF FrameTypes
<1>3. big \in BOOLEAN
  BY Zenon, <1>1
<1> DEFINE first == ~hasSent
           f == Frame("FINAL_REQ", pending, Len(pushed), first, 0, big)
<1>4. first \in BOOLEAN
  BY Zenon
<1>5. toChild' = Append(toChild, f)
  BY <1>1
<1> HIDE DEF first
<1>6. pending \in Seq(Chunks)
  BY DEF TypeOK
<1>7. f \in Frames /\ f.type = "FINAL_REQ" /\ f.pcm = pending /\ f.flag = first
  BY <1>2, <1>3, <1>4, <1>6, FrameType
<1> HIDE DEF f
<1>8. \E g \in Frames : /\ toChild' = Append(toChild, g)
                        /\ g.type = "FINAL_REQ" /\ g.pcm = pending /\ g.flag = first
  BY <1>5, <1>7
<1> QED
  BY <1>8 DEF first

\* The alignment kept for a FINAL is of a beginning of what is accumulated.
LEMMA CacheGrows ==
  ASSUME TypeOK, CacheIsPrefix, acc' = Accumulated,
         cached' = IF task.flag THEN <<>> ELSE cached
  PROVE  CacheIsPrefix'
<1>1. task \in Frames /\ acc \in Seq(Chunks)
  BY DEF TypeOK
<1>2. task.pcm \in Seq(Chunks)
  BY <1>1, FrameFields
<1>3. CASE ~task.flag /\ cached # <<>>
  <2>1. cached[1] \in Seq(Chunks) /\ cached' = cached
    BY <1>3 DEF TypeOK
  <2>2. acc' = acc \o task.pcm
    BY <1>3 DEF Accumulated
  <2>3. Len(cached[1]) <= Len(acc) /\ cached[1] = SubSeq(acc, 1, Len(cached[1]))
    BY <1>3 DEF CacheIsPrefix
  <2>4. /\ Len(cached[1]) <= Len(acc \o task.pcm)
        /\ cached[1] = SubSeq(acc \o task.pcm, 1, Len(cached[1]))
    BY <1>1, <1>2, <2>1, <2>3, PrefixGrows
  <2> QED
    BY <2>1, <2>2, <2>4 DEF CacheIsPrefix
<1>4. CASE task.flag \/ cached = <<>>
  BY <1>4 DEF CacheIsPrefix
<1> QED
  BY <1>3, <1>4

\* What the aligner has, will have and has not been sent stays the audio of
\* the stream.
LEMMA AudioNext == TypeOK /\ TypeOK' /\ IInv /\ [Next]_vars => AudioInv'
<1> SUFFICES ASSUME TypeOK /\ TypeOK' /\ IInv, [Next]_vars PROVE AudioInv'
  OBVIOUS
<1> USE DEF IInv, ControlInv, AudioInv, Threads, Alive, Booted, Writing,
   Finishing
<1>1. CASE TakeMutex
  BY <1>1, AudioStays DEF TakeMutex, session, readerVars, childVars
<1>2. CASE Shutdown
  BY <1>2, AudioGone DEF Shutdown, KillAligner, ForgetStream, ChildState
<1>3. CASE Push
  <2> DEFINE c == <<stream, Len(pushed) + 1>>
  <2>1. c \in Chunks
    BY <1>3, NextChunk DEF Push
  <2>2. pushed \in Seq(Chunks) /\ pending \in Seq(Chunks) /\ Total \in Seq(Chunks)
    BY HeldType DEF TypeOK
  <2>3. /\ pushed' = Append(pushed, c) /\ pending' = Append(pending, c)
        /\ UNCHANGED <<hasSent, active, toParent, child, task, acc, cached, reader,
                       inflight>>
        /\ pc = "synth" /\ io = "free"
    BY <1>3 DEF Push, readerVars, childVars
  <2>4. active /\ ~Writing /\ ~Finishing /\ Booted
    BY <2>3 DEF Streams, Streaming
  <2> HIDE DEF c
  <2>5. Alive /\ hasSent => Total \o pending' = pushed'
    BY <2>1, <2>2, <2>3, <2>4, ChunkAdded DEF Accounted
  <2>6. Alive /\ ~hasSent => pending' = pushed' /\ Idles
    BY <2>3, <2>4 DEF Accounted
  <2>7. ASSUME UNCHANGED <<pc, toChild>> PROVE AudioInv'
    <3>1. Held0' = Held0 /\ Held1' = Held1 /\ Total' = Total
      BY <2>3, <2>7, HeldStays
    <3>2. ~Writing' /\ ~Finishing'
      BY <2>3, <2>4, <2>7
    <3>3. Accounted'
      BY <2>3, <2>5, <2>6, <2>7, <3>1, <3>2 DEF Accounted, Idles
    <3>4. CacheIsPrefix'
      BY <2>3 DEF CacheIsPrefix
    <3>5. PartialsOwned'
      <4>1. \A s \in Seq(Chunks) :
              Own(s) => Len(s) \in 1..Len(pushed') /\ s = SubSeq(pushed', 1, Len(s))
        BY <2>1, <2>3, OwnGrows
      <4>2. PartialSaid => toParent[1].pcm \in Seq(Chunks)
        BY TailFrames, FrameFields DEF PartialSaid, FirstIs, TypeOK
      <4>3. Held0 \in Seq(Chunks) /\ Held1 \in Seq(Chunks)
        BY HeldType
      <4>4. /\ PartialAsked' = PartialAsked /\ PartialMade' = PartialMade
            /\ PartialSaid' = PartialSaid
        BY <2>3, <2>7 DEF PartialAsked, PartialMade, PartialSaid
      <4>5. /\ Alive /\ PartialAsked => Own(Held1)
            /\ Alive /\ PartialMade => Own(Held0)
            /\ Alive /\ PartialSaid /\ toParent[1].flag => Own(toParent[1].pcm)
        BY <2>4 DEF PartialsOwned
      <4>6. /\ Alive /\ PartialAsked =>
                 Len(Held1) \in 1..Len(pushed') /\ Held1 = SubSeq(pushed', 1, Len(Held1))
            /\ Alive /\ PartialMade =>
                 Len(Held0) \in 1..Len(pushed') /\ Held0 = SubSeq(pushed', 1, Len(Held0))
            /\ Alive /\ PartialSaid /\ toParent[1].flag =>
                 /\ Len(toParent[1].pcm) \in 1..Len(pushed')
                 /\ toParent[1].pcm = SubSeq(pushed', 1, Len(toParent[1].pcm))
        BY <4>1, <4>2, <4>3, <4>5
      <4> QED
        BY <2>3, <3>1, <4>4, <4>6 DEF PartialsOwned, Own, Alive
    <3>6. FinalOwned'
      BY <2>3, <2>4 DEF FinalOwned, FinalSaid, WireInv, OneFinal
    <3> QED
      BY <3>3, <3>4, <3>5, <3>6 DEF AudioInv
  <2>8. ASSUME MaySend(pending'), SendPartial(pending'), pc' = "write" PROVE AudioInv'
    <3>1. PICK f \in Frames : /\ toChild' = Append(toChild, f) /\ f.type = "PARTIAL_REQ"
                              /\ f.pcm = pending' /\ f.flag = ~hasSent
      BY <1>3, <2>8, PushSendsFrame
    <3>2. Alive /\ inflight = 0 /\ pending' # <<>>
      BY <2>8, TypeParts DEF MaySend, ThreadType
    <3>3. Writing'
      BY <2>8
    <3> QED
      BY <2>3, <2>4, <2>5, <2>6, <3>1, <3>2, <3>3, AudioSent
  <2> QED
    BY <1>3, <2>7, <2>8 DEF Push
<1>4. CASE Cancel
  BY <1>4, AudioStays DEF Cancel, session, readerVars, childVars
<1>5. CASE ChildCrashes
  <2>1. /\ ~Alive' /\ cached' = <<>> /\ UNCHANGED pushed
        /\ \/ toParent' = toParent
           \/ toParent # <<>> /\ toParent' = SubSeq(toParent, 1, Len(toParent) - 1)
    BY <1>5 DEF ChildCrashes, ChildState, parentVars, request
  <2>2. \/ toParent = <<>>
        \/ Len(toParent) = 1
        \/ Len(toParent) = 2 /\ toParent[1].type = "PARTIAL_RESP"
    <3>1. CASE Booted
      BY <3>1 DEF WireInv, Wires, InOrder
    <3>2. CASE pc = "hello"
      BY <1>5, <3>2 DEF ChildCrashes, WireInv, Booting
    <3>3. CASE pc = "loading"
      BY <3>3 DEF WireInv, Booting
    <3> QED
      BY <3>1, <3>2, <3>3
  <2>3. \/ toParent' = toParent
        \/ toParent' = <<>>
        \/ Len(toParent') = 1 /\ toParent'[1].type = "PARTIAL_RESP"
    <3>1. toParent \in Seq(Frames)
      BY DEF TypeOK
    <3>2. ASSUME toParent # <<>>, toParent' = SubSeq(toParent, 1, Len(toParent) - 1)
          PROVE  \/ toParent' = <<>>
                 \/ Len(toParent') = 1 /\ toParent'[1].type = "PARTIAL_RESP"
      BY <2>2, <3>1, <3>2, CutFrames
    <3> QED
      BY <2>1, <3>2
  <2>4. FinalOwned'
    BY <2>1, <2>3 DEF FinalOwned, FinalSaid, LastIs
  <2> QED
    BY <2>1, <2>4 DEF AudioInv, Accounted, CacheIsPrefix, PartialsOwned
<1>6. CASE EnsureFast
  BY <1>6, AudioStays DEF EnsureFast, Goto, AfterEnsure, session, readerVars,
     childVars
<1>7. CASE EnsureSpawn
  BY <1>7, AudioGone DEF EnsureSpawn, ForgetStream, ChildState
<1>8. CASE EnsureFails
  BY <1>8, AudioGone DEF EnsureFails, KillAligner, ForgetStream, ChildState
<1>9. CASE RecvHello
  <2>1. /\ ~active' /\ UNCHANGED <<acc, cached, task>> /\ pc' = "loading" /\ pc = "hello"
        /\ toParent # <<>> /\ Alive /\ toParent' = Tail(toParent)
    BY <1>9 DEF RecvHello, Goto, session, childVars, Streams
  <2>2. Len(toParent) = 1
    BY <2>1 DEF WireInv, Booting
  <2>3. toParent' = <<>>
    BY <2>1, <2>2, TailFrames DEF TypeOK
  <2>4. ~FinalSaid'
    BY <2>3 DEF FinalSaid, LastIs
  <2> QED
    BY <2>1, <2>4 DEF AudioInv, Accounted, CacheIsPrefix, PartialsOwned, FinalOwned
<1>10. CASE RecvLoadResp
  <2>1. /\ ~active' /\ UNCHANGED <<acc, cached, task, toChild, child>> /\ pc = "loading"
        /\ toParent # <<>> /\ toParent' = Tail(toParent)
    BY <1>10 DEF RecvLoadResp, childVars, Streams
  <2>2. Len(toParent) = 1 /\ toChild = <<>> /\ child # "work"
    BY <2>1 DEF WireInv, Booting, Process
  <2>3. toParent' = <<>> /\ toChild' = <<>> /\ task' = NoFrame
    BY <2>1, <2>2, TailFrames DEF TypeOK, Process
  <2>4. ~PartialAsked' /\ ~PartialMade' /\ ~PartialSaid' /\ ~FinalSaid'
    BY <2>3, NoFrameType DEF PartialAsked, PartialMade, PartialSaid, FinalSaid, FirstIs,
       LastIs
  <2> QED
    BY <2>1, <2>4 DEF AudioInv, Accounted, CacheIsPrefix, PartialsOwned, FinalOwned
<1>11. CASE Begin
  <2>1. /\ UNCHANGED <<toChild, toParent, task, acc, cached, child>> /\ ~active
        /\ ~hasSent' /\ pending' = <<>> /\ pushed' = <<>> /\ pc = "begin"
        /\ pc' = "synth" /\ reader' = "poll"
    BY <1>11 DEF Begin, childVars
  <2>2. Booted /\ ~Writing /\ ~Finishing /\ ~Writing' /\ ~Finishing'
    BY <2>1
  <2>3. Alive => Idles
    BY <2>1, <2>2, FreeSlot
  <2>4. Accounted'
    BY <2>1, <2>2, <2>3 DEF Accounted, Idles
  <2>5. CacheIsPrefix'
    BY <2>1 DEF CacheIsPrefix
  <2>6. Alive => ~PartialAsked /\ ~PartialMade /\ ~PartialSaid
    BY <2>1, <2>2 DEF WireInv, OnePartial
  <2>7. PartialsOwned'
    BY <2>1, <2>6 DEF PartialsOwned, PartialAsked, PartialMade, PartialSaid, Alive
  <2>8. FinalOwned'
    BY <2>1, <2>2 DEF FinalOwned, FinalSaid, WireInv, OneFinal
  <2> QED
    BY <2>4, <2>5, <2>7, <2>8 DEF AudioInv
<1>12. CASE BeginFails
  BY <1>12, AudioStays DEF BeginFails, Goto, session, readerVars, childVars
<1>13. CASE PushReturns
  <2>1. UNCHANGED <<toChild, toParent, task, acc, cached, pushed, active, child>>
    BY <1>13 DEF PushReturns, Goto, PartialSent, session, request, childVars
  <2>2. ASSUME PartialSent PROVE AudioInv'
    <3>1. Held0' = Held0 /\ Held1' = Held1 /\ Total' = Total
      BY <2>1, HeldStays
    <3>2. Writing /\ hasSent' /\ pending' = <<>>
      BY <1>13, <2>2 DEF PushReturns, PartialSent
    <3>3. Total \o <<>> = Total
      BY HeldType, ConcatEmptySeq
    <3>4. Accounted'
      BY <2>1, <3>1, <3>2, <3>3 DEF Accounted
    <3>5. CacheIsPrefix'
      BY <2>1 DEF CacheIsPrefix
    <3>6. PartialsOwned'
      BY <1>13, <2>1, <3>1 DEF PushReturns, Goto, request, PartialsOwned, Own, PartialAsked, PartialMade,
         PartialSaid
    <3>7. FinalOwned'
      BY <2>1 DEF FinalOwned, FinalSaid
    <3> QED
      BY <3>4, <3>5, <3>6, <3>7 DEF AudioInv
  <2>3. ASSUME ~Alive, UNCHANGED session PROVE AudioInv'
    BY <1>13, <2>1, <2>3, AudioStays DEF PushReturns, Goto, request, session
  <2> QED
    BY <1>13, <2>2, <2>3 DEF PushReturns
<1>14. CASE SynthEnds
  BY <1>14, AudioStays DEF SynthEnds, session, readerVars, childVars
<1>15. CASE Joined
  BY <1>15, AudioStays DEF Joined, Goto, session, readerVars, childVars
<1>16. CASE FinalDrains
  BY <1>16, AudioHeard DEF FinalDrains, session, request, readerVars, childVars
<1>17. CASE FinalSends
  <2>1. PICK f \in Frames : /\ toChild' = Append(toChild, f) /\ f.type = "FINAL_REQ"
                            /\ f.pcm = pending /\ f.flag = ~hasSent
    BY <1>17, FinalSendsFrame
  <2>2. /\ UNCHANGED <<toParent, task, acc, cached, child, pushed, hasSent>>
        /\ pc = "final" /\ pc' = "finalwrite" /\ toParent = <<>> /\ Alive
    BY <1>17 DEF FinalSends, Goto, childVars
  <2>3. active /\ ~Writing /\ ~Finishing
    BY <2>2 DEF Streams, Streaming
  <2>4. \/ toChild = <<>>
        \/ toChild # <<>> /\ Len(toChild) = 1 /\ toChild[1].type = "PARTIAL_REQ"
    BY <2>2, <2>3 DEF WireInv, Wires, OneFinal, FinalAsked, LastIs, InOrder
  <2>5. /\ Held0' = Held0 /\ Total' = After(Total, f)
        /\ toChild # <<>> => Held1' = Held1
    BY <2>1, <2>2, <2>4, HeldSent
  <2>6. (hasSent => Total \o pending = pushed) /\ (~hasSent => pending = pushed)
    BY <2>2, <2>3 DEF Accounted
  <2>7. Total' = pushed'
    BY <2>1, <2>2, <2>5, <2>6, AfterType, HeldType
  <2>8. Accounted'
    BY <2>2, <2>7 DEF Accounted
  <2>9. CacheIsPrefix'
    BY <2>2 DEF CacheIsPrefix
  <2>10. PartialAsked' => PartialAsked /\ toChild # <<>>
    <3>1. toChild \in Seq(Frames)
      BY DEF TypeOK
    <3>2. /\ toChild # <<>> => toChild'[1] = toChild[1]
          /\ toChild = <<>> => toChild'[1] = f
      BY <2>1, <3>1, AppendFrames
    <3> QED
      BY <2>1, <3>2 DEF PartialAsked, FirstIs
  <2>11. PartialsOwned'
    BY <2>2, <2>5, <2>10 DEF PartialsOwned, Own, PartialMade, PartialSaid
  <2>12. FinalOwned'
    BY <2>2 DEF FinalOwned, FinalSaid
  <2> QED
    BY <2>8, <2>9, <2>11, <2>12 DEF AudioInv
<1>18. CASE FinalWriteReturns
  BY <1>18, AudioStays DEF FinalWriteReturns, Goto, session, readerVars,
     childVars
<1>19. CASE FinalSkips
  BY <1>19, AudioHeard DEF FinalSkips, session, request, readerVars, childVars
<1>20. CASE FinalRecv
  <2>1. /\ ~active' /\ UNCHANGED <<acc, cached, task, toChild, child>> /\ toParent # <<>>
        /\ pc = "finalwait" /\ Head(toParent).type = "FINAL_RESP"
        /\ toParent' = Tail(toParent)
    BY <1>20 DEF FinalRecv, FinalExit, ForgetStream, childVars
  <2>2. Head(toParent) = toParent[1]
    BY <2>1, TailFrames DEF TypeOK
  <2>3. Len(toParent) = 1
    BY <2>1, <2>2 DEF WireInv, Wires, InOrder
  <2>4. FinalSaid
    BY <2>1, <2>2, <2>3 DEF FinalSaid, LastIs
  <2>5. toChild' = <<>> /\ toParent' = <<>> /\ task' = NoFrame
    BY <2>1, <2>3, <2>4, TailFrames DEF WireInv, OneFinal, TypeOK
  <2>6. ~PartialAsked' /\ ~PartialMade' /\ ~PartialSaid' /\ ~FinalSaid'
    BY <2>5, NoFrameType DEF PartialAsked, PartialMade, PartialSaid, FinalSaid, FirstIs,
       LastIs
  <2> QED
    BY <2>1, <2>6 DEF AudioInv, Accounted, CacheIsPrefix, PartialsOwned, FinalOwned
<1>21. CASE FinalFails
  <2>1. ~active' /\ UNCHANGED <<acc, cached, child, toParent>>
    BY <1>21 DEF FinalFails, FinalExit, ForgetStream, childVars
  <2>2. ~Alive' /\ ~FinalSaid'
    BY <1>21, <2>1, FinalLost DEF FinalSaid
  <2> QED
    BY <2>1, <2>2 DEF AudioInv, Accounted, CacheIsPrefix, PartialsOwned, FinalOwned
<1>22. CASE ReaderEnters
  BY <1>22, AudioStays DEF ReaderEnters, ReaderStep, session, request, childVars
<1>23. CASE ReaderStops
  BY <1>23, AudioStays DEF ReaderStops, ReaderStep, session, request, childVars
<1>24. CASE ReaderRecv
  <2>1. /\ UNCHANGED <<toChild, task, acc, cached, pushed, pending, hasSent, active,
                       child, pc>>
        /\ reader = "drain" /\ reader' \in {"drain", "callback"}
        /\ toParent # <<>> /\ toParent' = Tail(toParent)
    BY <1>24 DEF ReaderRecv, ReaderStep, request, childVars
  <2>2. Booted
    BY <2>1
  <2> QED
    BY <2>1, <2>2, AudioHeard
<1>25. CASE ReaderDelivers
  BY <1>25, AudioStays DEF ReaderDelivers, session, request, childVars
<1>26. CASE ReaderFlushes
  <2>1. /\ UNCHANGED <<pushed, pending, hasSent, active, inflight, toParent, child,
                       task, acc, cached, pc>>
        /\ reader = "drain" /\ io = "reader"
    BY <1>26 DEF ReaderFlushes, ReaderStep, session, request, childVars
  <2>2. active /\ ~Writing /\ ~Finishing /\ Booted
    BY <2>1 DEF Streams, Streaming
  <2>3. ASSUME UNCHANGED toChild, reader' = "poll" PROVE AudioInv'
    BY <2>1, <2>2, <2>3, AudioStays
  <2>4. ASSUME MaySend(pending), SendPartial(pending), reader' = "write"
        PROVE  AudioInv'
    <3>1. PICK f \in Frames : /\ toChild' = Append(toChild, f) /\ f.type = "PARTIAL_REQ"
                              /\ f.pcm = pending /\ f.flag = ~hasSent
      BY <1>26, <2>4, FlushSendsFrame
    <3>2. Alive /\ inflight = 0 /\ pending # <<>>
      BY <2>4, TypeParts DEF MaySend, ThreadType
    <3>3. (hasSent => Total \o pending = pushed) /\ (~hasSent => pending = pushed)
      BY <2>2, <3>2 DEF Accounted
    <3>4. Writing'
      BY <2>4
    <3> QED
      BY <2>1, <2>2, <3>1, <3>2, <3>3, <3>4, AudioSent
  <2> QED
    BY <1>26, <2>3, <2>4 DEF ReaderFlushes, ReaderStep
<1>27. CASE ReaderWriteReturns
  <2>1. UNCHANGED <<toChild, toParent, task, acc, cached, pushed, active, child>>
    BY <1>27 DEF ReaderWriteReturns, ReaderStep, PartialSent, session, request, childVars
  <2>2. ASSUME PartialSent PROVE AudioInv'
    <3>1. Held0' = Held0 /\ Held1' = Held1 /\ Total' = Total
      BY <2>1, HeldStays
    <3>2. Writing /\ hasSent' /\ pending' = <<>>
      BY <1>27, <2>2 DEF ReaderWriteReturns, PartialSent
    <3>3. Total \o <<>> = Total
      BY HeldType, ConcatEmptySeq
    <3>4. Accounted'
      BY <2>1, <3>1, <3>2, <3>3 DEF Accounted
    <3>5. CacheIsPrefix'
      BY <2>1 DEF CacheIsPrefix
    <3>6. PartialsOwned'
      BY <1>27, <2>1, <3>1 DEF ReaderWriteReturns, ReaderStep, request, PartialsOwned, Own, PartialAsked, PartialMade,
         PartialSaid
    <3>7. FinalOwned'
      BY <2>1 DEF FinalOwned, FinalSaid
    <3> QED
      BY <3>4, <3>5, <3>6, <3>7 DEF AudioInv
  <2>3. ASSUME ~Alive, UNCHANGED session PROVE AudioInv'
    BY <1>27, <2>1, <2>3, AudioStays DEF ReaderWriteReturns, ReaderStep, request, session
  <2> QED
    BY <1>27, <2>2, <2>3 DEF ReaderWriteReturns
<1>28. CASE ChildHello
  <2>1. /\ pc = "hello" /\ UNCHANGED <<pc, acc, cached, active>>
        /\ toParent = <<>>
    BY <1>28 DEF ChildHello, Process, WireInv, Booting, parentVars, request, session
  <2> DEFINE f == Frame("HELLO", <<>>, 0, TRUE, 0, FALSE)
  <2>2. f.type = "HELLO" /\ toParent' = Append(toParent, f)
    BY <1>28 DEF ChildHello, Frame
  <2> HIDE DEF f
  <2>3. Len(toParent') = 1 /\ toParent'[1] = f
    BY <2>1, <2>2
  <2>4. ~FinalSaid'
    BY <2>2, <2>3 DEF FinalSaid, LastIs
  <2>5. ~active'
    BY <2>1 DEF Streams
  <2> QED
    BY <2>1, <2>4, <2>5 DEF AudioInv, Accounted, CacheIsPrefix, PartialsOwned, FinalOwned
<1>29. CASE ChildRecv
  <2>1. /\ toChild # <<>> /\ toChild' = Tail(toChild) /\ task' = Head(toChild)
        /\ child = "recv" /\ child' = "work"
        /\ UNCHANGED <<toParent, acc, cached, pc, reader, pushed, pending, hasSent,
                       active>>
    BY <1>29 DEF ChildRecv, parentVars, request, session, readerVars
  <2>2. task' = toChild[1] /\ task = NoFrame
    BY <2>1, TailFrames DEF TypeOK, Process
  <2>3. Len(toChild) \in {1, 2}
    BY <2>1 DEF WireInv, Booting, Wires, InOrder
  <2>4. Held0' = Held1 /\ Total' = Total
    BY <2>1, <2>2, <2>3, HeldTaken
  <2>5. Accounted'
    BY <2>1, <2>4 DEF Accounted, Idles
  <2>6. CacheIsPrefix'
    BY <2>1 DEF CacheIsPrefix
  <2>7. Booted => ~PartialAsked'
    <3>1. /\ Len(toChild) = 1 => toChild' = <<>>
          /\ Len(toChild) = 2 => toChild'[1] = toChild[2]
      BY <2>1, TailFrames DEF TypeOK
    <3>2. Booted /\ Len(toChild) = 2 => toChild[2].type = "FINAL_REQ"
      BY <2>1 DEF WireInv, Wires, InOrder
    <3> QED
      BY <2>3, <3>1, <3>2 DEF PartialAsked, FirstIs
  <2>8. PartialMade' => PartialAsked
    BY <2>1, <2>2 DEF PartialMade, PartialAsked, FirstIs
  <2>9. PartialsOwned'
    BY <2>1, <2>4, <2>7, <2>8 DEF PartialsOwned, Own, PartialSaid
  <2>10. FinalOwned'
    BY <2>1 DEF FinalOwned, FinalSaid
  <2> QED
    BY <2>5, <2>6, <2>9, <2>10 DEF AudioInv
<1>30. CASE ChildLoads
  <2>1. /\ pc = "loading" /\ UNCHANGED <<pc, acc, cached, active>>
        /\ toParent = <<>>
    BY <1>30 DEF ChildLoads, WireInv, Booting, Wires, parentVars, request, session
  <2>2. PICK ok \in BOOLEAN :
          toParent' = Append(toParent, Frame("LOAD_RESP", <<>>, 0, ok, 0, FALSE))
    BY <1>30 DEF ChildLoads
  <2> DEFINE f == Frame("LOAD_RESP", <<>>, 0, ok, 0, FALSE)
  <2>3. f.type = "LOAD_RESP" /\ toParent' = Append(toParent, f)
    BY <2>2 DEF Frame
  <2> HIDE DEF f
  <2>4. Len(toParent') = 1 /\ toParent'[1] = f
    BY <2>1, <2>3
  <2>5. ~FinalSaid'
    BY <2>3, <2>4 DEF FinalSaid, LastIs
  <2>6. ~active'
    BY <2>1 DEF Streams
  <2> QED
    BY <2>1, <2>5, <2>6 DEF AudioInv, Accounted, CacheIsPrefix, PartialsOwned, FinalOwned
<1>31. CASE ChildAlignsPartial
  <2>1. /\ child = "work" /\ task.type = "PARTIAL_REQ" /\ acc' = Accumulated
        /\ UNCHANGED <<toChild, pc, reader, pushed, pending, hasSent, active>>
    BY <1>31 DEF ChildAlignsPartial, parentVars, request, session, readerVars
  <2>2. Booted /\ toParent = <<>> /\ ~PartialAsked
    BY <2>1 DEF WireInv, Booting, OnePartial, PartialMade
  <2>3. task' = NoFrame /\ task # NoFrame
    BY <1>31, <2>1, PartialReply, NoFrameType
  <2>4. PICK f \in Frames :
          /\ toParent' = Append(toParent, f) /\ f.type = "PARTIAL_RESP"
          /\ \/ f.flag /\ f.pcm = Accumulated /\ cached' = <<Accumulated, task.seen>>
             \/ ~f.flag /\ cached' = IF task.flag THEN <<>> ELSE cached
    BY <1>31, PartialReply
  <2>5. Held0' = Held0 /\ Held1' = Held1 /\ Total' = Total /\ acc' = Held0
    BY <2>1, <2>3, HeldWorked
  <2>6. Accounted'
    BY <2>1, <2>3, <2>5 DEF Accounted, Idles
  <2>7. CacheIsPrefix'
    <3>1. ASSUME cached' = <<Accumulated, task.seen>> PROVE CacheIsPrefix'
      <4>1. acc' \in Seq(Chunks) /\ cached'[1] = acc'
        BY <2>1, <3>1, AccumulatedType
      <4>2. Len(acc') <= Len(acc') /\ acc' = SubSeq(acc', 1, Len(acc'))
        BY <4>1, FullPrefix
      <4> QED
        BY <4>1, <4>2 DEF CacheIsPrefix
    <3>2. ASSUME cached' = IF task.flag THEN <<>> ELSE cached PROVE CacheIsPrefix'
      BY <2>1, <3>2, CacheGrows
    <3> QED
      BY <2>4, <3>1, <3>2
  <2>8. toParent' # <<>> /\ Len(toParent') = 1 /\ toParent'[1] = f
    BY <2>2, <2>4
  <2>9. ~PartialAsked' /\ ~PartialMade' /\ (toParent'[1].flag => Own(toParent'[1].pcm))
    <3>1. ~PartialAsked' /\ ~PartialMade'
      BY <2>1, <2>2, <2>3, NoFrameType DEF PartialAsked, PartialMade
    <3>2. Own(Held0)
      BY <2>1, <2>2 DEF PartialsOwned, PartialMade
    <3>3. f.flag => f.pcm = Held0
      BY <2>4, AccumulatedType
    <3> QED
      BY <2>8, <3>1, <3>2, <3>3
  <2>10. PartialsOwned'
    BY <2>1, <2>9 DEF PartialsOwned, Own
  <2>11. FinalOwned'
    BY <2>4, <2>8 DEF FinalOwned, FinalSaid, LastIs
  <2> QED
    BY <2>6, <2>7, <2>10, <2>11 DEF AudioInv
<1>32. CASE ChildAlignsFinal
  <2>1. /\ child = "work" /\ task.type = "FINAL_REQ" /\ acc' = Accumulated
        /\ UNCHANGED <<toChild, pc, reader, pushed, pending, hasSent, active>>
        /\ cached' = IF task.flag THEN <<>> ELSE cached
    BY <1>32 DEF ChildAlignsFinal, parentVars, request, session, readerVars
  <2>2. FinalMade /\ Finishing /\ toChild = <<>> /\ ~FinalSaid
    BY <2>1, NoFrameType DEF WireInv, OneFinal, FinalMade
  <2>3. task' = NoFrame /\ task # NoFrame
    BY <1>32, <2>1, FinalReply, NoFrameType
  <2>4. PICK f \in Frames :
          /\ toParent' = Append(toParent, f) /\ f.type = "FINAL_RESP"
          /\ f.flag => f.pcm = Accumulated \/ (Reusable /\ f.pcm = cached[1])
    BY <1>32, FinalReply
  <2>5. Held0' = Held0 /\ Held1' = Held1 /\ Total' = Total /\ acc' = Held0
    BY <2>1, <2>3, HeldWorked
  <2>6. Accounted'
    BY <2>1, <2>3, <2>5 DEF Accounted, Idles
  <2>7. CacheIsPrefix'
    BY <2>1, CacheGrows
  <2>8. ~PartialAsked' /\ ~PartialMade'
    BY <2>1, <2>2, <2>3, NoFrameType DEF PartialAsked, PartialMade, FirstIs
  <2>9. Booted
    BY <2>2
  <2>10. /\ toParent' # <<>> /\ toParent'[Len(toParent')] = f
         /\ toParent = <<>> => toParent'[1] = f
         /\ toParent # <<>> => toParent'[1] = toParent[1]
    <3>1. toParent \in Seq(Frames)
      BY DEF TypeOK
    <3>2. /\ toParent' # <<>> /\ Len(toParent') = Len(toParent) + 1
          /\ toParent'[Len(toParent) + 1] = f
          /\ toParent # <<>> => toParent'[1] = toParent[1]
          /\ toParent = <<>> => toParent'[1] = f
      BY <2>4, <3>1, AppendFrames
    <3> QED
      BY <3>2
  <2>11. PartialsOwned'
    BY <2>1, <2>2, <2>4, <2>8, <2>10 DEF PartialsOwned, Own, PartialSaid, FirstIs
  <2>12. Accumulated = pushed
    <3>1. active
      BY <2>2 DEF Streams, Streaming
    <3>2. Total = pushed
      BY <2>1, <2>2, <3>1 DEF Accounted
    <3> QED
      BY <2>2, <3>2, HeldType, AccumulatedType
  <2>13. ASSUME Reusable PROVE cached[1] = Accumulated
    <3>1. /\ ~task.flag /\ task.pcm = <<>> /\ cached # <<>>
          /\ Len(cached[1]) = Len(acc)
      BY <2>13 DEF Reusable
    <3>2. acc \in Seq(Chunks)
      BY DEF TypeOK
    <3>3. cached[1] = acc
      BY <3>1, <3>2, FullPrefix DEF CacheIsPrefix
    <3>4. acc \o <<>> = acc
      BY <3>2, ConcatEmptySeq
    <3> QED
      BY <3>1, <3>3, <3>4 DEF Accumulated
  <2>14. FinalOwned'
    BY <2>1, <2>4, <2>10, <2>12, <2>13 DEF FinalOwned
  <2> QED
    BY <2>6, <2>7, <2>11, <2>14 DEF AudioInv
<1>33. CASE ChildWritten
  BY <1>33, AudioStays DEF ChildWritten, parentVars, session, request,
     readerVars
<1>34. CASE UNCHANGED vars
  BY <1>34, AudioStays DEF vars, parentVars, session, request, readerVars, childVars
<1> QED
  BY <1>1, <1>2, <1>3, <1>4, <1>5, <1>6, <1>7, <1>8, <1>9, <1>10, <1>11, <1>12,
     <1>13, <1>14, <1>15, <1>16, <1>17, <1>18, <1>19, <1>20, <1>21, <1>22,
     <1>23, <1>24, <1>25, <1>26, <1>27, <1>28, <1>29, <1>30, <1>31, <1>32,
     <1>33, <1>34 DEF Next, Environment, Handler, PartialReader, Aligner

-----------------------------------------------------------------------------
(* What the client has been shown.                                         *)

\* Steps that neither send nor take anything, nor show anything.
LEMMA ShownStays ==
  ASSUME IInv, UNCHANGED <<toChild, toParent, task, maxEmitted, heard, shown>>,
         Alive' => Alive, reader = "callback" <=> reader' = "callback",
         reader' # "off" => reader # "off",
         Alive' /\ reader' # "off" /\ ~hasSent' => ~hasSent /\ (~Writing' => ~Writing)
  PROVE  ShownInv'
<1>1. RespN' = RespN /\ Reset' = Reset
  BY DEF RespN, Reset, PartialSaid
<1>2. Shown'
  BY <1>1 DEF IInv, ShownInv, Shown, Reading
<1>3. Emitted'
  BY <1>1 DEF IInv, ShownInv, Emitted, Reading, NothingShown
<1>4. NotYetShown'
  BY <1>1 DEF IInv, ShownInv, NotYetShown, Reading, NothingShown
<1> QED
  BY <1>2, <1>3, <1>4 DEF ShownInv

\* Without a reader nobody is shown anything.
LEMMA ShownOff ==
  ASSUME reader' = "off"
  PROVE  ShownInv'
BY DEF ShownInv, Shown, Emitted, NotYetShown, Reading

\* A partial request starts the aligner again only when nothing was shown.
LEMMA ShownSent ==
  ASSUME TypeOK, IInv, Booted, Alive, ~Writing, ~Finishing, inflight = 0, reader # "off",
         NEW f \in Frames, toChild' = Append(toChild, f), f.flag = ~hasSent,
         UNCHANGED <<toParent, task, maxEmitted, heard, shown, child>>,
         reader = "callback" <=> reader' = "callback", Writing'
  PROVE  ShownInv'
<1>1. toChild = <<>> /\ task = NoFrame /\ toParent = <<>>
  BY FreeSlot DEF Idles
<1>2. toChild' # <<>> /\ toChild'[1] = f
  BY <1>1
<1>3. ~RespN /\ ~RespN' /\ Reset' = f.flag
  BY <1>1, <1>2, NoFrameType DEF RespN, PartialSaid, FirstIs, Reset
<1>4. Shown'
  BY <1>3 DEF IInv, ShownInv, Shown, Reading
<1>5. ~hasSent => NothingShown
  BY DEF IInv, ShownInv, NotYetShown, Reading
<1>6. Emitted'
  BY <1>3, <1>5 DEF IInv, ShownInv, Emitted, Reading, NothingShown
<1>7. NotYetShown'
  BY DEF NotYetShown
<1> QED
  BY <1>4, <1>6, <1>7 DEF ShownInv

\* What was shown stays below what the aligner will say next.
LEMMA ShownNext == TypeOK /\ TypeOK' /\ IInv /\ [Next]_vars => ShownInv'
<1> SUFFICES ASSUME TypeOK /\ TypeOK' /\ IInv, [Next]_vars PROVE ShownInv'
  OBVIOUS
<1> USE DEF IInv, ControlInv, ShownInv, Threads, Alive, Booted, Writing,
   Finishing
<1>1. CASE TakeMutex
  BY <1>1, ShownOff DEF TakeMutex, readerVars
<1>2. CASE Shutdown
  BY <1>2, ShownOff DEF Shutdown, readerVars
<1>3. CASE Push
  <2>1. /\ UNCHANGED <<hasSent, active, toParent, child, task, maxEmitted, heard, shown,
                       reader, inflight>>
        /\ pc = "synth" /\ io = "free"
    BY <1>3 DEF Push, readerVars, childVars
  <2>2. CASE reader = "off"
    BY <2>1, <2>2, ShownOff
  <2>3. CASE reader # "off"
    <3>1. ASSUME UNCHANGED <<pc, toChild>> PROVE ShownInv'
      BY <2>1, <3>1, ShownStays
    <3>2. ASSUME MaySend(pending'), SendPartial(pending'), pc' = "write" PROVE ShownInv'
      <4>1. PICK f \in Frames : toChild' = Append(toChild, f) /\ f.flag = ~hasSent
        BY <1>3, <3>2, PushSendsFrame
      <4>2. Alive /\ inflight = 0
        BY <3>2, TypeParts DEF MaySend, ThreadType
      <4> QED
        BY <2>1, <2>3, <3>2, <4>1, <4>2, ShownSent
    <3> QED
      BY <1>3, <3>1, <3>2 DEF Push
  <2> QED
    BY <2>2, <2>3
<1>4. CASE Cancel
  BY <1>4, ShownStays DEF Cancel, session, readerVars, childVars
<1>5. CASE ChildCrashes
  <2>1. /\ ~Alive' /\ UNCHANGED <<pc, reader, heard, shown>>
        /\ \/ toParent' = toParent
           \/ toParent # <<>> /\ toParent' = SubSeq(toParent, 1, Len(toParent) - 1)
    BY <1>5 DEF ChildCrashes, ChildState, parentVars, request, readerVars
  <2>2. CASE reader = "off"
    BY <2>1, <2>2, ShownOff
  <2>3. CASE reader # "off"
    <3>1. Booted /\ ~FinalSaid
      BY <2>3 DEF WireInv, OneFinal
    <3>2. toParent = <<>> \/ Len(toParent) = 1
      BY <3>1 DEF WireInv, Wires, InOrder, FinalSaid, LastIs
    <3>3. toParent' = toParent \/ toParent' = <<>>
      <4>1. toParent \in Seq(Frames)
        BY DEF TypeOK
      <4> QED
        BY <2>1, <3>2, <4>1, CutFrames
    <3>4. RespN' => RespN /\ toParent' = toParent
      BY <3>3 DEF RespN, PartialSaid, FirstIs
    <3>5. Shown'
      BY <2>1, <3>4 DEF Shown, Reading
    <3> QED
      BY <2>1, <3>5 DEF ShownInv, Emitted, NotYetShown
  <2> QED
    BY <2>2, <2>3
<1>6. CASE EnsureFast
  BY <1>6, ShownOff DEF EnsureFast, Goto, readerVars
<1>7. CASE EnsureSpawn
  BY <1>7, ShownOff DEF EnsureSpawn, readerVars
<1>8. CASE EnsureFails
  BY <1>8, ShownOff DEF EnsureFails, readerVars
<1>9. CASE RecvHello
  BY <1>9, ShownOff DEF RecvHello, readerVars
<1>10. CASE RecvLoadResp
  BY <1>10, ShownOff DEF RecvLoadResp, readerVars
<1>11. CASE Begin
  <2>1. /\ UNCHANGED <<toChild, toParent, task, child>> /\ ~active
        /\ pc = "begin" /\ reader' = "poll" /\ shown' = 0
    BY <1>11 DEF Begin, childVars
  <2>2. Alive => toParent = <<>>
    BY <2>1, FreeSlot DEF Idles
  <2>3. Alive' => NothingShown'
    BY <2>1, <2>2 DEF NothingShown, RespN, PartialSaid, FirstIs
  <2>4. RespN' => toParent'[1].n \in 0..Words
    BY <2>1, TailFrames, FrameFields DEF RespN, PartialSaid, FirstIs, TypeOK
  <2>5. Shown'
    BY <2>1, <2>4 DEF Shown
  <2> QED
    BY <2>3, <2>5 DEF ShownInv, Emitted, NotYetShown
<1>12. CASE BeginFails
  BY <1>12, ShownOff DEF BeginFails, readerVars
<1>13. CASE PushReturns
  BY <1>13, ShownStays DEF PushReturns, PartialSent, Goto, session, readerVars,
     childVars
<1>14. CASE SynthEnds
  BY <1>14, ShownStays DEF SynthEnds, session, readerVars, childVars
<1>15. CASE Joined
  BY <1>15, ShownOff DEF Joined, readerVars
<1>16. CASE FinalDrains
  BY <1>16, ShownOff DEF FinalDrains, readerVars
<1>17. CASE FinalSends
  BY <1>17, ShownOff DEF FinalSends, readerVars
<1>18. CASE FinalWriteReturns
  BY <1>18, ShownOff DEF FinalWriteReturns, readerVars
<1>19. CASE FinalSkips
  BY <1>19, ShownOff DEF FinalSkips, readerVars
<1>20. CASE FinalRecv
  BY <1>20, ShownOff DEF FinalRecv, FinalExit, readerVars
<1>21. CASE FinalFails
  BY <1>21, ShownOff DEF FinalFails, FinalExit, FinalWriteFails, readerVars
<1>22. CASE ReaderEnters
  BY <1>22, ShownStays DEF ReaderEnters, ReaderStep, session, request, childVars
<1>23. CASE ReaderStops
  BY <1>23, ShownOff DEF ReaderStops, ReaderStep
<1>24. CASE ReaderRecv
  <2>1. /\ UNCHANGED <<toChild, task, maxEmitted, shown, hasSent, child, pc>>
        /\ reader = "drain" /\ io = "reader" /\ toParent # <<>> /\ toParent' = Tail(toParent)
        /\ Head(toParent).type = "PARTIAL_RESP"
        /\ \/ /\ Head(toParent).flag /\ heard' = Head(toParent)
              /\ reader' = "callback"
           \/ ~Head(toParent).flag /\ UNCHANGED heard /\ reader' = "drain"
    BY <1>24 DEF ReaderRecv, ReaderStep, request, childVars
  <2>2. /\ Head(toParent) = toParent[1]
        /\ \/ Len(toParent) = 1 /\ toParent' = <<>>
           \/ Len(toParent) = 2 /\ toParent'[1] = toParent[2]
    BY <2>1, TailFrames DEF TypeOK, WireInv, Wires, InOrder
  <2>3. Len(toParent) = 2 => toParent[2].type = "FINAL_RESP"
    BY <2>1 DEF WireInv, Wires, InOrder
  <2>4. ~RespN' /\ Reset' = Reset
    BY <2>1, <2>2, <2>3 DEF RespN, PartialSaid, FirstIs, Reset
  <2>5. RespN <=> Head(toParent).flag
    BY <2>1, <2>2 DEF RespN, PartialSaid, FirstIs
  <2>6. Shown'
    BY <2>1, <2>2, <2>4, <2>5 DEF Shown, Reading
  <2>7. Emitted'
    BY <2>1, <2>2, <2>4, <2>5 DEF Emitted, Reading, NothingShown
  <2>8. NotYetShown'
    BY <2>1, <2>4, <2>5 DEF NotYetShown, Reading, NothingShown
  <2> QED
    BY <2>6, <2>7, <2>8 DEF ShownInv
<1>25. CASE ReaderDelivers
  <2>1. /\ UNCHANGED <<toChild, toParent, task, maxEmitted, hasSent, child, pc>>
        /\ reader = "callback" /\ io = "free" /\ shown' = heard.n /\ reader' = "drain"
    BY <1>25 DEF ReaderDelivers, session, request, childVars
  <2>2. RespN' = RespN /\ Reset' = Reset
    BY <2>1 DEF RespN, PartialSaid, Reset
  <2>3. Shown'
    BY <2>1, <2>2 DEF Shown, Reading
  <2>4. Emitted'
    BY <2>1, <2>2 DEF Emitted, Reading, NothingShown
  <2>5. NotYetShown'
    BY <2>1, <2>2 DEF NotYetShown, Reading, NothingShown
  <2> QED
    BY <2>3, <2>4, <2>5 DEF ShownInv
<1>26. CASE ReaderFlushes
  <2>1. /\ UNCHANGED <<hasSent, active, inflight, toParent, child, task, maxEmitted,
                       heard, shown, pc>>
        /\ reader = "drain" /\ io = "reader"
    BY <1>26 DEF ReaderFlushes, ReaderStep, session, request, childVars
  <2>2. ASSUME UNCHANGED toChild, reader' = "poll" PROVE ShownInv'
    BY <2>1, <2>2, ShownStays
  <2>3. ASSUME MaySend(pending), SendPartial(pending), reader' = "write"
        PROVE  ShownInv'
    <3>1. PICK f \in Frames : toChild' = Append(toChild, f) /\ f.flag = ~hasSent
      BY <1>26, <2>3, FlushSendsFrame
    <3>2. Alive /\ inflight = 0
      BY <2>3, TypeParts DEF MaySend, ThreadType
    <3> QED
      BY <2>1, <2>3, <3>1, <3>2, ShownSent
  <2> QED
    BY <1>26, <2>2, <2>3 DEF ReaderFlushes, ReaderStep
<1>27. CASE ReaderWriteReturns
  BY <1>27, ShownStays DEF ReaderWriteReturns, ReaderStep, PartialSent, session,
     request, childVars
<1>28. CASE ChildHello
  BY <1>28, ShownOff DEF ChildHello, Process, parentVars, readerVars
<1>29. CASE ChildRecv
  <2>1. /\ toChild # <<>> /\ toChild' = Tail(toChild) /\ task' = Head(toChild)
        /\ UNCHANGED <<toParent, maxEmitted, heard, shown, reader, pc, hasSent>> /\ Alive
    BY <1>29 DEF ChildRecv, parentVars, request, session, readerVars
  <2>2. CASE reader = "off"
    BY <2>1, <2>2, ShownOff
  <2>3. CASE reader # "off"
    <3>1. Booted /\ ~FinalAsked
      BY <2>3 DEF WireInv, OneFinal
    <3>2. Len(toChild) = 1
      BY <2>1, <3>1 DEF WireInv, Wires, InOrder, FinalAsked, LastIs
    <3>3. toChild' = <<>> /\ task' = toChild[1]
      BY <2>1, <3>2, TailFrames DEF TypeOK
    <3>4. RespN' = RespN /\ (Reset' => Reset)
      BY <2>1, <3>3 DEF RespN, PartialSaid, Reset
    <3>5. Shown'
      BY <2>1, <3>4 DEF Shown, Reading
    <3>6. Emitted'
      BY <2>1, <3>4 DEF Emitted, Reading, NothingShown
    <3>7. NotYetShown'
      BY <2>1, <3>4 DEF NotYetShown, Reading, NothingShown
    <3> QED
      BY <3>5, <3>6, <3>7 DEF ShownInv
  <2> QED
    BY <2>2, <2>3
<1>30. CASE ChildLoads
  <2>1. pc = "loading" /\ UNCHANGED reader
    BY <1>30 DEF ChildLoads, WireInv, Booting, Wires, parentVars, readerVars
  <2> QED
    BY <2>1, ShownOff
<1>31. CASE ChildAlignsPartial
  <2>1. /\ child = "work" /\ task.type = "PARTIAL_REQ"
        /\ UNCHANGED <<toChild, pc, reader, heard, shown, hasSent, active>>
    BY <1>31 DEF ChildAlignsPartial, parentVars, request, session, readerVars
  <2>2. CASE reader = "off"
    BY <2>1, <2>2, ShownOff
  <2>3. CASE reader # "off"
    <3>1. Booted /\ ~Finishing /\ toParent = <<>> /\ ~PartialAsked /\ ~FinalAsked
      BY <2>1, <2>3 DEF WireInv, OnePartial, PartialMade, OneFinal
    <3>2. toChild = <<>>
      BY <3>1 DEF WireInv, Wires, InOrder, PartialAsked, FinalAsked, FirstIs, LastIs
    <3>3. task' = NoFrame /\ task # NoFrame
      BY <1>31, <2>1, PartialReply, NoFrameType
    <3>4. PICK f \in Frames :
            /\ toParent' = Append(toParent, f) /\ f.type = "PARTIAL_RESP"
            /\ \/ /\ f.flag /\ f.n = maxEmitted'
                  /\ \E n \in 0..Words : maxEmitted' = Emits(n)
               \/ ~f.flag /\ maxEmitted' = IF task.flag THEN 0 ELSE maxEmitted
      BY <1>31, PartialReply
    <3>5. toParent' # <<>> /\ toParent'[1] = f /\ (RespN' <=> f.flag) /\ ~RespN
      BY <3>1, <3>4 DEF RespN, PartialSaid, FirstIs
    <3>6. ~Reset' /\ (Reset <=> task.flag)
      BY <2>1, <3>2, <3>3, NoFrameType DEF Reset
    <3>7. ~task.flag => maxEmitted' >= maxEmitted
      BY <3>4, EmitsType DEF TypeOK
    <3>8. /\ shown \in Nat /\ maxEmitted \in Nat /\ maxEmitted' \in Nat /\ heard.n \in Nat
      BY FrameFields DEF TypeOK
    <3>9. \/ shown = 0 /\ reader # "callback"
          \/ /\ shown <= maxEmitted'
             /\ reader = "callback" => heard.n <= maxEmitted'
      BY <2>1, <2>3, <3>6, <3>7, <3>8 DEF Emitted, Reading, NothingShown
    <3>10. Shown'
      <4>1. f.flag => f.n = maxEmitted'
        BY <3>4
      <4> QED
        BY <2>1, <2>3, <3>5, <3>8, <3>9, <4>1 DEF Shown, Reading
    <3>11. Emitted'
      BY <2>1, <3>4, <3>5, <3>6, <3>8, <3>9 DEF Emitted
    <3>12. NotYetShown'
      <4>1. active
        BY <2>3 DEF Streams, Streaming
      <4>2. ~hasSent => Writing
        BY <2>1, <3>1, <3>3, <4>1 DEF AudioInv, Accounted, Idles
      <4> QED
        BY <2>1, <4>2 DEF NotYetShown
    <3> QED
      BY <3>10, <3>11, <3>12 DEF ShownInv
  <2> QED
    BY <2>2, <2>3
<1>32. CASE ChildAlignsFinal
  <2>1. FinalMade /\ UNCHANGED reader
    BY <1>32 DEF ChildAlignsFinal, parentVars, readerVars, FinalMade
  <2>2. reader = "off"
    BY <2>1 DEF WireInv, OneFinal
  <2> QED
    BY <2>1, <2>2, ShownOff
<1>33. CASE ChildWritten
  BY <1>33, ShownStays DEF ChildWritten, parentVars, session, request,
     readerVars
<1>34. CASE UNCHANGED vars
  BY <1>34, ShownStays DEF vars, parentVars, session, request, readerVars,
     childVars
<1> QED
  BY <1>1, <1>2, <1>3, <1>4, <1>5, <1>6, <1>7, <1>8, <1>9, <1>10, <1>11, <1>12,
     <1>13, <1>14, <1>15, <1>16, <1>17, <1>18, <1>19, <1>20, <1>21, <1>22,
     <1>23, <1>24, <1>25, <1>26, <1>27, <1>28, <1>29, <1>30, <1>31, <1>32,
     <1>33, <1>34 DEF Next, Environment, Handler, PartialReader, Aligner

-----------------------------------------------------------------------------
(* The theorems.                                                           *)

LEMMA InitInv == Init => TypeOK /\ IInv
<1> SUFFICES ASSUME Init PROVE TypeOK /\ IInv
  OBVIOUS
<1>1. TypeOK
  BY InitType
<1>2. /\ toChild = <<>> /\ toParent = <<>> /\ task = NoFrame /\ NoFrame.type = "NONE"
      /\ cached = <<>> /\ active = FALSE /\ reader = "off" /\ pc = "idle" /\ io = "free"
      /\ child = "none" /\ pid = 0 /\ pushed = <<>>
  BY NoFrameType DEF Init
<1>3. Len(pushed) <= MaxChunks
  BY <1>2, EmptySeq
<1>4. ControlInv
  BY <1>2, <1>3 DEF ControlInv, Threads, Streams, Streaming, Process, Alive
<1>5. WireInv
  BY <1>2 DEF WireInv, Booting, Wires, OnePartial, OneFinal, SlotTaken, PartialAsked,
     PartialMade, PartialSaid, FinalAsked, FinalMade, FinalSaid, FirstIs, LastIs, InOrder,
     Writing
<1>6. AudioInv
  BY <1>2 DEF AudioInv, Accounted, CacheIsPrefix, PartialsOwned, FinalOwned, PartialAsked,
     PartialMade, PartialSaid, FinalSaid, FirstIs, LastIs
<1>7. ShownInv
  BY <1>2 DEF ShownInv, Shown, Emitted, NotYetShown, Reading
<1> QED
  BY <1>1, <1>4, <1>5, <1>6, <1>7 DEF IInv

LEMMA InvHolds == Spec => [](TypeOK /\ IInv)
<1>1. TypeOK /\ IInv /\ [Next]_vars => (TypeOK /\ IInv)'
  <2> SUFFICES ASSUME TypeOK, IInv, [Next]_vars PROVE (TypeOK /\ IInv)'
    OBVIOUS
  <2>1. TypeOK'
    BY NextType
  <2>2. ControlInv'
    BY ControlNext
  <2>3. WireInv'
    BY WireNext
  <2>4. AudioInv'
    BY <2>1, AudioNext
  <2>5. ShownInv'
    BY <2>1, ShownNext
  <2> QED
    BY <2>1, <2>2, <2>3, <2>4, <2>5 DEF IInv
<1> QED
  BY <1>1, InitInv, PTL DEF Spec

\* Every variable keeps the type of its C++ field, and inflight_ never
\* exceeds kMaxInflight.
THEOREM TypeCorrect == Spec => []TypeOK
BY InvHolds, PTL

\* In the socket to the parent a FINAL is the last frame, a partial the first.
LEMMA Places ==
  ASSUME TypeOK, Booting, Wires
  PROVE  /\ \A i \in InFlight("FINAL_RESP") : Booted /\ FinalSaid /\ i = Len(toParent)
         /\ \A i \in InFlight("PARTIAL_RESP") : Booted /\ PartialSaid /\ i = 1
<1>1. toParent \in Seq(Frames)
  BY DEF TypeOK
<1>2. DOMAIN toParent = 1..Len(toParent) /\ Len(toParent) \in Nat
  BY <1>1, LenProperties
<1>3. toParent = <<>> => Len(toParent) = 0
  BY EmptySeq
<1>4. toParent = <<>> => InFlight("FINAL_RESP") = {} /\ InFlight("PARTIAL_RESP") = {}
  BY <1>2, <1>3 DEF InFlight
<1>5. CASE toParent # <<>> /\ Len(toParent) = 1
  <2>1. DOMAIN toParent = {1}
    BY <1>2, <1>5
  <2>2. ~Booted => toParent[1].type \in {"HELLO", "LOAD_RESP"}
    BY <1>5 DEF Booted, Booting
  <2> QED
    BY <1>5, <2>1, <2>2 DEF InFlight, FinalSaid, PartialSaid, FirstIs, LastIs
<1>6. CASE /\ Booted /\ toParent # <<>> /\ Len(toParent) = 2
           /\ toParent[1].type = "PARTIAL_RESP" /\ toParent[2].type = "FINAL_RESP"
  <2>1. DOMAIN toParent = {1, 2}
    BY <1>2, <1>6
  <2> QED
    BY <1>6, <2>1 DEF InFlight, FinalSaid, PartialSaid, FirstIs, LastIs
<1> QED
  BY <1>4, <1>5, <1>6 DEF Wires, InOrder, Booting, Booted

\* The final timings come from exactly the audio that was pushed in this
\* stream, whatever was coalesced, dropped or cached on the way.
THEOREM FinalCovers == Spec => []FinalCoversStream
<1>1. TypeOK /\ IInv => FinalCoversStream
  <2> SUFFICES ASSUME TypeOK, IInv, NEW i \in InFlight("FINAL_RESP"), toParent[i].flag
               PROVE  toParent[i].pcm = pushed
    BY DEF FinalCoversStream
  <2>1. FinalSaid /\ i = Len(toParent)
    BY Places DEF IInv, WireInv
  <2> QED
    BY <2>1 DEF IInv, AudioInv, FinalOwned
<1> QED
  BY <1>1, InvHolds, PTL

\* A partial that a living aligner sends is computed from a beginning of the
\* client's own audio.
THEOREM PartialsOwn == Spec => []PartialsAreOwn
<1>1. TypeOK /\ IInv => PartialsAreOwn
  <2> SUFFICES ASSUME TypeOK, IInv, Alive, NEW i \in InFlight("PARTIAL_RESP"),
                      toParent[i].flag
               PROVE  Own(toParent[i].pcm)
    BY DEF PartialsAreOwn, Own
  <2>1. Booted /\ PartialSaid /\ i = 1
    BY Places DEF IInv, WireInv
  <2> QED
    BY <2>1 DEF IInv, AudioInv, PartialsOwned
<1> QED
  BY <1>1, InvHolds, PTL

\* Only the partial reader's callback shows words; a stream begins with none.
LEMMA ShowsOnly == [Next]_vars => UNCHANGED shown \/ ReaderDelivers \/ Begin
BY DEF Next, Environment, Handler, PartialReader, Aligner, vars, parentVars, readerVars,
   TakeMutex, Shutdown, Push, Cancel, ChildCrashes, EnsureFast, EnsureSpawn, EnsureFails,
   RecvHello, RecvLoadResp, BeginFails, PushReturns, SynthEnds, Joined, FinalDrains,
   FinalSends, FinalWriteReturns, FinalSkips, FinalRecv, FinalFails, FinalExit,
   ReaderEnters, ReaderStops, ReaderRecv, ReaderFlushes, ReaderWriteReturns, ReaderStep,
   ChildHello, ChildRecv, ChildLoads, ChildAlignsPartial, ChildAlignsFinal, ChildWritten

\* Within a stream the prefix of timed words only grows, although every pass
\* of the aligner estimates it anew.
THEOREM Unretracted == Spec => NoRetraction
<1>1. TypeOK /\ IInv /\ [Next]_vars => [stream' = stream => shown' >= shown]_vars
  <2> SUFFICES ASSUME TypeOK, IInv, [Next]_vars, stream' = stream PROVE shown' >= shown
    OBVIOUS
  <2>1. shown \in Nat
    BY DEF TypeOK
  <2>2. CASE UNCHANGED shown
    BY <2>1, <2>2
  <2>3. CASE ReaderDelivers
    <3>1. reader = "callback" /\ shown' = heard.n
      BY <2>3 DEF ReaderDelivers
    <3> QED
      BY <2>1, <3>1 DEF IInv, ShownInv, Shown, Reading
  <2>4. CASE Begin
    <3>1. stream \in Nat /\ stream' = stream + 1
      BY <2>4 DEF Begin, TypeOK
    <3> QED
      BY <3>1
  <2> QED
    BY <2>2, <2>3, <2>4, ShowsOnly
<1> QED
  BY <1>1, InvHolds, PTL DEF Spec, NoRetraction
==============================================================================
