------------------------------ MODULE LongRead ------------------------------
(***************************************************************************)
(* One aligned read of a long passage by the Breeze server: the engine     *)
(* renders the passage chunk by chunk and carries each chunk forward as    *)
(* the voice of the next; the audio reaches the content provider directly  *)
(* or through the worker's frames; the provider cuts the stream at the     *)
(* chunk starts and hands each chunk to the alignment thread, which places *)
(* its words in the passage; the disconnect watchdog cancels the render.   *)
(*                                                                         *)
(* Audio is counted in frames, and a frame is known by the chunk that made *)
(* it (0: the silence of a seam). Words are numbers, in reading order.     *)
(***************************************************************************)
EXTENDS Integers, Sequences, FiniteSets, SequencesExt

CONSTANTS Passages,   \* passages, each the sequence of its sentences' words
          ChunkWords, \* chunk_words
          Budgets,    \* what a request may ask for as max_new_frames
          RefMax,     \* long_ref_frames
          Batch,      \* chunk_frames, the first block of the vocoder
          MaxBatch,   \* the cap its doubling stops at (48 in the code)
          VoiceT,     \* frames of the caller's saved voice
          Gaps        \* what it may ask for as gap_ms, in frames of silence

ASSUME LongReadAssumption ==
  /\ {ChunkWords, RefMax, Batch, MaxBatch, VoiceT} \subseteq Nat \ {0}
  /\ Budgets \subseteq Nat /\ Gaps \subseteq Nat
  /\ Passages \subseteq Seq(Nat \ {0})

VARIABLES
  read,    \* the passage cut into chunks; isolated: in a worker process?;
           \* named: did the caller bring a voice? max, gap: max_new_frames
           \* and gap_ms of the request
  eng,     \* the engine: its place, the chunk, frames made and emitted, the
           \* next block, the history it carries and the template it used
  meta,    \* pending_chunk_meta: a chunk start that waits for an audio frame
  cancel,  \* the engine's cancel flag
  wire,    \* what the callbacks handed over and the provider has not taken
  wd,      \* the disconnect watchdog
  sent,    \* cancel_sent_, the parent's record of the cancel
  con,     \* the provider: its place, the words announced, the open chunk
  q, feeding, failed, thread, all, \* the alignment thread and what it shares
  final,   \* the words of the final event
  stream,  \* history: every frame handed on, in order
  made     \* history: the frames each chunk came to, and if it was cut short

readVars == <<read, eng, meta, cancel, wire, wd, sent, con, q, feeding, failed,
              thread, all, final, stream, made>>

-----------------------------------------------------------------------------
(* chunk_text: sentences are packed up to the budget; a sentence is never  *)
(* cut. A chunk is the interval of words it covers.                        *)

Pack(acc, w) ==
  IF acc = <<>> THEN <<[first |-> 1, words |-> w]>>
  ELSE LET l == acc[Len(acc)]
       IN IF l.words + w > ChunkWords
          THEN Append(acc, [first |-> l.first + l.words, words |-> w])
          ELSE [acc EXCEPT ![Len(acc)].words = @ + w]

ChunkText(sentences) ==
  LET packed[n \in 0..Len(sentences)] ==
        IF n = 0 THEN <<>> ELSE Pack(packed[n - 1], sentences[n])
  IN packed[Len(sentences)]

Chunks == read.chunks

\* ref_voice: its frames, what they are of and the transcript that comes with
\* them; a chunk's number, 0 for the caller's voice, -1 for nothing.
NoVoice == [T |-> 0, of |-> -1, text |-> -1]
Caller  == IF read.named THEN [T |-> VoiceT, of |-> 0, text |-> 0] ELSE NoVoice

ReadInit ==
  /\ read \in [chunks : {ChunkText(p) : p \in Passages},
              isolated : BOOLEAN, named : BOOLEAN, max : Budgets, gap : Gaps]
  /\ eng = [pc |-> "loop", ci |-> 1, T |-> 0, out |-> 0, next |-> 0,
            hist |-> Caller, used |-> NoVoice]
  /\ meta = 0 /\ cancel = FALSE /\ wire = <<>> /\ wd = "watch" /\ sent = FALSE
  /\ con = [at |-> "recv", anchor |-> 0, open |-> FALSE, chunk |-> 0,
            base |-> 0, word |-> 0, pcm |-> <<>>]
  /\ q = <<>> /\ feeding = TRUE /\ failed = FALSE
  /\ thread = [at |-> "wait", job |-> <<>>] /\ all = <<>>
  /\ final = <<>> /\ stream = <<>>
  /\ made = [c \in 1..Len(Chunks) |-> [T |-> 0, cut |-> FALSE]]

-----------------------------------------------------------------------------
(* What the engine's two callbacks do. In the server's own process they    *)
(* are the provider's lambdas and run at once; in the worker the start of  *)
(* a chunk waits for the next audio frame, and frames queue in the socket. *)

Start(c)  == [kind |-> "start", chunk |-> c, frames |-> <<>>]
Audio(fs) == [kind |-> "audio", chunk |-> 0, frames |-> fs]
Done      == [kind |-> "done", chunk |-> 0, frames |-> <<>>]

\* The provider has returned from the callbacks, or need not have.
Clear == wire = <<>> \/ read.isolated

OnChunkStart(c, w) ==
  IF read.isolated THEN meta' = c /\ wire' = w
  ELSE meta' = 0 /\ wire' = Append(w, Start(c))

OnChunk(fs) ==
  /\ wire' = Append(IF meta = 0 THEN wire ELSE Append(wire, Start(meta)),
                    Audio(fs))
  /\ meta' = 0

Frames(c, n) == [i \in 1..n |-> c]

-----------------------------------------------------------------------------
(* The engine: synthesize_long *)

\* The next chunk: the cancel is looked at, the template taken, the seam's
\* silence handed on before the chunk is announced.
EnterChunk ==
  /\ eng.pc = "loop" /\ Clear
  /\ IF cancel \/ eng.ci > Len(Chunks)
     THEN eng' = [eng EXCEPT !.pc = "end"] /\ UNCHANGED <<meta, wire>>
     ELSE /\ eng' = [eng EXCEPT !.pc = "start", !.used = eng.hist]
          /\ IF eng.ci > 1 /\ read.gap > 0 THEN OnChunk(Frames(0, read.gap))
             ELSE UNCHANGED <<meta, wire>>
  /\ UNCHANGED <<read, cancel, wd, sent, con, q, feeding, failed, thread, all,
                 final, stream, made>>

\* synthesize_stream: the prompt is built from the template and prefilled
\* (either may fail), the vocoder's stream reset.
BeginChunk ==
  /\ eng.pc = "start" /\ Clear
  /\ OnChunkStart(eng.ci, wire)
  /\ \E ok \in BOOLEAN :
       eng' = [eng EXCEPT !.pc = IF ok THEN "ar" ELSE "fail",
                          !.T = 0, !.out = 0, !.next = Batch]
  /\ UNCHANGED <<read, cancel, wd, sent, con, q, feeding, failed, thread, all,
                 final, stream, made>>

\* run_ar, one frame: made, and handed on when a block is full; the blocks
\* double up to the cap.
MakeFrame ==
  /\ eng.pc = "ar" /\ Clear
  /\ ~cancel /\ eng.T < read.max
  /\ LET T == eng.T + 1
     IN IF T - eng.out >= eng.next
        THEN /\ OnChunk(Frames(eng.ci, T - eng.out))
             /\ eng' = [eng EXCEPT !.T = T, !.out = T,
                          !.next = IF 2 * @ < MaxBatch THEN 2 * @ ELSE MaxBatch]
        ELSE eng' = [eng EXCEPT !.T = T] /\ UNCHANGED <<meta, wire>>
  /\ UNCHANGED <<read, cancel, wd, sent, con, q, feeding, failed, thread, all,
                 final, stream, made>>

\* The depth decoder, the vocoder or the backbone fails: nothing more of the
\* chunk is handed on.
FrameFails ==
  /\ eng.pc = "ar" /\ Clear
  /\ ~cancel /\ eng.T < read.max
  /\ eng' = [eng EXCEPT !.pc = "fail"]
  /\ UNCHANGED <<read, meta, cancel, wire, wd, sent, con, q, feeding, failed,
                 thread, all, final, stream, made>>

\* run_ar, its end: the model says so at any frame, the cancel is seen, or the
\* budget is spent (truncated). What is left is decoded and handed on.
EndChunk ==
  /\ eng.pc = "ar" /\ Clear
  /\ \E eos \in {e \in BOOLEAN : e => eng.T < read.max} :
       /\ eos \/ cancel \/ eng.T = read.max
       /\ made' = [made EXCEPT ![eng.ci] = [T |-> eng.T, cut |-> ~eos]]
  /\ IF eng.T > eng.out THEN OnChunk(Frames(eng.ci, eng.T - eng.out))
     ELSE UNCHANGED <<meta, wire>>
  /\ eng' = [eng EXCEPT !.pc = "carry", !.out = eng.T]
  /\ UNCHANGED <<read, cancel, wd, sent, con, q, feeding, failed, thread, all,
                 final, stream>>

\* Mutant: a tail keeps the chunk's transcript.
CarryTail ==
  [T |-> IF eng.T <= RefMax THEN eng.T ELSE RefMax, of |-> eng.ci, text |-> eng.ci]

\* What the next chunk is told to continue: the whole chunk with its text, or
\* the caller's voice again, or a tail without a transcript.
Carry ==
  LET T == eng.T
  IN IF T <= RefMax THEN [T |-> T, of |-> eng.ci, text |-> eng.ci]
     ELSE IF read.named THEN Caller
     ELSE [T |-> RefMax, of |-> eng.ci, text |-> -1]

NextChunk ==
  /\ eng.pc = "carry"
  /\ eng' = [eng EXCEPT !.pc = "loop", !.ci = @ + 1, !.hist = Carry]
  /\ UNCHANGED <<read, meta, cancel, wire, wd, sent, con, q, feeding, failed,
                 thread, all, final, stream, made>>

\* The call returns, with success after the last chunk and after a cancel; the
\* provider goes on alike.
Return ==
  /\ eng.pc \in {"end", "fail"} /\ Clear
  /\ wire' = Append(wire, Done)
  /\ eng' = [eng EXCEPT !.pc = IF @ = "end" THEN "gone" ELSE "failed"]
  /\ UNCHANGED <<read, meta, cancel, wd, sent, con, q, feeding, failed, thread,
                 all, final, stream, made>>

Returned == eng.pc \in {"gone", "failed"}

Render == \/ EnterChunk \/ BeginChunk \/ MakeFrame \/ FrameFails
          \/ EndChunk \/ NextChunk \/ Return

-----------------------------------------------------------------------------
(* The provider *)

\* close_chunk: the open chunk goes to the alignment thread, with its audio.
CloseChunk ==
  q' = IF con.open /\ con.pcm # <<>>
       THEN Append(q, [chunk |-> con.chunk, base |-> con.base,
                       word |-> con.word, pcm |-> con.pcm])
       ELSE q

\* Mutant: the audio of the chunk before is not cleared.
TakeStartOnly ==
  /\ con.at = "recv" /\ wire # <<>> /\ wire[1].kind = "start"
  /\ CloseChunk
  /\ LET c == wire[1].chunk
     IN con' = [con EXCEPT !.open = TRUE, !.chunk = c, !.base = Len(stream),
                           !.word = con.anchor, !.anchor = @ + Chunks[c].words]
  /\ wire' = Tail(wire)
  /\ UNCHANGED <<read, eng, meta, cancel, wd, sent, feeding, failed, thread, all,
                 final, stream, made>>

\* emit_chunk_start: the chunk before is complete, the position is where this
\* one's audio will start.
TakeStart ==
  /\ con.at = "recv" /\ wire # <<>> /\ wire[1].kind = "start"
  /\ CloseChunk
  /\ LET c == wire[1].chunk
     IN con' = [con EXCEPT !.open = TRUE, !.chunk = c, !.base = Len(stream),
                           !.word = con.anchor, !.pcm = <<>>,
                           !.anchor = @ + Chunks[c].words]
  /\ wire' = Tail(wire)
  /\ UNCHANGED <<read, eng, meta, cancel, wd, sent, feeding, failed, thread, all,
                 final, stream, made>>

\* emit_audio.
TakeAudio ==
  /\ con.at = "recv" /\ wire # <<>> /\ wire[1].kind = "audio"
  /\ stream' = stream \o wire[1].frames
  /\ con' = [con EXCEPT !.pcm = IF con.open THEN @ \o wire[1].frames ELSE @]
  /\ wire' = Tail(wire)
  /\ UNCHANGED <<read, eng, meta, cancel, wd, sent, q, feeding, failed, thread,
                 all, final, made>>

\* The call has returned: the last chunk is closed unless the render was
\* abandoned inside it, and the thread is told that no more will come.
CloseRead ==
  /\ con.at = "recv" /\ wire # <<>> /\ wire[1].kind = "done"
  /\ con' = [con EXCEPT !.at = IF sent THEN "joinCancelled" ELSE "join",
                        !.open = FALSE, !.pcm = <<>>]
  /\ IF sent THEN UNCHANGED q ELSE CloseChunk
  /\ feeding' = FALSE
  /\ wire' = Tail(wire)
  /\ UNCHANGED <<read, eng, meta, cancel, wd, sent, failed, thread, all, final,
                 stream, made>>

\* The thread joined, the watchdog stopped and joined, the final event sent
\* unless the read was cancelled, a pass failed or nothing was aligned.
Conclude ==
  /\ con.at \in {"join", "joinCancelled"} /\ thread.at = "gone"
  /\ wd # "sending"
  /\ wd' = "gone"
  /\ final' = IF con.at = "join" /\ ~failed THEN all ELSE <<>>
  /\ con' = [con EXCEPT !.at = "over"]
  /\ UNCHANGED <<read, eng, meta, cancel, wire, sent, q, feeding, failed, thread,
                 all, stream, made>>

Provider == TakeStart \/ TakeAudio \/ CloseRead \/ Conclude

-----------------------------------------------------------------------------
(* The alignment thread *)

TakeJob ==
  /\ thread.at = "wait" /\ q # <<>>
  /\ thread' = IF failed THEN thread ELSE [at |-> "pass", job |-> <<q[1]>>]
  /\ q' = Tail(q)
  /\ UNCHANGED <<read, eng, meta, cancel, wire, wd, sent, con, feeding, failed,
                 all, final, stream, made>>

Quit ==
  /\ thread.at = "wait" /\ q = <<>> /\ ~feeding
  /\ thread' = [thread EXCEPT !.at = "gone"]
  /\ UNCHANGED <<read, eng, meta, cancel, wire, wd, sent, con, q, feeding, failed,
                 all, final, stream, made>>

\* The words of a pass, put at their place in the passage; a place nothing was
\* aligned for is left blank. A word is kept with the audio it was found in.
Blank == [word |-> 0, from |-> 0, heard |-> <<>>]
Place(job, words) ==
  [k \in 1..job.word + Len(words) |->
     IF k > job.word THEN words[k - job.word]
     ELSE IF k <= Len(all) THEN all[k] ELSE Blank]

Aligned(job) ==
  [i \in 1..Chunks[job.chunk].words |->
     [word |-> Chunks[job.chunk].first + i - 1, from |-> job.base,
      heard |-> job.pcm]]

\* Mutant: a chunk that failed is put back.
PassRetries ==
  /\ thread.at = "pass"
  /\ LET job == thread.job[1]
     IN \/ all' = Place(job, Aligned(job)) /\ UNCHANGED q
        \/ q' = <<job>> \o q /\ UNCHANGED all
  /\ thread' = [at |-> "wait", job |-> <<>>]
  /\ UNCHANGED <<read, eng, meta, cancel, wire, wd, sent, con, feeding, failed,
                 final, stream, made>>

\* One bad chunk ends alignment for the request.
Pass ==
  /\ thread.at = "pass"
  /\ LET job == thread.job[1]
     IN \/ all' = Place(job, Aligned(job)) /\ UNCHANGED failed
        \/ failed' = TRUE /\ UNCHANGED all
  /\ thread' = [at |-> "wait", job |-> <<>>]
  /\ UNCHANGED <<read, eng, meta, cancel, wire, wd, sent, con, q, feeding, final,
                 stream, made>>

Thread == TakeJob \/ Quit \/ Pass

-----------------------------------------------------------------------------
(* The client leaves and the watchdog notices, while the render runs: a    *)
(* cancel in this process is one store; across the socket it is a frame,   *)
(* and then the record of it.                                              *)

Notice ==
  /\ wd = "watch" /\ con.at # "over"
  /\ IF read.isolated
     THEN /\ wd' = IF con.at = "recv" THEN "sending" ELSE "gone"
          /\ cancel' = (cancel \/ ~Returned) /\ UNCHANGED sent
     ELSE wd' = "gone" /\ cancel' = TRUE /\ sent' = TRUE
  /\ UNCHANGED <<read, eng, meta, wire, con, q, feeding, failed, thread, all,
                 final, stream, made>>

Record ==
  /\ wd = "sending"
  /\ sent' = TRUE /\ wd' = "gone"
  /\ UNCHANGED <<read, eng, meta, cancel, wire, con, q, feeding, failed, thread,
                 all, final, stream, made>>

Watchdog == Notice \/ Record

ReadOver == con.at = "over" /\ UNCHANGED readVars

ReadNext == Render \/ Provider \/ Thread \/ Watchdog \/ ReadOver

\* Threads that can run do; a pass ends; the client need not leave. The frames
\* of a chunk are bounded, so a render that runs reaches its end.
ReadSpec == /\ ReadInit /\ [][ReadNext]_readVars
            /\ WF_readVars(Render) /\ WF_readVars(Provider) /\ WF_readVars(Thread)
            /\ WF_readVars(Record)

-----------------------------------------------------------------------------
(* Properties *)

\* A transcript handed to the model with some audio is the transcript of
\* exactly that audio: of the whole of it, and of nothing more
\* (breeze_tts.cpp:474: "The clone template pairs a transcript with THE AUDIO OF
\* THAT TRANSCRIPT"). The exception: a chunk the budget cut short before the carry
\* was full is carried with the whole of its text, the part not spoken included.
HistoryDescribed ==
  eng.pc = "ar" /\ eng.used.T > 0 /\ eng.used.text > 0 =>
    LET voice == made[eng.used.of]
    IN /\ eng.used.of = eng.used.text
       /\ eng.used.T = voice.T
       /\ voice.cut => voice.T = read.max /\ read.max <= RefMax

WordsOf(c) == Chunks[c].first..Chunks[c].first + Chunks[c].words - 1

\* In the worker the start of a chunk without audio is overwritten by the next
\* one's, unless the silence of a seam takes it along.
StartsLost(c) == read.isolated /\ read.gap = 0 /\ \E b \in 1..c - 1 : made[b].T = 0

\* A word was aligned against the audio of its own chunk, at the time at which
\* the client hears it (breeze_server.cpp:612, 686), and is placed at its own
\* index of the passage. The exception is the index of a word behind a start that
\* was lost.
WordsInPlace ==
  \A k \in DOMAIN all : all[k] # Blank =>
    LET w == all[k]
    IN \E c \in DOMAIN Chunks :
         /\ w.word \in WordsOf(c)
         /\ ToSet(w.heard) \subseteq {0, c}
         /\ w.from + Len(w.heard) <= Len(stream)
         /\ w.heard = SubSeq(stream, w.from + 1, w.from + Len(w.heard))
         /\ w.word = k \/ StartsLost(c)

\* The render went through every chunk, none of them cut by a cancel; one that
\* spent its budget is reported as truncated.
Finished ==
  /\ eng.ci > Len(Chunks)
  /\ \A c \in DOMAIN Chunks : made[c].cut => made[c].T = read.max

\* A final event covers what was heard, every word of every chunk that has any
\* audio, and says that the passage is finished (breeze_server.cpp:836). The
\* exceptions: a render that failed, which the provider does not ask about, and a
\* cancel that reached the worker but was not yet recorded when the provider
\* looked.
FinalComplete ==
  con.at = "over" /\ final # <<>> =>
    /\ \A c \in DOMAIN Chunks : made[c].T > 0 \/ c \in ToSet(stream) =>
         \A n \in WordsOf(c) : \E k \in DOMAIN final : final[k].word = n
    /\ Finished \/ eng.pc = "failed" \/ (read.isolated /\ cancel)

\* The response ends: the thread is always told and joined, whatever the render
\* and the client did.
ReadEnds == <>(con.at = "over")

\* Every timing that reaches the client is right, and the last event has all.
TimingsComplete == WordsInPlace /\ FinalComplete


\* What the code says of the chunks: "a chunk is a known word range over a known
\* audio range" (breeze_server.cpp:612), also for a request without silence at the
\* seams. Expected to be violated, in the worker.
WordsAtIndex == \A k \in DOMAIN all : all[k] # Blank => all[k].word = k
=============================================================================
