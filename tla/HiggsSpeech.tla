----------------------------- MODULE HiggsSpeech -----------------------------
(***************************************************************************)
(* How Higgs speaks: the autoregressive loop whose codebooks start and end *)
(* one step after another, the undoing of that delay, the decoding of a    *)
(* growing stream in windows, and the renders built from several of them:  *)
(* a long text in chunks and a dialogue in turns. A code is known by its   *)
(* codebook and the step that drew it.                                     *)
(***************************************************************************)
EXTENDS Integers, SequencesExt, Job

CONSTANTS HiggsBooks,   \* n_codebooks
          HiggsMax,     \* max_new
          BlockFrames,  \* chunk_frames
          HoldFrames,   \* hold
          WindowFrames, \* decode_ctx, 0 for the whole stream
          Buffers,      \* rolling chunks kept
          Parts         \* chunks or turns of a text

ASSUME HiggsSpeechAssumption ==
  /\ {HiggsMax, Parts} \subseteq Nat /\ HoldFrames \in Nat \ {0}
  /\ HiggsBooks \subseteq Nat \ {0} /\ BlockFrames \subseteq Nat \ {0} /\ WindowFrames \cup Buffers \subseteq Nat

HgMax(a, b) == IF a > b THEN a ELSE b

-----------------------------------------------------------------------------
(* sampler_step. Codebook c has no code before step c. The end of codebook *)
(* 0 is heeded once all of them have started, and is followed by the steps *)
(* the other codebooks need.                                               *)

Waits(c, delay) == c >= delay + 1

SampledAt(s, eoc) ==
  [c \in 0..job.n - 1 |->
     [book |-> c, step |-> s, boc |-> job.delay < job.n /\ Waits(c, job.delay),
      eoc |-> c = 0 /\ eoc]]

Countdown == [job EXCEPT !.left = @ - 1, !.done = job.left - 1 <= 0]

Sampled(eoc) ==
  IF job.delay < job.n THEN [job EXCEPT !.delay = @ + 1]
  ELSE IF job.left >= 0 THEN Countdown
  ELSE IF eoc THEN [job EXCEPT !.left = IF job.n > 2 THEN job.n - 2 ELSE @,
                               !.done = job.n <= 2]
  ELSE job

\* The delay undone: frame t has codebook c's code of step t + c.
FramesOf(delayed, n) == Len(delayed) - (n - 1)
Undelayed(delayed, n, from, upto) ==
  [t \in from..upto - 1 |-> [c \in 0..n - 1 |-> delayed[t + c + 1][c]]]

\* apply_delay_pattern, for a reference of t frames.
DelayPattern(t, n) ==
  [l \in 1..t + n - 1 |-> [c \in 0..n - 1 |->
     LET f == l - 1 - c
     IN IF f < 0 THEN "boc" ELSE IF f >= t THEN "eoc" ELSE <<f, c>>]]

-----------------------------------------------------------------------------
(* run_ar, run_ar_streaming                                                *)

HiggsInit ==
  \E n \in HiggsBooks, block \in BlockFrames, win \in WindowFrames, stream \in BOOLEAN :
    job = [kind |-> "higgs", at |-> "draw", n |-> n, block |-> block, window |-> win,
           stream |-> stream, delay |-> 0, left |-> -1, done |-> FALSE, eoc |-> -1,
           delayed |-> <<>>, pieces |-> <<>>, emitted |-> 0, last |-> 0, frames |-> 0,
           ok |-> FALSE]

\* Mutant: the context to discard is a whole window's, also near the start.
SkipWindow(j, w0) == IF j.window = 0 THEN j.emitted ELSE j.window
Skip(j, w0) == j.emitted - w0

\* emit_upto: the window that ends at upto is decoded, its first frames dropped.
EmitUpto(j, upto, final) ==
  IF upto <= j.emitted THEN j
  ELSE LET w0   == IF j.window > 0 THEN HgMax(0, j.emitted - j.window) ELSE 0
           from == w0 + Skip(j, w0)
           piece == [from |-> from, upto |-> upto, context |-> from - w0, final |-> final]
       IN [j EXCEPT !.emitted = upto, !.pieces = IF upto > from THEN Append(@, piece) ELSE @]

Streamed(j) ==
  LET now == FramesOf(j.delayed, j.n)
  IN IF j.stream /\ now - j.last >= j.block /\ now - HoldFrames > j.emitted
     THEN [EmitUpto(j, now - HoldFrames, FALSE) EXCEPT !.last = now] ELSE j

HiggsDraw ==
  /\ Kind("higgs") /\ job.at = "draw" /\ Len(job.delayed) < HiggsMax
  /\ \E eoc \in BOOLEAN :
       LET s == Len(job.delayed)
           j == Sampled(eoc)
           e == IF eoc /\ job.eoc < 0 /\ job.delay = job.n THEN s ELSE job.eoc
       IN job' = IF j.done THEN [j EXCEPT !.at = "finish", !.eoc = e]
                 ELSE Streamed([j EXCEPT !.delayed = Append(@, SampledAt(s, eoc)), !.eoc = e])

\* max_new, or a cancel seen between steps.
HiggsStop ==
  /\ Kind("higgs") /\ job.at = "draw"
  /\ job' = [job EXCEPT !.at = "finish"]

\* A failing step of the model fails the request; its pieces have been sent.
HiggsFails ==
  /\ Kind("higgs") /\ job.at = "draw" /\ job.delayed # <<>>
  /\ job' = [job EXCEPT !.at = "end"]

HiggsFinish ==
  /\ Kind("higgs") /\ job.at = "finish"
  /\ LET t == FramesOf(job.delayed, job.n)
         j == [job EXCEPT !.at = "end", !.frames = t, !.ok = TRUE]
     IN job' = IF t <= 0 THEN [job EXCEPT !.at = "end"]
               ELSE IF job.stream THEN EmitUpto(j, t, TRUE) ELSE j

-----------------------------------------------------------------------------
(* synthesize_long and synthesize_multispeaker. A part's codes are known   *)
(* by its number, a voice's by its speaker.                                *)

NoVoice2 == "nobody"
Voices2 == {"a", "b"}

PartsInit ==
  \E mode \in {"long", "dialogue"}, rolling \in BOOLEAN, b \in Buffers,
     turns \in UNION {[1..n -> Voices2 \cup {NoVoice2}] : n \in 1..Parts} :
    job = [kind |-> "parts", at |-> "part", mode |-> mode, rolling |-> rolling,
           buffer |-> b, turns |-> turns, part |-> 1, buf |-> <<>>,
           prev |-> [v \in Voices2 |-> 0], done |-> <<>>, gaps |-> 0, ok |-> FALSE]

PrevOf(j, v) == j.prev[v]

\* What the model is given to continue: the kept chunks, or the voice of the
\* turn's speaker and that speaker's turn before.
RefOf(j) ==
  IF j.mode = "long" THEN j.buf
  ELSE LET v == j.turns[j.part]
       IN <<v>> \o (IF j.rolling /\ PrevOf(j, v) # 0 THEN <<PrevOf(j, v)>> ELSE <<>>)

AddThenKeep(buf, k, size) ==
  LET more == Append(buf, k) IN SubSeq(more, HgMax(1, Len(more) - size + 1), Len(more))

Skipped == job.mode = "dialogue" /\ job.turns[job.part] = NoVoice2
PastLast == job.part > Len(job.turns)

PartSkipped ==
  /\ Kind("parts") /\ job.at = "part" /\ ~PastLast /\ Skipped
  /\ job' = [job EXCEPT !.part = @ + 1]

PartRendered ==
  /\ Kind("parts") /\ job.at = "part" /\ ~PastLast /\ ~Skipped
  /\ LET k == job.part
         j == [job EXCEPT !.part = @ + 1, !.done = Append(@, [part |-> k, ref |-> RefOf(job)]),
                          !.gaps = IF job.mode = "dialogue" /\ job.done # <<>> THEN @ + 1 ELSE @]
     IN job' = IF job.mode = "long" THEN [j EXCEPT !.buf = AddThenKeep(@, k, job.buffer)]
               ELSE IF job.rolling THEN [j EXCEPT !.prev[job.turns[k]] = k] ELSE j

\* All parts done, or a cancel between two or in the middle of one. A dialogue
\* of which no turn was rendered is an error.
PartsEnd ==
  /\ Kind("parts") /\ job.at = "part"
  /\ job' = [job EXCEPT !.at = "end", !.ok = job.mode = "long" \/ job.done # <<>>]

HiggsNext == HiggsDraw \/ HiggsStop \/ HiggsFails \/ HiggsFinish
             \/ PartSkipped \/ PartRendered \/ PartsEnd

HiggsSpec == (HiggsInit \/ PartsInit) /\ [][HiggsNext]_job

-----------------------------------------------------------------------------
\* Every code kept was drawn for its codebook at its frame: none is the filler
\* of a codebook that had not started, no frame from the end on is kept, and of
\* a run the model ends itself only the frame before the end is lost; a delayed
\* reference read the same way is the reference (higgs_tts.cpp:197, higgs_tts.h:108).
KeptCodesAligned ==
  job.kind = "higgs" /\ job.at = "end" /\ job.ok =>
    /\ LET kept == Undelayed(job.delayed, job.n, 0, job.frames)
       IN \A t \in 0..job.frames - 1, c \in 0..job.n - 1 :
            /\ kept[t][c].book = c /\ kept[t][c].step = t + c /\ ~kept[t][c].boc
            /\ t >= job.n => ~kept[t][c].eoc
    /\ job.done => job.frames = job.eoc - (IF job.n > 1 THEN 1 ELSE 0)
    /\ Undelayed(DelayPattern(job.frames, job.n), job.n, 0, job.frames)
         = [t \in 0..job.frames - 1 |-> [c \in 0..job.n - 1 |-> <<t, c>>]]

\* The pieces of a stream are its frames, each once and in order, from the first;
\* each is decoded after as much of the stream as the window holds, and no decode
\* grows with the text; a stream that ends well ends with its last frame, in the
\* one final piece (higgs_tts.cpp:520, higgs_tts.h:155).
StreamTiled ==
  job.kind = "higgs" /\ job.stream =>
    LET p == job.pieces
        Upto(i) == IF i = 0 THEN 0 ELSE p[i].upto
    IN /\ \A i \in DOMAIN p :
            /\ p[i].from = Upto(i - 1) /\ p[i].upto > p[i].from
            /\ p[i].context = (IF job.window = 0 \/ p[i].from < job.window
                               THEN p[i].from ELSE job.window)
            /\ p[i].upto - p[i].from <= job.block + HoldFrames
            /\ p[i].final => i = Len(p)
       /\ job.ok => Upto(Len(p)) = job.frames /\ Last(p).final

\* A chunk continues the latest chunks, as many as are kept, in their order; a
\* turn continues its own speaker's voice and that speaker's latest turn, never
\* another's; turns are said in order, with a gap between and none around them
\* (higgs_tts.h:147, :184).
PartsContinue ==
  job.kind = "parts" =>
    /\ job.mode = "dialogue" => job.gaps = HgMax(0, Len(job.done) - 1)
    /\ \A i \in DOMAIN job.done :
         LET d == job.done[i]
             before == {job.done[k].part : k \in 1..i - 1}
             own == {b \in before : job.turns[b] = job.turns[d.part]}
         IN /\ \A b \in before : b < d.part
            /\ job.mode = "long" =>
                 d.ref = [k \in 1..(IF i - 1 < job.buffer THEN i - 1 ELSE job.buffer) |->
                            job.done[HgMax(0, i - 1 - job.buffer) + k].part]
            /\ job.mode = "dialogue" =>
                 d.ref = <<job.turns[d.part]>>
                   \o (IF job.rolling /\ own # {} THEN <<CHOOSE b \in own : \A a \in own : a <= b>> ELSE <<>>)

\* From the drawn codes to the parts of a reading: frames, pieces and parts keep
\* their order and their neighbours.
SpeechIntact == KeptCodesAligned /\ StreamTiled /\ PartsContinue
=============================================================================
