------------------------------ MODULE FaStream ------------------------------
(***************************************************************************)
(* The streaming forced aligner: one call aligns the whole word list with  *)
(* all the audio so far. From one call to the next it keeps the mel frames *)
(* whose window lies inside the audio, the tokens of the words and, when   *)
(* asked to, the K/V rows of the audio; it promises the timings a one-shot *)
(* alignment of the same audio would give.                                 *)
(*                                                                         *)
(* A sample is known by its stream, its place and, when it comes out of    *)
(* the resampler's filter at the end of the audio, by where that end was.  *)
(* A mel frame is the samples of its window; the encoder is bidirectional, *)
(* so a row of audio is known by its index and all the frames.             *)
(***************************************************************************)
EXTENDS Integers, Sequences, SequencesExt, Job

CONSTANTS FaHop,      \* hop_length
          FaHalf,     \* n_fft / 2
          FaChunk,    \* mel frames of a chunk of the encoder, 2 * n_window
          FaRows,     \* rows the encoder makes of a chunk
          FaFilter,   \* taps of the resampler on each side, kHalf
          FaSlack,    \* free slots of a K/V cache of the right size
          FaOversize, \* free slots at the first call of a stream that reuses K/V
          FaAudio,    \* lengths of the audio so far, in samples of the worker
          FaWords,    \* word lists, each the sequence of its words, as token sequences
          FaCalls     \* calls followed

ASSUME FaStreamAssumption ==
  /\ {FaHop, FaHalf, FaChunk, FaRows, FaFilter, FaCalls} \subseteq Nat \ {0}
  /\ {FaSlack, FaOversize} \subseteq Nat
  /\ FaAudio \subseteq Nat \ {0}
  /\ FaWords \subseteq Seq(Seq(Nat)) \ {<<>>}
  /\ 2 * FaFilter <= 3 * FaHop  \* 16 taps at 24 kHz, a hop of 160 at 16 kHz

FaMax(a, b) == IF a > b THEN a ELSE b
FaMin(a, b) == IF a < b THEN a ELSE b

-----------------------------------------------------------------------------
(* The audio at 16 kHz. From 24 kHz, sample i is filtered out of the taps  *)
(* around 3i/2 (the last tap is zero when that is a place); past the end   *)
(* of the audio a tap repeats its last sample.                             *)

Samples(stream, rate, n) ==
  IF rate = 16
  THEN [i \in 1..n |-> [stream |-> stream, at |-> i - 1, cut |-> 0]]
  ELSE [i \in 1..(2 * n) \div 3 |->
          LET c    == (3 * (i - 1)) \div 2
              taps == IF i % 2 = 1 THEN FaFilter - 1 ELSE FaFilter
          IN [stream |-> stream, at |-> c, cut |-> IF c + taps > n - 1 THEN n ELSE 0]]

Outside == [stream |-> 0, at |-> 0, cut |-> 0]

\* Frame t, counted from 0: its window of the samples, zero outside them.
MelFrame(x, t) ==
  [k \in 1..2 * FaHalf |->
     LET i == t * FaHop - FaHalf + k IN IF i \in 1..Len(x) THEN x[i] ELSE Outside]

MelRange(x, from, to) == [k \in 1..to - from |-> MelFrame(x, from + k - 1)]

MelFrames(x) == Len(x) \div FaHop

\* compute_mel, one shot: the last of the frames a padded signal has is dropped.
Mel(x) ==
  LET padded == Len(x) + 2 * FaHalf
  IN MelRange(x, 0, (padded - 2 * FaHalf) \div FaHop + 1 - 1)

\* Mutant: the frame whose window ends with the audio is safe too.
SafeFramesUpTo(x) ==
  IF Len(x) < FaHalf THEN 0 ELSE FaMin((Len(x) - FaHalf) \div FaHop + 1, MelFrames(x))

\* The frames kept: their windows end at least one hop before the audio does.
SafeFrames(x) ==
  IF Len(x) < FaHalf THEN 0 ELSE FaMin((Len(x) - FaHalf) \div FaHop, MelFrames(x))

EncodedRows(mel) == FaRows * ((Len(mel) + FaChunk - 1) \div FaChunk)

-----------------------------------------------------------------------------
(* The prompt.                                                             *)

TextToken(k) == [tok |-> k, mel |-> <<>>, row |-> 0]
Stamp == TextToken("timestamp")
AudioToken(mel, r) == [tok |-> "audio", mel |-> mel, row |-> r]

\* build_text_suffix: audio_end, then each word and its two timestamps.
TextSuffix(words) ==
  <<TextToken("audio_end")>> \o
  FlattenSeq([w \in 1..Len(words) |->
                [k \in 1..Len(words[w]) |-> [TextToken("word") EXCEPT !.row = words[w][k]]]
                \o <<Stamp, Stamp>>])

Stamps(tokens) == {k \in 1..Len(tokens) : tokens[k].tok = "timestamp"}

AudioTokens(mel, from) ==
  [k \in 1..EncodedRows(mel) - from |-> AudioToken(mel, from + k)]

FullPrompt(mel, text) == <<TextToken("audio_start")>> \o AudioTokens(mel, 0) \o text

\* align_words: what a timestamp's row attends is the prompt up to it.
OneShot(x, words) ==
  LET prompt == FullPrompt(Mel(x), TextSuffix(words))
  IN [seen |-> prompt, rows |-> Stamps(prompt)]

-----------------------------------------------------------------------------
(* The K/V cache: one row a slot. A cache that is large enough is kept.    *)

Unwritten == TextToken("unwritten")

KvInit(j, max) ==
  IF Len(j.kv) > 0 /\ max <= Len(j.kv) THEN j
  ELSE [j EXCEPT !.kv = [p \in 1..max |-> Unwritten]]

\* The slots a resumed call leaves as they are: audio_start and the audio
\* rows of the call before.
Past(committed) == 1 + committed

\* run_aligner_core: rows past.. are written; a token attends all up to it.
Forward(j, past, tokens) ==
  [j EXCEPT !.kv = [p \in 1..Len(@) |->
                      IF p \in past + 1..past + Len(tokens) THEN tokens[p - past] ELSE @[p]]]

-----------------------------------------------------------------------------
(* One call of align_words_streaming. A call that must start over resets   *)
(* the stream and runs itself again.                                       *)

Reset(j) == [j EXCEPT !.init = FALSE, !.committed = 0, !.text = <<>>, !.sig = <<>>, !.mel = <<>>]

NeedsReset(j, reset, words) == reset \/ ~j.init \/ j.sig # words

\* The mel, from the frames kept and those that are new; frames past the
\* safe ones are computed again by the next call.
KeepMel(j, x) ==
  LET safe == SafeFrames(x)
      had  == FaMin(Len(j.mel), safe)
  IN [j EXCEPT !.mel = SubSeq(@, 1, had) \o MelRange(x, had, safe)]

Stitched(j, x) == j.mel \o MelRange(x, SafeFrames(x), MelFrames(x))

\* The rest of a call, once the words and the mel are settled.
Align(j, fresh, x, words, fails) ==
  LET mel    == Stitched(j, x)
      rows   == EncodedRows(mel)
      text   == IF fresh THEN TextSuffix(words) ELSE j.text
      whole  == fresh \/ ~j.reuse
      past   == IF whole THEN 0 ELSE Past(j.committed)
      tokens == IF whole THEN FullPrompt(mel, text) ELSE AudioTokens(mel, j.committed) \o text
      base   == IF whole THEN 1 + rows ELSE rows - j.committed
      sized  == KvInit(j, FaMax(Len(j.kv),
                  past + Len(tokens) + (IF fresh /\ j.reuse THEN FaOversize ELSE FaSlack)))
      ran    == Forward(sized, past, tokens)
      stamps == {past + base + off : off \in Stamps(text)}
  IN CASE fails = "kv" /\ Len(sized.kv) # Len(j.kv) -> [j EXCEPT !.kv = <<>>, !.text = text, !.ok = FALSE]
       [] fails = "embed"   -> [sized EXCEPT !.text = text, !.ok = FALSE]
       [] fails = "forward" -> [ran EXCEPT !.text = text, !.ok = FALSE]
       [] OTHER             -> [ran EXCEPT !.text = text, !.ok = TRUE, !.init = TRUE, !.committed = rows,
                                  !.got = [seen |-> SubSeq(ran.kv, 1, past + Len(tokens)),
                                           rows |-> stamps]]

\* Encoder rows that shrank, or a prompt that outgrew the cache.
StartsOver(j, x) ==
  LET rows == EncodedRows(Stitched(j, x))
  IN \/ rows < j.committed
     \/ /\ j.reuse
        /\ Past(j.committed) + rows - j.committed + Len(j.text) + FaSlack > Len(j.kv)

AlignStreaming(j, reset, x, words, fails) ==
  LET fresh == NeedsReset(j, reset, words)
      again == [Reset(j) EXCEPT !.sig = words]
      kept  == KeepMel(IF fresh THEN again ELSE j, x)
  IN CASE MelFrames(x) = 0 ->
            [IF fresh THEN again ELSE j EXCEPT !.ok = FALSE]
       [] MelFrames(x) > 0 /\ fails = "encoder" -> [kept EXCEPT !.ok = FALSE]
       [] MelFrames(x) > 0 /\ fails # "encoder" ->
            IF ~fresh /\ StartsOver(kept, x)
            THEN Align(KeepMel(again, x), TRUE, x, words, fails)
            ELSE Align(kept, fresh, x, words, fails)

-----------------------------------------------------------------------------
(* The worker's calls: a stream starts with a reset, is followed by more   *)
(* audio, and any call may fail.                                           *)

FaFails == {"no", "encoder", "kv", "embed", "forward"}

FaInit ==
  \E rate \in {16, 24}, reuse \in BOOLEAN :
    job = [kind |-> "fa", at |-> "stream", rate |-> rate, reuse |-> reuse,
           init |-> FALSE, committed |-> 0, text |-> <<>>, sig |-> <<>>, mel |-> <<>>, kv |-> <<>>,
           stream |-> 0, x |-> <<>>, words |-> <<>>, ok |-> FALSE,
           got |-> [seen |-> <<>>, rows |-> {}], calls |-> FaCalls]

Called(stream, n, words, fails) ==
  LET x == Samples(stream, job.rate, n)
  IN /\ job.calls > 0
     /\ job' = [AlignStreaming(job, stream # job.stream, x, words, fails) EXCEPT
                  !.stream = stream, !.x = x, !.words = words, !.calls = job.calls - 1]

FaBegin == Kind("fa") /\ \E n \in FaAudio, words \in FaWords, fails \in FaFails :
             Called(job.stream + 1, n, words, fails)
FaFeed == Kind("fa") /\ job.stream > 0 /\ \E n \in FaAudio, words \in FaWords, fails \in FaFails :
             Called(job.stream, n, words, fails)
FaEnd == Kind("fa") /\ job.calls = 0 /\ UNCHANGED job

FaNext == FaBegin \/ FaFeed \/ FaEnd

FaSpec == FaInit /\ [][FaNext]_job

-----------------------------------------------------------------------------
(* Properties.                                                             *)

\* What a stream's call reads is what the one-shot alignment of the same audio
\* and words reads: the same rows, over the same prompt and the same mel.
SameAsOneShot == job.got = OneShot(job.x, job.words)

\* With no K/V kept, the promise holds over streams, growing or shrinking
\* audio, other words and failed calls, at either rate: no frame that is kept
\* touches what the resampler makes up at the end of the audio.
StreamIsOneShot == Kind("fa") /\ job.ok /\ ~job.reuse => SameAsOneShot

\* With K/V kept, rows of audio are those of earlier mels; but each slot holds
\* the token of its place, of this stream, and the timestamps are read there.
Place(token) == [tok |-> token.tok, row |-> token.row,
                 of |-> {token.mel[t][k].stream : t \in DOMAIN token.mel, k \in 1..2 * FaHalf} \ {0}]
Places(read) == [seen |-> [p \in DOMAIN read.seen |-> Place(read.seen[p])], rows |-> read.rows]

ReuseKeepsPlaces ==
  Kind("fa") /\ job.ok => Places(job.got) = Places(OneShot(job.x, job.words))

\* Streaming does not change what the aligner reads.
StreamFaithful == StreamIsOneShot /\ ReuseKeepsPlaces
=============================================================================
