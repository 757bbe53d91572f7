--------------------------- MODULE VocoderStream ---------------------------
(***************************************************************************)
(* The streaming vocoder: AudioTokenizerDecoder's K/V slab, its causal     *)
(* convolution tails, and the snapshots of reference audio that            *)
(* Qwen3TTS keeps per cloned voice (icl_cache_), over successive streams.  *)
(*                                                                         *)
(* A stream's context is a sequence of frames: the voice's reference, then *)
(* what was generated. Contents are abstracted to counts: rows is how many *)
(* leading rows of the slab belong to this stream's context, tails how     *)
(* many of its frames the convolution tails have seen. Both must equal     *)
(* n_past, or the chunk is decoded against another context than its own.   *)
(* streaming_mode_ is left out: decode() and stream_decode() both assign   *)
(* it before anything reads it.                                            *)
(***************************************************************************)
EXTENDS Integers

CONSTANTS
  Voices,    \* cloned voices, by the hash of their reference codes
  NoVoice,   \* a stream without reference codes or text
  RefFrames, \* n_ref_frames of a voice
  Requests,  \* [voice, hint]: hint is max_audio_tokens
  Chunks,    \* frames a chunk may have: the talker's batch sizes
  Stride,    \* kFattnKqStride (256)
  First,     \* 256, the first slab
  Keep,      \* 1024: a slab up to this size is never freed between streams
  Ceiling,   \* 8192, QWEN3_TTS_STREAM_KV_MAX_NPAST unset
  Slack      \* 32

ASSUME VocoderAssumption ==
  /\ NoVoice \notin Voices
  /\ RefFrames \in [Voices -> Nat \ {0}]
  /\ Requests \subseteq [voice : Voices \cup {NoVoice}, hint : Nat \ {0}]
  /\ Chunks \subseteq Nat \ {0}
  /\ Stride \in Nat \ {0} /\ First \in Nat \ {0}
  /\ Keep \in Nat /\ Ceiling \in Nat /\ Slack \in Nat

VARIABLES
  pc,       \* "loading", "idle", "warm" (reference being decoded),
            \* "stream", "aborted"
  req,      \* the request
  slab,     \* state_.stream_kv.max_n_past, 0 without a buffer
  n_past,   \* frames of context, as the decoder counts them
  hint,     \* stream_max_n_past_hint_
  rows,     \* leading slab rows of this stream's context
  tails,    \* frames of it seen by tail_rings_, conv_t_overlap_hosts_
  icl,      \* icl_cache_: [n_past, fits], fits = K/V type of this process
  start,    \* how the stream began: "fresh", "restored", "dropped"
  frames    \* frames generated so far

vocoderVars == <<pc, req, slab, n_past, hint, rows, tails, icl, start, frames>>
context == <<n_past, rows, tails>>

MaxOf(a, b) == IF a >= b THEN a ELSE b
MinOf(a, b) == IF a <= b THEN a ELSE b
Padded(n) == ((n + Stride - 1) \div Stride) * Stride

Snapshot == [n_past : Nat \ {0}, fits : BOOLEAN]
NoIcl == [v \in {} |-> 0]
With(map, v, snap) == [w \in DOMAIN map \cup {v} |-> IF w = v THEN snap ELSE map[w]]

Cloned == req.voice \in Voices
\* The reference frames that come before the generated ones.
Ref == IF Cloned THEN RefFrames[req.voice] ELSE 0

VocoderInit ==
  /\ pc = "loading" /\ req \in Requests
  /\ slab = 0 /\ n_past = 0 /\ hint = 0
  /\ rows = 0 /\ tails = 0 /\ icl = NoIcl /\ start = "fresh" /\ frames = 0

---------------------------------------------------------------------------
(* ensure_stream_kv_cache(want), entered with n_past_ = past: what it may  *)
(* leave behind. Growing copies past rows out of the old slab; a slab with *)
(* fewer rows fails the bounds assertion of the copy. The old slab is      *)
(* freed before the new one is allocated.                                  *)

EnsureForgets(want, past) ==
  IF slab >= want
  THEN {[how |-> "ok", slab |-> slab, rows |-> rows]}
  ELSE {[how |-> "ok", slab |-> want, rows |-> 0],
        [how |-> "failed", slab |-> 0, rows |-> 0]}

Ensure(want, past) ==
  IF slab >= want
  THEN {[how |-> "ok", slab |-> slab, rows |-> rows]}
  ELSE IF slab > 0 /\ past > slab
  THEN {[how |-> "overrun", slab |-> slab, rows |-> rows]}
  ELSE {[how |-> "ok", slab |-> want, rows |-> MinOf(rows, past)],
        [how |-> "failed", slab |-> 0, rows |-> 0]}

\* The capacity stream_decode asks for: double it, at least what the chunk
\* needs, at most the smaller of the hint and the ceiling.
Cap == IF hint > 0 /\ hint < Ceiling THEN hint ELSE Ceiling
TargetUnpadded(n) ==
  IF slab >= n_past + n THEN slab
  ELSE LET doubled == MaxOf(n_past + n, 2 * slab) IN
       IF doubled > Cap THEN MaxOf(n_past, Cap) ELSE doubled
Target(n) ==
  LET need == Padded(n_past + n)
      doubled == MaxOf(need, IF slab = 0 THEN First ELSE 2 * slab)
  IN IF slab >= need THEN slab
     ELSE IF doubled > Cap THEN MaxOf(need, Cap) ELSE doubled

---------------------------------------------------------------------------
(* One stream.                                                             *)

Shrinks(h) == slab > Keep /\ slab >= 2 * h

\* stream_reset(max_audio_tokens), at the start of a streaming synthesis.
Reset(r) ==
  /\ pc = "idle"
  /\ req' = r /\ hint' = r.hint
  /\ n_past' = 0 /\ rows' = 0 /\ tails' = 0 /\ frames' = 0
  /\ slab' = IF Shrinks(r.hint) THEN 0 ELSE slab
  /\ start' = "fresh"
  /\ pc' = IF r.voice \in Voices THEN "warm" ELSE "stream"
  /\ UNCHANGED icl

Hit == pc = "warm" /\ Cloned /\ n_past = 0 /\ req.voice \in DOMAIN icl

\* What restore_stream_state asks for. The hint plays no part.
RestoreWant(snap) == MaxOf(snap.n_past + Slack, Ceiling)

\* restore_stream_state. n_past_ and the tails are the snapshot's before the
\* slab is looked at; a failure takes n_past_ back and leaves the tails.
Restore ==
  /\ Hit
  /\ tails' = icl[req.voice].n_past
  /\ \E e \in Ensure(RestoreWant(icl[req.voice]), icl[req.voice].n_past) :
       /\ slab' = e.slab
       /\ CASE e.how = "overrun" ->
                 /\ pc' = "aborted" /\ n_past' = icl[req.voice].n_past
                 /\ UNCHANGED <<rows, start>>
            [] e.how = "ok" /\ icl[req.voice].fits ->
                 /\ pc' = "stream" /\ n_past' = icl[req.voice].n_past
                 /\ rows' = n_past' /\ start' = "restored"
            [] OTHER ->
                 /\ pc' = "stream" /\ n_past' = 0
                 /\ rows' = e.rows /\ start' = "dropped"
  /\ UNCHANGED <<req, hint, icl, frames>>

\* A chunk of n frames through stream_decode: size the slab, run the graph,
\* roll the tails. Rows are this context's as long as none is missing below.
Decoded(n, e) ==
  /\ e.how = "ok"
  /\ slab' = e.slab
  /\ rows' = IF e.rows >= n_past THEN n_past + n ELSE e.rows
  /\ n_past' = n_past + n /\ tails' = tails + n

\* No memory for the slab, or the graph fails on it: n_past_ stays, and the
\* synthesis ends. The copy of a growth may assert.
DecodeFails(e) ==
  /\ slab' = e.slab /\ rows' = e.rows
  /\ pc' = IF e.how = "overrun" THEN "aborted" ELSE "idle"
  /\ UNCHANGED <<n_past, tails>>

\* The reference goes through in chunks of the batch size, its PCM thrown
\* away; after the last the state is captured and cached.
Warming == pc = "warm" /\ ~Hit
WarmSize(n) == MinOf(n, Ref - n_past)
Captured == [n_past |-> n_past', fits |-> TRUE]

WarmChunkEarly(n) ==
  /\ Warming
  /\ \E e \in Ensure(Target(WarmSize(n)), n_past) : Decoded(WarmSize(n), e)
  /\ pc' = IF n_past' = Ref THEN "stream" ELSE "warm"
  /\ icl' = With(icl, req.voice, Captured)
  /\ UNCHANGED <<req, hint, start, frames>>
WarmChunk(n) ==
  /\ Warming
  /\ \E e \in Ensure(Target(WarmSize(n)), n_past) : Decoded(WarmSize(n), e)
  /\ IF n_past' = Ref
     THEN pc' = "stream" /\ icl' = With(icl, req.voice, Captured)
     ELSE UNCHANGED <<pc, icl>>
  /\ UNCHANGED <<req, hint, start, frames>>

WarmFails(n) ==
  /\ Warming
  /\ \E e \in Ensure(Target(WarmSize(n)), n_past) : DecodeFails(e)
  /\ UNCHANGED <<req, hint, icl, start, frames>>

\* run_vocoder_chunk, on a batch of the talker's frames.
Chunk(n) ==
  /\ pc = "stream" /\ frames + n <= req.hint
  /\ \E e \in Ensure(Target(n), n_past) : Decoded(n, e)
  /\ frames' = frames + n
  /\ UNCHANGED <<pc, req, hint, icl, start>>

ChunkFails(n) ==
  /\ pc = "stream" /\ frames + n <= req.hint
  /\ \E e \in Ensure(Target(n), n_past) : DecodeFails(e)
  /\ UNCHANGED <<req, hint, icl, start, frames>>

\* The synthesis ends: all frames, EOS, a cancel, a client that went away.
End ==
  /\ pc = "stream" /\ pc' = "idle"
  /\ UNCHANGED <<req, slab, hint, context, icl, start, frames>>

---------------------------------------------------------------------------
(* Between streams.                                                        *)

\* decode(): a synthesis without streaming.
OneShot ==
  /\ pc = "idle" /\ n_past' = 0
  /\ UNCHANGED <<pc, req, slab, hint, rows, tails, icl, start, frames>>

\* load_voice_warmup, for each file in the voice archive while the worker
\* answers LOAD: emplace keeps an entry that is already there. The file may
\* have been written under another QWEN3_TTS_STREAM_KV.
Seed(v, fits) ==
  /\ pc = "loading" /\ v \notin DOMAIN icl
  /\ icl' = With(icl, v, [n_past |-> RefFrames[v], fits |-> fits])
  /\ UNCHANGED <<pc, req, slab, hint, context, start, frames>>

Loaded ==
  /\ pc = "loading" /\ pc' = "idle"
  /\ UNCHANGED <<req, slab, hint, context, icl, start, frames>>

\* unload_model: stream_reset(0), then the slab. icl_cache_ is the engine's.
UnloadDecoder ==
  /\ pc = "idle"
  /\ slab' = 0 /\ n_past' = 0 /\ hint' = 0 /\ rows' = 0 /\ tails' = 0
  /\ UNCHANGED <<pc, req, icl, start, frames>>

\* A process that aborted is replaced.
Respawn ==
  /\ pc = "aborted" /\ pc' = "loading"
  /\ slab' = 0 /\ n_past' = 0 /\ hint' = 0 /\ rows' = 0 /\ tails' = 0
  /\ icl' = NoIcl /\ start' = "fresh" /\ frames' = 0
  /\ UNCHANGED req

VocoderNext ==
  \/ \E r \in Requests : Reset(r)
  \/ Restore
  \/ \E n \in Chunks : WarmChunk(n) \/ WarmFails(n) \/ Chunk(n) \/ ChunkFails(n)
  \/ End
  \/ OneShot
  \/ \E v \in Voices, fits \in BOOLEAN : Seed(v, fits)
  \/ Loaded \/ UnloadDecoder
  \/ Respawn

VocoderSpec == VocoderInit /\ [][VocoderNext]_vocoderVars

---------------------------------------------------------------------------
(* Properties.                                                             *)

\* Every variable stays in its range: the state the actions range over.
TypeOK ==
  /\ pc \in {"loading", "idle", "warm", "stream", "aborted"}
  /\ req \in Requests
  /\ slab \in Nat /\ n_past \in Nat /\ hint \in Nat
  /\ rows \in Nat /\ tails \in Nat /\ frames \in Nat
  /\ DOMAIN icl \subseteq Voices
  /\ icl \in [DOMAIN icl -> Snapshot]
  /\ start \in {"fresh", "restored", "dropped"}

\* n_past is what attention masks by and tails is what the convolutions
\* continue from: while a stream runs, however often the slab has been
\* grown, freed or restored in between, both count the same frames and every
\* row attention reads is one of them.
ContextAgrees ==
  pc \in {"warm", "stream"} /\ start # "dropped" => rows = n_past /\ tails = n_past

\* A cloned voice's first generated frame, and every later one, is decoded
\* behind the whole reference: by a cache hit, by a miss, and after warm-ups
\* that failed half way.
ReferenceIsContext ==
  pc = "stream" /\ start # "dropped" => n_past = Ref + frames

\* Every row of the context is in the slab, and after a chunk so are those
\* up to the stride in which the attention kernel reads.
RowsFit ==
  pc \in {"warm", "stream"} =>
    /\ n_past <= slab
    /\ pc = "warm" \/ frames > 0 => Padded(n_past) <= slab

\* The three records of one context agree, and the slab holds all of it.
ContextSound == ContextAgrees /\ RowsFit

\* One long stream does not pin its slab: a stream that did not start from a
\* snapshot runs on a slab that was never freed because it is small, that is
\* less than twice what it may generate, or that its own context needs.
SlabStaysModest ==
  pc = "stream" /\ start = "fresh" =>
    slab <= MaxOf(Keep, MaxOf(2 * req.hint, Padded(n_past)))
===========================================================================
