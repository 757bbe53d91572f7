----------------------------- MODULE StreamedNet -----------------------------
(***************************************************************************)
(* The vocoder's network, decoded in chunks. A signal is a sequence of     *)
(* numbers modulo NetPrime, one channel wide; a weight is a number, a      *)
(* nonlinearity a square. What a chunk needs of the chunks before it is    *)
(* handed on in three ways: the last samples in front of a convolution,    *)
(* the overhang of a transposed convolution, and the K/V rows of attention.*)
(***************************************************************************)
EXTENDS Integers, SequencesExt, Job

CONSTANTS NetPrime,   \* a small prime
          NetFiles,   \* upsample_rates of the models there are, and the key they are under
          V1Rates,    \* upsample_rates of a file without the key
          NetBooks,   \* n_codebooks
          NetTfm,     \* n_pre_tfm_layers
          NetStride,  \* kFattnKqStride
          NetClips    \* the streams decoded one after another, each a sequence of frames

ASSUME StreamedNetAssumption ==
  /\ {NetPrime, NetBooks, NetTfm, NetStride} \subseteq Nat \ {0}
  /\ \A f \in NetFiles : f.key = "none" => f.rates = V1Rates

Mod(v) == v % NetPrime
NetSum(n, Term(_)) == FoldLeftDomain(LAMBDA a, i : Mod(a + Term(i)), 0, [i \in 1..n |-> i])
Made(n, At(_)) == SubSeq([i \in 1..n |-> At(i)], 1, n)
Bent(x) == Made(Len(x), LAMBDA i : Mod(x[i] + x[i] * x[i]))
Added(x, y) == Made(Len(x), LAMBDA i : Mod(x[i] + y[i]))
NetWeight(j) == j * j + 1

-----------------------------------------------------------------------------
(* load_model: the strides, and the place of each tensor of a file. The    *)
(* number of a "dec" tensor means a block, or one of the two layers after  *)
(* the last block.                                                         *)

RatesOf(file) == IF file.key \in {"canonical", "legacy"} /\ file.rates # <<>>
                 THEN file.rates ELSE V1Rates

Parts4 == {"act1", "conv1", "act2", "conv2"}

\* What the converter writes for n blocks.
DecTensors(n) ==
  {<<"dec", 0, "conv">>, <<"dec", n + 1, "snake">>, <<"dec", n + 2, "conv">>}
    \cup {<<"dec", b, p>> : b \in 1..n, p \in {"snake", "conv_t"}}
    \cup {<<"dec", b, r, p>> : b \in 1..n, r \in 2..4, p \in Parts4}

FinalAt(n) == n + 1

Nowhere == <<"none">>
Placed(t, n) ==
  IF t = <<"dec", 0, "conv">> THEN <<"dec0_conv">>
  ELSE IF t = <<"dec", FinalAt(n), "snake">> THEN <<"final_snake">>
  ELSE IF t = <<"dec", FinalAt(n) + 1, "conv">> THEN <<"final_conv">>
  ELSE IF t[2] \notin 1..n THEN Nowhere
  ELSE IF Len(t) = 3 THEN <<"block", t[2], t[3]>>
  ELSE IF t[3] \in 2..4 THEN <<"res", t[2], t[3] - 2, t[4]>> ELSE Nowhere

-----------------------------------------------------------------------------
(* One layer: from the signal x, the residual held, and what was handed on *)
(* (past) to the same for the layer after it; next is what is handed on to *)
(* the chunk after this one. Without streaming, what is handed on is zero. *)

Zeros(n) == [i \in 1..n |-> 0]
Handed(st, name, n) == IF name \in DOMAIN st.past THEN st.past[name] ELSE Zeros(n)
HandOn(st, name, v) == [st EXCEPT !.next = [k \in DOMAIN @ \cup {name} |->
                                              IF k = name THEN v ELSE @[k]]]

\* Mutant: the tail is the end of the chunk, as if no chunk were shorter.
TailOfChunk(cat, n) ==
  Made(n, LAMBDA i : IF Len(cat) - 2 * n + i > 0 THEN cat[Len(cat) - n + i] ELSE 0)
TailOf(cat, n) == SubSeq(cat, Len(cat) - n + 1, Len(cat))

CausalTail(st, name, n) ==
  LET cat == Handed(st, name, n) \o st.x
  IN HandOn([st EXCEPT !.x = cat], name, TailOf(cat, n))

Convolved(x, k, d) ==
  Made(Len(x) - (k - 1) * d, LAMBDA i : NetSum(k, LAMBDA j : NetWeight(j) * x[i + (j - 1) * d]))

CausalConv(st, name, k, d) ==
  LET c == CausalTail(st, name, (k - 1) * d) IN [c EXCEPT !.x = Convolved(c.x, k, d)]

\* ggml_conv_transpose_1d without padding.
Transposed(x, k, s) ==
  Made(s * (Len(x) - 1) + k,
       LAMBDA o : NetSum(Len(x), LAMBDA i : LET j == o - s * (i - 1)
                                            IN IF j \in 1..k THEN NetWeight(j) * x[i] ELSE 0))

\* apply_decoder_block's: of one chunk the right end is dropped; in a stream it
\* is kept for the next chunk, and the one before is added at the left.
OverlapConv(st, name, s) ==
  LET raw  == Transposed(st.x, 2 * s, s)
      keep == SubSeq(raw, 1, Len(raw) - s)
      over == Handed(st, name, s)
  IN IF ~st.streaming THEN [st EXCEPT !.x = keep]
     ELSE HandOn([st EXCEPT !.x = Made(Len(keep), LAMBDA i :
                                         IF i <= s THEN Mod(keep[i] + over[i]) ELSE keep[i])],
                 name, TailOf(raw, s))

\* apply_pre_tfm_layer: a query sees the rows its mask opens. In a stream they are
\* rows of the slab, which the chunk's own are written to first and which end at
\* the next multiple of the stride.
NetPadded(n) == ((n + NetStride - 1) \div NetStride) * NetStride
RowOf(v, pos) == [k |-> Mod(3 * v * (pos + 1)), v |-> Mod(5 * v + 1)]

Attends(st, l) ==
  LET n    == Len(st.x)
      own  == [i \in st.n_past..st.n_past + n - 1 |->
                 RowOf(Bent(st.x)[i - st.n_past + 1], i)]
      seen == IF st.streaming
              THEN [i \in 0..NetPadded(st.n_past + n) - 1 |->
                      IF i \in DOMAIN own THEN own[i] ELSE st.slab[l][i]]
              ELSE own
      Opened(pos, i) == i <= pos
      y == Made(n, LAMBDA q :
             LET pos == st.n_past + q - 1
             IN Mod(st.x[q] + NetSum(NetPadded(st.n_past + n), LAMBDA i :
                      IF i - 1 \in DOMAIN seen /\ Opened(pos, i - 1)
                      THEN (RowOf(st.x[q], pos).k + seen[i - 1].k) * seen[i - 1].v ELSE 0)))
  IN [st EXCEPT !.x = Added(y, Bent(y)),
                !.slab[l] = IF st.streaming
                            THEN [i \in DOMAIN @ |-> IF i \in DOMAIN own THEN own[i] ELSE @[i]]
                            ELSE @]

UpsampleBlock(st, b) ==
  LET up == [st EXCEPT !.x = Transposed(st.x, 2, 2)]
      dw == CausalConv(up, <<"up", b>>, 7, 1)
  IN [dw EXCEPT !.x = Added(up.x, Bent(dw.x))]

Dilation(r) == <<1, 3, 9>>[r + 1]

ResidualBlock(st, b, r) ==
  LET one == CausalConv([st EXCEPT !.x = Bent(@)], <<"dec", b, r, "conv1">>, 2, Dilation(r))
      two == CausalConv([one EXCEPT !.x = Bent(@)], <<"dec", b, r, "conv2">>, 1, 1)
  IN [two EXCEPT !.x = Added(st.x, @)]

DecoderBlock(st, b, s) ==
  LET up == OverlapConv([st EXCEPT !.x = Bent(@)], <<"dec", b>>, s)
  IN FoldLeft(LAMBDA u, r : ResidualBlock(u, b, r),
              [up EXCEPT !.x = Made(Len(@), LAMBDA i : Mod(up.x[i] + 1))], <<0, 1, 2>>)

\* The sum of a frame's embeddings, each projected.
Embedded(frame) ==
  Mod(2 * NetWeight(frame[1]) + 3 * NetSum(NetBooks - 1, LAMBDA k : (k + 1) * frame[k + 1]))

\* build_graph: from codes to audio.
Graph(st, codes, rates) ==
  LET vq  == [st EXCEPT !.x = Made(Len(codes), LAMBDA i : Embedded(codes[i]))]
      pre == CausalConv(vq, <<"pre_conv">>, 3, 1)
      tfm == FoldLeft(LAMBDA u, l : Attends(u, l), pre, [l \in 1..NetTfm |-> l])
      up  == FoldLeft(LAMBDA u, b : UpsampleBlock(u, b), tfm, <<0, 1>>)
      dec == FoldLeftDomain(LAMBDA u, b : DecoderBlock(u, b, rates[b]),
                            CausalConv(up, <<"dec0">>, 3, 1), rates)
      fin == CausalConv([dec EXCEPT !.x = Bent(@)], <<"final">>, 3, 1)
  IN [fin EXCEPT !.x = Bent(@)]

-----------------------------------------------------------------------------
(* The state a stream leaves between its chunks, and its operations.       *)

NoTails == [name \in {} |-> <<>>]
Longest == CHOOSE n \in {Len(NetClips[c]) : c \in DOMAIN NetClips} :
             \A c \in DOMAIN NetClips : Len(NetClips[c]) <= n
Slab0 == [l \in 1..NetTfm |-> [i \in 0..NetPadded(Longest) - 1 |-> [k |-> 0, v |-> 0]]]

\* decode: everything at once.
Decoded(codes, rates) ==
  Graph([streaming |-> FALSE, n_past |-> 0, slab |-> Slab0, past |-> NoTails,
         next |-> NoTails, x |-> <<>>], codes, rates).x

\* stream_decode.
StreamDecoded(j, codes) ==
  LET st == Graph([streaming |-> TRUE, n_past |-> j.n_past, slab |-> j.slab,
                   past |-> j.tails, next |-> NoTails, x |-> <<>>], codes, RatesOf(j.file))
  IN [j EXCEPT !.out = @ \o st.x, !.tails = st.next, !.slab = st.slab,
               !.n_past = @ + Len(codes)]

StreamReset(j) == [j EXCEPT !.n_past = 0, !.tails = NoTails]

NetInit ==
  \E f \in NetFiles :
    job = [kind |-> "net", at |-> "stream", file |-> f, clip |-> 1, n_past |-> 0,
           tails |-> NoTails, slab |-> Slab0, out |-> <<>>]

Clip == NetClips[job.clip]

NetChunk ==
  /\ Kind("net") /\ job.at = "stream" /\ job.n_past < Len(Clip)
  /\ \E n \in 1..Len(Clip) - job.n_past :
       job' = StreamDecoded(job, SubSeq(Clip, job.n_past + 1, job.n_past + n))

\* The next stream, also after a cancel; what the one before left is forgotten,
\* but for the rows of the slab.
NetReset ==
  /\ Kind("net") /\ job.at = "stream"
  /\ job' = IF job.clip = Len(NetClips) THEN [job EXCEPT !.at = "end"]
            ELSE [StreamReset(job) EXCEPT !.clip = @ + 1, !.out = <<>>]

NetNext == NetChunk \/ NetReset

-----------------------------------------------------------------------------
\* A stream's audio is that of its frames decoded at once, cut where the stream
\* has come to, however it is cut into chunks, also chunks shorter than what a
\* convolution looks back on, and whatever stream came before
\* (audio_tokenizer_decoder.cpp:1121).
ChunkingInvisible ==
  job.kind = "net" =>
    LET rates == RatesOf(job.file)
        rate  == 4 * FoldLeft(LAMBDA a, s : a * s, 1, rates)
    IN /\ Len(job.out) = job.n_past * rate
       /\ job.n_past > 0 => job.out = Decoded(SubSeq(Clip, 1, job.n_past), rates)

\* Each decoder tensor of a file has a place of its own, of either generation of
\* the model, though the number of a block of one is that of a final layer of the
\* other (audio_tokenizer_decoder.h:138).
TensorsPlaced ==
  job.kind = "net" =>
    LET n == Len(RatesOf(job.file))
        tensors == DecTensors(Len(job.file.rates))
    IN /\ \A t \in tensors : Placed(t, n) # Nowhere
       /\ \A t, u \in tensors : Placed(t, n) = Placed(u, n) => t = u

\* The vocoder is the network of its file, streamed or not.
NetFaithful == ChunkingInvisible /\ TensorsPlaced
=============================================================================
