------------------------------ MODULE CodecNets ------------------------------
(***************************************************************************)
(* The convolutional codecs of the three engines, by the lengths of their  *)
(* signals and by which inputs an output is computed from: Higgs's decoder *)
(* in windows and its encoder of two branches, Mimi's decoder in spans,    *)
(* the encoders Qwen3 and Breeze clone a voice with, and how a frame       *)
(* becomes codes. The sizes of the layers are the code's own.              *)
(***************************************************************************)
EXTENDS StreamedNet

CONSTANTS Blocks,     \* frames a block of a Higgs stream may add
          Longest960, \* frames of the longest Higgs stream looked at
          DecodeCtx,  \* decode_ctx
          MimiFrames, \* lengths of the clips Mimi decodes, in frames
          SpanFrames, \* seanet_span_
          SeanetCtx,  \* seanet_ctx_
          ClipLens,   \* lengths of the clips encoded, in samples
          RefLens24,  \* lengths of the references Higgs encodes, in samples
          Taps,       \* strides of the transposed convolutions rebuilt
          CodeBooks,  \* codebooks of a quantizer, a sequence of sequences of numbers
          Features    \* what a frame may be, as pairs of numbers

\* Too short a reference leaves the semantic branch nothing to convolve.
ASSUME CodecNetsAssumption ==
  /\ Blocks \cup MimiFrames \cup ClipLens \cup Taps \cup {SpanFrames, DecodeCtx} \subseteq Nat \ {0}
  /\ SeanetCtx \in Nat /\ \A n \in RefLens24 : n > 118

-----------------------------------------------------------------------------
(* A layer: k taps d apart, every s-th output, l and r zeros around; a     *)
(* transposed one gives s outputs for an input and is cut by l and r.      *)
(* Causal attention looks at everything up to its own position.            *)

Conv(k, s, d, l, r) == [is |-> "conv", k |-> k, s |-> s, d |-> d, l |-> l, r |-> r]
TConv(k, s, l, r) == [Conv(k, s, 1, l, r) EXCEPT !.is = "tconv"]
CausalAttention == [Conv(1, 1, 1, 0, 0) EXCEPT !.is = "attn"]
CausalLayer(k, d) == Conv(k, 1, d, (k - 1) * d, 0)

UpDiv(a, b) == -((-a) \div b)

LenAfter(n, y) == IF y.is = "tconv" THEN (n - 1) * y.s + y.k - y.l - y.r
                  ELSE (n + y.l + y.r - y.d * (y.k - 1) - 1) \div y.s + 1
LenThrough(layers, n) == FoldLeft(LenAfter, n, layers)

\* The inputs that the outputs of an interval are computed from.
HeardBy(y, iv) ==
  IF y.is = "attn" THEN <<0, iv[2]>>
  ELSE IF y.is = "tconv" THEN <<UpDiv(iv[1] + y.l - y.k + 1, y.s), (iv[2] + y.l) \div y.s>>
  ELSE <<iv[1] * y.s - y.l, iv[2] * y.s - y.l + (y.k - 1) * y.d>>
Heard(layers, iv) == FoldRight(HeardBy, layers, iv)

Concat(n, Part(_)) == FoldLeft(LAMBDA a, i : a \o Part(i), <<>>, [i \in 1..n |-> i])

-----------------------------------------------------------------------------
(* Higgs's decoder and the windows of run_ar_streaming.                    *)

DacStrides == <<8, 5, 4, 2, 3>>
HalfUp(s) == (s + 1) \div 2

DacUnit(dil) == <<Conv(7, 1, dil, 3 * dil, 3 * dil), Conv(1, 1, 1, 0, 0)>>
DacUnits == DacUnit(1) \o DacUnit(3) \o DacUnit(9)

RightTrim(s) == HalfUp(s) - (s % 2)

HiggsDecoder ==
  <<Conv(7, 1, 1, 3, 3)>>
  \o Concat(5, LAMBDA b : LET s == DacStrides[b]
                          IN <<TConv(2 * s, s, HalfUp(s), RightTrim(s))>> \o DacUnits)
  \o <<Conv(7, 1, 1, 3, 3)>>

HiggsRate == 960
MaxOf(a, b) == IF a > b THEN a ELSE b
WindowAt(emitted) == MaxOf(0, emitted - DecodeCtx)

NoPiece == [w0 |-> 0, from |-> 0, upto |-> 0, last |-> FALSE]

\* emit_upto: of the decode of the frames from w0 on, the samples of new frames.
WindowPiece ==
  /\ Kind("codec") /\ job.net = "higgs" /\ job.at = "stream"
  /\ \E n \in Blocks, last \in BOOLEAN :
       /\ last \/ job.emitted + n < Longest960
       /\ job' = [job EXCEPT !.emitted = @ + n, !.at = IF last THEN "end" ELSE @,
                    !.piece = [w0 |-> WindowAt(job.emitted), from |-> job.emitted,
                               upto |-> job.emitted + n, last |-> last]]

-----------------------------------------------------------------------------
(* Mimi's decoder: everything up to the transformer at once, the           *)
(* convolutions after it in spans of latents, each after some of the       *)
(* latents before it.                                                      *)

UpsampleRates == <<8, 6, 5, 4>>
ResnetUnit == <<CausalLayer(3, 1), CausalLayer(1, 1)>>

\* The transposed convolution as s convolutions of two taps, interleaved: by
\* what is heard, s outputs of a position and the one before it.
Seanet ==
  <<CausalLayer(7, 1)>>
  \o Concat(4, LAMBDA i : LET s == UpsampleRates[i] IN <<TConv(2 * s, s, 0, s)>> \o ResnetUnit)
  \o <<CausalLayer(3, 1)>>

LatentsOf(frames) == 2 * frames
SamplesPerLatent == 960
\* Mutant: no more warmth than the first convolution's.
WarmOfSeven(s0) == IF s0 < 6 THEN s0 ELSE 6
Warm(s0) == IF s0 < SeanetCtx THEN s0 ELSE SeanetCtx
SpanLatents == MaxOf(2, 2 * SpanFrames)

MimiSpan ==
  /\ Kind("codec") /\ job.net = "mimi" /\ job.at = "stream"
  /\ LET all == LatentsOf(job.n)
         s0  == job.emitted
         s1  == IF all < s0 + SpanLatents THEN all ELSE s0 + SpanLatents
     IN job' = [job EXCEPT !.emitted = s1, !.at = IF s1 = all THEN "end" ELSE @,
                  !.piece = [w0 |-> s0 - Warm(s0), from |-> s0, upto |-> s1, last |-> s1 = all]]

-----------------------------------------------------------------------------
(* The encoders that clone a voice: Qwen3's, and Mimi's of Breeze. Each    *)
(* keeps count of the length itself to know how much to pad.               *)

CnnStrides == <<4, 5, 6, 8>>
ExtraPad(n, s) == UpDiv(n, s) * s - n

QwenUnit == <<Conv(3, 1, 1, 2, 0), Conv(1, 1, 1, 0, 0)>>

Downsampled(net, unit, s) ==
  [layers |-> net.layers \o unit \o <<Conv(2 * s, s, 1, s, ExtraPad(net.seq, s))>>,
   seq    |-> UpDiv(net.seq, s)]

FinalDown(n) == Conv(4, 2, 1, 2, ExtraPad(n, 2))

EncoderOf(n, unit, strides) ==
  LET cnn == FoldLeft(LAMBDA net, s : Downsampled(net, unit, s),
                      [layers |-> <<CausalLayer(7, 1)>>, seq |-> n], strides)
  IN cnn.layers \o <<CausalLayer(3, 1), CausalAttention, FinalDown(cnn.seq)>>

QwenEncoder(n) == EncoderOf(n, QwenUnit, CnnStrides)
MimiEncoder(n) == EncoderOf(n, ResnetUnit, Reverse(UpsampleRates))

SamplesPerFrame == 1920
Encode ==
  /\ Kind("codec") /\ job.net = "clip" /\ job.at = "stream"
  /\ \E enc \in {QwenEncoder(job.n), MimiEncoder(job.n)} :
       job' = [job EXCEPT !.at = "end", !.layers = enc, !.emitted = LenThrough(enc, job.n)]

-----------------------------------------------------------------------------
(* Higgs's encoder: a semantic branch at 16 kHz and an acoustic one at 24, *)
(* which are to give as many frames, and are joined frame by frame.        *)

\* HiggsCodecEncoder::resample, from of to nf, both reduced.
Resampled(n, of, nf, width) ==
  LET frames == (width + n + (width + of) - (2 * width + of)) \div of + 1
      target == UpDiv(nf * n, of)
  IN IF frames * nf > target THEN target ELSE frames * nf

FeatConvs == <<Conv(10, 5, 1, 0, 0)>> \o [i \in 1..4 |-> Conv(3, 2, 1, 0, 0)]
                                     \o [i \in 1..2 |-> Conv(2, 2, 1, 0, 0)]
\* The positions' convolution has an even kernel: one output too many is dropped.
PosConv == Conv(128, 1, 1, 64, 63)
SemanticPad == 160
SemanticUnits ==
  <<Conv(3, 1, 1, 1, 1)>>
  \o Concat(2, LAMBDA b : <<Conv(3, 1, 1, 1, 1), Conv(1, 1, 1, 0, 0), Conv(3, 1, 1, 1, 1),
                            Conv(1, 1, 1, 0, 0), Conv(3, 1, 1, 1, 1)>>)

SemanticFrames(n) ==
  LET full == LenThrough(FeatConvs \o <<PosConv>>, Resampled(n, 3, 2, 10) + 2 * SemanticPad)
  IN UpDiv(full, 2)
SemanticLen(n) == LenThrough(SemanticUnits, SemanticFrames(n))

DacDown(s) == Conv(2 * s, s, 1, HalfUp(s), HalfUp(s))
AcousticUnits ==
  <<Conv(7, 1, 1, 3, 3)>>
  \o Concat(5, LAMBDA b : DacUnits \o <<DacDown(DacStrides[b])>>)
  \o <<Conv(3, 1, 1, 1, 1)>>

\* dac_outlen, which leaves out the layers that keep the length.
DacOutlen(n) ==
  LenThrough(<<Conv(7, 1, 1, 3, 3)>> \o [b \in 1..5 |-> DacDown(DacStrides[b])]
             \o <<Conv(3, 1, 1, 1, 1)>>, n)

ModelPad == 480
AcousticPad(n) == IF DacOutlen(n) # SemanticFrames(n) THEN ModelPad ELSE 0

JoinBranches ==
  /\ Kind("codec") /\ job.net = "ref" /\ job.at = "stream"
  /\ job' = [job EXCEPT !.at = "end", !.emitted = SemanticLen(job.n),
                        !.n = LenThrough(AcousticUnits, job.n + 2 * AcousticPad(job.n))]

-----------------------------------------------------------------------------
(* From a frame to codes. A feature is a pair of numbers, an entry of a    *)
(* codebook a number; a projection is a sum of multiples.                  *)

SemanticIn(v) == v[1] + 2 * v[2]
AcousticIn(v) == 3 * v[1] - v[2]
Distance(x, e) == (x - e) * (x - e)

\* The scan keeps the first of the nearest: a later one must be strictly nearer.
Nearest(book, x) ==
  CHOOSE i \in DOMAIN book :
    /\ \A j \in DOMAIN book : Distance(x, book[i]) <= Distance(x, book[j])
    /\ \A j \in 1..i - 1 : Distance(x, book[i]) < Distance(x, book[j])

\* Qwen3's and Mimi's: the first codebook has a projection of its own, the
\* others what the ones before them left of the other projection.
SplitCodes(v) ==
  LET Take(acc, q) == LET i == Nearest(CodeBooks[q], acc.left)
                      IN [codes |-> Append(acc.codes, i), left |-> acc.left - CodeBooks[q][i]]
  IN FoldLeft(Take, [codes |-> <<Nearest(CodeBooks[1], SemanticIn(v))>>, left |-> AcousticIn(v)],
              [q \in 1..Len(CodeBooks) - 1 |-> q + 1])

\* Higgs's: every codebook projects what is left in and its entry out, and the
\* nearest is the one of the highest score.
ProjectIn(q, x) == (q + 1) * x + 1
ProjectOut(q, e) == e + q
Score(x, e) == 2 * x * e - e * e
BestScore(book, x) ==
  CHOOSE i \in DOMAIN book :
    /\ \A j \in DOMAIN book : Score(x, book[i]) >= Score(x, book[j])
    /\ \A j \in 1..i - 1 : Score(x, book[i]) > Score(x, book[j])

HiggsCodes(v) ==
  LET Take(acc, q) ==
        LET x == ProjectIn(q, acc.left)
            i == BestScore(CodeBooks[q], x)
        IN [codes |-> Append(acc.codes, i), seen |-> Append(acc.seen, x),
            left |-> acc.left - ProjectOut(q, CodeBooks[q][i])]
  IN FoldLeft(Take, [codes |-> <<>>, seen |-> <<>>, left |-> v[1]], [q \in DOMAIN CodeBooks |-> q])

Quantize ==
  /\ Kind("codec") /\ job.net = "frame" /\ job.at = "stream"
  /\ \E v \in Features :
       job' = [job EXCEPT !.at = "end", !.layers = <<v, SplitCodes(v), HiggsCodes(v)>>]

-----------------------------------------------------------------------------
(* MimiCodec::init: the number a layer has in the file, and the filters    *)
(* its transposed convolutions are rebuilt into.                           *)

DecNumber(i) == 2 + 3 * i
EncNumber(i) == 1 + 3 * i
TailNumber(rates) == 3 * rates + 2

\* What the network counts: activations have numbers too.
MimiDecoderLayers(r) == <<"conv">> \o Concat(r, LAMBDA i : <<"elu", "convT", "resnet">>)
                                  \o <<"elu", "conv">>
MimiEncoderLayers(r) == <<"conv">> \o Concat(r, LAMBDA i : <<"resnet", "elu", "down">>)
                                  \o <<"elu", "conv">>

\* Output i * s + p: the taps p of the input at i and p + s of the one before.
\* Mutant: the two taps of a phase the other way round.
Phase(x, s, i, p) == NetWeight(p) * x[i] + NetWeight(p + s) * (IF i = 1 THEN 0 ELSE x[i - 1])
Interleaved(x, s) ==
  Made(Len(x) * s, LAMBDA o : Mod(Phase(x, s, (o - 1) \div s + 1, ((o - 1) % s) + 1)))
TrimmedRight(x, s) == LET y == Transposed(x, 2 * s, s) IN SubSeq(y, 1, Len(y) - s)

RebuildUpsample ==
  /\ Kind("codec") /\ job.net = "load" /\ job.at = "stream"
  /\ \E x \in [1..3 -> {1, 4, 9}], s \in Taps :
       job' = [job EXCEPT !.at = "end", !.n = s, !.layers = SubSeq(x, 1, 3)]

-----------------------------------------------------------------------------
CodecJob(net, n) == [kind |-> "codec", net |-> net, at |-> "stream", n |-> n, emitted |-> 0,
                     piece |-> NoPiece, layers |-> <<>>]
CodecInit == \/ \E net \in {"higgs", "frame", "load"} : job = CodecJob(net, 0)
             \/ \E n \in MimiFrames : job = CodecJob("mimi", n)
             \/ \E n \in ClipLens : job = CodecJob("clip", n)
             \/ \E n \in RefLens24 : job = CodecJob("ref", n)
CodecNext == WindowPiece \/ MimiSpan \/ Encode \/ JoinBranches \/ Quantize \/ RebuildUpsample

PieceOf(net) == job.kind = "codec" /\ job.net = net /\ job.piece # NoPiece

\* The first and last inputs, counted in the window, that the samples of the piece
\* just made are computed from.
HeardByPiece(layers) ==
  LET p == job.piece
  IN Heard(layers, <<(p.from - p.w0) * 960, (p.upto - p.w0) * 960 - 1>>)

\* Frames after its own that a sample of Higgs's decoder is computed from.
HiggsReach == 10

\* What is decoded in front of a piece is as much as its samples are computed from,
\* or the start of the stream: no sample hears zeros in place of frames BEFORE its
\* piece. A decode gives the samples of its frames exactly, which is how the new
\* ones are found (higgs_tts.cpp:517, breeze_codec.h:111). Behind a piece Mimi, which
\* is causal, hears nothing. Higgs's decoder does: a window ends where its piece
\* ends (higgs_tts.cpp:533), so the samples of a piece's last HiggsReach frames are
\* computed from zeros in place of frames that follow, the held ones included, and
\* "no boundary artifacts" (higgs_tts.h:157) is not claimed here: at most those frames
\* are touched, and none of an earlier one.
PastSuffices ==
  /\ PieceOf("higgs") =>
       LET window == job.piece.upto - job.piece.w0 IN
       /\ job.piece.w0 = 0 \/ HeardByPiece(HiggsDecoder)[1] >= 0
       /\ HeardByPiece(HiggsDecoder)[2] < window + HiggsReach
       /\ Heard(HiggsDecoder, <<0, (window - HiggsReach) * HiggsRate - 1>>)[2] < window
       /\ LenThrough(HiggsDecoder, window) = HiggsRate * window
  /\ PieceOf("mimi") =>
       LET window == job.piece.upto - job.piece.w0 IN
       /\ job.piece.w0 = 0 \/ HeardByPiece(Seanet)[1] >= 0
       /\ HeardByPiece(Seanet)[2] < window
       /\ LenThrough(Seanet, window) = SamplesPerLatent * window

\* An encoder gives a frame for each 1920 samples begun, whatever the length; a
\* frame hears nothing of the samples after its own, and the last samples are
\* heard by the last frame (audio_codec_encoder.cpp:431, breeze_codec.cpp:556).
FramesCoverClip ==
  job.kind = "codec" /\ job.net = "clip" /\ job.at = "end" =>
    LET f == job.emitted IN
    /\ f = UpDiv(job.n, SamplesPerFrame)
    /\ Heard(job.layers, <<f - 1, f - 1>>)[2] >= job.n - 1
    /\ \A i \in 0..f - 1 : Heard(job.layers, <<i, i>>)[2] < (i + 1) * SamplesPerFrame

\* The two branches of Higgs's encoder give as many frames for a reference of any
\* length (higgs_encode.cpp:652).
BranchesAgree ==
  job.kind = "codec" /\ job.net = "ref" /\ job.at = "end" => job.n = job.emitted

\* The codes say the feature: their entries and what is left over sum up to it,
\* none of a later codebook could have left less, and the score of the one engine
\* finds what the distance of the others finds, ties included
\* (higgs_encode.cpp:755, audio_codec_encoder.cpp:696).
QuantizersAgree ==
  job.kind = "codec" /\ job.net = "frame" /\ job.at = "end" =>
    LET v == job.layers[1]
        split == job.layers[2]
        higgs == job.layers[3]
        Entries(codes, upto) == FoldLeft(LAMBDA a, q : a + CodeBooks[q + 1][codes[q + 1]], 0,
                                         [q \in 1..upto |-> q])
    IN /\ Entries(split.codes, Len(CodeBooks) - 1) + split.left = AcousticIn(v)
       /\ \A q \in 2..Len(CodeBooks) :
            LET left == AcousticIn(v) - Entries(split.codes, q - 1) IN
            \A e \in DOMAIN CodeBooks[q] :
              left * left <= (left + CodeBooks[q][split.codes[q]] - CodeBooks[q][e])
                              * (left + CodeBooks[q][split.codes[q]] - CodeBooks[q][e])
       /\ \A q \in DOMAIN CodeBooks : higgs.codes[q] = Nearest(CodeBooks[q], higgs.seen[q])

\* Each layer of Mimi is looked for under the number its place in the network gives
\* it, and what an upsampling was rebuilt into computes what it computed
\* (breeze_codec.cpp:92, :212).
MimiLoaded ==
  job.kind = "codec" /\ job.net = "load" /\ job.at = "end" =>
    /\ LET r == Len(UpsampleRates) IN
       /\ \A i \in 0..r - 1 : /\ MimiDecoderLayers(r)[DecNumber(i) + 1] = "convT"
                              /\ MimiDecoderLayers(r)[DecNumber(i) + 2] = "resnet"
                              /\ MimiEncoderLayers(r)[EncNumber(i) + 1] = "resnet"
                              /\ MimiEncoderLayers(r)[EncNumber(i) + 3] = "down"
       /\ TailNumber(r) + 1 = Len(MimiDecoderLayers(r))
       /\ TailNumber(r) + 1 = Len(MimiEncoderLayers(r))
    /\ Interleaved(job.layers, job.n) = TrimmedRight(job.layers, job.n)

\* The other codecs: a window reaches back far enough, encoders cover the clip, the engines'
\* quantizers agree, Mimi is read under its numbers.
CodecsFaithful ==
  PastSuffices /\ FramesCoverClip /\ BranchesAgree /\ QuantizersAgree /\ MimiLoaded
=============================================================================
