--------------------------- MODULE StreamEncoder ---------------------------
(***************************************************************************)
(* The streaming audio encoder: PCM of any length is queued, cut into      *)
(* frames of the codec's size, encoded and, for ogg and aac, wrapped by a  *)
(* muxer; what comes out goes to the client at once. The codec and the     *)
(* muxer (libav) give back what they were given in order, when they like.  *)
(***************************************************************************)
EXTENDS Integers, Sequences, SequencesExt, Job

CONSTANTS EncFrame,   \* samples of a codec frame
          EncInput,   \* samples of the longest input
          EncChunks   \* sizes of a push

ASSUME StreamEncoderAssumption ==
  EncFrame \in Nat \ {0} /\ EncInput \in Nat /\ EncChunks \subseteq Nat

Header == "header"
Trailer == "trailer"
Silent == 0

\* A new encoder; a muxer's header waits in mux_sink for the first push.
EncodeInit ==
  \E muxed \in BOOLEAN :
    job = [kind |-> "encode", at |-> "open", muxed |-> muxed, given |-> 0, fifo |-> <<>>,
           samples_in |-> 0, held |-> <<>>, sink |-> IF muxed THEN <<Header>> ELSE <<>>,
           out |-> <<>>, valid |-> TRUE, finished |-> FALSE, ok |-> TRUE]

DrainSink(j) == [j EXCEPT !.out = @ \o j.sink, !.sink = <<>>]

\* drain_packets: some of the packets held, in their order.
Drained(j) ==
  {[j EXCEPT !.out = @ \o j.sink \o SubSeq(j.held, 1, n), !.sink = <<>>,
             !.held = SubSeq(j.held, n + 1, Len(j.held))] : n \in 1..Len(j.held)}
  \cup {j}

\* The next frame: from the queue, with silence for what is missing.
FrameOf(j) ==
  [pts |-> j.samples_in,
   of |-> [k \in 1..EncFrame |-> IF k <= Len(j.fifo) THEN j.fifo[k] ELSE Silent]]

\* encode_one_frame.
SentFrame(j) ==
  [j EXCEPT !.held = Append(@, FrameOf(j)), !.samples_in = @ + EncFrame,
            !.fifo = SubSeq(@, EncFrame + 1, Len(@))]
EncodeOne(j) == Drained(SentFrame(j))

\* The first n frames of the queue, one after the other.
EncodeFrames(j, n) ==
  LET after[k \in 0..n] == IF k = 0 THEN {j} ELSE UNION {EncodeOne(i) : i \in after[k - 1]}
  IN after[n]

Invalid(j) == [j EXCEPT !.valid = FALSE, !.ok = FALSE]

\* push_pcm, of an encoder that is still open. A codec or muxer may fail at
\* any of the frames; what was drained before stays in the output.
EncodePush ==
  /\ Kind("encode") /\ job.at = "open"
  /\ \E n \in EncChunks :
       LET header == DrainSink(job)
           queued == [header EXCEPT !.given = @ + n, !.fifo = @ \o [k \in 1..n |-> job.given + k]]
           whole  == Len(queued.fifo) \div EncFrame
       IN /\ job.given + n <= EncInput
          /\ \/ ~job.valid /\ job' = [job EXCEPT !.ok = FALSE]
             \/ job.valid /\ n = 0 /\ job' = [header EXCEPT !.ok = TRUE]
             \/ job.valid /\ n > 0 /\ job' \in {[j EXCEPT !.ok = TRUE] : j \in EncodeFrames(queued, whole)}
             \/ /\ job.valid /\ n > 0
                /\ job' \in {Invalid(j) : j \in UNION {EncodeFrames(queued, k) : k \in 0..whole}}

\* finish: the short last frame, what the codec still holds, the trailer.
EncodeFinish ==
  /\ Kind("encode") /\ job.at = "open"
  /\ LET last == IF job.fifo = <<>> THEN job ELSE SentFrame(job)
         done == [DrainSink(last) EXCEPT
                    !.out = @ \o last.held \o IF job.muxed THEN <<Trailer>> ELSE <<>>, !.held = <<>>]
     IN job' \in {[j EXCEPT !.at = "end", !.finished = TRUE] :
                    j \in IF job.valid THEN {[done EXCEPT !.ok = TRUE]}
                               \cup {[i EXCEPT !.ok = FALSE] : i \in Drained(last)}
                          ELSE {[job EXCEPT !.ok = FALSE]}}

EncodeNext == EncodePush \/ EncodeFinish

-----------------------------------------------------------------------------
(* Property.                                                               *)

\* The input in frames, the last one filled up.
Framed(n) ==
  [f \in 1..(n + EncFrame - 1) \div EncFrame |->
     [pts |-> (f - 1) * EncFrame,
      of |-> [k \in 1..EncFrame |->
                IF (f - 1) * EncFrame + k <= n THEN (f - 1) * EncFrame + k ELSE Silent]]]

Whole(j) ==
  (IF j.muxed THEN <<Header>> ELSE <<>>) \o Framed(j.given)
  \o IF j.muxed THEN <<Trailer>> ELSE <<>>

\* However the samples were pushed and whatever the codec held back, the
\* client has a beginning of the one-shot encoding at any time, and all of
\* it after a finish that reports success.
EncodedFaithful ==
  Kind("encode") =>
    /\ IsPrefix(job.out, Whole([job EXCEPT !.given = IF job.finished THEN @ ELSE EncInput + EncFrame]))
    /\ job.finished /\ job.ok => job.out = Whole(job)
=============================================================================
