--------------------------- MODULE FramePredictor ---------------------------
(***************************************************************************)
(* One frame of the Qwen3 talker: codebook 0 is drawn from the talker's    *)
(* logits, the other codebooks by the code predictor, one after the other. *)
(* The predictor has three implementations: CoreML on the whole sequence,  *)
(* one graph for all codebooks (kept across frames), and a graph per step  *)
(* over a K/V cache. A code is known by the head that gave its logits, the *)
(* inputs its position attends, the column of noise it was drawn with and  *)
(* the settings of the draw.                                               *)
(***************************************************************************)
EXTENDS Integers, Sequences, Job

CONSTANTS Codes,       \* n_codebooks - 1
          FrameTemps,  \* temperatures of requests, in tenths; 0 is greedy
          FrameTopKs,  \* top_k of requests
          Penalties,   \* repetition penalties, 1 is none
          Requests, FramesEach

ASSUME FramePredictorAssumption ==
  /\ {Codes, Requests, FramesEach} \subseteq Nat \ {0}
  /\ FrameTemps \cup FrameTopKs \cup Penalties \subseteq Nat

KvRows   == Codes + 1
NoInput  == [frame |-> 0, table |-> 0, code |-> 0]
NoCached == [hot |-> FALSE, k |-> 0, pen |-> FALSE, temp |-> 0, penalty |-> 0]

Settings == [temp : FrameTemps, k : FrameTopKs, penalty : Penalties]

\* Row code of the embedding of codebook table: table 0 is the talker's own,
\* table t the predictor's t-th. The talker's hidden state has table -1.
Row0(t) == [frame |-> job.frame, table |-> t, code |-> t]
Hidden == Row0(-1)
Cb0    == Row0(0)

Code(s, sees, temp) == [head |-> s, sees |-> sees, col |-> s, temp |-> temp]

-----------------------------------------------------------------------------
(* Codebook 0, by the host from the logits of the prefill, afterwards by   *)
(* the sampling at the end of the talker's step graph.                     *)

\* What the cached graphs are found again by.
SameShape(g, s) ==
  g # NoCached /\ g.hot = (s.temp > 0) /\ (g.hot => g.k = s.k) /\ g.pen = (s.penalty # 1)

\* A graph built for settings s has 1 / temperature and the penalty as constants.
Built(s) == [hot |-> s.temp > 0, k |-> s.k, pen |-> s.penalty # 1,
             temp |-> s.temp, penalty |-> s.penalty]

StepGraph == IF SameShape(job.talker, job.asked) THEN job.talker ELSE Built(job.asked)

FrameInit ==
  \E env \in [coreml : BOOLEAN, only : BOOLEAN, full : BOOLEAN, keep : BOOLEAN], s \in Settings :
    job = [kind |-> "frame", at |-> "token", env |-> env, asked |-> s, req |-> 1,
           frame |-> 1, rows |-> [p \in 0..KvRows - 1 |-> NoInput], seq |-> <<>>,
           token |-> NoCached, talker |-> NoCached, graph |-> NoCached, codes |-> <<>>]

DrawToken ==
  /\ Kind("frame") /\ job.at = "token"
  /\ job' = [job EXCEPT
       !.at     = IF job.env.coreml THEN "coreml" ELSE "start",
       !.codes  = <<>>, !.seq = <<>>,
       !.talker = IF job.frame % FramesEach = 1 THEN @ ELSE StepGraph,
       !.token  = IF job.frame % FramesEach = 1 THEN Built(job.asked) ELSE StepGraph]

-----------------------------------------------------------------------------
(* predict_codes_autoregressive_coreml: the sequence so far, whole, to each *)
(* step; the host draws.                                                    *)

CoremlStep ==
  /\ Kind("frame") /\ job.at = "coreml"
  /\ LET step == Len(job.codes)
         seq  == IF step = 0 THEN <<Hidden, Cb0>> ELSE Append(job.seq, Row0(step))
     IN job' = [job EXCEPT
          !.seq   = seq,
          !.codes = Append(@, Code(step, [p \in 0..step + 1 |-> seq[p + 1]], job.asked.temp)),
          !.at    = IF step + 1 = Codes THEN "done" ELSE @]

\* A failing step switches CoreML off for good and the frame starts over in
\* ggml, unless ggml's layers were never loaded.
CoremlFails ==
  /\ Kind("frame") /\ job.at = "coreml" /\ ~job.env.only
  /\ job' = [job EXCEPT !.at = "start", !.env.coreml = FALSE, !.codes = <<>>]

\* The predictor's K/V cache is cleared for each frame.
StartPredict ==
  /\ Kind("frame") /\ job.at = "start"
  /\ job' = [job EXCEPT !.rows = [p \in 0..KvRows - 1 |-> NoInput],
                        !.at = IF job.env.full THEN "graph" ELSE "prefill"]

-----------------------------------------------------------------------------
(* The mask of the step at position past opens the rows up to its own.     *)

\* Mutant: the step's own row is left out.
OpensBefore(past) == 0..past - 1
Opens(past) == {p \in 0..past : p < KvRows}

Attended(rows, past) == [p \in Opens(past) |-> rows[p]]

\* build_code_pred_prefill_graph: two tokens, which attend each other and not
\* the cache.
PrefillRows(rows) == [rows EXCEPT ![0] = Hidden, ![1] = Cb0]
PrefillCode(temp) == Code(0, [p \in 0..1 |-> <<Hidden, Cb0>>[p + 1]], temp)

PredictPrefill ==
  /\ Kind("frame") /\ job.at = "prefill"
  /\ job' = [job EXCEPT !.rows = PrefillRows(@), !.codes = <<PrefillCode(job.asked.temp)>>,
                        !.at = IF Codes = 1 THEN "done" ELSE "steps"]

\* build_code_pred_step_graph: step s embeds code s with table s - 1 of the
\* predictor and writes row s + 1.
StepRows(rows, s) == [rows EXCEPT ![s + 1] = Row0(s)]

PredictStep ==
  /\ Kind("frame") /\ job.at = "steps"
  /\ LET s == Len(job.codes)
         rows == StepRows(job.rows, s)
     IN job' = [job EXCEPT !.rows = rows,
                           !.codes = Append(@, Code(s, Attended(rows, s + 1), job.asked.temp)),
                           !.at = IF s + 1 = Codes THEN "done" ELSE @]

\* build_code_pred_full_ar_graph_into: the same, in one graph.
RowsAfter[s \in 0..Codes - 1] ==
  IF s = 0 THEN PrefillRows(job.rows) ELSE StepRows(RowsAfter[s - 1], s)
GraphCodes(temp) ==
  [i \in 1..Codes |->
     IF i = 1 THEN PrefillCode(temp) ELSE Code(i - 1, Attended(RowsAfter[i - 1], i), temp)]

\* The penalty plays no part in the predictor's graph.
Unpenalised(s) == [s EXCEPT !.penalty = 1]

PredictGraph ==
  /\ Kind("frame") /\ job.at = "graph"
  /\ LET s == Unpenalised(job.asked)
         g == IF job.env.keep /\ SameShape(job.graph, s) THEN job.graph ELSE Built(s)
     IN job' = [job EXCEPT !.graph = IF job.env.keep THEN g ELSE @,
                           !.rows = RowsAfter[Codes - 1], !.codes = GraphCodes(g.temp),
                           !.at = "done"]

\* A graph that fails to run is dropped, and the request fails; so it does when
\* CoreML fails and is all there is.
PredictFails ==
  /\ Kind("frame") /\ job.req < Requests
  /\ job.at = "graph" \/ (job.at = "coreml" /\ job.env.only)
  /\ \E s \in Settings :
       job' = [job EXCEPT !.graph = NoCached, !.at = "token", !.asked = s,
                          !.req = @ + 1, !.frame = FramesEach * job.req + 1]

NextFrame ==
  /\ Kind("frame") /\ job.at = "done"
  /\ IF job.frame % FramesEach # 0
     THEN job' = [job EXCEPT !.at = "token", !.frame = @ + 1]
     ELSE IF job.req = Requests THEN job' = [job EXCEPT !.at = "end"]
     ELSE \E s \in Settings :
            job' = [job EXCEPT !.at = "token", !.frame = @ + 1, !.req = @ + 1, !.asked = s]

FrameNext == DrawToken \/ CoremlStep \/ CoremlFails \/ StartPredict \/ PredictPrefill
             \/ PredictStep \/ PredictGraph \/ PredictFails \/ NextFrame
FrameSpec == FrameInit /\ [][FrameNext]_job

-----------------------------------------------------------------------------
\* Whichever implementation gives it, even after another one failed half-way,
\* code s of a frame comes from head s and from the talker's state and the codes
\* 0..s of its own frame, each embedded with its own table at its own position,
\* and no two codes share noise (tts_transformer.cpp:3960).
CodesFollow ==
  job.kind = "frame" /\ job.at # "token" =>
    \A i \in DOMAIN job.codes :
      /\ job.codes[i].head = i - 1 /\ job.codes[i].col = i - 1
      /\ job.codes[i].sees = [p \in 0..i |-> Row0(p - 1)]

\* Every code is drawn with the temperature, and codebook 0 with the penalty, of
\* the request it is for: the comment on the cached graph calls the greedy flag,
\* top_k and the cache's size "the only inputs to build_code_pred_full_ar_
\* graph_into" (tts_transformer.cpp:4054).
SampledAsAsked ==
  job.kind = "frame" /\ job.at \in {"graph", "steps", "done"} =>
    /\ \A i \in DOMAIN job.codes : job.codes[i].temp = job.asked.temp
    /\ job.token.temp = job.asked.temp /\ job.token.penalty = job.asked.penalty
=============================================================================
