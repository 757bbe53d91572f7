------------------------------ MODULE Sampling ------------------------------
(***************************************************************************)
(* How a token is drawn from one row of logits: by the host and by the     *)
(* graph of the Qwen3 talker, by Higgs and by Breeze. Logits are integers  *)
(* and -infinity; the probability of one is proportional to its Exp. A     *)
(* sampler is known by the tokens it can draw.                             *)
(***************************************************************************)
EXTENDS Integers, FiniteSets, Functions, Job

CONSTANTS VocabSize,   \* codec_vocab_size
          ReservedIds, \* the last ids of it, suppressed except one
          EosId,       \* codec_eos_id, the exception
          Scores,      \* sizes of logits, of either sign
          TopKs,       \* top_k, 0 for all
          TopPs,       \* top_p, in quarters
          Exp          \* weights of logits, std::exp

Vocab  == 0..VocabSize - 1
NegInf == -1000
Logits == Scores \cup {-v : v \in Scores}
Finite(x) == {i \in Vocab : x[i] > NegInf}

ASSUME SamplingAssumption ==
  /\ {VocabSize, ReservedIds} \subseteq Nat \ {0} /\ ReservedIds < VocabSize
  /\ EosId \in VocabSize - ReservedIds..VocabSize - 1
  /\ Scores \subseteq Nat /\ \A v \in Scores : 2 * v < -NegInf
  /\ TopKs \subseteq Nat /\ TopPs \subseteq 0..4
  /\ Exp \in [Logits -> Nat \ {0}]

Weight(v) == IF v = NegInf THEN 0 ELSE Exp[v]

\* The weight of the tokens of S, added up in the order of the vocabulary.
WeightOf(x, S) ==
  LET upto[n \in 0..VocabSize] ==
        IF n = 0 THEN 0 ELSE upto[n - 1] + (IF n - 1 \in S THEN Weight(x[n - 1]) ELSE 0)
  IN upto[VocabSize]

Largest(x, S) == CHOOSE m \in {x[i] : i \in S} : \A i \in S : x[i] <= m
Greedy(x) == CHOOSE i \in Vocab : x[i] = Largest(x, Vocab) /\ \A j \in 0..i - 1 : x[j] < x[i]

-----------------------------------------------------------------------------
(* The penalty for a token drawn before, for p = 2: it lowers the logit on *)
(* both sides of zero. The reserved ids but the end are never drawn.       *)

Penalise(v) == IF v > 0 THEN v \div 2 ELSE IF v = NegInf THEN v ELSE 2 * v

Suppress(x) == [i \in Vocab |-> IF i >= VocabSize - ReservedIds /\ i # EosId THEN NegInf ELSE x[i]]

\* The host: suppress, then penalise.
HostRow(x, seen) == [i \in Vocab |-> IF i \in seen THEN Penalise(Suppress(x)[i]) ELSE Suppress(x)[i]]

\* The graph: a factor 1 + seen * (step(x) * (1/p - p) + p - 1), then the mask.
Factored(v) == IF v > 0 THEN v \div 2 ELSE 2 * v
GraphRow(x, seen) == Suppress([i \in Vocab |-> IF i \in seen THEN Factored(x[i]) ELSE x[i]])

-----------------------------------------------------------------------------
(* top_k. The host keeps what reaches the k-th largest value, ties and all; *)
(* the graph takes k indices, any of them among equals.                     *)

Kth(x, k) ==
  CHOOSE v \in {x[i] : i \in Vocab} :
    /\ Cardinality({i \in Vocab : x[i] > v}) < k
    /\ Cardinality({i \in Vocab : x[i] >= v}) >= k

HostKept(x, k) ==
  LET y == IF k > 0 /\ k < VocabSize
           THEN [i \in Vocab |-> IF x[i] < Kth(x, k) THEN NegInf ELSE x[i]] ELSE x
  IN Finite(y)

TopSets(x, k) ==
  {S \in SUBSET Vocab : Cardinality(S) = k /\ \A i \in S, j \in Vocab \ S : x[i] >= x[j]}

\* The largest of logit plus noise wins, which is never an infinite one.
GraphKept(x, k) == UNION {S \cap Finite(x) : S \in TopSets(x, k)}

-----------------------------------------------------------------------------
(* Nucleus sampling of Higgs and Breeze: tokens from the most probable one *)
(* until their probability passes top_p, in quarters of base.              *)

\* The tokens of S that are sorted before i: std::sort leaves the order of
\* equals to the library (tie).
Ahead(x, tie, S, i) == {j \in S : x[j] > x[i] \/ (x[j] = x[i] /\ tie[j] < tie[i])}

\* Taken while those before it have not passed.
Nucleus(x, tie, S, base, p) == {i \in S : 4 * WeightOf(x, Ahead(x, tie, S, i)) <= p * base}

\* Mutant: the token that crosses the threshold is left out.
NucleusShort(x, tie, S, base, p) ==
  {i \in S : 4 * WeightOf(x, Ahead(x, tie, S, i) \cup {i}) <= p * base}

NucleusOf(x, tie, S, base, p) == Nucleus(x, tie, S, base, p)

\* sample_one: the probabilities are those of what top_k left.
HiggsKept(x, tie, k, p) ==
  LET S == HostKept(x, k)
  IN IF p < 4 THEN NucleusOf(x, tie, S, WeightOf(x, S), p) ELSE S

\* sample_logits, sample_from: of equals at the k-th place some are kept, and
\* the probabilities are those of the whole row.
BreezeTop(x, tie, k) ==
  LET keep == IF k > 0 /\ k < VocabSize THEN k ELSE VocabSize
  IN {i \in Vocab : Cardinality(Ahead(x, tie, Vocab, i)) < keep}

BreezeKept(x, tie, k, p) ==
  LET S    == BreezeTop(x, tie, k)
      some == IF p > 0 /\ p < 4 THEN NucleusOf(x, tie, S, WeightOf(x, Vocab), p) ELSE S
  IN some \cap Finite(x)

-----------------------------------------------------------------------------
DrawInit ==
  \E x \in [Vocab -> Logits], seen \in SUBSET (Vocab \ {EosId}), k \in TopKs, p \in TopPs :
    job = [kind |-> "draw", at |-> "logits", by |-> "talker", row |-> x, seen |-> seen,
           k |-> k, p |-> p, host |-> {}, graph |-> {}, base |-> {}]

\* generate draws the first token of a request and forward_step_sample the
\* others; here both draw the same one.
DrawTalker ==
  /\ Kind("draw") /\ job.at = "logits"
  /\ LET host  == HostRow(job.row, job.seen)
         graph == GraphRow(job.row, job.seen)
     IN job' = [job EXCEPT !.at = "end", !.row = host, !.base = {Greedy(graph)},
                           !.host = HostKept(host, job.k), !.graph = GraphKept(graph, job.k)]

DrawSibling ==
  /\ Kind("draw") /\ job.at = "logits" /\ job.seen = {}
  /\ \E by \in {"higgs", "breeze"}, tie \in Injection(Vocab, Vocab) :
       job' = [job EXCEPT !.at = "end", !.by = by,
                 !.host = IF by = "higgs" THEN HiggsKept(job.row, tie, job.k, job.p)
                          ELSE BreezeKept(job.row, tie, job.k, job.p),
                 !.base = IF by = "higgs" THEN HostKept(job.row, job.k)
                          ELSE BreezeTop(job.row, tie, job.k)]

DrawNext == DrawTalker \/ DrawSibling

DrawSpec == DrawInit /\ [][DrawNext]_job

-----------------------------------------------------------------------------
Drawn(by) == job.kind = "draw" /\ job.at = "end" /\ job.by = by

\* The two samplers of the talker agree: for the same logits and history they
\* can draw the same tokens, and take the same one when greedy; neither draws a
\* reserved id but the end (tts_transformer.cpp:2233). The exception is top_k = 0,
\* "disabled" in qwen3_tts.h:29: the host then keeps the whole row, but
\* forward_step_sample hands the 0 to ggml_top_k as it is
\* (tts_transformer.cpp:3485, 2474), and the graph has no candidate. A top_k past
\* the vocabulary, against which ggml_top_k asserts, is left out too.
SamplersAgree ==
  Drawn("talker") =>
    /\ job.k \in 1..VocabSize => job.graph = job.host
    /\ job.base = {Greedy(job.row)}
    /\ \A i \in job.host \cup job.graph : i < VocabSize - ReservedIds \/ i = EosId

\* What Higgs and Breeze draw from, when the temperature is not 0, is a nucleus
\* of what top_k has left (job.base; "temperature, then top_k, then top_p",
\* breeze_tts.cpp:27, higgs_tts.cpp:96-116): never empty, nothing in it less
\* probable than what is left out, it passes top_p and would not without its last
\* token. The exception is Breeze with top_k on: it measures top_p against the
\* whole row (breeze_tts.cpp:45-53), so it may keep more than the order of its
\* comment would, all of what top_k left included.
DrawsFromNucleus ==
  \A by \in {"higgs", "breeze"} : Drawn(by) =>
    LET S    == job.host
        w(T) == 4 * WeightOf(job.row, T)
        all  == job.p * WeightOf(job.row, job.base)
    IN /\ S # {} /\ S \subseteq job.base
       /\ \A i \in S, j \in Vocab \ S : job.row[i] >= job.row[j]
       /\ job.p \in 1..3 =>
            /\ w(S) > all
            /\ by = "higgs" \/ job.k = 0 => \E i \in S : w(S \ {i}) <= all

\* What can be drawn is what the request's settings leave, in every engine, but
\* for the two exceptions above.
SamplersFaithful == SamplersAgree /\ DrawsFromNucleus
=============================================================================
