----------------------------- MODULE SiblingLm -----------------------------
(***************************************************************************)
(* The language models of the sibling engines: the backbone of Breeze, its *)
(* depth decoder, the model of Higgs. What is modelled is the K/V cache: a *)
(* row is known by the generation and the position it was written for, and *)
(* a run of the model yields, for each of its tokens, the rows it attends. *)
(*                                                                         *)
(* Both backbones keep a slab that grows by rounding up to a stride and by *)
(* doubling, and shrinks back between utterances. Breeze also keeps the    *)
(* graph of its one-frame decode, which is built on views of one slab.     *)
(***************************************************************************)
EXTENDS Integers, Sequences, Job

CONSTANTS LmStride,   \* BZ_LM_FA_STRIDE, HIGGS_LM_FATTN_STRIDE
          LmInitial,  \* BZ_LM_KV_INITIAL, HIGGS_LM_KV_INITIAL
          LmContext,  \* n_ctx
          LmPrompts,  \* tokens or frames of a prefill
          LmGens,     \* generations followed
          Codebooks   \* codebooks of a Breeze frame

ASSUME SiblingLmAssumption ==
  /\ {LmStride, LmInitial, LmContext, LmGens} \subseteq Nat \ {0}
  /\ LmPrompts \subseteq Nat \ {0} /\ Codebooks \in Nat /\ Codebooks > 2

RoundUpStride(n) == ((n + LmStride - 1) \div LmStride) * LmStride

LmMin(a, b) == IF a < b THEN a ELSE b
LmMax(a, b) == IF a > b THEN a ELSE b

Ceiling == RoundUpStride(LmContext)
IdleSlab    == LmMin(RoundUpStride(LmInitial), Ceiling)

Zero == [gen |-> 0, pos |-> 0]
Row(g, p) == [gen |-> g, pos |-> p]

\* The decode slot of Breeze: the slab its graph views, how much of it the
\* graph attends, and the slab's size when it was built.
NoSlot == [slab |-> 0, kv |-> 0, alloc |-> 0]

-----------------------------------------------------------------------------
(* The slab. job.slab numbers the allocations, so that a view of one that  *)
(* was freed is told from a view of the one that took its place.           *)

\* Mutant: the decode slot outlives the slab it views, and is told from a
\* current one by its sizes.
AllocKvKeepsSlot(j, n, copy) ==
  IF n = j.alloc THEN j
  ELSE LET kept == IF copy THEN LmMin(j.past, LmMin(j.alloc, n)) ELSE 0
       IN [j EXCEPT !.alloc = n, !.slab = @ + 1,
                    !.rows = [p \in 0..n - 1 |-> IF p < kept THEN j.rows[p] ELSE Zero]]

\* alloc_kv, realloc_kv_slab: a slab of the right size is kept as it is, with
\* what it holds; another is cleared and given the rows to keep.
AllocKv(j, n, copy) ==
  IF n = j.alloc THEN j
  ELSE LET kept == IF copy THEN LmMin(j.past, LmMin(j.alloc, n)) ELSE 0
       IN [j EXCEPT !.alloc = n, !.slab = @ + 1, !.slot = NoSlot,
                    !.rows = [p \in 0..n - 1 |-> IF p < kept THEN j.rows[p] ELSE Zero]]

Overflows(j, need) == RoundUpStride(need) > LmMax(j.alloc, Ceiling)

\* ensure_kv, when the context is long enough.
EnsureKv(j, need) ==
  LET target == RoundUpStride(need)
  IN IF target <= j.alloc THEN j
     ELSE AllocKv(j, LmMin(LmMax(target, 2 * j.alloc), Ceiling), TRUE)

-----------------------------------------------------------------------------
(* One run of a backbone on n tokens: rows n_past.. are written, and token *)
(* i attends the rows its mask lets through, among those its graph views.  *)

Written(j, n) ==
  [p \in DOMAIN j.rows |->
     IF p \in j.past..j.past + n - 1 THEN Row(j.gen, p) ELSE j.rows[p]]

\* A graph on a freed slab writes and reads memory that is no longer its own.
Seen(rows, lo, n, kv) ==
  [i \in 1..n |-> [p \in {p \in 0..kv - 1 : p <= lo + i - 1} |-> rows[p]]]
Astray(lo, n) == [i \in 1..n |-> [p \in 0..lo + i - 1 |-> Zero]]

\* Breeze decodes one frame with the slot's graph, rebuilt when the rows it
\* attends or the slab's size have changed; a prefill, and Higgs always, build
\* a graph for the one run.
SlotFor(j, n, cached) ==
  LET kv == RoundUpStride(j.past + n)
  IN IF ~cached THEN j.slot
     ELSE IF j.slot # NoSlot /\ j.slot.kv = kv /\ j.slot.alloc = j.alloc THEN j.slot
     ELSE [slab |-> j.slab, kv |-> kv, alloc |-> j.alloc]

RunLm(j0, n, cached) ==
  LET j    == EnsureKv(j0, j0.past + n)
      slot == SlotFor(j, n, cached)
      kv   == RoundUpStride(j.past + n)
  IN IF cached /\ slot.slab # j.slab
     THEN [j EXCEPT !.slot = slot, !.seen = Astray(j.past, n), !.from = j.past,
                    !.past = @ + n]
     ELSE [j EXCEPT !.slot = slot, !.rows = Written(j, n), !.from = j.past,
                    !.seen = Seen(Written(j, n), j.past, n, kv), !.past = @ + n]

LmInit ==
  \E m \in {"breeze", "higgs"} :
    job = [kind |-> "lm", at |-> "run", model |-> m, gen |-> 1, past |-> 0,
           alloc |-> IdleSlab, slab |-> 1, rows |-> [p \in 0..IdleSlab - 1 |-> Zero],
           slot |-> NoSlot, from |-> 0, seen |-> <<>>]

\* reset, at the start of an utterance.
LmReset ==
  /\ Kind("lm") /\ job.at \in {"run", "failed"} /\ job.gen < LmGens
  /\ LET j == [job EXCEPT !.at = "run", !.past = 0, !.gen = @ + 1, !.seen = <<>>, !.from = 0]
     IN job' = IF job.alloc > IdleSlab THEN AllocKv(j, IdleSlab, FALSE) ELSE j

\* prefill, prefill_embeds, prefill_frames, prefill_audio.
LmPrefill ==
  /\ Kind("lm") /\ job.at = "run"
  /\ \E n \in LmPrompts :
       ~Overflows(job, job.past + n) /\ job' = RunLm(job, n, FALSE)

\* decode_frame, decode_step: after a prefill.
LmDecode ==
  /\ Kind("lm") /\ job.at = "run" /\ job.past > 0
  /\ ~Overflows(job, job.past + 1)
  /\ job' = RunLm(job, 1, job.model = "breeze")

\* The context is full: the run fails and the generation with it.
LmOverflow ==
  /\ Kind("lm") /\ job.at = "run" /\ Overflows(job, job.past + 1)
  /\ job' = [job EXCEPT !.at = IF job.gen = LmGens THEN "end" ELSE "failed", !.seen = <<>>]

-----------------------------------------------------------------------------
(* The depth decoder: the codebooks of one frame. Its cache has a fixed    *)
(* number of rows and is not cleared between frames.                       *)

KvSlots == Codebooks + 1

DepthInit ==
  job = [kind |-> "depth", at |-> "run", gen |-> 1, cb |-> 0,
         rows |-> [p \in 0..KvSlots - 1 |-> Zero], from |-> 0, seen |-> <<>>]

\* step: the rows up to the token's own, out of the whole slab.
DepthStep(n, past) ==
  LET rows == [p \in 0..KvSlots - 1 |->
                 IF p \in past..past + n - 1 THEN Row(job.gen, p) ELSE job.rows[p]]
  IN job' = [job EXCEPT !.rows = rows, !.from = past,
                        !.seen = Seen(rows, past, n, KvSlots), !.cb = @ + 1]

\* run_frame: the hidden state and codebook 0, then a codebook at a time; the
\* last one is sampled and not fed.
DepthPrefill == Kind("depth") /\ job.at = "run" /\ job.cb = 0 /\ DepthStep(2, 0)

DepthNext ==
  /\ Kind("depth") /\ job.cb \in 1..Codebooks - 2
  /\ DepthStep(1, job.cb + 1)

DepthFrame ==
  /\ Kind("depth") /\ job.at = "run" /\ job.cb = Codebooks - 1
  /\ job' = [job EXCEPT !.at = IF job.gen = LmGens THEN "end" ELSE "run", !.seen = <<>>,
                        !.cb = IF job.gen = LmGens THEN @ ELSE 0,
                        !.gen = IF @ = LmGens THEN @ ELSE @ + 1]

LmNext == LmReset \/ LmPrefill \/ LmDecode \/ LmOverflow
          \/ DepthPrefill \/ DepthNext \/ DepthFrame

LmSpec == (LmInit \/ DepthInit) /\ [][LmNext]_job

-----------------------------------------------------------------------------
\* A token attends exactly the tokens before it in its own generation (its own
\* frame, in the depth decoder), each at its own position, itself included: no
\* row of an earlier utterance, none missing after a growth, none read through
\* the graph of a slab that is gone (breeze_lm.cpp:150, breeze_depth.cpp:311).
AttendsOwnPast ==
  job.kind \in {"lm", "depth"} =>
    \A i \in DOMAIN job.seen :
      job.seen[i] = [p \in 0..job.from + i - 1 |-> Row(job.gen, p)]
=============================================================================
