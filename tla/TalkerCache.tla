---------------------------- MODULE TalkerCache ----------------------------
(***************************************************************************)
(* The talker's key/value memory: the K/V slab of TTSTransformer, the LRU  *)
(* cache of prefill snapshots, and the cached graph of one decode step, as *)
(* generate() drives them, one request after the other.                    *)
(*                                                                         *)
(* K/V contents are abstracted to own: how many leading rows of the slab   *)
(* hold what the current request's own prefix and frames would have        *)
(* written. Attention reads every row below n_past, so it must never fall  *)
(* behind. The literals of the code are constants, scaled down by TLC.     *)
(***************************************************************************)
EXTENDS Integers, SequencesExt

CONSTANTS
  Keys,        \* prefill cache keys: voice, language and instructions
  NoKey,       \* prefill_cache_key = 0: QWEN3_TTS_NO_PREFILL_CACHE
  CacheableOf, \* cacheable_len of a key: the rows before the user's text
  Sigs,        \* the sampling part of the step graph's signature
  Requests,    \* requests: [key, prefill, max, sig]
  Capacity,    \* kPrefillKvCacheCapacity (16)
  Stride,      \* kFattnKqStride (256)
  GrowStep,    \* kGrowStep (2048)
  Budget,      \* initial_audio_budget (1024)
  Slack,       \* 8
  Floor,       \* 512: a slab up to this size is never shrunk
  InitMayFail  \* may the allocation in init_kv_cache fail?

ASSUME TalkerAssumption ==
  /\ NoKey \notin Keys
  /\ CacheableOf \in [Keys -> Nat \ {0}]
  /\ Requests \subseteq [key : Keys \cup {NoKey}, prefill : Nat \ {0},
                         max : Nat \ {0}, sig : Sigs]
  /\ Capacity \in Nat \ {0} /\ Stride \in Nat \ {0}
  /\ GrowStep \in Nat \ {0} /\ Budget \in Nat \ {0}
  /\ Slack \in Nat /\ Floor \in Nat /\ InitMayFail \in BOOLEAN

VARIABLES
  pc,      \* where generate() is, "idle" between calls, "aborted"
  req,     \* the request
  slab,    \* state_.cache: n_ctx, n_used, and whether a buffer backs it
  hint,    \* state_.cache.max_n_ctx_hint
  own,     \* leading rows that are this request's (see above)
  past,    \* n_past of the next forward
  kv,      \* prefill_kv_cache_
  lru,     \* prefill_kv_cache_lru_, front = oldest
  graph,   \* ts_cache_*: signature, and whether its K/V are this slab's
  liveRun  \* no step has run a graph over a freed slab

vars == <<pc, req, slab, hint, own, past, kv, lru, graph, liveRun>>
memory == <<slab, hint, own>>
caches == <<kv, lru>>

MaxOf(a, b) == IF a >= b THEN a ELSE b
MinOf(a, b) == IF a <= b THEN a ELSE b
RoundUp(n, step) == ((n + step - 1) \div step) * step

NoSlab == [n_ctx |-> 0, n_used |-> 0, backed |-> FALSE]
NoGraph == [present |-> FALSE, n_eff |-> 0, sig |-> CHOOSE s \in Sigs : TRUE,
            n_ctx |-> 0, live |-> FALSE]
NoKv == [k \in {} |-> 0]
\* fits: the snapshot has the slab's row size (its quantisation);
\* sound: its rows are those of its key.
Snapshot == [n_pos : Nat \ {0}, fits : BOOLEAN, sound : BOOLEAN]

Init ==
  /\ pc = "idle" /\ req \in Requests
  /\ slab = NoSlab /\ hint = 0 /\ own = 0 /\ past = 0
  /\ kv = NoKv /\ lru = <<>> /\ graph = NoGraph /\ liveRun = TRUE

---------------------------------------------------------------------------
(* The snapshot cache.                                                     *)

\* Entries to drop from the front so that one more fits.
Surplus(seq) == IF Len(seq) < Capacity THEN 0 ELSE Len(seq) - Capacity + 1
Evicted(seq) == {seq[i] : i \in 1 .. Surplus(seq)}
Rest(seq) == SubSeq(seq, Surplus(seq) + 1, Len(seq))

\* The map after the evictions of an insertion of key, and the insertion.
Insert(map, gone, key, snap) ==
  [k \in (DOMAIN map \ gone) \cup {key} |-> IF k = key THEN snap ELSE map[k]]

TouchKeeps(seq, key) == Append(seq, key)
Touch(seq, key) == Append(RemoveFirst(seq, key), key)

\* The store after a miss: evict first, then drop an entry of the same key.
Store(key, snap) ==
  /\ kv' = Insert(kv, Evicted(lru), key, snap)
  /\ lru' = Touch(Rest(lru), key)

\* put_prefill_kv_snapshot: drop the entry of the same key, then evict.
Put(key, snap) ==
  LET others == RemoveFirst(lru, key) IN
  /\ kv' = Insert(kv, Evicted(others), key, snap)
  /\ lru' = Append(Rest(others), key)

---------------------------------------------------------------------------
(* The slab.                                                               *)

Worst(r) == r.prefill + r.max + Slack
InitialCtx(r) == MinOf(Worst(r), r.prefill + Budget + Slack)
TooSmall(r) == slab.n_ctx < InitialCtx(r)
TooLarge(r) == slab.n_ctx > MaxOf(2 * Worst(r), Floor)
Fresh(n) == [n_ctx |-> n, n_used |-> 0, backed |-> TRUE]

GrowsLate == past > slab.n_ctx
NeedsGrow == past + 1 > slab.n_ctx

\* The capacity grow_kv_cache chooses: whole steps, at least one, capped.
GrowTo(target) ==
  LET stepped == MaxOf(RoundUp(target, GrowStep), slab.n_ctx + GrowStep) IN
  IF hint > 0 /\ stepped > hint THEN MaxOf(target, hint) ELSE stepped

\* The slab a step runs on, and the rows of it that survive a growth.
StepSlab ==
  IF NeedsGrow
  THEN [n_ctx |-> GrowTo(past + 1), n_used |-> slab.n_used, backed |-> TRUE]
  ELSE slab
Kept == IF NeedsGrow THEN MinOf(own, slab.n_used) ELSE own

---------------------------------------------------------------------------
(* One call of generate().                                                 *)

\* synthesize_internal clears the slab; a tensor without buffer aborts.
Begin(r) ==
  /\ pc = "idle"
  /\ req' = r
  /\ own' = 0 /\ past' = 0
  /\ IF slab.n_ctx > 0 /\ ~slab.backed
     THEN pc' = "aborted" /\ UNCHANGED slab
     ELSE pc' = "reserve" /\ slab' = [slab EXCEPT !.n_used = 0]
  /\ UNCHANGED <<hint, caches, graph, liveRun>>

\* Size the slab for the request. A failed allocation keeps n_ctx.
Reserve ==
  /\ pc = "reserve"
  /\ hint' = Worst(req)
  /\ IF TooSmall(req) \/ TooLarge(req)
     THEN /\ graph' = [graph EXCEPT !.live = FALSE]
          /\ \/ slab' = Fresh(InitialCtx(req)) /\ pc' = "lookup"
             \/ /\ InitMayFail
                /\ slab' = [Fresh(InitialCtx(req)) EXCEPT !.backed = FALSE]
                /\ pc' = "idle"
     ELSE pc' = "lookup" /\ UNCHANGED <<slab, graph>>
  /\ UNCHANGED <<req, own, past, caches, liveRun>>

Cached(r) == r.key # NoKey /\ CacheableOf[r.key] < r.prefill
RestorableUnsized(snap) == snap.n_pos <= slab.n_ctx
Restorable(snap) == snap.fits /\ snap.n_pos <= slab.n_ctx
Hit(r) == /\ Cached(r) /\ r.key \in DOMAIN kv
          /\ kv[r.key].n_pos = CacheableOf[r.key]
          /\ Restorable(kv[r.key])

\* restore_kv_state writes the rows that fit and zeroes the others.
Restore ==
  /\ pc = "lookup" /\ Hit(req)
  /\ slab' = [slab EXCEPT !.n_used = kv[req.key].n_pos]
  /\ own' = IF kv[req.key].sound /\ kv[req.key].fits
            THEN kv[req.key].n_pos ELSE 0
  /\ past' = kv[req.key].n_pos
  /\ lru' = Touch(lru, req.key)
  /\ pc' = "prefill"
  /\ UNCHANGED <<req, hint, kv, graph, liveRun>>

StartCold ==
  /\ pc = "lookup" /\ ~Hit(req)
  /\ slab' = [slab EXCEPT !.n_used = 0]
  /\ own' = 0 /\ past' = 0
  /\ pc' = "prefill"
  /\ UNCHANGED <<req, hint, caches, graph, liveRun>>

\* A forward over rows past .. n-1 makes n rows the request's own, if the
\* rows it attends to are.
Forwarded(rows, n) == IF rows >= past THEN n ELSE rows

\* forward_prefill, then the capture of the prefix on a miss.
Prefill ==
  /\ pc = "prefill"
  /\ req.prefill <= slab.n_ctx
  /\ slab' = [slab EXCEPT !.n_used = req.prefill]
  /\ own' = Forwarded(own, req.prefill)
  /\ past' = req.prefill
  /\ IF past = 0 /\ Cached(req)
     THEN Store(req.key, [n_pos |-> CacheableOf[req.key], fits |-> TRUE,
                          sound |-> own' >= CacheableOf[req.key]])
     ELSE UNCHANGED caches
  /\ pc' = "frames"
  /\ UNCHANGED <<req, hint, graph, liveRun>>

\* A failed forward: n_used stays behind the rows it may have written.
PrefillFails ==
  /\ pc = "prefill" /\ pc' = "idle"
  /\ UNCHANGED <<req, memory, past, caches, graph, liveRun>>

MoreFrames == past - req.prefill + 1 < req.max

NEff(n_ctx) == MinOf(n_ctx, RoundUp(past + 1, Stride))
Signature(n_ctx) == [n_eff |-> NEff(n_ctx), sig |-> req.sig, n_ctx |-> n_ctx]
Matches(n_ctx) ==
  /\ graph.present
  /\ [n_eff |-> graph.n_eff, sig |-> graph.sig, n_ctx |-> graph.n_ctx]
       = Signature(n_ctx)
GraphFor(n_ctx) == [present |-> TRUE, n_eff |-> NEff(n_ctx), sig |-> req.sig,
                    n_ctx |-> n_ctx, live |-> TRUE]
\* The cached graph is run although its K/V tensors were freed.
RunsStale == Matches(StepSlab.n_ctx) /\ (NeedsGrow \/ ~graph.live)

\* One more frame: forward_step_sample writes row past and samples.
Step ==
  /\ pc = "frames" /\ MoreFrames
  /\ ~RunsStale
  /\ slab' = [StepSlab EXCEPT !.n_used = past + 1]
  /\ graph' = GraphFor(StepSlab.n_ctx)
  /\ own' = Forwarded(Kept, past + 1)
  /\ past' = past + 1
  /\ UNCHANGED <<pc, req, hint, caches, liveRun>>

\* The same over freed tensors: the process dies, or the row is lost.
StepStale ==
  /\ pc = "frames" /\ MoreFrames
  /\ RunsStale
  /\ liveRun' = FALSE
  /\ slab' = [StepSlab EXCEPT !.n_used = past + 1]
  /\ own' = Kept /\ past' = past + 1
  /\ graph' = [graph EXCEPT !.live = FALSE]
  /\ pc' \in {"frames", "aborted"}
  /\ UNCHANGED <<req, hint, caches>>

\* The slab grew, or not, and the step's graph failed: it is dropped.
StepFails ==
  /\ pc = "frames" /\ MoreFrames
  /\ slab' = StepSlab /\ own' = Kept
  /\ graph' = NoGraph
  /\ pc' = "idle"
  /\ UNCHANGED <<req, hint, past, caches, liveRun>>

\* grow_kv_cache could not allocate: the slab is gone.
GrowFails ==
  /\ pc = "frames" /\ MoreFrames /\ NeedsGrow
  /\ slab' = NoSlab /\ own' = 0
  /\ graph' = [graph EXCEPT !.live = FALSE]
  /\ pc' = "idle"
  /\ UNCHANGED <<req, hint, past, caches, liveRun>>

\* EOS, the last frame, a cancel, a failed code prediction or a frame
\* callback that returns false: generate() returns between two steps.
Stop ==
  /\ pc = "frames" /\ pc' = "idle"
  /\ UNCHANGED <<req, memory, past, caches, graph, liveRun>>

---------------------------------------------------------------------------
(* Between calls.                                                          *)

\* The snapshot of a voice.warmup file, perhaps of another row size. The
\* server's startup and the worker's LOAD call it; it is public and may be
\* called between any two requests.
LoadWarmup ==
  /\ pc = "idle"
  /\ \E key \in Keys, fits \in BOOLEAN :
       Put(key, [n_pos |-> CacheableOf[key], fits |-> fits, sound |-> TRUE])
  /\ UNCHANGED <<pc, req, memory, past, graph, liveRun>>

Unload ==
  /\ pc = "idle"
  /\ slab' = NoSlab /\ own' = 0
  /\ graph' = NoGraph /\ kv' = NoKv /\ lru' = <<>>
  /\ UNCHANGED <<pc, req, hint, past, liveRun>>

\* The process died; its successor starts with nothing.
Respawn ==
  /\ pc = "aborted" /\ pc' = "idle"
  /\ slab' = NoSlab /\ hint' = 0 /\ own' = 0 /\ past' = 0
  /\ graph' = NoGraph /\ kv' = NoKv /\ lru' = <<>> /\ liveRun' = TRUE
  /\ UNCHANGED req

Next ==
  \/ \E r \in Requests : Begin(r)
  \/ Reserve \/ Restore \/ StartCold \/ Prefill \/ PrefillFails
  \/ Step \/ StepStale \/ StepFails \/ GrowFails \/ Stop
  \/ LoadWarmup \/ Unload \/ Respawn

Spec == Init /\ [][Next]_vars

---------------------------------------------------------------------------
(* Properties.                                                             *)

SlabType == [n_ctx : Nat, n_used : Nat, backed : BOOLEAN]
GraphType == [present : BOOLEAN, n_eff : Nat, sig : Sigs, n_ctx : Nat,
              live : BOOLEAN]
Pcs == {"idle", "reserve", "lookup", "prefill", "frames", "aborted"}

\* Every variable has its type, and n_used stays within the slab.
TypeOK ==
  /\ pc \in Pcs /\ req \in Requests
  /\ slab \in SlabType /\ slab.n_used <= slab.n_ctx
  /\ hint \in Nat /\ own \in Nat /\ past \in Nat
  /\ DOMAIN kv \subseteq Keys /\ kv \in [DOMAIN kv -> Snapshot]
  /\ lru \in Seq(Keys)
  /\ graph \in GraphType /\ liveRun \in BOOLEAN

\* Attention only ever reads the request's own rows: whatever was restored
\* from a snapshot, kept through a growth or left by the request before,
\* the rows below n_past are those its prefix and frames produced.
RowsAreOwn == liveRun /\ pc \in {"prefill", "frames"} => own >= past

\* A row is written, and the padded view of the step is taken, inside the
\* slab: n_past has not passed n_ctx, and memory backs it.
RowsFit == pc \in {"prefill", "frames"} => past <= slab.n_ctx /\ slab.backed

\* What a token attends to is in memory, and is its request's own, through
\* every hit, miss, seeded file, growth and failure.
AttentionSound == RowsAreOwn /\ RowsFit

\* prefill_kv_cache_ and its LRU list name the same keys, each once, and
\* never more than kPrefillKvCacheCapacity of them.
CachesAgree ==
  /\ ToSet(lru) = DOMAIN kv
  /\ IsInjective(lru)
  /\ Len(lru) <= Capacity

\* No request runs on a slab more than twice the size it could ever need
\* (or than the floor): one large request does not pin VRAM for the next.
SlabStaysModest ==
  pc \in {"lookup", "prefill", "frames"} =>
    slab.n_ctx <= MaxOf(2 * Worst(req), Floor)

\* Lazy growth stops at the worst case of the request (max_n_ctx_hint).
GrowthStopsAtWorst ==
  [][pc = "frames" /\ slab'.n_ctx > slab.n_ctx
       => slab'.n_ctx <= Worst(req)]_vars
============================================================================
