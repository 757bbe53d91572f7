------------------------ MODULE VocoderStream_proofs ------------------------
(***************************************************************************)
(* Proofs about VocoderStream: a stream's slab rows, convolution tails and *)
(* frame count agree, a cloned voice always has its whole reference as     *)
(* context, and the slab holds every row without outgrowing the stream,    *)
(* for any voices, requests, chunk sizes and capacities.                   *)
(*                                                                         *)
(* Behind them, what the samplers of the talker, of Higgs and of Breeze    *)
(* can draw the frames from (Sampling), for any logits, weights, settings  *)
(* and order of equals; and the stages behind the vocoder (OutputPath),    *)
(* which give the same however a sound is cut into chunks, for any sound,  *)
(* speed, window, codec frame and delay of the codec.                      *)
(***************************************************************************)
EXTENDS VocoderStream, Sampling, OutputPath, FunctionTheorems, FiniteSetTheorems,
        SequenceTheorems, WellFoundedInduction, TLAPS

---------------------------------------------------------------------------
(* Rounding up to the attention kernel's stride.                           *)

LEMMA DivBounds ==
  ASSUME NEW a \in Nat, NEW s \in Nat \ {0}
  PROVE  /\ a \div s \in Nat
         /\ (a \div s) * s <= a
         /\ a < (a \div s) * s + s
  BY SMT

LEMMA TimesMonotone ==
  ASSUME NEW a \in Nat, NEW b \in Nat, a <= b, NEW s \in Nat
  PROVE  a * s \in Nat /\ b * s \in Nat /\ a * s <= b * s
  BY SMT

LEMMA DivMonotone ==
  ASSUME NEW a \in Nat, NEW b \in Nat, a <= b, NEW s \in Nat \ {0}
  PROVE  a \div s <= b \div s
<1> DEFINE p == a \div s
           q == b \div s
<1>1. p \in Nat /\ q \in Nat /\ p * s <= a /\ b < q * s + s
  BY DivBounds
<1>2. SUFFICES ASSUME q + 1 <= p PROVE FALSE
  BY <1>1
<1>3. (q + 1) * s <= p * s /\ (q + 1) * s \in Nat /\ p * s \in Nat
  BY <1>1, <1>2, TimesMonotone
<1>4. (q + 1) * s = q * s + s
  BY <1>1
<1> HIDE DEF p, q
<1> QED
  BY <1>1, <1>3, <1>4

LEMMA PaddedBounds ==
  ASSUME VocoderAssumption, NEW n \in Nat
  PROVE  Padded(n) \in Nat /\ n <= Padded(n)
<1>1. Stride \in Nat \ {0} /\ n + Stride - 1 \in Nat
  BY DEF VocoderAssumption
<1> DEFINE q == (n + Stride - 1) \div Stride
<1>2. q \in Nat /\ n + Stride - 1 < q * Stride + Stride
  BY <1>1, DivBounds
<1>3. q * Stride \in Nat
  BY <1>1, <1>2
<1> HIDE DEF q
<1> QED
  BY <1>1, <1>2, <1>3 DEF Padded, q

LEMMA PaddedMonotone ==
  ASSUME VocoderAssumption, NEW m \in Nat, NEW n \in Nat, m <= n
  PROVE  Padded(m) <= Padded(n)
<1>1. /\ Stride \in Nat \ {0}
      /\ m + Stride - 1 \in Nat /\ n + Stride - 1 \in Nat
      /\ m + Stride - 1 <= n + Stride - 1
  BY DEF VocoderAssumption
<1> DEFINE p == (m + Stride - 1) \div Stride
           q == (n + Stride - 1) \div Stride
<1>2. p \in Nat /\ q \in Nat /\ p <= q
  BY <1>1, DivBounds, DivMonotone
<1> HIDE DEF p, q
<1>3. p * Stride <= q * Stride
  BY <1>1, <1>2, TimesMonotone
<1> QED
  BY <1>3 DEF Padded, p, q

LEMMA PaddedZero ==
  ASSUME VocoderAssumption
  PROVE  Padded(0) = 0
<1>1. Stride \in Nat \ {0} /\ Stride - 1 \in Nat /\ 0 + Stride - 1 = Stride - 1
  BY DEF VocoderAssumption
<1> DEFINE q == (Stride - 1) \div Stride
<1>2. q \in Nat /\ q * Stride <= Stride - 1
  BY <1>1, DivBounds
<1>3. q = 0
  <2>1. SUFFICES ASSUME 1 <= q PROVE FALSE
    BY <1>2
  <2>2. 1 * Stride <= q * Stride /\ q * Stride \in Nat
    BY <1>1, <1>2, <2>1, TimesMonotone
  <2> HIDE DEF q
  <2> QED
    BY <1>1, <1>2, <2>2
<1> HIDE DEF q
<1>4. q * Stride = 0
  BY <1>1, <1>3
<1> QED
  BY <1>1, <1>4 DEF Padded, q

---------------------------------------------------------------------------
(* The inductive invariant. A stopped decoder promises only its snapshots: *)
(* every stream starts by forgetting the last one.                         *)

\* Only whole references are cached.
SnapsWhole == \A v \in DOMAIN icl : icl[v].n_past = RefFrames[v]

\* While a reference is decoded nothing has been generated, and some of the
\* reference is still to come.
WarmingUp ==
  pc = "warm" => Cloned /\ n_past < Ref /\ start = "fresh" /\ frames = 0

HintIsBudget == pc \in {"warm", "stream"} => hint = req.hint

\* SlabStaysModest, during the warm-up as well.
SlabBounded ==
  pc \in {"warm", "stream"} /\ start = "fresh" =>
    slab <= MaxOf(Keep, MaxOf(2 * req.hint, Padded(n_past)))

IInv ==
  /\ TypeOK
  /\ SnapsWhole
  /\ WarmingUp
  /\ HintIsBudget
  /\ ContextAgrees
  /\ ReferenceIsContext
  /\ RowsFit
  /\ SlabBounded

LEMMA RequestSizes ==
  ASSUME VocoderAssumption, NEW r \in Requests
  PROVE  /\ r.hint \in Nat \ {0}
         /\ r.voice \in Voices \cup {NoVoice}
         /\ r.voice \in Voices => RefFrames[r.voice] \in Nat \ {0}
  BY DEF VocoderAssumption

LEMMA RefNat ==
  ASSUME VocoderAssumption, TypeOK
  PROVE  Ref \in Nat /\ (Cloned => Ref \in Nat \ {0})
  BY RequestSizes DEF TypeOK, Ref, Cloned

---------------------------------------------------------------------------
(* Sizing the slab.                                                        *)

\* stream_decode asks for enough, and for no more than it needs, than it
\* has, or than the smaller of the hint and the ceiling.
LEMMA TargetEnough ==
  ASSUME VocoderAssumption, TypeOK, NEW n \in Nat
  PROVE  /\ Target(n) \in Nat
         /\ Padded(n_past + n) <= Target(n)
         /\ \/ Target(n) = slab
            \/ hint > 0 => Target(n) <= MaxOf(hint, Padded(n_past + n))
<1> DEFINE need == Padded(n_past + n)
           twice == IF slab = 0 THEN First ELSE 2 * slab
<1>1. /\ slab \in Nat /\ hint \in Nat /\ n_past + n \in Nat
      /\ First \in Nat /\ Ceiling \in Nat
  BY DEF TypeOK, VocoderAssumption
<1>2. need \in Nat
  BY <1>1, PaddedBounds
<1>3. twice \in Nat
  BY <1>1
<1>4. Cap \in Nat /\ (hint > 0 => Cap <= hint)
  BY <1>1 DEF Cap
<1>5. Target(n) = IF slab >= need THEN slab
                  ELSE IF MaxOf(need, twice) > Cap THEN MaxOf(need, Cap)
                  ELSE MaxOf(need, twice)
  BY DEF Target
<1> HIDE DEF need, twice
<1> QED
  BY <1>1, <1>2, <1>3, <1>4, <1>5 DEF MaxOf, need

\* Enough room, when the copy of a growth cannot overrun: what is left is at
\* least what was asked for, and the rows below past are kept.
LEMMA EnsureOk ==
  ASSUME TypeOK, NEW want \in Nat, NEW past \in Nat,
         NEW e \in Ensure(want, past), e.how = "ok"
  PROVE  /\ e.slab \in Nat /\ e.rows \in Nat
         /\ want <= e.slab
         /\ e.slab = slab \/ e.slab = want
         /\ rows = past => e.rows = past
  BY DEF TypeOK, Ensure, MinOf

LEMMA EnsureTyped ==
  ASSUME TypeOK, NEW want \in Nat, NEW past \in Nat, NEW e \in Ensure(want, past)
  PROVE  e.slab \in Nat /\ e.rows \in Nat /\ e.how \in {"ok", "failed", "overrun"}
  BY DEF TypeOK, Ensure, MinOf

\* One decoded chunk.
LEMMA DecodedHolds ==
  ASSUME VocoderAssumption, IInv, pc \in {"warm", "stream"}, NEW n \in Nat,
         NEW e \in Ensure(Target(n), n_past), Decoded(n, e)
  PROVE  /\ n_past' = n_past + n /\ n_past' \in Nat
         /\ slab' \in Nat /\ rows' \in Nat /\ tails' \in Nat
         /\ start # "dropped" => rows' = n_past' /\ tails' = n_past'
         /\ n_past' <= slab' /\ Padded(n_past') <= slab'
         /\ start = "fresh" =>
              slab' <= MaxOf(Keep, MaxOf(2 * req.hint, Padded(n_past')))
<1>1. /\ n_past \in Nat /\ slab \in Nat /\ rows \in Nat /\ tails \in Nat
      /\ hint \in Nat /\ req \in Requests
  BY DEF IInv, TypeOK
<1>2. Target(n) \in Nat /\ Padded(n_past + n) <= Target(n)
  BY TargetEnough DEF IInv
<1>3. /\ e.slab \in Nat /\ e.rows \in Nat /\ Target(n) <= e.slab
      /\ e.slab = slab \/ e.slab = Target(n)
      /\ rows = n_past => e.rows = n_past
  BY <1>1, <1>2, EnsureOk DEF IInv, Decoded
<1>4. /\ slab' = e.slab /\ n_past' = n_past + n /\ tails' = tails + n
      /\ rows' = IF e.rows >= n_past THEN n_past + n ELSE e.rows
  BY DEF Decoded
<1>5. n_past + n \in Nat /\ Padded(n_past + n) \in Nat
      /\ n_past + n <= Padded(n_past + n)
  BY <1>1, PaddedBounds
<1>6. start # "dropped" => rows = n_past /\ tails = n_past
  BY DEF IInv, ContextAgrees
<1>7. ASSUME start = "fresh"
      PROVE  e.slab <= MaxOf(Keep, MaxOf(2 * req.hint, Padded(n_past + n)))
  <2>1. hint = req.hint /\ req.hint \in Nat \ {0}
    BY <1>1, RequestSizes DEF IInv, HintIsBudget
  <2>2. slab <= MaxOf(Keep, MaxOf(2 * req.hint, Padded(n_past)))
    BY <1>7 DEF IInv, SlabBounded
  <2>3. Padded(n_past) \in Nat /\ Padded(n_past) <= Padded(n_past + n)
    BY <1>1, <1>5, PaddedBounds, PaddedMonotone
  <2>4. Keep \in Nat
    BY DEF VocoderAssumption
  <2>5. Target(n) = slab \/ Target(n) <= MaxOf(req.hint, Padded(n_past + n))
    BY <2>1, TargetEnough DEF IInv
  <2> QED
    BY <1>1, <1>2, <1>3, <1>5, <2>1, <2>2, <2>3, <2>4, <2>5 DEF MaxOf
<1> QED
  BY <1>1, <1>2, <1>3, <1>4, <1>5, <1>6, <1>7

---------------------------------------------------------------------------
(* The invariant holds initially and is preserved, one step per action.    *)

LEMMA InitIInv == VocoderAssumption /\ VocoderInit => IInv
<1> SUFFICES ASSUME VocoderAssumption, VocoderInit PROVE IInv
  OBVIOUS
<1>1. TypeOK
  BY DEF VocoderInit, TypeOK, NoIcl
<1> QED
  BY <1>1 DEF VocoderInit, IInv, SnapsWhole, NoIcl, WarmingUp, HintIsBudget,
     ContextAgrees, ReferenceIsContext, RowsFit, SlabBounded

\* Outside a stream the invariant is about types and snapshots only.
LEMMA Resting ==
  ASSUME TypeOK', SnapsWhole', pc' \notin {"warm", "stream"}
  PROVE  IInv'
  BY DEF IInv, WarmingUp, HintIsBudget, ContextAgrees, ReferenceIsContext,
     RowsFit, SlabBounded

LEMMA ResetIInv ==
  ASSUME VocoderAssumption, IInv, NEW r \in Requests, Reset(r)
  PROVE  IInv'
<1>1. /\ r.hint \in Nat \ {0}
      /\ r.voice \in Voices => RefFrames[r.voice] \in Nat \ {0}
  BY RequestSizes
<1>2. slab \in Nat /\ TypeOK'
  BY <1>1 DEF IInv, TypeOK, Reset
<1>3. SnapsWhole'
  BY DEF IInv, SnapsWhole, Reset
<1>4. slab' <= MaxOf(Keep, 2 * r.hint) /\ slab' \in Nat
  BY <1>1, <1>2 DEF Reset, Shrinks, MaxOf, VocoderAssumption
<1>5. Padded(0) = 0
  BY PaddedZero
<1>6. /\ req' = r /\ hint' = r.hint /\ n_past' = 0 /\ rows' = 0 /\ tails' = 0
      /\ frames' = 0 /\ start' = "fresh"
      /\ pc' = IF r.voice \in Voices THEN "warm" ELSE "stream"
  BY DEF Reset
<1>7. WarmingUp' /\ ReferenceIsContext'
  BY <1>1, <1>6 DEF WarmingUp, ReferenceIsContext, Cloned, Ref
<1>8. SlabBounded' /\ RowsFit'
  BY <1>1, <1>4, <1>5, <1>6 DEF SlabBounded, RowsFit, MaxOf, VocoderAssumption
<1>9. HintIsBudget' /\ ContextAgrees'
  BY <1>6 DEF HintIsBudget, ContextAgrees
<1> QED
  BY <1>2, <1>3, <1>7, <1>8, <1>9 DEF IInv

LEMMA RestoreIInv ==
  ASSUME VocoderAssumption, IInv, Restore
  PROVE  IInv'
<1>1. /\ req.voice \in Voices /\ req.voice \in DOMAIN icl /\ pc = "warm"
      /\ icl[req.voice].n_past = RefFrames[req.voice]
      /\ frames = 0 /\ Ref = RefFrames[req.voice] /\ Ref \in Nat \ {0}
  BY RefNat DEF Restore, Hit, Cloned, IInv, SnapsWhole, WarmingUp, Ref
<1> DEFINE want == RestoreWant(icl[req.voice])
<1>2. want \in Nat /\ Ref <= want
  BY <1>1 DEF RestoreWant, MaxOf, VocoderAssumption
<1> HIDE DEF want
<1>3. PICK e \in Ensure(want, Ref) :
        /\ slab' = e.slab
        /\ CASE e.how = "overrun" ->
                  pc' = "aborted" /\ n_past' = Ref /\ UNCHANGED <<rows, start>>
             [] e.how = "ok" /\ icl[req.voice].fits ->
                  /\ pc' = "stream" /\ n_past' = Ref
                  /\ rows' = n_past' /\ start' = "restored"
             [] OTHER ->
                  /\ pc' = "stream" /\ n_past' = 0
                  /\ rows' = e.rows /\ start' = "dropped"
  BY <1>1 DEF Restore, want
<1>4. /\ tails' = Ref /\ UNCHANGED <<req, hint, icl, frames>>
  BY <1>1 DEF Restore
<1>5. e.slab \in Nat /\ e.rows \in Nat /\ e.how \in {"ok", "failed", "overrun"}
      /\ (e.how = "ok" => want <= e.slab)
  BY <1>1, <1>2, <1>3, EnsureTyped, EnsureOk DEF IInv
<1>6. \/ pc' = "aborted" /\ n_past' = Ref /\ UNCHANGED <<rows, start>>
      \/ /\ e.how = "ok" /\ pc' = "stream" /\ n_past' = Ref
         /\ rows' = Ref /\ start' = "restored"
      \/ pc' = "stream" /\ n_past' = 0 /\ rows' = e.rows /\ start' = "dropped"
  BY <1>3, <1>5
<1>7. TypeOK'
  BY <1>1, <1>3, <1>4, <1>5, <1>6 DEF IInv, TypeOK
<1>8. SnapsWhole'
  BY <1>4 DEF IInv, SnapsWhole
<1>9. CASE pc' = "aborted"
  BY <1>7, <1>8, <1>9, Resting
<1>10. CASE pc' = "stream"
  <2>1. WarmingUp' /\ SlabBounded'
    BY <1>6, <1>10 DEF WarmingUp, SlabBounded
  <2>2. HintIsBudget'
    BY <1>1, <1>4 DEF IInv, HintIsBudget
  <2>3. Ref' = Ref
    BY <1>4 DEF Ref, Cloned
  <2>4. ContextAgrees' /\ ReferenceIsContext'
    BY <1>1, <1>4, <1>6, <1>10, <2>3 DEF ContextAgrees, ReferenceIsContext
  <2>5. RowsFit'
    BY <1>1, <1>2, <1>3, <1>4, <1>5, <1>6, <1>10 DEF RowsFit
  <2> QED
    BY <1>7, <1>8, <2>1, <2>2, <2>4, <2>5 DEF IInv
<1> QED
  BY <1>6, <1>9, <1>10

LEMMA WarmChunkIInv ==
  ASSUME VocoderAssumption, IInv, NEW k \in Chunks, WarmChunk(k)
  PROVE  IInv'
<1>1. /\ pc = "warm" /\ Cloned /\ req.voice \in Voices /\ req \in Requests
      /\ n_past \in Nat /\ Ref \in Nat /\ n_past < Ref /\ frames = 0
      /\ Ref = RefFrames[req.voice] /\ start = "fresh" /\ hint = req.hint
  BY RefNat DEF IInv, TypeOK, WarmChunk, Warming, WarmingUp, HintIsBudget,
     Cloned, Ref
<1> DEFINE n == WarmSize(k)
<1>2. n \in Nat /\ n_past + n \in Nat \ {0} /\ n_past + n <= Ref
  BY <1>1 DEF WarmSize, MinOf, VocoderAssumption
<1>3. PICK e \in Ensure(Target(n), n_past) : Decoded(n, e)
  BY DEF WarmChunk
<1> HIDE DEF n
<1>4. /\ n_past' = n_past + n /\ n_past' \in Nat
      /\ slab' \in Nat /\ rows' \in Nat /\ tails' \in Nat
      /\ rows' = n_past' /\ tails' = n_past'
      /\ n_past' <= slab' /\ Padded(n_past') <= slab'
      /\ slab' <= MaxOf(Keep, MaxOf(2 * req.hint, Padded(n_past')))
  BY <1>1, <1>2, <1>3, DecodedHolds
<1>5. /\ UNCHANGED <<req, hint, start, frames>>
      /\ \/ /\ n_past' = Ref /\ pc' = "stream"
            /\ icl' = With(icl, req.voice, Captured)
         \/ n_past' # Ref /\ pc' = "warm" /\ UNCHANGED icl
  BY <1>1 DEF WarmChunk
<1>6. Captured \in Snapshot /\ Captured.n_past = n_past'
  BY <1>2, <1>4 DEF Captured, Snapshot
<1>7. /\ DOMAIN icl' \subseteq Voices /\ icl' \in [DOMAIN icl' -> Snapshot]
      /\ SnapsWhole'
  <2>1. CASE n_past' = Ref
    <3>1. icl' = With(icl, req.voice, Captured)
      BY <1>5, <2>1
    <3>2. /\ DOMAIN icl' \subseteq Voices /\ icl' \in [DOMAIN icl' -> Snapshot]
          /\ DOMAIN icl' = DOMAIN icl \cup {req.voice}
          /\ icl'[req.voice] = Captured
          /\ \A w \in DOMAIN icl \ {req.voice} : icl'[w] = icl[w]
      <4>1. /\ DOMAIN icl' = DOMAIN icl \cup {req.voice}
            /\ icl' = [w \in DOMAIN icl' |->
                         IF w = req.voice THEN Captured ELSE icl[w]]
        BY <3>1 DEF With
      <4>2. DOMAIN icl \subseteq Voices /\ \A w \in DOMAIN icl : icl[w] \in Snapshot
        BY DEF IInv, TypeOK
      <4> QED
        BY <1>1, <1>6, <4>1, <4>2
    <3> QED
      BY <1>1, <1>6, <2>1, <3>2 DEF IInv, SnapsWhole
  <2>2. CASE n_past' # Ref
    BY <1>5, <2>2 DEF IInv, TypeOK, SnapsWhole
  <2> QED
    BY <2>1, <2>2
<1>8. TypeOK'
  BY <1>4, <1>5, <1>7 DEF IInv, TypeOK
<1>9. Ref' = Ref /\ Cloned'
  BY <1>1, <1>5 DEF Ref, Cloned
<1>10. WarmingUp' /\ HintIsBudget'
  BY <1>1, <1>2, <1>4, <1>5, <1>9 DEF WarmingUp, HintIsBudget
<1>11. ContextAgrees' /\ RowsFit' /\ SlabBounded'
  BY <1>4, <1>5 DEF ContextAgrees, RowsFit, SlabBounded
<1>12. ReferenceIsContext'
  BY <1>1, <1>5, <1>9 DEF ReferenceIsContext
<1> QED
  BY <1>7, <1>8, <1>10, <1>11, <1>12 DEF IInv

\* A failure ends the stream, whatever it did to the slab.
LEMMA FailsIInv ==
  ASSUME VocoderAssumption, IInv, NEW n \in Nat,
         NEW e \in Ensure(Target(n), n_past), DecodeFails(e),
         UNCHANGED <<req, hint, icl, start, frames>>
  PROVE  IInv'
<1>1. n_past \in Nat /\ Target(n) \in Nat
  BY TargetEnough DEF IInv, TypeOK
<1>2. e.slab \in Nat /\ e.rows \in Nat
  BY <1>1, EnsureTyped DEF IInv
<1>3. pc' \in {"idle", "aborted"}
  BY DEF DecodeFails
<1>4. TypeOK'
  BY <1>2, <1>3 DEF IInv, TypeOK, DecodeFails
<1>5. SnapsWhole'
  BY DEF IInv, SnapsWhole
<1> QED
  BY <1>3, <1>4, <1>5, Resting

LEMMA ChunkIInv ==
  ASSUME VocoderAssumption, IInv, NEW n \in Chunks, Chunk(n)
  PROVE  IInv'
<1>1. /\ pc = "stream" /\ n \in Nat /\ req \in Requests
      /\ n_past \in Nat /\ frames \in Nat /\ Ref \in Nat /\ hint = req.hint
  BY RefNat DEF IInv, TypeOK, Chunk, HintIsBudget, VocoderAssumption
<1>2. PICK e \in Ensure(Target(n), n_past) : Decoded(n, e)
  BY DEF Chunk
<1>3. /\ n_past' = n_past + n /\ n_past' \in Nat
      /\ slab' \in Nat /\ rows' \in Nat /\ tails' \in Nat
      /\ start # "dropped" => rows' = n_past' /\ tails' = n_past'
      /\ n_past' <= slab' /\ Padded(n_past') <= slab'
      /\ start = "fresh" =>
           slab' <= MaxOf(Keep, MaxOf(2 * req.hint, Padded(n_past')))
  BY <1>1, <1>2, DecodedHolds
<1>4. frames' = frames + n /\ UNCHANGED <<pc, req, hint, icl, start>>
  BY DEF Chunk
<1>5. TypeOK' /\ SnapsWhole'
  BY <1>1, <1>3, <1>4 DEF IInv, TypeOK, SnapsWhole
<1>6. WarmingUp' /\ HintIsBudget'
  BY <1>1, <1>4 DEF WarmingUp, HintIsBudget
<1>7. ContextAgrees' /\ RowsFit' /\ SlabBounded'
  BY <1>3, <1>4 DEF ContextAgrees, RowsFit, SlabBounded
<1>8. ReferenceIsContext'
  <2>1. Ref' = Ref
    BY <1>4 DEF Ref, Cloned
  <2> QED
    BY <1>1, <1>3, <1>4, <2>1 DEF IInv, ReferenceIsContext
<1> QED
  BY <1>5, <1>6, <1>7, <1>8 DEF IInv

LEMMA SeedIInv ==
  ASSUME VocoderAssumption, IInv, NEW v \in Voices, NEW fits \in BOOLEAN,
         Seed(v, fits)
  PROVE  IInv'
<1> DEFINE s == [n_past |-> RefFrames[v], fits |-> fits]
<1>1. s \in Snapshot /\ s.n_past = RefFrames[v]
  BY DEF Snapshot, VocoderAssumption
<1>2. icl' = With(icl, v, s)
  BY DEF Seed
<1> HIDE DEF s
<1>3. /\ DOMAIN icl' \subseteq Voices /\ icl' \in [DOMAIN icl' -> Snapshot]
      /\ DOMAIN icl' = DOMAIN icl \cup {v} /\ icl'[v] = s
      /\ \A w \in DOMAIN icl \ {v} : icl'[w] = icl[w]
  <2>1. /\ DOMAIN icl' = DOMAIN icl \cup {v}
        /\ icl' = [w \in DOMAIN icl' |-> IF w = v THEN s ELSE icl[w]]
    BY <1>2 DEF With
  <2>2. DOMAIN icl \subseteq Voices /\ \A w \in DOMAIN icl : icl[w] \in Snapshot
    BY DEF IInv, TypeOK
  <2> QED
    BY <1>1, <2>1, <2>2
<1>4. SnapsWhole'
  BY <1>1, <1>3 DEF IInv, SnapsWhole
<1>5. TypeOK'
  BY <1>3 DEF IInv, TypeOK, Seed, context
<1>6. pc' = "loading"
  BY DEF Seed
<1> QED
  BY <1>4, <1>5, <1>6, Resting

LEMMA BetweenIInv ==
  ASSUME IInv, End \/ OneShot \/ Loaded \/ UnloadDecoder \/ Respawn
  PROVE  IInv'
<1>1. pc' \in {"idle", "loading"}
  BY DEF End, OneShot, Loaded, UnloadDecoder, Respawn
<1>2. CASE Respawn
  <2>1. DOMAIN icl' = {} /\ icl' \in [{} -> Snapshot]
    BY <1>2 DEF Respawn, NoIcl
  <2>2. TypeOK'
    BY <1>2, <2>1 DEF IInv, TypeOK, Respawn
  <2>3. SnapsWhole'
    BY <2>1 DEF SnapsWhole
  <2> QED
    BY <1>1, <2>2, <2>3, Resting
<1>3. CASE End \/ OneShot \/ Loaded \/ UnloadDecoder
  <2>1. TypeOK'
    BY <1>1, <1>3 DEF IInv, TypeOK, End, OneShot, Loaded, UnloadDecoder, context
  <2>2. SnapsWhole'
    BY <1>3 DEF IInv, SnapsWhole, End, OneShot, Loaded, UnloadDecoder
  <2> QED
    BY <1>1, <2>1, <2>2, Resting
<1> QED
  BY <1>2, <1>3

LEMMA NextIInv ==
  ASSUME VocoderAssumption, IInv, [VocoderNext]_vocoderVars
  PROVE  IInv'
<1>1. CASE UNCHANGED vocoderVars
  BY <1>1 DEF vocoderVars, IInv, TypeOK, SnapsWhole, WarmingUp, HintIsBudget,
     ContextAgrees, ReferenceIsContext, RowsFit, SlabBounded, Cloned, Ref
<1>2. CASE \E r \in Requests : Reset(r)
  BY <1>2, ResetIInv
<1>3. CASE Restore
  BY <1>3, RestoreIInv
<1>4. CASE \E n \in Chunks : WarmChunk(n)
  BY <1>4, WarmChunkIInv
<1>5. CASE \E n \in Chunks : WarmFails(n)
  <2>1. PICK n \in Chunks : WarmFails(n)
    BY <1>5
  <2>2. WarmSize(n) \in Nat
    <3>1. n_past \in Nat /\ Ref \in Nat /\ n_past < Ref /\ n \in Nat
      BY <2>1, RefNat DEF IInv, TypeOK, WarmFails, Warming, WarmingUp,
         VocoderAssumption
    <3> QED
      BY <3>1 DEF WarmSize, MinOf
  <2> QED
    BY <2>1, <2>2, FailsIInv DEF WarmFails
<1>6. CASE \E n \in Chunks : Chunk(n)
  BY <1>6, ChunkIInv
<1>7. CASE \E n \in Chunks : ChunkFails(n)
  <2>1. PICK n \in Chunks : ChunkFails(n)
    BY <1>7
  <2>2. n \in Nat
    BY DEF VocoderAssumption
  <2> QED
    BY <2>1, <2>2, FailsIInv DEF ChunkFails
<1>8. CASE \E v \in Voices, fits \in BOOLEAN : Seed(v, fits)
  BY <1>8, SeedIInv
<1>9. CASE End \/ OneShot \/ Loaded \/ UnloadDecoder \/ Respawn
  BY <1>9, BetweenIInv
<1> QED
  BY <1>1, <1>2, <1>3, <1>4, <1>5, <1>6, <1>7, <1>8, <1>9 DEF VocoderNext

LEMMA Invariance == VocoderSpec => []IInv
<1>1. VocoderInit => IInv
  BY InitIInv, VocoderAssumption
<1>2. IInv /\ [VocoderNext]_vocoderVars => IInv'
  BY NextIInv, VocoderAssumption
<1> QED
  BY <1>1, <1>2, PTL DEF VocoderSpec

---------------------------------------------------------------------------
(* The theorems.                                                           *)

\* Every variable keeps its type.
THEOREM TypeCorrect == VocoderSpec => []TypeOK
<1>1. IInv => TypeOK
  BY DEF IInv
<1> QED
  BY <1>1, Invariance, PTL

\* However often the slab is grown, freed or restored, its rows, the
\* convolution tails and n_past count the same frames of the same stream,
\* and the slab covers them and the attention kernel's stride.
THEOREM ContextSafe == VocoderSpec => []ContextSound
<1>1. IInv => ContextSound
  BY DEF IInv, ContextSound
<1> QED
  BY <1>1, Invariance, PTL

\* A cloned voice is never decoded behind part of its reference: failed
\* warm-ups leave nothing in the cache.
THEOREM ReferenceSafe == VocoderSpec => []ReferenceIsContext
<1>1. IInv => ReferenceIsContext
  BY DEF IInv
<1> QED
  BY <1>1, Invariance, PTL

\* A stream that restores nothing never runs on more than the largest of the
\* size that is always kept, twice its budget, and what its context needs.
THEOREM SlabModest == VocoderSpec => []SlabStaysModest
<1>1. IInv => SlabStaysModest
  BY DEF IInv, SlabBounded, SlabStaysModest
<1> QED
  BY <1>1, Invariance, PTL

-----------------------------------------------------------------------------
(* Induction over the naturals, of sets: a least element comes from finite *)
(* sets being well founded.                                                *)

LEMMA LeastNat ==
  ASSUME NEW T, T \subseteq Nat, T # {}
  PROVE  \E x \in T : \A y \in T : x <= y
<1> DEFINE Below(x) == 0..x - 1
           B == {Below(x) : x \in T}
<1>1. B \subseteq FiniteSubsetsOf(Nat) /\ B # {}
  <2>1. ASSUME NEW x \in T PROVE Below(x) \subseteq Nat /\ IsFiniteSet(Below(x))
    BY FS_Interval
  <2> QED
    BY <2>1 DEF FiniteSubsetsOf
<1>2. \E b \in B : \A a \in B : ~(<<a, b>> \in StrictSubsetOrdering(Nat))
  <2> HIDE DEF B
  <2> QED
    BY <1>1, WFMin, FS_StrictSubsetOrderingWellFounded
<1>3. PICK x \in T : \A y \in T : ~(<<Below(y), Below(x)>> \in StrictSubsetOrdering(Nat))
  BY <1>2
<1>4. ASSUME NEW y \in T PROVE x <= y
  <2> SUFFICES ASSUME y < x PROVE FALSE
    OBVIOUS
  <2>1. x \in Nat /\ y \in Nat
    OBVIOUS
  <2>2. Below(y) \subseteq Below(x) /\ Below(y) # Below(x)
    <3>1. y \in Below(x) /\ y \notin Below(y)
      BY <2>1
    <3> QED
      BY <2>1, <3>1
  <2>3. Below(y) \in SUBSET Nat /\ Below(x) \in SUBSET Nat
    BY <2>1
  <2> HIDE DEF Below
  <2> QED
    BY <1>3, <2>2, <2>3 DEF StrictSubsetOrdering
<1> QED
  BY <1>4

LEMMA SetInduction ==
  ASSUME NEW S, 0 \in S, \A n \in Nat : n \in S => n + 1 \in S
  PROVE  \A n \in Nat : n \in S
<1> SUFFICES ASSUME Nat \ S # {} PROVE FALSE
  OBVIOUS
<1>1. PICK x \in Nat \ S : \A y \in Nat \ S : x <= y
  BY LeastNat
<1>2. x # 0 /\ x - 1 \in Nat /\ x - 1 \in S
  BY <1>1
<1> QED
  BY <1>1, <1>2

-----------------------------------------------------------------------------
(* The aligner's times: a recursion whose every step only looks back has a *)
(* solution, whatever the step does.                                       *)

\* f is the recursion that starts with base and makes f[k] of f[back[k]].
Recurs(f, n, base, back, F) ==
  f = [k \in 0..n |-> IF k = 0 THEN base ELSE F[<<f[back[k]], k>>]]

LEMMA RecursionSolved ==
  ASSUME NEW S, NEW n \in Nat, NEW base \in S, NEW F \in [S \X (1..n) -> S],
         NEW back \in [1..n -> Nat], \A k \in 1..n : back[k] < k
  PROVE  \E f \in [0..n -> S] : Recurs(f, n, base, back, F)
<1> DEFINE T == {m \in Nat : m <= n => \E f \in [0..m -> S] : Recurs(f, m, base, back, F)}
<1>1. 0 \in T
  <2>1. [k \in 0..0 |-> base] \in [0..0 -> S]
    OBVIOUS
  <2>2. Recurs([k \in 0..0 |-> base], 0, base, back, F)
    BY DEF Recurs
  <2> QED
    BY <2>1, <2>2
<1>2. ASSUME NEW m \in Nat, m \in T PROVE m + 1 \in T
  <2> SUFFICES ASSUME m + 1 <= n
               PROVE  \E f \in [0..m + 1 -> S] : Recurs(f, m + 1, base, back, F)
    OBVIOUS
  <2>1. PICK f \in [0..m -> S] : Recurs(f, m, base, back, F)
    BY <1>2
  <2>2. m + 1 \in 1..n /\ back[m + 1] \in 0..m
    OBVIOUS
  <2>3. PICK last \in S : last = F[<<f[back[m + 1]], m + 1>>]
    BY <2>2
  <2> DEFINE g == [k \in 0..m + 1 |-> IF k = m + 1 THEN last ELSE f[k]]
  <2>4. g \in [0..m + 1 -> S]
    OBVIOUS
  <2>5. ASSUME NEW k \in 0..m + 1
        PROVE  g[k] = IF k = 0 THEN base ELSE F[<<g[back[k]], k>>]
    <3>1. CASE k = m + 1
      <4>1. PICK b : b = back[k]
        OBVIOUS
      <4>2. b \in 0..m /\ b # m + 1 /\ b \in 0..m + 1
        BY <2>2, <3>1, <4>1
      <4>3. g[b] = f[b] /\ g[k] = last
        BY <3>1, <4>2
      <4> HIDE DEF g
      <4>4. g[k] = F[<<g[b], k>>]
        BY <2>3, <3>1, <4>1, <4>3
      <4> QED
        BY <3>1, <4>1, <4>4
    <3>2. CASE k \in 1..m
      <4>1. PICK b : b = back[k]
        OBVIOUS
      <4>2. b \in 0..m /\ b # m + 1 /\ b \in 0..m + 1 /\ k # m + 1
        BY <2>2, <3>2, <4>1
      <4>3. g[k] = f[k] /\ g[b] = f[b]
        BY <3>2, <4>2
      <4>4. f[k] = F[<<f[b], k>>]
        BY <2>1, <3>2, <4>1 DEF Recurs
      <4> HIDE DEF g
      <4>5. g[k] = F[<<g[b], k>>]
        BY <4>3, <4>4
      <4> QED
        BY <3>2, <4>1, <4>5
    <3>3. CASE k = 0
      <4>1. f[0] = base
        BY <2>1 DEF Recurs
      <4> QED
        BY <3>3, <4>1
    <3> QED
      BY <3>1, <3>2, <3>3
  <2>6. g = [k \in 0..m + 1 |-> IF k = 0 THEN base ELSE F[<<g[back[k]], k>>]]
    <3>1. DOMAIN g = 0..m + 1
      OBVIOUS
    <3> HIDE DEF g
    <3> QED
      BY <2>4, <2>5, <3>1
  <2> HIDE DEF g
  <2> QED
    BY <2>4, <2>6 DEF Recurs
<1>3. \A m \in Nat : m \in T
  <2> HIDE DEF T
  <2> QED
    BY <1>1, <1>2, SetInduction
<1> QED
  BY <1>3

LEMMA InductionUpTo ==
  ASSUME NEW n \in Nat, NEW T, 0 \in T, \A k \in 1..n : k - 1 \in T => k \in T
  PROVE  \A k \in 0..n : k \in T
<1> DEFINE U == {m \in Nat : m <= n => m \in T}
<1>1. 0 \in U
  OBVIOUS
<1>2. ASSUME NEW m \in Nat, m \in U PROVE m + 1 \in U
  <2> SUFFICES ASSUME m + 1 <= n PROVE m + 1 \in T
    OBVIOUS
  <2>1. m + 1 \in 1..n /\ (m + 1) - 1 = m /\ m \in T
    BY <1>2
  <2> QED
    BY <2>1
<1>3. \A m \in Nat : m \in U
  <2> HIDE DEF U
  <2> QED
    BY <1>1, <1>2, SetInduction
<1> QED
  BY <1>3

\* Before each row the one before it.
RowBefore(n) == [k \in 1..n |-> k - 1]

Stepwise(f, n, base, F) == f[0] = base /\ \A k \in 1..n : f[k] = F[<<f[k - 1], k>>]

LEMMA StepByStep ==
  ASSUME NEW S, NEW n \in Nat, NEW base \in S, NEW F \in [S \X (1..n) -> S]
  PROVE  \E f \in [0..n -> S] : Stepwise(f, n, base, F)
<1>1. RowBefore(n) \in [1..n -> Nat] /\ \A k \in 1..n : RowBefore(n)[k] < k
  BY DEF RowBefore
<1>2. PICK f \in [0..n -> S] : Recurs(f, n, base, RowBefore(n), F)
  BY <1>1, RecursionSolved
<1>3. f[0] = base
  BY <1>2 DEF Recurs
<1>4. ASSUME NEW k \in 1..n PROVE f[k] = F[<<f[k - 1], k>>]
  <2>1. RowBefore(n)[k] = k - 1
    BY DEF RowBefore
  <2>2. f[k] = F[<<f[RowBefore(n)[k]], k>>]
    <3>1. k \in 0..n /\ k # 0
      OBVIOUS
    <3>2. f = [j \in 0..n |-> IF j = 0 THEN base ELSE F[<<f[RowBefore(n)[j]], j>>]]
      BY <1>2, Zenon DEF Recurs
    <3> QED
      BY <3>1, <3>2, Zenon
  <2> QED
    BY <2>1, <2>2
<1> QED
  BY <1>3, <1>4 DEF Stepwise

LEMMA GreatestOf ==
  ASSUME NEW n \in Nat, NEW A, A \subseteq 0..n, A # {}
  PROVE  \E x \in A : \A y \in A : y <= x
<1> DEFINE T == {n - x : x \in A}
<1>1. T \subseteq Nat /\ T # {}
  <2>1. ASSUME NEW x \in A PROVE n - x \in Nat
    <3>1. x \in 0..n
      OBVIOUS
    <3> QED
      BY <3>1
  <2>2. PICK x : x \in A
    OBVIOUS
  <2>3. n - x \in T
    BY <2>2
  <2> QED
    BY <2>1, <2>3
<1>2. PICK t \in T : \A y \in T : t <= y
  <2> HIDE DEF T
  <2> QED
    BY <1>1, LeastNat
<1>3. PICK x \in A : t = n - x
  OBVIOUS
<1>4. ASSUME NEW y \in A PROVE y <= x
  <2>1. n - y \in T
    OBVIOUS
  <2>2. t <= n - y
    <3> HIDE DEF T
    <3> QED
      BY <1>2, <2>1
  <2>3. x \in 0..n /\ y \in 0..n
    OBVIOUS
  <2> QED
    BY <1>3, <2>2, <2>3
<1> QED
  BY <1>4

-----------------------------------------------------------------------------
(* What sampling draws from (Sampling): the weight of a set of tokens, and *)
(* the order in which they are sorted.                                     *)

\* What the n-th token of the vocabulary adds to the weight of S.
Adds(x, S, n) == IF n - 1 \in S THEN Weight(x[n - 1]) ELSE 0

Running(x, S, g) ==
  /\ g \in [0..VocabSize -> Nat] /\ g[0] = 0
  /\ \A n \in 1..VocabSize : g[n] = g[n - 1] + Adds(x, S, n)

\* A row of logits that can be weighed.
Weighed == [Vocab -> Logits]

LEMMA VocabIs ==
  /\ VocabSize \in Nat \ {0} /\ Vocab \subseteq Nat /\ IsFiniteSet(Vocab)
  /\ Cardinality(Vocab) = VocabSize /\ Vocab # {}
<1>1. VocabSize \in Nat \ {0}
  BY SamplingAssumption
<1>2. IsFiniteSet(0..VocabSize - 1) /\ Cardinality(0..VocabSize - 1) = VocabSize
  BY <1>1, FS_Interval
<1>3. 0 \in 0..VocabSize - 1
  BY <1>1
<1>4. Vocab \subseteq Nat /\ Vocab # {}
  BY <1>3 DEF Vocab
<1>5. IsFiniteSet(Vocab) /\ Cardinality(Vocab) = VocabSize
  BY <1>2, Zenon DEF Vocab
<1> QED
  BY <1>1, <1>4, <1>5

LEMMA LogitsAre == Logits \subseteq Int /\ \A v \in Logits : v > NegInf /\ v # NegInf
<1>1. Scores \subseteq Nat /\ \A v \in Scores : 2 * v < 1000
  BY SamplingAssumption DEF NegInf
<1>2. ASSUME NEW v \in Logits PROVE v \in Int /\ v > NegInf
  <2>1. PICK s \in Scores : v = s \/ v = -s
    BY DEF Logits
  <2>2. s \in Nat /\ s < 1000
    BY <1>1
  <2> QED
    BY <2>1, <2>2 DEF NegInf
<1>3. ASSUME NEW v \in Logits PROVE v # NegInf
  BY <1>2 DEF NegInf
<1> QED
  BY <1>2, <1>3

LEMMA AddsIs ==
  ASSUME NEW x \in Weighed, NEW S, NEW n \in 1..VocabSize
  PROVE  Adds(x, S, n) \in Nat /\ (n - 1 \in S => Adds(x, S, n) >= 1)
<1>1. n - 1 \in Vocab
  BY VocabIs DEF Vocab
<1>2. x[n - 1] \in Logits
  BY <1>1 DEF Weighed
<1>3. PICK w : w = Weight(x[n - 1])
  OBVIOUS
<1>4. w \in Nat \ {0}
  BY <1>2, <1>3, LogitsAre, SamplingAssumption DEF Weight
<1> QED
  BY <1>3, <1>4 DEF Adds

\* The weight is reached token by token.
LEMMA WeighedBy ==
  ASSUME NEW x \in Weighed, NEW S
  PROVE  \E g : Running(x, S, g) /\ WeightOf(x, S) = g[VocabSize]
<1> DEFINE n == VocabSize
           F == [z \in Nat \X (1..n) |-> z[1] + Adds(x, S, z[2])]
           Solves(f) == f = [k \in 0..n |-> IF k = 0 THEN 0 ELSE f[k - 1] + Adds(x, S, k)]
           g == CHOOSE f : Solves(f)
<1>1. n \in Nat
  BY VocabIs
<1>2. F \in [Nat \X (1..n) -> Nat]
  BY <1>1, AddsIs
<1>3. PICK f \in [0..n -> Nat] : Stepwise(f, n, 0, F)
  <2> HIDE DEF F, n
  <2>1. 0 \in Nat
    OBVIOUS
  <2> QED
    BY <1>1, <1>2, <2>1, StepByStep, Zenon
<1>4. Solves(f)
  <2>1. ASSUME NEW k \in 1..n PROVE f[k] = f[k - 1] + Adds(x, S, k)
    <3>1. f[k - 1] \in Nat
      BY <1>1
    <3>2. f[k] = F[<<f[k - 1], k>>]
      BY <1>3 DEF Stepwise
    <3> QED
      BY <3>1, <3>2
  <2>2. ASSUME NEW k \in 0..n PROVE f[k] = IF k = 0 THEN 0 ELSE f[k - 1] + Adds(x, S, k)
    BY <1>1, <1>3, <2>1 DEF Stepwise
  <2> HIDE DEF F, n
  <2> QED
    BY <2>2
<1>5. Solves(g)
  BY <1>4
<1>6. WeightOf(x, S) = g[n]
  BY DEF WeightOf, Adds
<1> HIDE DEF g
<1>7. g[0] = 0 /\ (\A k \in 1..n : g[k] = g[k - 1] + Adds(x, S, k)) /\ DOMAIN g = 0..n
  BY <1>1, <1>5
<1>8. g = [k \in 0..n |-> g[k]]
  <2>1. g = [k \in 0..n |-> IF k = 0 THEN 0 ELSE g[k - 1] + Adds(x, S, k)]
    BY <1>5
  <2> QED
    BY <2>1
<1> DEFINE T == {k \in 0..n : g[k] \in Nat}
<1>9. 0 \in T
  BY <1>1, <1>7
<1>10. ASSUME NEW k \in 1..n, k - 1 \in T PROVE k \in T
  BY <1>1, <1>7, <1>10, AddsIs
<1>11. \A k \in 0..n : k \in T
  <2> HIDE DEF T, n
  <2> QED
    BY <1>1, <1>9, <1>10, InductionUpTo
<1>12. g \in [0..n -> Nat]
  BY <1>8, <1>11
<1> QED
  BY <1>6, <1>7, <1>12 DEF Running

LEMMA WeightIs == ASSUME NEW x \in Weighed, NEW S PROVE WeightOf(x, S) \in Nat
<1>1. PICK g : Running(x, S, g) /\ WeightOf(x, S) = g[VocabSize]
  BY WeighedBy
<1> QED
  BY <1>1, VocabIs DEF Running

\* More tokens do not weigh less.
LEMMA MoreWeighMore ==
  ASSUME NEW x \in Weighed, NEW A, NEW B, A \subseteq B
  PROVE  WeightOf(x, A) <= WeightOf(x, B)
<1>1. PICK g : Running(x, A, g) /\ WeightOf(x, A) = g[VocabSize]
  BY WeighedBy
<1>2. PICK h : Running(x, B, h) /\ WeightOf(x, B) = h[VocabSize]
  BY WeighedBy
<1> DEFINE T == {k \in 0..VocabSize : g[k] <= h[k]}
<1>3. 0 \in T
  BY <1>1, <1>2, VocabIs DEF Running
<1>4. ASSUME NEW k \in 1..VocabSize, k - 1 \in T PROVE k \in T
  <2>1. PICK a, b : a = Adds(x, A, k) /\ b = Adds(x, B, k)
    OBVIOUS
  <2>2. a \in Nat /\ b \in Nat
    BY <2>1, AddsIs
  <2>3. a <= b
    <3>1. CASE k - 1 \in A
      BY <2>1, <2>2, <3>1 DEF Adds
    <3>2. CASE k - 1 \notin A
      BY <2>1, <2>2, <3>2 DEF Adds
    <3> QED
      BY <3>1, <3>2
  <2>4. k \in 0..VocabSize /\ k - 1 \in 0..VocabSize
    BY VocabIs
  <2>5. g[k] = g[k - 1] + a /\ h[k] = h[k - 1] + b /\ g[k - 1] \in Nat /\ h[k - 1] \in Nat
    BY <1>1, <1>2, <2>1, <2>4 DEF Running
  <2>6. g[k - 1] <= h[k - 1]
    BY <1>4
  <2>7. g[k] <= h[k]
    BY <2>2, <2>3, <2>5, <2>6
  <2> QED
    BY <2>4, <2>7
<1>5. VocabSize \in T
  <2>1. \A k \in 0..VocabSize : k \in T
    <3> HIDE DEF T
    <3> QED
      BY <1>3, <1>4, InductionUpTo, VocabIs
  <2>2. VocabSize \in 0..VocabSize
    BY VocabIs
  <2> QED
    BY <2>1, <2>2
<1> QED
  BY <1>1, <1>2, <1>5

LEMMA NoneWeighs == ASSUME NEW x \in Weighed PROVE WeightOf(x, {}) = 0
<1>1. PICK g : Running(x, {}, g) /\ WeightOf(x, {}) = g[VocabSize]
  BY WeighedBy
<1> DEFINE T == {k \in 0..VocabSize : g[k] = 0}
<1>2. 0 \in T
  BY <1>1, VocabIs DEF Running
<1>3. ASSUME NEW k \in 1..VocabSize, k - 1 \in T PROVE k \in T
  <2>1. k \in 0..VocabSize
    BY VocabIs
  <2>2. g[k] = g[k - 1] + Adds(x, {}, k) /\ g[k - 1] = 0 /\ Adds(x, {}, k) = 0
    BY <1>1, <1>3 DEF Running, Adds
  <2> QED
    BY <2>1, <2>2
<1>4. VocabSize \in T
  <2>1. \A k \in 0..VocabSize : k \in T
    <3> HIDE DEF T
    <3> QED
      BY <1>2, <1>3, InductionUpTo, VocabIs
  <2>2. VocabSize \in 0..VocabSize
    BY VocabIs
  <2> QED
    BY <2>1, <2>2
<1> QED
  BY <1>1, <1>4

\* A token weighs something.
LEMMA SomeWeigh ==
  ASSUME NEW x \in Weighed, NEW A, NEW i \in Vocab, i \in A
  PROVE  WeightOf(x, A) >= 1
<1>1. PICK g : Running(x, A, g) /\ WeightOf(x, A) = g[VocabSize]
  BY WeighedBy
<1> DEFINE T == {k \in 0..VocabSize : k > i => g[k] >= 1}
<1>2. i \in Nat /\ i < VocabSize
  BY VocabIs DEF Vocab
<1>3. 0 \in T
  BY <1>2, VocabIs
<1>4. ASSUME NEW k \in 1..VocabSize, k - 1 \in T PROVE k \in T
  <2>1. PICK a : a = Adds(x, A, k)
    OBVIOUS
  <2>2. a \in Nat /\ (k - 1 = i => a >= 1)
    BY <2>1, AddsIs
  <2>3. k \in 0..VocabSize /\ k - 1 \in 0..VocabSize
    BY VocabIs
  <2>4. g[k] = g[k - 1] + a /\ g[k - 1] \in Nat
    BY <1>1, <2>1, <2>3 DEF Running
  <2>5. k - 1 > i => g[k - 1] >= 1
    BY <1>4
  <2>6. k > i => g[k] >= 1
    BY <1>2, <2>2, <2>3, <2>4, <2>5
  <2> QED
    BY <2>3, <2>6
<1>5. VocabSize \in T
  <2>1. \A k \in 0..VocabSize : k \in T
    <3> HIDE DEF T
    <3> QED
      BY <1>3, <1>4, InductionUpTo, VocabIs
  <2>2. VocabSize \in 0..VocabSize
    BY VocabIs
  <2> QED
    BY <2>1, <2>2
<1> QED
  BY <1>1, <1>2, <1>5

\* Row x of integers, whose equals are sorted by tie: j comes before i.
Valued == [Vocab -> Int]
Precedes(x, tie, j, i) == x[j] > x[i] \/ (x[j] = x[i] /\ tie[j] < tie[i])
Rank(x, tie, S, i) == Cardinality(Ahead(x, tie, S, i))

LEMMA PrecedesOrders ==
  ASSUME NEW x \in Valued, NEW tie \in Injection(Vocab, Vocab),
         NEW i \in Vocab, NEW j \in Vocab
  PROVE  /\ ~Precedes(x, tie, i, i)
         /\ i # j => Precedes(x, tie, i, j) \/ Precedes(x, tie, j, i)
         /\ \A k \in Vocab : Precedes(x, tie, k, j) /\ Precedes(x, tie, j, i)
                               => Precedes(x, tie, k, i)
         /\ Precedes(x, tie, j, i) => x[j] >= x[i]
<1>1. tie \in [Vocab -> Vocab] /\ (tie[i] = tie[j] => i = j)
  <2>1. PICK V : V = Vocab
    OBVIOUS
  <2>2. tie \in Injection(V, V) /\ i \in V /\ j \in V
    BY <2>1
  <2>3. tie \in [V -> V] /\ \A a, b \in V : tie[a] = tie[b] => a = b
    BY <2>2, Fun_InjectionProperties, Zenon
  <2> QED
    BY <2>1, <2>2, <2>3
<1>2. ASSUME NEW k \in Vocab PROVE x[k] \in Int /\ tie[k] \in Int
  <2>1. tie[k] \in Vocab
    BY <1>1
  <2>2. Vocab \subseteq Nat
    BY VocabIs
  <2>3. tie[k] \in Nat
    BY <2>1, <2>2
  <2>4. x[k] \in Int
    BY DEF Valued
  <2> QED
    BY <2>3, <2>4
<1>3. PICK a, b, s, t : a = x[i] /\ b = x[j] /\ s = tie[i] /\ t = tie[j]
  OBVIOUS
<1>4. a \in Int /\ b \in Int /\ s \in Int /\ t \in Int /\ (s = t => i = j)
  BY <1>1, <1>2, <1>3
<1>5. ~Precedes(x, tie, i, i)
  BY <1>3, <1>4 DEF Precedes
<1>6. i # j => Precedes(x, tie, i, j) \/ Precedes(x, tie, j, i)
  BY <1>3, <1>4 DEF Precedes
<1>7. ASSUME NEW k \in Vocab, Precedes(x, tie, k, j), Precedes(x, tie, j, i)
      PROVE  Precedes(x, tie, k, i)
  <2>1. PICK c, u : c = x[k] /\ u = tie[k]
    OBVIOUS
  <2>2. c \in Int /\ u \in Int
    BY <1>2, <2>1
  <2>3. (c > b \/ (c = b /\ u < t)) /\ (b > a \/ (b = a /\ t < s))
    BY <1>3, <1>7, <2>1 DEF Precedes
  <2>4. c > a \/ (c = a /\ u < s)
    BY <1>4, <2>2, <2>3
  <2> QED
    BY <1>3, <2>1, <2>4 DEF Precedes
<1>8. Precedes(x, tie, j, i) => x[j] >= x[i]
  BY <1>3, <1>4 DEF Precedes
<1> QED
  BY <1>5, <1>6, <1>7, <1>8

LEMMA AheadIs ==
  ASSUME NEW x, NEW tie, NEW S, NEW i, NEW j
  PROVE  j \in Ahead(x, tie, S, i) <=> j \in S /\ Precedes(x, tie, j, i)
BY DEF Ahead, Precedes

\* Ranks tell the order.
LEMMA RankIs ==
  ASSUME NEW x \in Valued, NEW tie \in Injection(Vocab, Vocab), NEW S, S \subseteq Vocab,
         NEW i \in S
  PROVE  /\ Rank(x, tie, S, i) \in Nat /\ Rank(x, tie, S, i) < VocabSize
         /\ i \notin Ahead(x, tie, S, i) /\ Ahead(x, tie, S, i) \subseteq S
         /\ IsFiniteSet(Ahead(x, tie, S, i))
<1>1. PICK A : A = Ahead(x, tie, S, i)
  OBVIOUS
<1>2. A \subseteq S
  BY <1>1 DEF Ahead
<1>3. i \notin A
  BY <1>1, AheadIs, PrecedesOrders
<1>4. A \subseteq Vocab \ {i}
  BY <1>2, <1>3
<1>5. IsFiniteSet(Vocab \ {i}) /\ Cardinality(Vocab \ {i}) = VocabSize - 1
  BY VocabIs, FS_RemoveElement
<1>6. IsFiniteSet(A) /\ Cardinality(A) <= VocabSize - 1 /\ Cardinality(A) \in Nat
  BY <1>4, <1>5, FS_Subset, FS_CardinalityType
<1>7. Rank(x, tie, S, i) \in Nat /\ Rank(x, tie, S, i) < VocabSize
  BY <1>1, <1>6, VocabIs DEF Rank
<1> QED
  BY <1>1, <1>2, <1>3, <1>6, <1>7

LEMMA RankOrders ==
  ASSUME NEW x \in Valued, NEW tie \in Injection(Vocab, Vocab), NEW S, S \subseteq Vocab,
         NEW i \in S, NEW j \in S
  PROVE  /\ Precedes(x, tie, j, i) => /\ Ahead(x, tie, S, j) \subseteq Ahead(x, tie, S, i)
                                      /\ Rank(x, tie, S, j) < Rank(x, tie, S, i)
         /\ Rank(x, tie, S, j) < Rank(x, tie, S, i) => Precedes(x, tie, j, i)
         /\ Rank(x, tie, S, j) = Rank(x, tie, S, i) => i = j
<1>1. i \in Vocab /\ j \in Vocab
  OBVIOUS
<1>2. ASSUME NEW a \in S, NEW b \in S, Precedes(x, tie, b, a)
      PROVE  /\ Ahead(x, tie, S, b) \subseteq Ahead(x, tie, S, a)
             /\ Rank(x, tie, S, b) < Rank(x, tie, S, a)
  <2>1. PICK A, B : A = Ahead(x, tie, S, a) /\ B = Ahead(x, tie, S, b)
    OBVIOUS
  <2>2. ASSUME NEW c \in B PROVE c \in A
    <3>1. c \in S /\ Precedes(x, tie, c, b)
      BY <2>1, AheadIs
    <3>2. Precedes(x, tie, c, a)
      BY <1>2, <3>1, PrecedesOrders
    <3> QED
      BY <2>1, <3>1, <3>2, AheadIs
  <2>3. b \in A /\ b \notin B
    BY <1>2, <2>1, AheadIs, RankIs
  <2>4. IsFiniteSet(A) /\ B \subseteq A \ {b}
    BY <2>1, <2>2, <2>3, RankIs
  <2>5. IsFiniteSet(A \ {b}) /\ Cardinality(A \ {b}) = Cardinality(A) - 1
    BY <2>3, <2>4, FS_RemoveElement
  <2>6. Cardinality(B) <= Cardinality(A) - 1
    BY <2>4, <2>5, FS_Subset
  <2>7. Cardinality(A) \in Nat /\ Cardinality(B) \in Nat
    <3>1. Rank(x, tie, S, a) \in Nat /\ Rank(x, tie, S, b) \in Nat
      BY RankIs
    <3> QED
      BY <2>1, <3>1 DEF Rank
  <2> QED
    BY <2>1, <2>2, <2>6, <2>7 DEF Rank
<1>3. PICK r, q : r = Rank(x, tie, S, i) /\ q = Rank(x, tie, S, j)
  OBVIOUS
<1>4. r \in Nat /\ q \in Nat
  BY <1>3, RankIs
<1>5. Precedes(x, tie, j, i) => q < r
  BY <1>2, <1>3
<1>6. Precedes(x, tie, i, j) => r < q
  BY <1>2, <1>3
<1>7. i # j => Precedes(x, tie, i, j) \/ Precedes(x, tie, j, i)
  BY <1>1, PrecedesOrders
<1>8. q < r => i # j
  BY <1>3, <1>4
<1>9. q < r => Precedes(x, tie, j, i)
  BY <1>4, <1>6, <1>7, <1>8
<1>10. q = r => i = j
  BY <1>4, <1>5, <1>6, <1>7
<1>11. Precedes(x, tie, j, i) => Ahead(x, tie, S, j) \subseteq Ahead(x, tie, S, i)
  BY <1>2
<1> QED
  BY <1>3, <1>5, <1>9, <1>10, <1>11

\* A set of tokens of S has a first and a last.
LEMMA FirstOf ==
  ASSUME NEW x \in Valued, NEW tie \in Injection(Vocab, Vocab), NEW S, S \subseteq Vocab,
         NEW K, K \subseteq S, K # {}
  PROVE  \E i \in K : \A j \in K : ~Precedes(x, tie, j, i)
<1> DEFINE T == {Rank(x, tie, S, i) : i \in K}
<1>1. T \subseteq Nat /\ T # {}
  <2>1. ASSUME NEW i \in K PROVE Rank(x, tie, S, i) \in Nat
    BY RankIs
  <2> QED
    BY <2>1
<1>2. PICK t \in T : \A y \in T : t <= y
  <2> HIDE DEF T
  <2> QED
    BY <1>1, LeastNat
<1>3. PICK i \in K : t = Rank(x, tie, S, i)
  OBVIOUS
<1>4. ASSUME NEW j \in K, Precedes(x, tie, j, i) PROVE FALSE
  <2>1. Rank(x, tie, S, j) < t
    BY <1>3, <1>4, RankOrders
  <2>2. t <= Rank(x, tie, S, j)
    BY <1>2
  <2>3. t \in Nat /\ Rank(x, tie, S, j) \in Nat
    <3>1. i \in S /\ j \in S
      OBVIOUS
    <3> QED
      BY <1>3, <3>1, RankIs
  <2> QED
    BY <2>1, <2>2, <2>3
<1> QED
  BY <1>4

LEMMA LastOf ==
  ASSUME NEW x \in Valued, NEW tie \in Injection(Vocab, Vocab), NEW S, S \subseteq Vocab,
         NEW K, K \subseteq S, K # {}
  PROVE  \E i \in K : \A j \in K : ~Precedes(x, tie, i, j)
<1> DEFINE T == {Rank(x, tie, S, i) : i \in K}
<1>1. T \subseteq 0..VocabSize /\ T # {}
  <2>1. ASSUME NEW i \in K PROVE Rank(x, tie, S, i) \in 0..VocabSize
    <3>1. Rank(x, tie, S, i) \in Nat /\ Rank(x, tie, S, i) < VocabSize
      BY RankIs
    <3> QED
      BY <3>1, VocabIs
  <2> QED
    BY <2>1
<1>2. PICK t \in T : \A y \in T : y <= t
  <2> HIDE DEF T
  <2> QED
    BY <1>1, GreatestOf, VocabIs
<1>3. PICK i \in K : t = Rank(x, tie, S, i)
  OBVIOUS
<1>4. ASSUME NEW j \in K, Precedes(x, tie, i, j) PROVE FALSE
  <2>1. t < Rank(x, tie, S, j)
    BY <1>3, <1>4, RankOrders
  <2>2. Rank(x, tie, S, j) <= t
    BY <1>2
  <2>3. t \in Nat /\ Rank(x, tie, S, j) \in Nat
    <3>1. i \in S /\ j \in S
      OBVIOUS
    <3> QED
      BY <1>3, <3>1, RankIs
  <2> QED
    BY <2>1, <2>2, <2>3
<1> QED
  BY <1>4

LEMMA InjectionFills ==
  ASSUME NEW S, NEW T, NEW f \in Injection(S, T), IsFiniteSet(T), Cardinality(S) = Cardinality(T)
  PROVE  f \in Surjection(S, T)
BY FS_Injection

\* Every rank is taken, so that as many tokens as are asked for are kept.
LEMMA RanksFill ==
  ASSUME NEW x \in Valued, NEW tie \in Injection(Vocab, Vocab), NEW r \in 0..VocabSize - 1
  PROVE  \E i \in Vocab : Rank(x, tie, Vocab, i) = r
<1>1. PICK f : f = [i \in Vocab |-> Rank(x, tie, Vocab, i)]
  OBVIOUS
<1>2. PICK R : R = 0..VocabSize - 1
  OBVIOUS
<1>3. IsFiniteSet(R) /\ Cardinality(R) = VocabSize
  BY <1>2, FS_Interval, VocabIs
<1>4. f \in [Vocab -> R]
  <2>1. ASSUME NEW i \in Vocab PROVE Rank(x, tie, Vocab, i) \in R
    <3>1. Rank(x, tie, Vocab, i) \in Nat /\ Rank(x, tie, Vocab, i) < VocabSize
      BY RankIs
    <3> QED
      BY <1>2, <3>1, VocabIs
  <2> QED
    BY <1>1, <2>1
<1>5. \A i, j \in Vocab : f[i] = f[j] => i = j
  <2>1. ASSUME NEW i \in Vocab, NEW j \in Vocab, f[i] = f[j] PROVE i = j
    <3>1. Rank(x, tie, Vocab, i) = Rank(x, tie, Vocab, j)
      BY <1>1, <2>1
    <3> QED
      BY <3>1, RankOrders
  <2> QED
    BY <2>1
<1>6. f \in Injection(Vocab, R)
  BY <1>4, <1>5, Fun_IsInj
<1>7. f \in Surjection(Vocab, R)
  <2>1. Cardinality(Vocab) = Cardinality(R)
    BY <1>3, VocabIs
  <2> QED
    BY <1>3, <1>6, <2>1, InjectionFills, Zenon
<1>8. PICK i \in Vocab : f[i] = r
  <2>1. \A t \in R : \E s \in Vocab : f[s] = t
    BY <1>7, Fun_SurjectionProperties, Zenon
  <2> QED
    BY <1>2, <2>1
<1> QED
  BY <1>1, <1>8

LEMMA TopCounted ==
  ASSUME NEW x \in Valued, NEW tie \in Injection(Vocab, Vocab), NEW k \in 1..VocabSize
  PROVE  Cardinality({i \in Vocab : Rank(x, tie, Vocab, i) < k}) = k
<1>1. PICK S : S = {i \in Vocab : Rank(x, tie, Vocab, i) < k}
  OBVIOUS
<1>2. PICK R : R = 0..k - 1
  OBVIOUS
<1>3. PICK f : f = [i \in S |-> Rank(x, tie, Vocab, i)]
  OBVIOUS
<1>4. S \subseteq Vocab /\ IsFiniteSet(S)
  <2>1. S \subseteq Vocab
    BY <1>1
  <2> QED
    BY <2>1, VocabIs, FS_Subset
<1>5. k \in Nat \ {0} /\ k <= VocabSize
  BY VocabIs
<1>6. IsFiniteSet(R) /\ Cardinality(R) = k
  BY <1>2, <1>5, FS_Interval
<1>7. f \in [S -> R]
  <2>1. ASSUME NEW i \in S PROVE Rank(x, tie, Vocab, i) \in R
    <3>1. PICK q : q = Rank(x, tie, Vocab, i)
      OBVIOUS
    <3>2. q \in Nat /\ q < k
      BY <1>1, <1>4, <3>1, RankIs, VocabIs
    <3> QED
      BY <1>2, <1>5, <3>1, <3>2
  <2> QED
    BY <1>3, <2>1
<1>8. \A i, j \in S : f[i] = f[j] => i = j
  <2>1. ASSUME NEW i \in S, NEW j \in S, f[i] = f[j] PROVE i = j
    <3>1. Rank(x, tie, Vocab, i) = Rank(x, tie, Vocab, j) /\ i \in Vocab /\ j \in Vocab
      BY <1>3, <1>4, <2>1
    <3> QED
      BY <3>1, RankOrders
  <2> QED
    BY <2>1
<1>9. \A r \in R : \E i \in S : f[i] = r
  <2>1. ASSUME NEW r \in R PROVE \E i \in S : f[i] = r
    <3>1. r \in 0..VocabSize - 1 /\ r < k
      BY <1>2, <1>5, VocabIs
    <3>2. PICK i \in Vocab : Rank(x, tie, Vocab, i) = r
      BY <3>1, RanksFill
    <3>3. i \in S
      BY <1>1, <3>1, <3>2
    <3> QED
      BY <1>3, <3>2, <3>3
  <2> QED
    BY <2>1
<1>10. f \in Bijection(S, R)
  BY <1>7, <1>8, <1>9, Fun_IsInj, Fun_IsSurj DEF Bijection
<1>11. ExistsBijection(S, R)
  BY <1>10 DEF ExistsBijection
<1>12. Cardinality(R) = Cardinality(S)
  BY <1>4, <1>11, FS_Bijection
<1> QED
  BY <1>1, <1>6, <1>12

-----------------------------------------------------------------------------
(* top_k: by the k-th largest value, and by k indices.                     *)

Above(x, v) == {i \in Vocab : x[i] > v}
AtLeast(x, v) == {i \in Vocab : x[i] >= v}

LEMMA PartOfVocab ==
  ASSUME NEW S, S \subseteq Vocab
  PROVE  IsFiniteSet(S) /\ Cardinality(S) \in Nat /\ Cardinality(S) <= VocabSize
<1>1. S \in SUBSET Vocab
  OBVIOUS
<1>2. IsFiniteSet(S) /\ Cardinality(S) <= Cardinality(Vocab)
  BY <1>1, VocabIs, FS_Subset
<1> QED
  BY <1>2, VocabIs, FS_CardinalityType

LEMMA FewerOf ==
  ASSUME NEW S, S \subseteq Vocab, NEW T, T \subseteq S
  PROVE  Cardinality(T) <= Cardinality(S) /\ (Cardinality(T) = Cardinality(S) => T = S)
<1>1. IsFiniteSet(S) /\ T \in SUBSET S
  BY PartOfVocab
<1> QED
  BY <1>1, FS_Subset

\* There is a k-th largest value: that of the token of rank k - 1.
LEMMA KthIs ==
  ASSUME NEW x \in Valued, NEW k \in 1..VocabSize
  PROVE  /\ Kth(x, k) \in Int
         /\ Cardinality(Above(x, Kth(x, k))) < k
         /\ Cardinality(AtLeast(x, Kth(x, k))) >= k
<1> DEFINE Is(v) == Cardinality(Above(x, v)) < k /\ Cardinality(AtLeast(x, v)) >= k
<1>1. PICK tie : tie = [i \in Vocab |-> i]
  OBVIOUS
<1>2. tie \in Injection(Vocab, Vocab)
  <2>1. tie \in [Vocab -> Vocab] /\ \A a, b \in Vocab : tie[a] = tie[b] => a = b
    BY <1>1
  <2> QED
    BY <2>1, Fun_IsInj
<1>3. k \in Nat \ {0} /\ k - 1 \in 0..VocabSize - 1
  BY VocabIs
<1>4. PICK i \in Vocab : Rank(x, tie, Vocab, i) = k - 1
  BY <1>2, <1>3, RanksFill
<1>5. PICK A : A = Ahead(x, tie, Vocab, i)
  OBVIOUS
<1>6. Cardinality(A) = k - 1 /\ IsFiniteSet(A) /\ i \notin A /\ A \subseteq Vocab
  BY <1>2, <1>4, <1>5, RankIs DEF Rank
<1>7. x[i] \in Int /\ \A j \in Vocab : x[j] \in Int
  BY DEF Valued
<1>8. Above(x, x[i]) \subseteq A
  BY <1>5 DEF Above, Ahead
<1>9. A \cup {i} \subseteq AtLeast(x, x[i])
  <2>1. ASSUME NEW j \in A PROVE j \in AtLeast(x, x[i])
    <3>1. j \in Vocab /\ (x[j] > x[i] \/ x[j] = x[i])
      BY <1>5, <2>1 DEF Ahead
    <3> QED
      BY <1>7, <3>1 DEF AtLeast
  <2>2. i \in AtLeast(x, x[i])
    BY <1>7 DEF AtLeast
  <2> QED
    BY <2>1, <2>2
<1>10. Cardinality(A \cup {i}) = k
  <2>1. Cardinality(A \cup {i}) = Cardinality(A) + 1
    BY <1>6, FS_AddElement
  <2> QED
    BY <1>3, <1>6, <2>1
<1>11. Is(x[i])
  <2>1. Cardinality(Above(x, x[i])) <= Cardinality(A)
    BY <1>6, <1>8, FewerOf
  <2>2. Cardinality(Above(x, x[i])) \in Nat /\ Cardinality(AtLeast(x, x[i])) \in Nat
    BY PartOfVocab DEF Above, AtLeast
  <2>3. Cardinality(A \cup {i}) <= Cardinality(AtLeast(x, x[i]))
    <3>1. AtLeast(x, x[i]) \subseteq Vocab
      BY DEF AtLeast
    <3> QED
      BY <1>9, <3>1, FewerOf
  <2> QED
    BY <1>3, <1>6, <1>10, <2>1, <2>2, <2>3
<1>12. PICK V : V = {x[j] : j \in Vocab}
  OBVIOUS
<1>13. x[i] \in V /\ V \subseteq Int
  BY <1>7, <1>12
<1>14. Kth(x, k) = CHOOSE v \in V : Is(v)
  BY <1>12, Zenon DEF Kth, Above, AtLeast
<1>15. Kth(x, k) \in V /\ Is(Kth(x, k))
  <2> HIDE DEF Is
  <2> QED
    BY <1>11, <1>13, <1>14
<1> QED
  BY <1>13, <1>15

\* Between a few and many there are as many as are asked for.
LEMMA Between ==
  ASSUME NEW E, E \subseteq Vocab, NEW A, A \subseteq E, NEW k \in Nat,
         Cardinality(A) <= k, k <= Cardinality(E)
  PROVE  \E S : A \subseteq S /\ S \subseteq E /\ Cardinality(S) = k
<1> DEFINE Fit == {S \in SUBSET E : A \subseteq S /\ Cardinality(S) <= k}
           T == {k - Cardinality(S) : S \in Fit}
<1>1. \A S \in Fit : Cardinality(S) \in Nat
  BY PartOfVocab
<1>2. T \subseteq Nat /\ T # {}
  <2>1. A \in Fit
    OBVIOUS
  <2> HIDE DEF Fit
  <2>2. \A S \in Fit : Cardinality(S) <= k
    BY DEF Fit
  <2> QED
    BY <1>1, <2>1, <2>2
<1>3. PICK t \in T : \A y \in T : t <= y
  <2> HIDE DEF T
  <2> QED
    BY <1>2, LeastNat
<1>4. PICK S \in Fit : t = k - Cardinality(S)
  OBVIOUS
<1>5. PICK n : n = Cardinality(S)
  OBVIOUS
<1>6. n \in Nat /\ n <= k /\ A \subseteq S /\ S \subseteq E /\ IsFiniteSet(S)
  BY <1>1, <1>5, PartOfVocab
<1>7. ASSUME n < k PROVE FALSE
  <2>1. S # E
    BY <1>5, <1>6, <1>7, PartOfVocab
  <2>2. PICK e \in E : e \notin S
    BY <1>6, <2>1
  <2>3. Cardinality(S \cup {e}) = n + 1
    BY <1>5, <1>6, <2>2, FS_AddElement
  <2>4. S \cup {e} \in Fit
    BY <1>6, <1>7, <2>2, <2>3
  <2>5. k - (n + 1) \in T
    BY <2>3, <2>4
  <2>6. t <= k - (n + 1)
    <3> HIDE DEF T
    <3> QED
      BY <1>3, <2>5
  <2> QED
    BY <1>4, <1>5, <1>6, <2>6
<1>8. Cardinality(S) = k
  BY <1>5, <1>6, <1>7
<1> QED
  BY <1>6, <1>8

LEMMA HostKeptIs ==
  ASSUME NEW x \in Valued, NEW k \in Nat
  PROVE  /\ k \in 1..VocabSize /\ k < VocabSize
              => HostKept(x, k) = {i \in Finite(x) : x[i] >= Kth(x, k)}
         /\ k = 0 \/ k >= VocabSize => HostKept(x, k) = Finite(x)
<1>1. ASSUME k \in 1..VocabSize, k < VocabSize
      PROVE  HostKept(x, k) = {i \in Finite(x) : x[i] >= Kth(x, k)}
  <2>1. PICK v, y : v = Kth(x, k) /\ y = [i \in Vocab |-> IF x[i] < v THEN NegInf ELSE x[i]]
    OBVIOUS
  <2>2. v \in Int /\ k > 0
    BY <1>1, <2>1, KthIs, VocabIs
  <2>3. HostKept(x, k) = Finite(y)
    BY <1>1, <2>1, <2>2 DEF HostKept
  <2>4. ASSUME NEW i \in Vocab
        PROVE  y[i] > NegInf <=> x[i] > NegInf /\ x[i] >= v
    <3>1. x[i] \in Int /\ y[i] = IF x[i] < v THEN NegInf ELSE x[i]
      BY <2>1 DEF Valued
    <3> QED
      BY <2>2, <3>1 DEF NegInf
  <2> QED
    BY <2>1, <2>3, <2>4 DEF Finite
<1>2. ASSUME k = 0 \/ k >= VocabSize PROVE HostKept(x, k) = Finite(x)
  BY <1>2, VocabIs DEF HostKept
<1> QED
  BY <1>1, <1>2

\* What is kept on the host is what may be kept in the graph.
LEMMA KeptAlike ==
  ASSUME NEW x \in Valued, NEW k \in 1..VocabSize
  PROVE  GraphKept(x, k) = HostKept(x, k)
<1>1. PICK v : v = Kth(x, k)
  OBVIOUS
<1>2. v \in Int /\ Cardinality(Above(x, v)) < k /\ Cardinality(AtLeast(x, v)) >= k
  BY <1>1, KthIs
<1>3. \A i \in Vocab : x[i] \in Int
  BY DEF Valued
<1>4. k \in Nat \ {0} /\ k <= VocabSize
  BY VocabIs
<1>5. Above(x, v) \subseteq Vocab /\ AtLeast(x, v) \subseteq Vocab
  BY DEF Above, AtLeast
<1>6. ASSUME NEW i \in GraphKept(x, k) PROVE i \in Finite(x) /\ x[i] >= v
  <2>1. PICK S \in TopSets(x, k) : i \in S /\ i \in Finite(x)
    BY DEF GraphKept
  <2>2. /\ S \subseteq Vocab /\ Cardinality(S) = k
        /\ \A a \in S, b \in Vocab \ S : x[a] >= x[b]
    BY <2>1 DEF TopSets
  <2>3. ASSUME x[i] < v PROVE FALSE
    <3>1. PICK b \in AtLeast(x, v) : b \notin S
      <4>1. ASSUME AtLeast(x, v) \subseteq S PROVE FALSE
        <5>1. Cardinality(AtLeast(x, v)) <= Cardinality(S)
          BY <2>2, <4>1, FewerOf
        <5>2. Cardinality(AtLeast(x, v)) \in Nat
          BY <1>5, PartOfVocab
        <5>3. Cardinality(AtLeast(x, v)) = Cardinality(S)
          BY <1>2, <1>4, <2>2, <5>1, <5>2
        <5>4. AtLeast(x, v) = S
          BY <2>2, <4>1, <5>3, FewerOf
        <5>5. x[i] >= v
          BY <2>1, <5>4 DEF AtLeast
        <5> QED
          BY <1>2, <1>3, <2>1, <2>2, <2>3, <5>5
      <4> QED
        BY <4>1
    <3>2. b \in Vocab /\ x[b] >= v /\ x[i] >= x[b]
      BY <2>1, <2>2, <3>1 DEF AtLeast
    <3>3. x[i] \in Int /\ x[b] \in Int
      BY <1>3, <2>1, <2>2, <3>2
    <3> QED
      BY <1>2, <2>3, <3>2, <3>3
  <2>4. x[i] \in Int
    BY <1>3, <2>1, <2>2
  <2> QED
    BY <1>2, <2>1, <2>3, <2>4
<1>7. ASSUME NEW i \in Finite(x), x[i] >= v PROVE i \in GraphKept(x, k)
  <2>1. i \in AtLeast(x, v) /\ i \in Vocab
    BY <1>7 DEF Finite, AtLeast
  <2>2. PICK G, E, A : G = Above(x, v) /\ E = AtLeast(x, v) /\ A = G \cup {i}
    OBVIOUS
  <2>3. G \subseteq E /\ A \subseteq E /\ E \subseteq Vocab
    <3>1. G \subseteq E
      BY <1>2, <1>3, <2>2 DEF Above, AtLeast
    <3> QED
      BY <1>5, <2>1, <2>2, <3>1
  <2>4. Cardinality(A) <= k
    <3>1. IsFiniteSet(G) /\ Cardinality(G) \in Nat
      BY <1>5, <2>2, PartOfVocab
    <3>2. Cardinality(A) = IF i \in G THEN Cardinality(G) ELSE Cardinality(G) + 1
      BY <2>2, <3>1, FS_AddElement
    <3> QED
      BY <1>2, <1>4, <2>2, <3>1, <3>2
  <2>5. k <= Cardinality(E)
    BY <1>2, <1>4, <1>5, <2>2, PartOfVocab
  <2>6. PICK S : A \subseteq S /\ S \subseteq E /\ Cardinality(S) = k
    BY <1>4, <2>3, <2>4, <2>5, Between
  <2>7. ASSUME NEW a \in S, NEW b \in Vocab \ S PROVE x[a] >= x[b]
    <3>1. x[a] >= v /\ a \in Vocab
      BY <1>5, <2>2, <2>6 DEF AtLeast
    <3>2. ~(x[b] > v)
      BY <2>2, <2>6 DEF Above
    <3>3. x[a] \in Int /\ x[b] \in Int
      BY <1>3, <3>1
    <3> QED
      BY <1>2, <3>1, <3>2, <3>3
  <2>8. S \in TopSets(x, k)
    BY <2>3, <2>6, <2>7 DEF TopSets
  <2>9. i \in S
    BY <2>2, <2>6
  <2> QED
    BY <1>7, <2>8, <2>9 DEF GraphKept
<1>8. CASE k < VocabSize
  <2>1. HostKept(x, k) = {i \in Finite(x) : x[i] >= v}
    BY <1>1, <1>4, <1>8, HostKeptIs
  <2> QED
    BY <1>6, <1>7, <2>1
<1>9. CASE k = VocabSize
  <2>1. HostKept(x, k) = Finite(x)
    BY <1>4, <1>9, VocabIs, HostKeptIs
  <2>2. Vocab \in TopSets(x, k)
    BY <1>9, VocabIs DEF TopSets
  <2>3. Finite(x) \subseteq GraphKept(x, k)
    BY <2>2 DEF GraphKept, Finite
  <2> QED
    BY <1>6, <2>1, <2>3
<1> QED
  BY <1>4, <1>8, <1>9, VocabIs

-----------------------------------------------------------------------------
(* The nucleus.                                                            *)

LEMMA WeighedValued == ASSUME NEW x \in Weighed PROVE x \in Valued
<1>1. Logits \subseteq Int
  BY LogitsAre
<1>2. x \in [Vocab -> Logits]
  BY DEF Weighed
<1>3. x \in [Vocab -> Int]
  BY <1>1, <1>2
<1> QED
  BY <1>3 DEF Valued

LEMMA AllFinite == ASSUME NEW x \in Weighed PROVE Finite(x) = Vocab
<1>1. ASSUME NEW i \in Vocab PROVE x[i] > NegInf
  <2>1. x[i] \in Logits
    BY DEF Weighed
  <2> QED
    BY <2>1, LogitsAre
<1> QED
  BY <1>1 DEF Finite

\* Nothing in S is less probable than what is left out of it.
Probable(x, S) == \A i \in S, j \in Vocab \ S : x[i] >= x[j]

\* S is taken until it passes limit, and no longer.
Passing(x, S, limit) == \E i \in S : 4 * WeightOf(x, S \ {i}) <= limit

LEMMA NucleusIs ==
  ASSUME NEW x \in Weighed, NEW tie \in Injection(Vocab, Vocab), NEW S, S \subseteq Vocab,
         S # {}, NEW base, NEW p, p * base \in Nat, Probable(x, S)
  PROVE  LET K == NucleusOf(x, tie, S, base, p) IN
         /\ K # {} /\ K \subseteq S /\ Probable(x, K) /\ Passing(x, K, p * base)
         /\ K # S => 4 * WeightOf(x, K) > p * base
<1>1. PICK K, limit : K = NucleusOf(x, tie, S, base, p) /\ limit = p * base
  OBVIOUS
<1>2. limit \in Nat /\ x \in Valued
  BY <1>1, WeighedValued
<1>3. K \subseteq S /\ \A i \in S : i \in K <=> 4 * WeightOf(x, Ahead(x, tie, S, i)) <= limit
  BY <1>1 DEF NucleusOf, Nucleus
<1>4. \A A : WeightOf(x, A) \in Nat
  BY WeightIs
<1>5. ASSUME NEW i \in K, NEW j \in S, Precedes(x, tie, j, i) PROVE j \in K
  <2>1. PICK a, b : a = Ahead(x, tie, S, i) /\ b = Ahead(x, tie, S, j)
    OBVIOUS
  <2>2. b \subseteq a
    BY <1>2, <1>3, <1>5, <2>1, RankOrders
  <2>3. WeightOf(x, b) <= WeightOf(x, a)
    BY <2>2, MoreWeighMore
  <2>4. 4 * WeightOf(x, a) <= limit
    BY <1>3, <2>1
  <2>5. WeightOf(x, a) \in Nat /\ WeightOf(x, b) \in Nat
    BY <1>4
  <2>6. 4 * WeightOf(x, b) <= limit
    BY <1>2, <2>3, <2>4, <2>5
  <2> QED
    BY <1>3, <2>1, <2>6
<1>6. K # {}
  <2>1. PICK i \in S : \A j \in S : ~Precedes(x, tie, j, i)
    BY <1>2, FirstOf
  <2>2. PICK A : A = Ahead(x, tie, S, i)
    OBVIOUS
  <2>3. A = {}
    BY <2>1, <2>2, AheadIs
  <2>4. WeightOf(x, A) = 0
    BY <2>3, NoneWeighs
  <2>5. 4 * WeightOf(x, A) <= limit
    BY <1>2, <2>4
  <2> QED
    BY <1>3, <2>2, <2>5
<1>7. Probable(x, K)
  <2> SUFFICES ASSUME NEW i \in K, NEW j \in Vocab \ K PROVE x[i] >= x[j]
    BY DEF Probable
  <2>1. i \in Vocab /\ i # j
    BY <1>3
  <2>2. CASE j \in S
    <3>1. ~Precedes(x, tie, j, i)
      BY <1>5, <2>2
    <3>2. Precedes(x, tie, i, j)
      BY <1>2, <2>1, <3>1, PrecedesOrders
    <3> QED
      BY <1>2, <2>1, <3>2, PrecedesOrders
  <2>3. CASE j \notin S
    BY <1>3, <2>3 DEF Probable
  <2> QED
    BY <2>2, <2>3
<1>8. Passing(x, K, limit)
  <2>1. PICK i \in K : \A j \in K : ~Precedes(x, tie, i, j)
    BY <1>2, <1>3, <1>6, LastOf
  <2>2. PICK A : A = Ahead(x, tie, S, i)
    OBVIOUS
  <2>3. ASSUME NEW j \in K \ {i} PROVE j \in A
    <3>1. ~Precedes(x, tie, i, j) /\ i \in Vocab /\ j \in Vocab /\ j \in S /\ i # j
      BY <1>3, <2>1
    <3>2. Precedes(x, tie, j, i)
      BY <1>2, <3>1, PrecedesOrders
    <3> QED
      BY <2>2, <3>1, <3>2, AheadIs
  <2>4. WeightOf(x, K \ {i}) <= WeightOf(x, A)
    BY <2>3, MoreWeighMore
  <2>5. 4 * WeightOf(x, A) <= limit
    BY <1>3, <2>2
  <2>6. WeightOf(x, A) \in Nat /\ WeightOf(x, K \ {i}) \in Nat
    BY <1>4
  <2>7. 4 * WeightOf(x, K \ {i}) <= limit
    BY <1>2, <2>4, <2>5, <2>6
  <2> QED
    BY <2>7 DEF Passing
<1>9. ASSUME K # S PROVE 4 * WeightOf(x, K) > limit
  <2>1. S \ K \subseteq S /\ S \ K # {}
    BY <1>3, <1>9
  <2>2. PICK i \in S \ K : \A j \in S \ K : ~Precedes(x, tie, j, i)
    BY <1>2, <2>1, FirstOf
  <2>3. PICK A : A = Ahead(x, tie, S, i)
    OBVIOUS
  <2>4. A \subseteq K
    BY <2>2, <2>3, AheadIs
  <2>5. WeightOf(x, A) <= WeightOf(x, K)
    BY <2>4, MoreWeighMore
  <2>6. ~(4 * WeightOf(x, A) <= limit)
    BY <1>3, <2>2, <2>3
  <2>7. WeightOf(x, A) \in Nat /\ WeightOf(x, K) \in Nat
    BY <1>4
  <2> QED
    BY <1>2, <2>5, <2>6, <2>7
<1> QED
  BY <1>1, <1>3, <1>6, <1>7, <1>8, <1>9

\* The quarters of a weight are less than the whole.
LEMMA Quarters ==
  ASSUME NEW w \in Nat \ {0}, NEW p \in 0..4
  PROVE  p * w \in Nat /\ (p < 4 => 4 * w > p * w)
<1>1. p = 0 \/ p = 1 \/ p = 2 \/ p = 3 \/ p = 4
  OBVIOUS
<1> QED
  BY <1>1

\* What a sampler draws from: K is of the tokens of base, passes p quarters of
\* their weight and, where it is exact, no sooner than with its last token.
Drawable(x, K, base, p, exact) ==
  /\ K # {} /\ K \subseteq base /\ Probable(x, K)
  /\ p \in 1..3 => /\ 4 * WeightOf(x, K) > p * WeightOf(x, base)
                   /\ exact => Passing(x, K, p * WeightOf(x, base))

LEMMA HostKeptProbable ==
  ASSUME NEW x \in Weighed, NEW k \in Nat
  PROVE  LET S == HostKept(x, k) IN S # {} /\ S \subseteq Vocab /\ Probable(x, S)
<1>1. x \in Valued /\ Finite(x) = Vocab
  BY WeighedValued, AllFinite
<1>2. CASE k = 0 \/ k >= VocabSize
  <2>1. HostKept(x, k) = Vocab
    BY <1>1, <1>2, HostKeptIs
  <2> QED
    BY <2>1, VocabIs DEF Probable
<1>3. CASE ~(k = 0 \/ k >= VocabSize)
  <2>1. k \in 1..VocabSize /\ k < VocabSize
    BY <1>3, VocabIs
  <2>2. PICK v : v = Kth(x, k)
    OBVIOUS
  <2>3. v \in Int /\ Cardinality(AtLeast(x, v)) >= k
    BY <1>1, <2>1, <2>2, KthIs
  <2>4. HostKept(x, k) = AtLeast(x, v)
    BY <1>1, <2>1, <2>2, HostKeptIs DEF AtLeast
  <2>5. AtLeast(x, v) # {}
    <3>1. SUFFICES ASSUME AtLeast(x, v) = {} PROVE FALSE
      OBVIOUS
    <3>2. Cardinality(AtLeast(x, v)) = 0
      BY <3>1, FS_EmptySet, Zenon
    <3> QED
      BY <1>3, <2>3, <3>2
  <2>6. Probable(x, AtLeast(x, v))
    <3> SUFFICES ASSUME NEW i \in AtLeast(x, v), NEW j \in Vocab \ AtLeast(x, v)
                 PROVE  x[i] >= x[j]
      BY DEF Probable
    <3>1. x[i] >= v /\ i \in Vocab /\ ~(x[j] >= v)
      BY DEF AtLeast
    <3>2. x[i] \in Int /\ x[j] \in Int
      BY <1>1, <3>1 DEF Valued
    <3> QED
      BY <2>3, <3>1, <3>2
  <2> QED
    BY <2>4, <2>5, <2>6 DEF AtLeast
<1> QED
  BY <1>2, <1>3

LEMMA HiggsDraws ==
  ASSUME NEW x \in Weighed, NEW tie \in Injection(Vocab, Vocab), NEW k \in Nat, NEW p \in 0..4
  PROVE  Drawable(x, HiggsKept(x, tie, k, p), HostKept(x, k), p, TRUE)
<1>1. PICK S, K, w : S = HostKept(x, k) /\ K = HiggsKept(x, tie, k, p) /\ w = WeightOf(x, S)
  OBVIOUS
<1>2. S # {} /\ S \subseteq Vocab /\ Probable(x, S)
  BY <1>1, HostKeptProbable
<1>3. w \in Nat \ {0}
  <2>1. PICK i \in S : i \in Vocab
    BY <1>2
  <2>2. w >= 1 /\ w \in Nat
    BY <1>1, <2>1, SomeWeigh, WeightIs
  <2> QED
    BY <2>2
<1>4. p * w \in Nat /\ (p < 4 => 4 * w > p * w)
  BY <1>3, Quarters
<1>5. CASE p < 4
  <2>1. K = NucleusOf(x, tie, S, w, p)
    BY <1>1, <1>5 DEF HiggsKept
  <2>2. /\ K # {} /\ K \subseteq S /\ Probable(x, K) /\ Passing(x, K, p * w)
        /\ K # S => 4 * WeightOf(x, K) > p * w
    BY <1>2, <1>4, <2>1, NucleusIs
  <2>3. 4 * WeightOf(x, K) > p * w
    BY <1>1, <1>4, <1>5, <2>2
  <2> QED
    BY <1>1, <1>2, <2>2, <2>3 DEF Drawable
<1>6. CASE ~(p < 4)
  <2>1. K = S /\ p \notin 1..3
    BY <1>1, <1>6 DEF HiggsKept
  <2> QED
    BY <1>1, <1>2, <2>1 DEF Drawable
<1> QED
  BY <1>5, <1>6

LEMMA BreezeDraws ==
  ASSUME NEW x \in Weighed, NEW tie \in Injection(Vocab, Vocab), NEW k \in Nat, NEW p \in 0..4
  PROVE  Drawable(x, BreezeKept(x, tie, k, p), BreezeTop(x, tie, k), p, k = 0)
<1>1. x \in Valued /\ Finite(x) = Vocab
  BY WeighedValued, AllFinite
<1>2. PICK keep : keep = IF k > 0 /\ k < VocabSize THEN k ELSE VocabSize
  OBVIOUS
<1>3. keep \in 1..VocabSize /\ (k = 0 => keep = VocabSize)
  BY <1>2, VocabIs
<1>4. PICK S : S = {i \in Vocab : Rank(x, tie, Vocab, i) < keep}
  OBVIOUS
<1>5. Cardinality(S) = keep
  BY <1>1, <1>3, <1>4, TopCounted
<1>6. S \subseteq Vocab
  BY <1>4
<1>7. S # {}
  <2>1. SUFFICES ASSUME S = {} PROVE FALSE
    OBVIOUS
  <2>2. Cardinality(S) = 0
    BY <2>1, FS_EmptySet, Zenon
  <2> QED
    BY <1>3, <1>5, <2>2
<1>8. Probable(x, S)
  <2> SUFFICES ASSUME NEW i \in S, NEW j \in Vocab \ S PROVE x[i] >= x[j]
    BY DEF Probable
  <2>1. PICK r, q : r = Rank(x, tie, Vocab, i) /\ q = Rank(x, tie, Vocab, j)
    OBVIOUS
  <2>2. i \in Vocab /\ r < keep /\ ~(q < keep)
    BY <1>4, <2>1
  <2>3. r \in Nat /\ q \in Nat
    BY <1>1, <2>1, <2>2, RankIs
  <2>4. r < q
    BY <1>3, <2>2, <2>3, VocabIs
  <2>5. Precedes(x, tie, i, j)
    BY <1>1, <2>1, <2>2, <2>4, RankOrders
  <2> QED
    BY <1>1, <2>2, <2>5, PrecedesOrders
<1>9. PICK w, K : w = WeightOf(x, Vocab) /\ K = BreezeKept(x, tie, k, p)
  OBVIOUS
<1>16. S = BreezeTop(x, tie, k)
  BY <1>2, <1>4 DEF BreezeTop, Rank
<1>10. w \in Nat \ {0}
  <2>1. PICK i : i \in Vocab
    BY VocabIs
  <2>2. w >= 1 /\ w \in Nat
    BY <1>9, <2>1, SomeWeigh, WeightIs
  <2> QED
    BY <2>2
<1>11. p * w \in Nat /\ (p < 4 => 4 * w > p * w)
  BY <1>10, Quarters
<1>12. K = (IF p > 0 /\ p < 4 THEN NucleusOf(x, tie, S, w, p) ELSE S) \cap Vocab
  BY <1>1, <1>9, <1>16, Zenon DEF BreezeKept
<1>13. keep = VocabSize => S = Vocab
  <2>1. keep = VocabSize => Cardinality(S) = Cardinality(Vocab)
    BY <1>5, VocabIs
  <2> QED
    BY <1>6, <2>1, FewerOf
<1>14. CASE p \in 1..3
  <2>1. PICK N : N = NucleusOf(x, tie, S, w, p)
    OBVIOUS
  <2>2. /\ N # {} /\ N \subseteq S /\ Probable(x, N) /\ Passing(x, N, p * w)
        /\ N # S => 4 * WeightOf(x, N) > p * w
    BY <1>6, <1>7, <1>8, <1>11, <2>1, NucleusIs
  <2>3. K = N
    BY <1>6, <1>12, <1>14, <2>1, <2>2
  <2>4. PICK u, v : u = WeightOf(x, S) /\ v = WeightOf(x, K)
    OBVIOUS
  <2>5. u \in Nat \ {0} /\ v \in Nat
    <3>1. PICK i \in S : i \in Vocab
      BY <1>6, <1>7
    <3>2. u >= 1 /\ u \in Nat /\ v \in Nat
      BY <2>4, <3>1, SomeWeigh, WeightIs
    <3> QED
      BY <3>2
  <2>6. u <= w
    BY <1>6, <1>9, <2>4, MoreWeighMore
  <2>7. 4 * v > p * u
    <3>1. CASE K # S
      <4>1. 4 * v > p * w
        BY <2>2, <2>3, <2>4, <3>1
      <4>2. p = 1 \/ p = 2 \/ p = 3
        BY <1>14
      <4> QED
        BY <1>10, <2>5, <2>6, <4>1, <4>2
    <3>2. CASE K = S
      <4>1. 4 * u > p * u
        BY <1>14, <2>5, Quarters
      <4> QED
        BY <2>4, <3>2, <4>1
    <3> QED
      BY <3>1, <3>2
  <2>8. k = 0 => Passing(x, K, p * u)
    <3>1. k = 0 => u = w
      BY <1>3, <1>9, <1>13, <2>4
    <3> QED
      BY <2>2, <2>3, <3>1
  <2>9. K \subseteq S /\ K # {} /\ Probable(x, K)
    BY <2>2, <2>3
  <2> QED
    BY <1>9, <1>16, <2>4, <2>7, <2>8, <2>9 DEF Drawable
<1>15. CASE p \notin 1..3
  <2>1. K = S
    <3>1. ~(p > 0 /\ p < 4)
      BY <1>15
    <3> QED
      BY <1>6, <1>12, <3>1
  <2> QED
    BY <1>7, <1>8, <1>9, <1>15, <1>16, <2>1 DEF Drawable
<1> QED
  BY <1>14, <1>15

-----------------------------------------------------------------------------
(* The talker's two samplers.                                              *)

Reserved(i) == i >= VocabSize - ReservedIds /\ i # EosId

LEMMA RowsAlike ==
  ASSUME NEW x \in Weighed, NEW seen
  PROVE  /\ GraphRow(x, seen) = HostRow(x, seen)
         /\ HostRow(x, seen) \in Valued
         /\ \A i \in Vocab : Reserved(i) => HostRow(x, seen)[i] = NegInf
<1>1. PICK h, g : h = HostRow(x, seen) /\ g = GraphRow(x, seen)
  OBVIOUS
<1>2. ASSUME NEW i \in Vocab
      PROVE  h[i] = g[i] /\ h[i] \in Int /\ (Reserved(i) => h[i] = NegInf)
  <2>1. x[i] \in Logits
    BY DEF Weighed
  <2>2. x[i] \in Int /\ x[i] # NegInf
    BY <2>1, LogitsAre
  <2>3. CASE Reserved(i)
    <3>1. g[i] = NegInf
      BY <1>1, <2>3 DEF GraphRow, Suppress, Reserved
    <3>2. Suppress(x)[i] = NegInf
      BY <2>3 DEF Suppress, Reserved
    <3>3. Penalise(NegInf) = NegInf
      BY DEF Penalise, NegInf
    <3>4. h[i] = NegInf
      BY <1>1, <3>2, <3>3 DEF HostRow
    <3> QED
      BY <3>1, <3>4 DEF NegInf
  <2>4. CASE ~Reserved(i)
    <3>1. Suppress(x)[i] = x[i]
      BY <2>4 DEF Suppress, Reserved
    <3>2. h[i] = IF i \in seen THEN Penalise(x[i]) ELSE x[i]
      BY <1>1, <3>1 DEF HostRow
    <3>3. g[i] = IF i \in seen THEN Factored(x[i]) ELSE x[i]
      BY <1>1, <2>4 DEF GraphRow, Suppress, Reserved
    <3>4. Penalise(x[i]) = Factored(x[i]) /\ Penalise(x[i]) \in Int
      <4>1. PICK v : v = x[i]
        OBVIOUS
      <4>2. v \div 2 \in Int /\ 2 * v \in Int
        BY <2>2, <4>1
      <4> QED
        BY <2>2, <4>1, <4>2 DEF Penalise, Factored
    <3> QED
      BY <2>2, <2>4, <3>2, <3>3, <3>4
  <2> QED
    BY <2>3, <2>4
<1>3. h = [i \in Vocab |-> h[i]] /\ g = [i \in Vocab |-> g[i]]
  BY <1>1 DEF HostRow, GraphRow, Suppress
<1>4. h = g
  BY <1>2, <1>3
<1>5. h \in Valued
  BY <1>2, <1>3 DEF Valued
<1> QED
  BY <1>1, <1>2, <1>4, <1>5

Given(x, seen, k, p) ==
  job = [kind |-> "draw", at |-> "logits", by |-> "talker", row |-> x, seen |-> seen,
         k |-> k, p |-> p, host |-> {}, graph |-> {}, base |-> {}]

DrawIInv ==
  \/ \E x \in Weighed, seen \in SUBSET Vocab, k \in Nat, p \in 0..4 : Given(x, seen, k, p)
  \/ job.at = "end" /\ SamplersFaithful

LEMMA DrawStart == SamplingAssumption /\ DrawInit => DrawIInv
<1> SUFFICES ASSUME SamplingAssumption, DrawInit PROVE DrawIInv
  OBVIOUS
<1>1. PICK x \in [Vocab -> Logits], seen \in SUBSET (Vocab \ {EosId}), k \in TopKs, p \in TopPs :
        Given(x, seen, k, p)
  BY DEF DrawInit, Given
<1>2. x \in Weighed /\ seen \in SUBSET Vocab /\ k \in Nat /\ p \in 0..4
  BY SamplingAssumption DEF Weighed
<1> QED
  BY <1>1, <1>2 DEF DrawIInv

LEMMA DrawKeep == SamplingAssumption /\ DrawIInv /\ [DrawNext]_job => DrawIInv'
<1>1. ASSUME SamplingAssumption, DrawIInv, job' = job PROVE DrawIInv'
  BY <1>1 DEF DrawIInv, Given, SamplersFaithful, SamplersAgree, DrawsFromNucleus, Drawn
<1>2. ASSUME SamplingAssumption, DrawIInv, DrawNext PROVE DrawIInv'
  <2>1. job.at = "logits"
    BY <1>2 DEF DrawNext, DrawTalker, DrawSibling
  <2>2. PICK x \in Weighed, seen \in SUBSET Vocab, k \in Nat, p \in 0..4 : Given(x, seen, k, p)
    BY <1>2, <2>1 DEF DrawIInv
  <2>3. job.row = x /\ job.seen = seen /\ job.k = k /\ job.p = p
    BY <2>2 DEF Given
  <2>4. CASE DrawTalker
    <3>1. PICK h, g : h = HostRow(x, seen) /\ g = GraphRow(x, seen)
      OBVIOUS
    <3>2. g = h /\ h \in Valued /\ \A i \in Vocab : Reserved(i) => h[i] = NegInf
      BY <3>1, RowsAlike
    <3>3. job' = [job EXCEPT !.at = "end", !.row = h, !.base = {Greedy(g)},
                             !.host = HostKept(h, k), !.graph = GraphKept(g, k)]
      BY <2>3, <2>4, <3>1 DEF DrawTalker
    <3>4. /\ job'.at = "end" /\ job'.by = "talker" /\ job'.row = h /\ job'.base = {Greedy(g)}
          /\ job'.host = HostKept(h, k) /\ job'.graph = GraphKept(g, k) /\ job'.k = k
      BY <2>2, <3>3 DEF Given
    <3>5. k \in 1..VocabSize => GraphKept(g, k) = HostKept(h, k)
      BY <3>2, KeptAlike
    <3>6. SamplersAgree'
      <4>1. HostKept(h, k) \subseteq Finite(h)
        BY <3>2, HostKeptIs, VocabIs
      <4>2. GraphKept(g, k) \subseteq Finite(h)
        BY <3>2 DEF GraphKept
      <4>3. ASSUME NEW i \in Finite(h) PROVE ~Reserved(i)
        BY <3>2 DEF Finite, NegInf
      <4>4. ASSUME NEW i \in Finite(h) PROVE i < VocabSize - ReservedIds \/ i = EosId
        <5>1. i \in Nat /\ VocabSize - ReservedIds \in Nat
          BY VocabIs, SamplingAssumption DEF Finite
        <5> QED
          BY <4>3, <5>1 DEF Reserved
      <4>5. \A i \in HostKept(h, k) \cup GraphKept(g, k) :
              i < VocabSize - ReservedIds \/ i = EosId
        BY <4>1, <4>2, <4>4
      <4> QED
        BY <3>2, <3>4, <3>5, <4>5 DEF SamplersAgree, Drawn
    <3>7. DrawsFromNucleus'
      BY <3>4 DEF DrawsFromNucleus, Drawn
    <3> QED
      BY <3>4, <3>6, <3>7 DEF DrawIInv, SamplersFaithful
  <2>5. CASE DrawSibling
    <3>1. PICK by \in {"higgs", "breeze"}, tie \in Injection(Vocab, Vocab) :
            job' = [job EXCEPT !.at = "end", !.by = by,
                      !.host = IF by = "higgs" THEN HiggsKept(x, tie, k, p)
                               ELSE BreezeKept(x, tie, k, p),
                      !.base = IF by = "higgs" THEN HostKept(x, k)
                               ELSE BreezeTop(x, tie, k)]
      BY <2>3, <2>5 DEF DrawSibling
    <3>2. PICK K, base : /\ K = IF by = "higgs" THEN HiggsKept(x, tie, k, p)
                                ELSE BreezeKept(x, tie, k, p)
                         /\ base = IF by = "higgs" THEN HostKept(x, k)
                                   ELSE BreezeTop(x, tie, k)
      OBVIOUS
    <3>3. /\ job'.at = "end" /\ job'.by = by /\ job'.row = x /\ job'.host = K
          /\ job'.base = base /\ job'.k = k /\ job'.p = p
      BY <2>2, <3>1, <3>2 DEF Given
    <3>4. Drawable(x, K, base, p, by = "higgs" \/ k = 0)
      <4>1. CASE by = "higgs"
        <5>1. Drawable(x, K, base, p, TRUE)
          BY <3>2, <4>1, HiggsDraws
        <5> QED
          BY <5>1 DEF Drawable
      <4>2. CASE by = "breeze"
        <5>1. Drawable(x, K, base, p, k = 0)
          BY <3>2, <4>2, BreezeDraws
        <5> QED
          BY <4>2, <5>1 DEF Drawable
      <4> QED
        BY <4>1, <4>2
    <3>5. SamplersAgree'
      BY <3>3 DEF SamplersAgree, Drawn
    <3>6. DrawsFromNucleus'
      BY <3>3, <3>4 DEF DrawsFromNucleus, Drawn, Drawable, Probable, Passing
    <3> QED
      BY <3>3, <3>5, <3>6 DEF DrawIInv, SamplersFaithful
  <2> QED
    BY <1>2, <2>4, <2>5 DEF DrawNext
<1> QED
  BY <1>1, <1>2

\* For any logits, any history, any top_k and top_p, any weights of logits and any
\* order the library sorts equals in: the talker's host and graph never draw a
\* reserved token but the end, and for a top_k of at least 1 can draw the same ones;
\* what Higgs and Breeze draw from is a nucleus of what top_k has left, the least
\* one but for Breeze with top_k on (append_gpu_sampling_view,
\* HiggsTTS::sample_one, sample_logits).
THEOREM SamplingFaithful == DrawSpec => []SamplersFaithful
<1>1. DrawInit => DrawIInv
  BY DrawStart, SamplingAssumption
<1>2. DrawIInv /\ [DrawNext]_job => DrawIInv'
  BY DrawKeep, SamplingAssumption
<1>3. DrawIInv => SamplersFaithful
  BY DEF DrawIInv, Given, SamplersFaithful, SamplersAgree, DrawsFromNucleus, Drawn
<1> QED
  BY <1>1, <1>2, <1>3, PTL DEF DrawSpec

-----------------------------------------------------------------------------
(* Sequences put together.                                                 *)

LEMMA CatTyped ==
  ASSUME NEW S, NEW s \in Seq(S), NEW t \in Seq(S)
  PROVE  s \o t \in Seq(S)
  BY ConcatProperties

LEMMA CatIs ==
  ASSUME NEW S, NEW s \in Seq(S), NEW t \in Seq(S)
  PROVE  /\ s \o t \in Seq(S) /\ Len(s \o t) = Len(s) + Len(t)
         /\ Len(s) \in Nat /\ Len(t) \in Nat
         /\ \A i \in 1..Len(s) : (s \o t)[i] = s[i]
         /\ \A i \in 1..Len(t) : (s \o t)[Len(s) + i] = t[i]
<1>1. Len(s) \in Nat /\ Len(t) \in Nat
  OBVIOUS
<1>2. /\ s \o t \in Seq(S) /\ Len(s \o t) = Len(s) + Len(t)
      /\ \A i \in 1..Len(s) + Len(t) : (s \o t)[i] = IF i <= Len(s) THEN s[i] ELSE t[i - Len(s)]
  BY ConcatProperties, Zenon
<1> QED
  BY <1>1, <1>2

\* Three sequences, however they are put together.
LEMMA CatThree ==
  ASSUME NEW S, NEW s \in Seq(S), NEW t \in Seq(S), NEW u \in Seq(S)
  PROVE  (s \o t) \o u = s \o (t \o u) /\ (s \o t) \o u \in Seq(S)
<1>1. (s \o t) \o u = s \o (t \o u)
  BY ConcatAssociative
<1>2. (s \o t) \o u \in Seq(S)
  OBVIOUS
<1> QED
  BY <1>1, <1>2

LEMMA AddsOne ==
  ASSUME NEW S, NEW s \in Seq(S), NEW x \in S, NEW n \in Nat, Len(s) = n
  PROVE  /\ s \o <<x>> \in Seq(S) /\ Len(s \o <<x>>) = n + 1
         /\ \A i \in 1..n : (s \o <<x>>)[i] = s[i]
         /\ (s \o <<x>>)[n + 1] = x
<1>1. Append(s, x) = s \o <<x>>
  BY AppendIsConcat
<1>2. /\ Append(s, x) \in Seq(S) /\ Len(Append(s, x)) = n + 1
      /\ \A i \in 1..n : Append(s, x)[i] = s[i]
      /\ Append(s, x)[n + 1] = x
  OBVIOUS
<1> QED
  BY <1>1, <1>2, Zenon

-----------------------------------------------------------------------------
(* The encoder (StreamEncoder): what was put out, waits in the muxer and   *)
(* is held by the codec is, in this order, the header and the first frames *)
(* of the input.                                                           *)

Pieces == {Header, Trailer} \cup [pts : Nat, of : [1..EncFrame -> Nat]]

EncStates ==
  [kind : {"encode"}, at : {"open", "end"}, muxed : BOOLEAN, given : Nat, fifo : Seq(Nat),
   samples_in : Nat, held : Seq(Pieces), sink : Seq(Pieces), out : Seq(Pieces),
   valid : BOOLEAN, finished : BOOLEAN, ok : BOOLEAN]

Line(j) == (j.out \o j.sink) \o j.held

Opening(muxed) == IF muxed THEN <<Header>> ELSE <<>>
Closing(muxed) == IF muxed THEN <<Trailer>> ELSE <<>>

\* The f-th frame of the input, and the first n of them.
FullFrame(f) ==
  [pts |-> (f - 1) * EncFrame, of |-> [k \in 1..EncFrame |-> (f - 1) * EncFrame + k]]
FullFrames(n) == [f \in 1..n |-> FullFrame(f)]

\* n frames are made, the rest of the input waits in the queue.
Framing(j, n) ==
  /\ n \in Nat /\ n * EncFrame <= j.given /\ j.samples_in = n * EncFrame
  /\ j.fifo = [k \in 1..j.given - n * EncFrame |-> n * EncFrame + k]
  /\ Line(j) = Opening(j.muxed) \o FullFrames(n)

\* What draining and encoding leave alone.
SameStream(i, j) ==
  /\ i.kind = j.kind /\ i.at = j.at /\ i.muxed = j.muxed /\ i.given = j.given
  /\ i.valid = j.valid /\ i.finished = j.finished /\ i.ok = j.ok

LEMMA EncFrameIs == EncFrame \in Nat \ {0}
  BY StreamEncoderAssumption

LEMMA OpeningIs ==
  ASSUME NEW b \in BOOLEAN
  PROVE  Opening(b) \in Seq(Pieces) /\ Closing(b) \in Seq(Pieces)
<1>1. Header \in Pieces /\ Trailer \in Pieces
  BY DEF Pieces
<1> HIDE DEF Header, Trailer, Pieces
<1> QED
  BY <1>1 DEF Opening, Closing

LEMMA TimesIs == ASSUME NEW a \in Nat, NEW b \in Nat PROVE a * b \in Nat
  BY SMT

LEMMA NextTimes ==
  ASSUME NEW n \in Nat, NEW e \in Nat
  PROVE  (n + 1) * e = n * e + e /\ n * e \in Nat /\ (n + 1) * e \in Nat
  BY SMT

LEMMA FullFrameIs ==
  ASSUME NEW f \in Nat \ {0}
  PROVE  FullFrame(f) \in Pieces
<1>1. (f - 1) * EncFrame \in Nat
  BY EncFrameIs, TimesIs
<1>2. PICK b \in Nat : b = (f - 1) * EncFrame
  BY <1>1
<1>3. [k \in 1..EncFrame |-> b + k] \in [1..EncFrame -> Nat]
  BY EncFrameIs
<1> QED
  BY <1>2, <1>3 DEF FullFrame, Pieces

LEMMA FullFramesIs ==
  ASSUME NEW n \in Nat
  PROVE  /\ FullFrames(n) \in Seq(Pieces) /\ Len(FullFrames(n)) = n
         /\ \A f \in 1..n : FullFrames(n)[f] = FullFrame(f)
<1>1. FullFrames(n) \in [1..n -> Pieces]
  BY FullFrameIs DEF FullFrames
<1>2. \A f \in 1..n : FullFrames(n)[f] = FullFrame(f)
  BY DEF FullFrames
<1> HIDE DEF FullFrames
<1> QED
  BY <1>1, <1>2

LEMMA FullFramesGrow ==
  ASSUME NEW n \in Nat
  PROVE  FullFrames(n + 1) = FullFrames(n) \o <<FullFrame(n + 1)>>
<1>1. PICK x \in Pieces : x = FullFrame(n + 1)
  BY FullFrameIs
<1>2. PICK s \in Seq(Pieces) : s = FullFrames(n)
  BY FullFramesIs
<1>3. Len(s) = n /\ \A f \in 1..n : s[f] = FullFrame(f)
  BY <1>2, FullFramesIs
<1>4. PICK v \in Seq(Pieces) : v = FullFrames(n + 1)
  BY FullFramesIs
<1>5. Len(v) = n + 1 /\ \A f \in 1..n + 1 : v[f] = FullFrame(f)
  BY <1>4, FullFramesIs
<1>6. PICK w : w = s \o <<x>>
  OBVIOUS
<1>7. w \in Seq(Pieces) /\ Len(w) = n + 1 /\ (\A i \in 1..n : w[i] = s[i]) /\ w[n + 1] = x
  BY <1>3, <1>6, AddsOne
<1>8. \A i \in 1..n + 1 : v[i] = w[i]
  BY <1>1, <1>3, <1>5, <1>7
<1>9. v = w
  BY <1>5, <1>7, <1>8, SeqEqual
<1> QED
  BY <1>1, <1>2, <1>4, <1>6, <1>9

LEMMA DrainedKeeps ==
  ASSUME NEW j \in EncStates, NEW i \in Drained(j)
  PROVE  /\ i \in EncStates /\ SameStream(i, j) /\ Line(i) = Line(j)
         /\ i.fifo = j.fifo /\ i.samples_in = j.samples_in
<1>1. CASE i = j
  BY <1>1 DEF SameStream
<1>2. CASE i # j
  <2>1. PICK n \in 1..Len(j.held) :
          i = [j EXCEPT !.out = @ \o j.sink \o SubSeq(j.held, 1, n), !.sink = <<>>,
                        !.held = SubSeq(j.held, n + 1, Len(j.held))]
    BY <1>2 DEF Drained
  <2> DEFINE a == SubSeq(j.held, 1, n)  b == SubSeq(j.held, n + 1, Len(j.held))
  <2>2. j.out \in Seq(Pieces) /\ j.sink \in Seq(Pieces) /\ j.held \in Seq(Pieces)
    BY DEF EncStates
  <2>3. a \in Seq(Pieces) /\ b \in Seq(Pieces)
    BY <2>2
  <2>4. a \o b = j.held
    <3>1. 1 \in 1..Len(j.held) + 1 /\ n \in 0..Len(j.held) /\ Len(j.held) \in n..Len(j.held)
      BY <2>2
    <3>2. SubSeq(j.held, 1, n) \o SubSeq(j.held, n + 1, Len(j.held)) = SubSeq(j.held, 1, Len(j.held))
      BY <2>2, <3>1, ConcatAdjacentSubSeq
    <3> QED
      BY <2>2, <3>2, SubSeqFull
  <2> HIDE DEF a, b
  <2>5. i = [j EXCEPT !.out = (j.out \o j.sink) \o a, !.sink = <<>>, !.held = b]
    BY <2>1 DEF a, b
  <2>6. (j.out \o j.sink) \o a \in Seq(Pieces) /\ j.out \o j.sink \in Seq(Pieces)
    <3>1. PICK u \in Seq(Pieces), v \in Seq(Pieces) : u = j.out /\ v = j.sink
      BY <2>2
    <3>2. (u \o v) \o a \in Seq(Pieces) /\ u \o v \in Seq(Pieces)
      BY <2>3, CatThree, CatTyped
    <3> QED
      BY <3>1, <3>2
  <2>7. i \in EncStates /\ SameStream(i, j)
    <3>1. PICK o \in Seq(Pieces) : o = (j.out \o j.sink) \o a
      BY <2>6
    <3>2. i = [j EXCEPT !.out = o, !.sink = <<>>, !.held = b]
      BY <2>5, <3>1
    <3>3. <<>> \in Seq(Pieces)
      OBVIOUS
    <3>4. PICK c \in Seq(Pieces) : c = b
      BY <2>3
    <3>5. i = [j EXCEPT !.out = o, !.sink = <<>>, !.held = c]
      BY <3>2, <3>4
    <3>6. i \in EncStates
      BY <3>1, <3>3, <3>4, <3>5 DEF EncStates
    <3> QED
      BY <3>5, <3>6 DEF EncStates, SameStream
  <2>8. i.out = (j.out \o j.sink) \o a /\ i.sink = <<>> /\ i.held = b
        /\ i.fifo = j.fifo /\ i.samples_in = j.samples_in
    BY <2>5 DEF EncStates
  <2>9. Line(i) = Line(j)
    <3>1. i.out \o i.sink = (j.out \o j.sink) \o a
      BY <2>6, <2>8, ConcatEmptySeq
    <3>2. ((j.out \o j.sink) \o a) \o b = (j.out \o j.sink) \o (a \o b)
      <4> DEFINE w == j.out \o j.sink
      <4>1. w \in Seq(Pieces)
        BY <2>6
      <4> HIDE DEF w
      <4>2. (w \o a) \o b = w \o (a \o b)
        BY <2>3, <4>1, CatThree
      <4> QED
        BY <4>2 DEF w
    <3> QED
      BY <2>4, <2>8, <3>1, <3>2 DEF Line
  <2> QED
    BY <2>7, <2>8, <2>9
<1> QED
  BY <1>1, <1>2

\* A frame is sent whose of is of and whose time is pts.
LEMMA SentLine ==
  ASSUME NEW j \in EncStates
  PROVE  /\ FrameOf(j) \in Pieces /\ SentFrame(j) \in EncStates /\ SameStream(SentFrame(j), j)
         /\ SentFrame(j).samples_in = j.samples_in + EncFrame
         /\ SentFrame(j).fifo = SubSeq(j.fifo, EncFrame + 1, Len(j.fifo))
         /\ Line(SentFrame(j)) = Line(j) \o <<FrameOf(j)>>
<1>1. /\ j.out \in Seq(Pieces) /\ j.sink \in Seq(Pieces) /\ j.held \in Seq(Pieces)
      /\ j.fifo \in Seq(Nat) /\ j.samples_in \in Nat
  BY DEF EncStates
<1>2. FrameOf(j) \in Pieces
  <2>1. [k \in 1..EncFrame |-> IF k <= Len(j.fifo) THEN j.fifo[k] ELSE Silent] \in [1..EncFrame -> Nat]
    BY <1>1, EncFrameIs DEF Silent
  <2> QED
    BY <1>1, <2>1 DEF FrameOf, Pieces
<1> DEFINE x == FrameOf(j)
<1>3. x \in Pieces
  BY <1>2
<1> HIDE DEF x
<1>4. Append(j.held, x) \in Seq(Pieces) /\ <<x>> \in Seq(Pieces) /\ Append(j.held, x) = j.held \o <<x>>
  BY <1>1, <1>3, AppendIsConcat
<1>5. SubSeq(j.fifo, EncFrame + 1, Len(j.fifo)) \in Seq(Nat) /\ j.samples_in + EncFrame \in Nat
  BY <1>1, EncFrameIs
<1>6. SentFrame(j) = [j EXCEPT !.held = Append(j.held, x), !.samples_in = j.samples_in + EncFrame,
                               !.fifo = SubSeq(j.fifo, EncFrame + 1, Len(j.fifo))]
  BY DEF SentFrame, x, EncStates
<1>7. SentFrame(j) \in EncStates /\ SameStream(SentFrame(j), j)
  BY <1>4, <1>5, <1>6 DEF EncStates, SameStream
<1>8. /\ SentFrame(j).out = j.out /\ SentFrame(j).sink = j.sink /\ SentFrame(j).held = Append(j.held, x)
      /\ SentFrame(j).samples_in = j.samples_in + EncFrame
      /\ SentFrame(j).fifo = SubSeq(j.fifo, EncFrame + 1, Len(j.fifo))
  BY <1>6 DEF EncStates
<1>9. Line(SentFrame(j)) = Line(j) \o <<x>>
  <2> DEFINE w == j.out \o j.sink  h == j.held  y == <<x>>
  <2>1. w \in Seq(Pieces) /\ h \in Seq(Pieces) /\ y \in Seq(Pieces)
    BY <1>1, <1>4
  <2>2. (j.out \o j.sink) \o (j.held \o <<x>>) = ((j.out \o j.sink) \o j.held) \o <<x>>
    <3> HIDE DEF w, h, y
    <3>1. (w \o h) \o y = w \o (h \o y)
      BY <2>1, CatThree
    <3> QED
      BY <3>1 DEF w, h, y
  <2> QED
    BY <1>4, <1>8, <2>2 DEF Line
<1> QED
  BY <1>2, <1>7, <1>8, <1>9 DEF x

LEMMA FramingLen ==
  ASSUME NEW j \in EncStates, NEW n, Framing(j, n)
  PROVE  Len(j.fifo) = j.given - n * EncFrame
<1>1. PICK a \in Nat : a = n * EncFrame
  BY EncFrameIs, TimesIs DEF Framing
<1>2. a <= j.given /\ j.given \in Nat /\ j.fifo \in Seq(Nat) /\ j.fifo = [k \in 1..j.given - a |-> a + k]
  BY <1>1 DEF Framing, EncStates
<1>3. PICK r \in Nat : r = j.given - a
  BY <1>1, <1>2
<1>4. Len(j.fifo) = r
  BY <1>2, <1>3
<1> QED
  BY <1>1, <1>3, <1>4

LEMMA SentKeeps ==
  ASSUME NEW j \in EncStates, NEW n, Framing(j, n), EncFrame <= Len(j.fifo)
  PROVE  Framing(SentFrame(j), n + 1)
<1>1. n \in Nat /\ j.given \in Nat /\ n * EncFrame <= j.given /\ j.samples_in = n * EncFrame
  BY DEF Framing, EncStates
<1>2. (n + 1) * EncFrame = n * EncFrame + EncFrame /\ n * EncFrame \in Nat
  BY <1>1, EncFrameIs, NextTimes
<1> DEFINE a == n * EncFrame  b == (n + 1) * EncFrame  s == SentFrame(j)
<1>3. PICK e \in Nat \ {0} : e = EncFrame
  BY EncFrameIs
<1>11. j.samples_in = a
  BY <1>1
<1>4. j.fifo = [k \in 1..j.given - a |-> a + k] /\ a \in Nat /\ b = a + e /\ a <= j.given
  BY <1>1, <1>2, <1>3 DEF Framing
<1>5. s.given = j.given /\ s.muxed = j.muxed /\ s.samples_in = j.samples_in + e
      /\ s.fifo = SubSeq(j.fifo, e + 1, Len(j.fifo)) /\ Line(s) = Line(j) \o <<FrameOf(j)>>
  BY <1>3, SentLine DEF SameStream
<1> HIDE DEF s, a, b
<1>6. Len(j.fifo) = j.given - a /\ e <= j.given - a /\ j.fifo \in Seq(Nat)
  <2>1. j.fifo \in Seq(Nat)
    BY DEF EncStates
  <2>2. PICK r \in Nat : r = j.given - a
    BY <1>1, <1>4
  <2>3. j.fifo = [k \in 1..r |-> a + k]
    BY <1>4, <2>2
  <2>4. Len(j.fifo) = r
    BY <2>1, <2>3
  <2> QED
    BY <1>3, <2>1, <2>2, <2>4
<1>7. s.fifo = [k \in 1..j.given - b |-> b + k]
  <2>1. s.fifo = [k \in 1..(j.given - a) - e |-> j.fifo[e + k]]
    <3>1. SubSeq(j.fifo, e + 1, Len(j.fifo))
          = [k \in 1..(1 + Len(j.fifo)) - (e + 1) |-> j.fifo[(e + 1 + k) - 1]]
      BY <1>6
    <3>2. (1 + Len(j.fifo)) - (e + 1) = (j.given - a) - e
      BY <1>1, <1>4, <1>6
    <3>3. \A k \in 1..(j.given - a) - e : (e + 1 + k) - 1 = e + k
      OBVIOUS
    <3> QED
      BY <1>5, <3>1, <3>2, <3>3
  <2>2. (j.given - a) - e = j.given - b
    BY <1>1, <1>4
  <2>3. \A k \in 1..j.given - b : j.fifo[e + k] = b + k
    BY <1>1, <1>4
  <2> QED
    BY <2>1, <2>2, <2>3
<1>8. FrameOf(j) = FullFrame(n + 1)
  <2>1. (n + 1) - 1 = n
    BY <1>1
  <2>2. \A k \in 1..e : k <= Len(j.fifo) /\ j.fifo[k] = a + k
    BY <1>1, <1>4, <1>6
  <2>3. [k \in 1..e |-> IF k <= Len(j.fifo) THEN j.fifo[k] ELSE Silent] = [k \in 1..e |-> a + k]
    BY <2>2
  <2>4. FrameOf(j) = [pts |-> a, of |-> [k \in 1..e |-> a + k]]
    BY <1>1, <1>3, <2>3 DEF FrameOf, a
  <2>5. FullFrame(n + 1) = [pts |-> a, of |-> [k \in 1..e |-> a + k]]
    BY <1>3, <2>1 DEF FullFrame, a
  <2> QED
    BY <2>4, <2>5
<1>9. Line(s) = Opening(s.muxed) \o FullFrames(n + 1)
  <2>1. Line(j) = Opening(j.muxed) \o FullFrames(n)
    BY DEF Framing
  <2>2. /\ Opening(j.muxed) \in Seq(Pieces) /\ FullFrames(n) \in Seq(Pieces)
        /\ <<FullFrame(n + 1)>> \in Seq(Pieces)
    <3>1. FullFrame(n + 1) \in Pieces
      BY <1>1, FullFrameIs
    <3>2. Opening(j.muxed) \in Seq(Pieces)
      BY OpeningIs DEF EncStates
    <3> QED
      BY <1>1, <3>1, <3>2, FullFramesIs
  <2>3. (Opening(j.muxed) \o FullFrames(n)) \o <<FullFrame(n + 1)>>
        = Opening(j.muxed) \o (FullFrames(n) \o <<FullFrame(n + 1)>>)
    <3> DEFINE w == Opening(j.muxed)  h == FullFrames(n)  y == <<FullFrame(n + 1)>>
    <3>1. w \in Seq(Pieces) /\ h \in Seq(Pieces) /\ y \in Seq(Pieces)
      BY <2>2
    <3> HIDE DEF w, h, y
    <3>2. (w \o h) \o y = w \o (h \o y)
      BY <3>1, CatThree
    <3> QED
      BY <3>2 DEF w, h, y
  <2> QED
    BY <1>1, <1>5, <1>8, <2>1, <2>3, FullFramesGrow
<1>10. b <= s.given /\ s.samples_in = b
  <2>1. s.given = j.given /\ s.samples_in = a + e
    BY <1>5, <1>11
  <2>2. b = a + e /\ e <= j.given - a /\ a \in Nat /\ j.given \in Nat
    BY <1>1, <1>4, <1>6
  <2> QED
    BY <2>1, <2>2
<1>12. n + 1 \in Nat
  BY <1>1
<1> QED
  <2>1. s.given = j.given
    BY <1>5
  <2>2. Framing(s, n + 1)
    BY <1>7, <1>9, <1>10, <1>12, <2>1, Zenon DEF Framing, b
  <2> QED
    BY <2>2 DEF s

\* Frames made one after the other, as a sequence of the sets of what can come of it.
Encodes(f, j, m) ==
  f[0] = {j} /\ \A k \in 1..m : f[k] = UNION {EncodeOne(i) : i \in f[k - 1]}

LEMMA EncodedBy ==
  ASSUME NEW j, NEW m \in Nat
  PROVE  \E f : Encodes(f, j, m) /\ EncodeFrames(j, m) = f[m]
<1> DEFINE Step(S) == UNION {EncodeOne(i) : i \in S}
           T == {n \in Nat : \E f : Encodes(f, j, n)}
           Solves(f) == f = [k \in 0..m |-> IF k = 0 THEN {j} ELSE UNION {EncodeOne(i) : i \in f[k - 1]}]
           g == CHOOSE f : Solves(f)
<1>1. 0 \in T
  <2>1. Encodes([k \in 0..0 |-> {j}], j, 0)
    BY DEF Encodes
  <2> QED
    BY <2>1
<1>2. ASSUME NEW n \in Nat, n \in T PROVE n + 1 \in T
  <2>1. PICK f : Encodes(f, j, n)
    BY <1>2
  <2>2. PICK last : last = Step(f[n])
    OBVIOUS
  <2> DEFINE h == [k \in 0..n + 1 |-> IF k = n + 1 THEN last ELSE f[k]]
  <2>3. \A k \in 0..n : h[k] = f[k]
    OBVIOUS
  <2>4. h[n + 1] = last
    OBVIOUS
  <2>5. h[0] = {j}
    BY <2>1, <2>3 DEF Encodes
  <2>6. ASSUME NEW k \in 1..n + 1 PROVE h[k] = UNION {EncodeOne(i) : i \in h[k - 1]}
    <3>1. CASE k = n + 1
      <4>1. k - 1 = n /\ h[n] = f[n]
        BY <2>3, <3>1
      <4> HIDE DEF h
      <4> QED
        BY <2>2, <2>4, <3>1, <4>1
    <3>2. CASE k \in 1..n
      <4>1. h[k] = f[k] /\ h[k - 1] = f[k - 1]
        BY <2>3, <3>2
      <4>2. f[k] = UNION {EncodeOne(i) : i \in f[k - 1]}
        BY <2>1, <3>2 DEF Encodes
      <4> HIDE DEF h
      <4> QED
        BY <4>1, <4>2
    <3>3. k = n + 1 \/ k \in 1..n
      OBVIOUS
    <3> HIDE DEF h
    <3> QED
      BY <3>1, <3>2, <3>3
  <2> HIDE DEF h
  <2> QED
    BY <2>5, <2>6 DEF Encodes
<1>3. m \in T
  <2>1. \A n \in Nat : n \in T
    <3> HIDE DEF T
    <3> QED
      BY <1>1, <1>2, SetInduction
  <2> QED
    BY <2>1
<1>4. PICK f : Encodes(f, j, m)
  BY <1>3
<1>5. Solves([k \in 0..m |-> f[k]])
  <2> DEFINE h == [k \in 0..m |-> f[k]]
  <2>1. ASSUME NEW k \in 0..m
        PROVE  h[k] = IF k = 0 THEN {j} ELSE UNION {EncodeOne(i) : i \in h[k - 1]}
    <3>1. CASE k = 0
      BY <1>4, <3>1 DEF Encodes
    <3>2. CASE k \in 1..m
      <4>1. h[k] = f[k] /\ h[k - 1] = f[k - 1] /\ k # 0
        BY <3>2
      <4>2. f[k] = UNION {EncodeOne(i) : i \in f[k - 1]}
        BY <1>4, <3>2 DEF Encodes
      <4> HIDE DEF h
      <4> QED
        BY <4>1, <4>2
    <3>3. k = 0 \/ k \in 1..m
      OBVIOUS
    <3> HIDE DEF h
    <3> QED
      BY <3>1, <3>2, <3>3
  <2>2. h = [k \in 0..m |-> h[k]]
    OBVIOUS
  <2> HIDE DEF h
  <2>3. h = [k \in 0..m |-> IF k = 0 THEN {j} ELSE UNION {EncodeOne(i) : i \in h[k - 1]}]
    BY <2>1, <2>2
  <2> QED
    BY <2>3 DEF h
<1>6. Solves(g)
  <2> HIDE DEF Solves
  <2> QED
    BY <1>5
<1>7. Encodes(g, j, m)
  <2> HIDE DEF g
  <2>1. g = [k \in 0..m |-> IF k = 0 THEN {j} ELSE UNION {EncodeOne(i) : i \in g[k - 1]}]
    BY <1>6
  <2>2. 0 \in 0..m /\ \A k \in 1..m : k \in 0..m /\ k # 0
    OBVIOUS
  <2>3. g[0] = {j}
    BY <2>1, <2>2
  <2>4. ASSUME NEW k \in 1..m PROVE g[k] = UNION {EncodeOne(i) : i \in g[k - 1]}
    BY <2>1, <2>2, Zenon
  <2> QED
    BY <2>3, <2>4 DEF Encodes
<1>8. EncodeFrames(j, m) = g[m]
  BY Zenon DEF EncodeFrames
<1> QED
  BY <1>7, <1>8

\* m frames of a queue that holds them.
LEMMA EncodeFramesKeep ==
  ASSUME NEW j \in EncStates, NEW n, Framing(j, n),
         NEW m \in Nat, m * EncFrame <= Len(j.fifo), NEW i \in EncodeFrames(j, m)
  PROVE  i \in EncStates /\ SameStream(i, j) /\ Framing(i, n + m)
<1>1. PICK f : Encodes(f, j, m) /\ EncodeFrames(j, m) = f[m]
  BY EncodedBy
<1> DEFINE Fine(k) == \A s \in f[k] : s \in EncStates /\ SameStream(s, j) /\ Framing(s, n + k)
           T == {k \in 0..m : Fine(k)}
<1>2. n \in Nat /\ j.given \in Nat /\ n * EncFrame <= j.given
  BY DEF Framing, EncStates
<1>3. Len(j.fifo) = j.given - n * EncFrame
  BY <1>2, FramingLen
<1>4. 0 \in T
  <2>1. f[0] = {j} /\ n + 0 = n
    BY <1>1, <1>2 DEF Encodes
  <2>2. SameStream(j, j)
    BY DEF SameStream
  <2>3. Fine(0)
    BY <2>1, <2>2
  <2> QED
    BY <2>3
<1>5. ASSUME NEW k \in 1..m, k - 1 \in T PROVE k \in T
  <2>1. f[k] = UNION {EncodeOne(s) : s \in f[k - 1]}
    BY <1>1 DEF Encodes
  <2>2. Fine(k - 1)
    BY <1>5
  <2>3. ASSUME NEW s \in f[k] PROVE s \in EncStates /\ SameStream(s, j) /\ Framing(s, n + k)
    <3>1. PICK r \in f[k - 1] : s \in EncodeOne(r)
      BY <2>1
    <3>2. r \in EncStates /\ SameStream(r, j) /\ Framing(r, n + (k - 1))
      BY <2>2
    <3>3. EncFrame <= Len(r.fifo)
      <4>1. r.given = j.given
        BY <3>2 DEF SameStream
      <4>2. Len(r.fifo) = j.given - (n + (k - 1)) * EncFrame
        BY <3>2, <4>1, FramingLen
      <4>3. PICK e \in Nat \ {0} : e = EncFrame
        BY EncFrameIs
      <4>4. (n + (k - 1)) * e = n * e + (k - 1) * e /\ n * e \in Nat /\ (k - 1) * e + e = k * e
            /\ (k - 1) * e \in Nat
        BY <1>2, <4>3, SMT
      <4>5. k * e <= m * e /\ k * e \in Nat /\ m * e \in Nat
        BY <4>3, SMT
      <4>6. PICK x \in Nat, y \in Nat, z \in Nat : x = n * e /\ y = (k - 1) * e /\ z = m * e
        BY <4>4, <4>5
      <4>7. y + e <= z /\ (n + (k - 1)) * e = x + y
        BY <4>4, <4>5, <4>6
      <4>8. z <= j.given - x /\ Len(r.fifo) = j.given - (x + y)
        BY <1>3, <4>2, <4>3, <4>6, <4>7
      <4> QED
        BY <1>2, <4>3, <4>7, <4>8
    <3>4. SentFrame(r) \in EncStates /\ SameStream(SentFrame(r), r)
      BY <3>2, SentLine
    <3>5. Framing(SentFrame(r), (n + (k - 1)) + 1)
      BY <3>2, <3>3, SentKeeps
    <3>6. (n + (k - 1)) + 1 = n + k
      BY <1>2
    <3>7. s \in Drained(SentFrame(r))
      BY <3>1 DEF EncodeOne
    <3>8. PICK t : t = SentFrame(r)
      OBVIOUS
    <3>9. /\ s \in EncStates /\ SameStream(s, t) /\ Line(s) = Line(t)
          /\ s.fifo = t.fifo /\ s.samples_in = t.samples_in
      BY <3>4, <3>7, <3>8, DrainedKeeps
    <3>10. SameStream(s, j)
      BY <3>2, <3>4, <3>8, <3>9 DEF SameStream
    <3>11. s.given = t.given /\ s.muxed = t.muxed /\ Framing(t, n + k)
      BY <3>5, <3>6, <3>8, <3>9 DEF SameStream
    <3> QED
      BY <3>9, <3>10, <3>11 DEF Framing
  <2> QED
    BY <2>3
<1>6. Fine(m)
  <2>1. \A k \in 0..m : k \in T
    <3> HIDE DEF T
    <3> QED
      BY <1>4, <1>5, InductionUpTo
  <2>2. m \in 0..m
    OBVIOUS
  <2> QED
    BY <2>1, <2>2
<1> QED
  BY <1>1, <1>6

\* s is what t begins with.
Begins(s, t) == Len(s) <= Len(t) /\ \A k \in 1..Len(s) : s[k] = t[k]

LEMMA BeginsIsPrefix ==
  ASSUME NEW S, NEW s \in Seq(S), NEW t \in Seq(S), Begins(s, t)
  PROVE  IsPrefix(s, t)
<1>1. Len(s) \in Nat /\ Len(t) \in Nat /\ Len(s) <= Len(t) /\ \A k \in 1..Len(s) : s[k] = t[k]
  BY DEF Begins
<1>2. SubSeq(s, 1, Len(s)) = s
  BY SubSeqFull
<1>3. PICK u : u = SubSeq(t, 1, Len(s))
  OBVIOUS
<1>4. u \in Seq(S) /\ Len(u) = Len(s) /\ \A k \in 1..Len(s) : u[k] = t[k]
  BY <1>1, <1>3
<1>5. u = s
  BY <1>1, <1>4, SeqEqual
<1> QED
  BY <1>1, <1>2, <1>3, <1>5 DEF IsPrefix

LEMMA BeginsCat ==
  ASSUME NEW S, NEW s \in Seq(S), NEW t \in Seq(S)
  PROVE  Begins(s, s \o t)
  BY CatIs DEF Begins

LEMMA BeginsThrough ==
  ASSUME NEW S, NEW s \in Seq(S), NEW t \in Seq(S), NEW u \in Seq(S), Begins(s, t), Begins(t, u)
  PROVE  Begins(s, u)
<1>1. Len(s) \in Nat /\ Len(t) \in Nat /\ Len(u) \in Nat
  OBVIOUS
<1> QED
  BY <1>1 DEF Begins

LEMMA CatBegins ==
  ASSUME NEW S, NEW s \in Seq(S), NEW t \in Seq(S), NEW u \in Seq(S), Begins(s, t)
  PROVE  Begins(u \o s, u \o t)
<1>1. PICK v : v = u \o s
  OBVIOUS
<1>2. PICK w : w = u \o t
  OBVIOUS
<1>3. /\ Len(v) = Len(u) + Len(s) /\ (\A i \in 1..Len(u) : v[i] = u[i])
      /\ \A i \in 1..Len(s) : v[Len(u) + i] = s[i]
  BY <1>1, CatIs
<1>4. /\ Len(w) = Len(u) + Len(t) /\ (\A i \in 1..Len(u) : w[i] = u[i])
      /\ \A i \in 1..Len(t) : w[Len(u) + i] = t[i]
  BY <1>2, CatIs
<1>5. Len(s) \in Nat /\ Len(t) \in Nat /\ Len(u) \in Nat /\ Len(s) <= Len(t)
      /\ \A i \in 1..Len(s) : s[i] = t[i]
  BY DEF Begins
<1>6. ASSUME NEW k \in 1..Len(v) PROVE v[k] = w[k]
  <2>1. CASE k <= Len(u)
    BY <1>3, <1>4, <1>5, <2>1
  <2>2. CASE k > Len(u)
    <3>1. PICK i \in 1..Len(s) : k = Len(u) + i
      <4>1. k - Len(u) \in 1..Len(s) /\ k = Len(u) + (k - Len(u))
        BY <1>3, <1>5, <2>2
      <4> QED
        BY <4>1
    <3> QED
      BY <1>3, <1>4, <1>5, <3>1
  <2> QED
    BY <1>3, <1>5, <2>1, <2>2
<1> QED
  BY <1>1, <1>2, <1>3, <1>4, <1>5, <1>6 DEF Begins

-----------------------------------------------------------------------------
(* The input in frames.                                                    *)

\* The frame at f of n samples, and how many there are.
FrameAt(n, f) ==
  [pts |-> (f - 1) * EncFrame,
   of |-> [k \in 1..EncFrame |->
             IF (f - 1) * EncFrame + k <= n THEN (f - 1) * EncFrame + k ELSE Silent]]
FramesIn(n) == (n + EncFrame - 1) \div EncFrame

LEMMA FramesInIs ==
  ASSUME NEW n \in Nat
  PROVE  /\ FramesIn(n) \in Nat
         /\ \A m \in Nat : m * EncFrame <= n => m <= FramesIn(n)
         /\ \A m \in Nat : m * EncFrame = n => FramesIn(n) = m
         /\ \A m \in Nat : m * EncFrame < n /\ n < m * EncFrame + EncFrame => FramesIn(n) = m + 1
<1>1. PICK e \in Nat \ {0} : e = EncFrame
  BY EncFrameIs
<1>2. PICK a \in Nat : a = n + e - 1
  BY <1>1
<1>3. PICK q : q = a \div e
  OBVIOUS
<1>4. q \in Nat /\ q * e <= a /\ a < q * e + e
  BY <1>1, <1>3, DivBounds
<1>5. ASSUME NEW m \in Nat, m * e <= n PROVE m <= q
  <2> SUFFICES ASSUME q + 1 <= m PROVE FALSE
    BY <1>4
  <2>1. (q + 1) * e <= m * e /\ (q + 1) * e = q * e + e /\ q * e \in Nat /\ m * e \in Nat
    BY <1>4, SMT
  <2> QED
    BY <1>2, <1>4, <1>5, <2>1
<1>6. ASSUME NEW m \in Nat, m * e = n PROVE q = m
  <2> SUFFICES ASSUME m + 1 <= q PROVE FALSE
    BY <1>4, <1>5, <1>6
  <2>1. (m + 1) * e <= q * e /\ (m + 1) * e = m * e + e /\ q * e \in Nat /\ m * e \in Nat
    BY <1>4, SMT
  <2> QED
    BY <1>2, <1>4, <1>6, <2>1
<1>7. ASSUME NEW m \in Nat, m * e < n, n < m * e + e PROVE q = m + 1
  <2>1. q * e \in Nat /\ m * e \in Nat
    BY <1>4, SMT
  <2>2. ASSUME q <= m PROVE FALSE
    <3>1. q * e <= m * e
      BY <1>4, <2>2, SMT
    <3> QED
      BY <1>2, <1>4, <1>7, <2>1, <3>1
  <2>3. ASSUME m + 2 <= q PROVE FALSE
    <3>1. (m + 2) * e <= q * e /\ (m + 2) * e = m * e + e + e
      BY <1>4, <2>3, SMT
    <3> QED
      BY <1>2, <1>4, <1>7, <2>1, <3>1
  <2> QED
    BY <1>4, <2>2, <2>3
<1>8. FramesIn(n) = q
  BY <1>1, <1>2, <1>3 DEF FramesIn
<1> QED
  BY <1>1, <1>4, <1>5, <1>6, <1>7, <1>8

LEMMA FramedIs ==
  ASSUME NEW n \in Nat
  PROVE  /\ Framed(n) \in Seq(Pieces) /\ Len(Framed(n)) = FramesIn(n)
         /\ \A f \in 1..FramesIn(n) : Framed(n)[f] = FrameAt(n, f)
<1>1. ASSUME NEW f \in Nat \ {0} PROVE FrameAt(n, f) \in Pieces
  <2>1. (f - 1) * EncFrame \in Nat
    BY EncFrameIs, TimesIs
  <2>2. PICK b \in Nat : b = (f - 1) * EncFrame
    BY <2>1
  <2>3. [k \in 1..EncFrame |-> IF b + k <= n THEN b + k ELSE 0] \in [1..EncFrame -> Nat]
    BY EncFrameIs
  <2> QED
    BY <2>2, <2>3 DEF FrameAt, Pieces, Silent
<1>2. Framed(n) = [f \in 1..FramesIn(n) |-> FrameAt(n, f)]
  BY DEF Framed, FramesIn, FrameAt
<1>3. FramesIn(n) \in Nat
  BY FramesInIs
<1>4. [f \in 1..FramesIn(n) |-> FrameAt(n, f)] \in [1..FramesIn(n) -> Pieces]
  BY <1>1, <1>3
<1> QED
  BY <1>2, <1>3, <1>4

LEMMA WholeFrame ==
  ASSUME NEW n \in Nat, NEW f \in Nat \ {0}, f * EncFrame <= n
  PROVE  FrameAt(n, f) = FullFrame(f)
<1>1. PICK e \in Nat \ {0} : e = EncFrame
  BY EncFrameIs
<1>2. (f - 1) * e + e = f * e /\ (f - 1) * e \in Nat
  BY <1>1, SMT
<1>3. PICK b \in Nat : b = (f - 1) * e
  BY <1>2
<1>4. b + e <= n
  BY <1>1, <1>2, <1>3
<1>5. [k \in 1..e |-> IF b + k <= n THEN b + k ELSE Silent] = [k \in 1..e |-> b + k]
  <2>1. \A k \in 1..e : b + k <= n
    BY <1>1, <1>3, <1>4
  <2> QED
    BY <2>1
<1> QED
  BY <1>1, <1>3, <1>5 DEF FrameAt, FullFrame

LEMMA FullBegins ==
  ASSUME NEW n \in Nat, NEW m \in Nat, m * EncFrame <= n
  PROVE  Begins(FullFrames(m), Framed(n))
<1>1. m <= FramesIn(n) /\ FramesIn(n) \in Nat
  BY FramesInIs
<1>2. ASSUME NEW f \in 1..m PROVE FullFrames(m)[f] = Framed(n)[f]
  <2>1. f * EncFrame <= n
    <3>1. PICK e \in Nat \ {0} : e = EncFrame
      BY EncFrameIs
    <3>2. f * e <= m * e /\ f * e \in Nat /\ m * e \in Nat
      BY <3>1, SMT
    <3> QED
      BY <3>1, <3>2
  <2>2. FrameAt(n, f) = FullFrame(f)
    BY <2>1, WholeFrame
  <2>3. f \in 1..FramesIn(n)
    BY <1>1
  <2> QED
    BY <2>2, <2>3, FullFramesIs, FramedIs
<1>3. Len(FullFrames(m)) = m /\ Len(Framed(n)) = FramesIn(n)
  BY FullFramesIs, FramedIs
<1> QED
  BY <1>1, <1>2, <1>3 DEF Begins

\* What does not fill its last frame, and what does.
LEMMA FramedWhole ==
  ASSUME NEW n \in Nat, NEW m \in Nat, m * EncFrame = n
  PROVE  Framed(n) = FullFrames(m)
<1>1. FramesIn(n) = m
  BY FramesInIs
<1>2. Begins(FullFrames(m), Framed(n))
  BY <1>1, FullBegins, EncFrameIs
<1>3. /\ Framed(n) \in Seq(Pieces) /\ FullFrames(m) \in Seq(Pieces)
      /\ Len(Framed(n)) = m /\ Len(FullFrames(m)) = m
  BY <1>1, FramedIs, FullFramesIs
<1>4. \A i \in 1..m : Framed(n)[i] = FullFrames(m)[i]
  BY <1>2, <1>3 DEF Begins
<1> QED
  BY <1>3, <1>4, SeqEqual

LEMMA FramedShort ==
  ASSUME NEW n \in Nat, NEW m \in Nat, m * EncFrame < n, n < m * EncFrame + EncFrame
  PROVE  Framed(n) = FullFrames(m) \o <<FrameAt(n, m + 1)>>
<1>1. FramesIn(n) = m + 1
  BY FramesInIs
<1>2. Begins(FullFrames(m), Framed(n))
  <2>1. m * EncFrame <= n
    BY EncFrameIs, TimesIs
  <2> QED
    BY <2>1, FullBegins
<1>3. PICK s \in Seq(Pieces) : s = FullFrames(m)
  BY FullFramesIs
<1>4. PICK v \in Seq(Pieces) : v = Framed(n)
  BY FramedIs
<1>5. Len(s) = m /\ Len(v) = m + 1 /\ (\A i \in 1..m : s[i] = v[i]) /\ v[m + 1] = FrameAt(n, m + 1)
  <2>1. Len(s) = m /\ Len(v) = m + 1
    BY <1>1, <1>3, <1>4, FramedIs, FullFramesIs
  <2>2. m + 1 \in 1..m + 1
    OBVIOUS
  <2>3. v[m + 1] = FrameAt(n, m + 1)
    BY <1>1, <1>4, <2>2, FramedIs
  <2> QED
    BY <1>2, <1>3, <1>4, <2>1, <2>3 DEF Begins
<1>6. PICK x : x = FrameAt(n, m + 1)
  OBVIOUS
<1>7. x \in Pieces
  BY <1>4, <1>5, <1>6
<1>8. PICK w : w = s \o <<x>>
  OBVIOUS
<1>9. w \in Seq(Pieces) /\ Len(w) = m + 1 /\ (\A i \in 1..m : w[i] = s[i]) /\ w[m + 1] = x
  BY <1>5, <1>7, <1>8, AddsOne
<1>10. \A i \in 1..m + 1 : v[i] = w[i]
  BY <1>5, <1>6, <1>9
<1>11. v = w
  BY <1>5, <1>9, <1>10, SeqEqual
<1> QED
  BY <1>3, <1>4, <1>6, <1>8, <1>11

-----------------------------------------------------------------------------
(* The encoder's invariant.                                                *)

WholeOf(muxed, n) == (Opening(muxed) \o Framed(n)) \o Closing(muxed)

EncOpen(j) ==
  /\ j.at = "open" /\ ~j.finished
  /\ \E n \in Nat : Framing(j, n) /\ (j.valid => j.given < n * EncFrame + EncFrame)

EncShut(j) ==
  /\ j.at = "end" /\ j.finished /\ Begins(j.out, WholeOf(j.muxed, j.given))
  /\ j.ok => j.out = WholeOf(j.muxed, j.given)

EncGiven(j) == j.kind = "encode" => j \in EncStates /\ j.given <= EncInput /\ (EncOpen(j) \/ EncShut(j))

LEMMA WholeOfIs ==
  ASSUME NEW b \in BOOLEAN, NEW n \in Nat
  PROVE  /\ Opening(b) \in Seq(Pieces) /\ Closing(b) \in Seq(Pieces) /\ Framed(n) \in Seq(Pieces)
         /\ Opening(b) \o Framed(n) \in Seq(Pieces) /\ WholeOf(b, n) \in Seq(Pieces)
         /\ Begins(Opening(b) \o Framed(n), WholeOf(b, n))
<1>1. PICK u \in Seq(Pieces), v \in Seq(Pieces), w \in Seq(Pieces) :
        u = Opening(b) /\ v = Framed(n) /\ w = Closing(b)
  BY OpeningIs, FramedIs
<1>2. PICK x \in Seq(Pieces) : x = u \o v
  BY CatTyped
<1>3. x \o w \in Seq(Pieces) /\ Begins(x, x \o w)
  BY CatTyped, BeginsCat
<1> QED
  BY <1>1, <1>2, <1>3 DEF WholeOf

\* What is out begins what will have been put out.
LEMMA OutBegins ==
  ASSUME NEW j \in EncStates
  PROVE  Line(j) \in Seq(Pieces) /\ Begins(j.out, Line(j))
<1>1. PICK u \in Seq(Pieces), v \in Seq(Pieces), w \in Seq(Pieces) :
        u = j.out /\ v = j.sink /\ w = j.held
  BY DEF EncStates
<1>2. PICK x \in Seq(Pieces) : x = u \o v
  BY CatTyped
<1>3. PICK y \in Seq(Pieces) : y = x \o w
  BY CatTyped
<1>4. Begins(u, x) /\ Begins(x, y)
  BY <1>2, <1>3, BeginsCat
<1>5. Begins(u, y)
  BY <1>4, BeginsThrough
<1> QED
  BY <1>1, <1>2, <1>3, <1>5 DEF Line

LEMMA FullBeginsWhole ==
  ASSUME NEW b \in BOOLEAN, NEW n \in Nat, NEW m \in Nat, m * EncFrame <= n
  PROVE  Begins(Opening(b) \o FullFrames(m), WholeOf(b, n))
<1>1. PICK u \in Seq(Pieces), v \in Seq(Pieces), w \in Seq(Pieces), x \in Seq(Pieces) :
        u = Opening(b) /\ v = FullFrames(m) /\ w = Framed(n) /\ x = WholeOf(b, n)
  BY WholeOfIs, FullFramesIs
<1>2. Begins(v, w)
  BY <1>1, FullBegins
<1>3. PICK y \in Seq(Pieces), z \in Seq(Pieces) : y = u \o v /\ z = u \o w
  BY CatTyped
<1>4. Begins(y, z)
  BY <1>2, <1>3, CatBegins
<1>5. Begins(z, x)
  BY <1>1, <1>3, WholeOfIs
<1>6. Begins(y, x)
  BY <1>4, <1>5, BeginsThrough
<1> QED
  BY <1>1, <1>3, <1>6

LEMMA FramingBegins ==
  ASSUME NEW j \in EncStates, NEW m \in Nat, Framing(j, m), NEW n \in Nat, j.given <= n
  PROVE  Begins(j.out, WholeOf(j.muxed, n))
<1>1. j.muxed \in BOOLEAN /\ j.out \in Seq(Pieces) /\ j.given \in Nat
  BY DEF EncStates
<1>2. m * EncFrame <= n
  <2>1. m * EncFrame \in Nat
    BY EncFrameIs, TimesIs
  <2> QED
    BY <1>1, <2>1 DEF Framing
<1>3. PICK u \in Seq(Pieces), x \in Seq(Pieces) : u = Line(j) /\ x = WholeOf(j.muxed, n)
  BY <1>1, OutBegins, WholeOfIs
<1>4. u = Opening(j.muxed) \o FullFrames(m)
  BY <1>3 DEF Framing
<1>5. Begins(u, x)
  BY <1>1, <1>2, <1>3, <1>4, FullBeginsWhole
<1>6. Begins(j.out, u)
  BY <1>3, OutBegins
<1>7. Begins(j.out, x)
  BY <1>1, <1>5, <1>6, BeginsThrough
<1> QED
  BY <1>3, <1>7

LEMMA StreamStates ==
  ASSUME NEW j \in EncStates, NEW v \in BOOLEAN, NEW o \in BOOLEAN, NEW n, Framing(j, n)
  PROVE  /\ [j EXCEPT !.valid = v, !.ok = o] \in EncStates
         /\ Framing([j EXCEPT !.valid = v, !.ok = o], n)
<1>1. PICK i : i = [j EXCEPT !.valid = v, !.ok = o]
  OBVIOUS
<1>2. i \in EncStates
  BY <1>1 DEF EncStates
<1>3. /\ i.given = j.given /\ i.samples_in = j.samples_in /\ i.fifo = j.fifo /\ i.muxed = j.muxed
      /\ i.out = j.out /\ i.sink = j.sink /\ i.held = j.held
  BY <1>1 DEF EncStates
<1>4. Framing(i, n)
  BY <1>3 DEF Framing, Line
<1> QED
  BY <1>1, <1>2, <1>4

LEMMA HeaderKeeps ==
  ASSUME NEW j \in EncStates
  PROVE  /\ DrainSink(j) \in EncStates /\ SameStream(DrainSink(j), j) /\ Line(DrainSink(j)) = Line(j)
         /\ DrainSink(j).fifo = j.fifo /\ DrainSink(j).samples_in = j.samples_in
<1>1. PICK u \in Seq(Pieces), v \in Seq(Pieces), w \in Seq(Pieces) :
        u = j.out /\ v = j.sink /\ w = j.held
  BY DEF EncStates
<1>2. PICK x \in Seq(Pieces) : x = u \o v
  BY CatTyped
<1>3. PICK none \in Seq(Pieces) : none = <<>>
  BY EmptySeq
<1>4. PICK i : i = [j EXCEPT !.out = x, !.sink = none]
  OBVIOUS
<1>5. i = DrainSink(j)
  BY <1>1, <1>2, <1>3, <1>4 DEF DrainSink, EncStates
<1>6. i \in EncStates /\ SameStream(i, j) /\ i.fifo = j.fifo /\ i.samples_in = j.samples_in
  BY <1>4 DEF EncStates, SameStream
<1>7. i.out = x /\ i.sink = <<>> /\ i.held = w
  BY <1>1, <1>3, <1>4 DEF EncStates
<1>8. x \o <<>> = x
  BY ConcatEmptySeq
<1>9. Line(i) = x \o w /\ Line(j) = x \o w
  BY <1>1, <1>2, <1>7, <1>8 DEF Line
<1> QED
  BY <1>5, <1>6, <1>9

\* More samples in the queue.
MoreQueued(j, n) ==
  [j EXCEPT !.given = j.given + n, !.fifo = j.fifo \o [k \in 1..n |-> j.given + k]]

LEMMA QueuedKeeps ==
  ASSUME NEW j \in EncStates, NEW m, Framing(j, m), NEW n \in Nat, NEW i, i = MoreQueued(j, n)
  PROVE  /\ i \in EncStates /\ Framing(i, m) /\ i.given = j.given + n
         /\ i.kind = j.kind /\ i.at = j.at /\ i.muxed = j.muxed
         /\ i.valid = j.valid /\ i.finished = j.finished
<1>1. PICK a \in Nat : a = m * EncFrame
  BY EncFrameIs, TimesIs DEF Framing
<1>2. /\ a <= j.given /\ j.given \in Nat /\ j.fifo \in Seq(Nat)
      /\ j.fifo = [k \in 1..j.given - a |-> a + k] /\ m \in Nat
      /\ j.samples_in = a /\ Line(j) = Opening(j.muxed) \o FullFrames(m)
  BY <1>1 DEF Framing, EncStates
<1>3. PICK t : t = [k \in 1..n |-> j.given + k]
  OBVIOUS
<1>4. t \in Seq(Nat) /\ Len(t) = n /\ \A k \in 1..n : t[k] = j.given + k
  <2>1. t \in [1..n -> Nat]
    BY <1>2, <1>3
  <2> QED
    BY <1>3, <2>1
<1>5. PICK f \in Seq(Nat) : f = j.fifo
  BY <1>2
<1>6. PICK r \in Nat : r = j.given - a
  BY <1>2
<1>7. Len(f) = r /\ \A k \in 1..r : f[k] = a + k
  BY <1>2, <1>5, <1>6
<1>8. PICK q : q = f \o t
  OBVIOUS
<1>9. /\ q \in Seq(Nat) /\ Len(q) = r + n /\ (\A k \in 1..r : q[k] = f[k])
      /\ \A k \in 1..n : q[r + k] = t[k]
  <2>1. /\ q \in Seq(Nat) /\ Len(q) = Len(f) + Len(t)
        /\ (\A k \in 1..Len(f) : q[k] = f[k])
        /\ \A k \in 1..Len(t) : q[Len(f) + k] = t[k]
    <3>1. t \in Seq(Nat)
      BY <1>4
    <3> QED
      BY <1>8, <3>1, CatIs
  <2>2. Len(f) = r /\ Len(t) = n
    BY <1>4, <1>7
  <2> QED
    BY <2>1, <2>2
<1>10. \A k \in 1..r + n : q[k] = a + k
  <2>1. ASSUME NEW k \in 1..r + n PROVE q[k] = a + k
    <3>1. CASE k <= r
      BY <1>7, <1>9, <3>1
    <3>2. CASE k > r
      <4>1. PICK h \in 1..n : k = r + h
        <5>1. k - r \in 1..n /\ k = r + (k - r)
          BY <3>2
        <5> QED
          BY <5>1
      <4>2. q[r + h] = t[h] /\ t[h] = j.given + h
        BY <1>4, <1>9
      <4>3. j.given + h = a + (r + h)
        <5>1. PICK g \in Nat : g = j.given
          BY <1>2
        <5>2. r = g - a
          BY <1>6, <5>1
        <5>3. g + h = a + (r + h)
          BY <5>2
        <5> QED
          BY <5>1, <5>3
      <4> QED
        BY <4>1, <4>2, <4>3
    <3> QED
      BY <3>1, <3>2
  <2> QED
    BY <2>1
<1>11. q = [k \in 1..(j.given + n) - a |-> a + k]
  <2>1. (j.given + n) - a = r + n
    BY <1>2, <1>6
  <2>2. DOMAIN q = 1..r + n
    BY <1>9
  <2> QED
    BY <1>9, <1>10, <2>1, <2>2
<1>12. PICK g \in Nat : g = j.given + n
  BY <1>2
<1>13. i = [j EXCEPT !.given = g, !.fifo = q]
  BY <1>3, <1>5, <1>8, <1>12 DEF MoreQueued
<1>14. /\ i \in EncStates /\ i.given = g /\ i.fifo = q /\ i.samples_in = j.samples_in
       /\ i.kind = j.kind /\ i.at = j.at /\ i.muxed = j.muxed
       /\ i.valid = j.valid /\ i.finished = j.finished
       /\ i.out = j.out /\ i.sink = j.sink /\ i.held = j.held
  BY <1>9, <1>13 DEF EncStates
<1>15. Framing(i, m)
  <2>1. Line(i) = Line(j)
    BY <1>14 DEF Line
  <2>2. m * EncFrame <= i.given /\ i.samples_in = m * EncFrame
    BY <1>1, <1>2, <1>12, <1>14
  <2>3. i.fifo = [k \in 1..i.given - m * EncFrame |-> m * EncFrame + k]
    <3>1. i.given = j.given + n /\ i.fifo = [k \in 1..(j.given + n) - a |-> a + k]
      BY <1>11, <1>12, <1>14
    <3> QED
      BY <1>1, <3>1, Zenon
  <2>4. Line(i) = Opening(i.muxed) \o FullFrames(m)
    BY <1>2, <1>14, <2>1
  <2> QED
    BY <1>2, <2>2, <2>3, <2>4 DEF Framing
<1> QED
  BY <1>12, <1>14, <1>15

LEMMA EncodeInitGives == EncodeInit => EncGiven(job)
<1> SUFFICES ASSUME EncodeInit PROVE EncGiven(job)
  OBVIOUS
<1>1. PICK muxed \in BOOLEAN :
        job = [kind |-> "encode", at |-> "open", muxed |-> muxed, given |-> 0, fifo |-> <<>>,
               samples_in |-> 0, held |-> <<>>, sink |-> IF muxed THEN <<Header>> ELSE <<>>,
               out |-> <<>>, valid |-> TRUE, finished |-> FALSE, ok |-> TRUE]
  BY DEF EncodeInit
<1>2. PICK none \in Seq(Pieces) : none = <<>>
  BY EmptySeq
<1>3. PICK head \in Seq(Pieces) : head = Opening(muxed)
  BY OpeningIs
<1>4. <<>> \in Seq(Nat)
  BY EmptySeq
<1>5. job = [kind |-> "encode", at |-> "open", muxed |-> muxed, given |-> 0, fifo |-> <<>>,
             samples_in |-> 0, held |-> none, sink |-> head,
             out |-> none, valid |-> TRUE, finished |-> FALSE, ok |-> TRUE]
  BY <1>1, <1>2, <1>3 DEF Opening
<1>6. job \in EncStates
  BY <1>4, <1>5 DEF EncStates
<1>7. Framing(job, 0)
  <2>1. 0 * EncFrame = 0
    BY EncFrameIs
  <2>2. job.fifo = [k \in 1..0 - 0 |-> 0 + k]
    <3>1. job.fifo = <<>>
      BY <1>5
    <3>2. [k \in 1..0 - 0 |-> 0 + k] = <<>>
      OBVIOUS
    <3> QED
      BY <3>1, <3>2
  <2>3. Line(job) = head
    <3>1. Line(job) = (none \o head) \o none
      BY <1>5 DEF Line
    <3> QED
      BY <1>2, <3>1, ConcatEmptySeq
  <2>4. FullFrames(0) = <<>>
    BY FullFramesIs, EmptySeq
  <2>5. Line(job) = Opening(job.muxed) \o FullFrames(0)
    <3>1. job.muxed = muxed
      BY <1>5
    <3>2. head \o <<>> = head
      BY ConcatEmptySeq
    <3> QED
      BY <1>3, <2>3, <2>4, <3>1, <3>2
  <2>6. job.given = 0 /\ job.samples_in = 0
    BY <1>5
  <2> QED
    BY <2>1, <2>2, <2>5, <2>6 DEF Framing
<1>8. EncOpen(job)
  <2>1. job.given < 0 * EncFrame + EncFrame
    BY <1>5, EncFrameIs
  <2>2. 0 \in Nat /\ job.at = "open" /\ ~job.finished
    BY <1>5
  <2> QED
    BY <1>7, <2>1, <2>2 DEF EncOpen
<1> QED
  BY <1>5, <1>6, <1>8, StreamEncoderAssumption DEF EncGiven

LEMMA PushGives == EncGiven(job) /\ EncodePush => EncGiven(job') /\ job'.kind = "encode"
<1> SUFFICES ASSUME EncGiven(job), EncodePush PROVE EncGiven(job') /\ job'.kind = "encode"
  OBVIOUS
<1>1. job.kind = "encode" /\ job.at = "open" /\ job \in EncStates
  BY DEF EncodePush, Kind, EncGiven
<1>2. EncOpen(job) /\ job.given <= EncInput
  BY <1>1 DEF EncGiven, EncShut
<1>3. PICK m \in Nat : Framing(job, m) /\ (job.valid => job.given < m * EncFrame + EncFrame)
  BY <1>2 DEF EncOpen
<1>4. ~job.finished
  BY <1>2 DEF EncOpen
<1> DEFINE header == DrainSink(job)
           queued(n) == [header EXCEPT !.given = @ + n, !.fifo = @ \o [k \in 1..n |-> job.given + k]]
           whole(n) == Len(queued(n).fifo) \div EncFrame
<1>5. PICK n \in EncChunks :
        /\ job.given + n <= EncInput
        /\ \/ ~job.valid /\ job' = [job EXCEPT !.ok = FALSE]
           \/ job.valid /\ n = 0 /\ job' = [header EXCEPT !.ok = TRUE]
           \/ job.valid /\ n > 0
              /\ job' \in {[j EXCEPT !.ok = TRUE] : j \in EncodeFrames(queued(n), whole(n))}
           \/ /\ job.valid /\ n > 0
              /\ job' \in {Invalid(j) : j \in UNION {EncodeFrames(queued(n), k) : k \in 0..whole(n)}}
  BY DEF EncodePush
<1>6. n \in Nat
  BY StreamEncoderAssumption
<1>7. /\ header \in EncStates /\ SameStream(header, job) /\ Line(header) = Line(job)
      /\ header.fifo = job.fifo /\ header.samples_in = job.samples_in
  BY <1>1, HeaderKeeps
<1>8. Framing(header, m)
  <2> HIDE DEF header
  <2>1. header.given = job.given /\ header.muxed = job.muxed
    BY <1>7 DEF SameStream
  <2> QED
    BY <1>3, <1>7, <2>1 DEF Framing
<1>9. PICK q : q = queued(n)
  OBVIOUS
<1>10. PICK w : w = whole(n)
  OBVIOUS
<1>11. /\ q \in EncStates /\ Framing(q, m) /\ q.given = job.given + n
       /\ q.kind = "encode" /\ q.at = "open" /\ q.muxed = job.muxed
       /\ q.valid = job.valid /\ q.finished = job.finished
  <2>1. PICK h \in EncStates : h = header
    BY <1>7
  <2>2. q = MoreQueued(h, n)
    <3>1. h.given = job.given
      BY <1>7, <2>1, Zenon DEF SameStream
    <3>2. queued(n) = [h EXCEPT !.given = h.given + n, !.fifo = h.fifo \o [k \in 1..n |-> job.given + k]]
      BY <2>1
    <3> HIDE DEF queued
    <3> QED
      BY <1>9, <3>1, <3>2, Zenon DEF MoreQueued
  <2> HIDE DEF header, queued, whole
  <2>3. Framing(h, m)
    BY <1>8, <2>1
  <2>4. /\ q \in EncStates /\ Framing(q, m) /\ q.given = h.given + n
        /\ q.kind = h.kind /\ q.at = h.at /\ q.muxed = h.muxed
        /\ q.valid = h.valid /\ q.finished = h.finished
    BY <1>3, <1>6, <2>2, <2>3, QueuedKeeps
  <2> QED
    BY <1>1, <1>7, <2>1, <2>4 DEF SameStream
<1>12. w = Len(q.fifo) \div EncFrame
  BY <1>9, <1>10
<1> HIDE DEF header, queued, whole
<1>13. Len(q.fifo) = q.given - m * EncFrame /\ Len(q.fifo) \in Nat
  <2>1. q.fifo \in Seq(Nat)
    BY <1>11 DEF EncStates
  <2> QED
    BY <1>11, <2>1, FramingLen
<1>14. w \in Nat /\ w * EncFrame <= Len(q.fifo) /\ Len(q.fifo) < w * EncFrame + EncFrame
  BY <1>12, <1>13, EncFrameIs, DivBounds
<1>15. job.given \in Nat /\ q.given \in Nat
  BY <1>1, <1>11 DEF EncStates
<1>16. \A k \in 0..w : k * EncFrame <= Len(q.fifo)
  <2>1. ASSUME NEW k \in 0..w PROVE k * EncFrame <= Len(q.fifo)
    <3>1. PICK e \in Nat \ {0} : e = EncFrame
      BY EncFrameIs
    <3>2. k * e <= w * e /\ k * e \in Nat /\ w * e \in Nat
      BY <1>14, <3>1, SMT
    <3> QED
      BY <1>13, <1>14, <3>1, <3>2
  <2> QED
    BY <2>1
<1>17. ASSUME NEW k \in 0..w, NEW j \in EncodeFrames(q, k)
       PROVE  /\ j \in EncStates /\ Framing(j, m + k) /\ j.kind = "encode" /\ j.at = "open"
              /\ ~j.finished /\ j.given = q.given
  <2>1. k \in Nat /\ k * EncFrame <= Len(q.fifo)
    BY <1>14, <1>16
  <2>2. j \in EncStates /\ SameStream(j, q) /\ Framing(j, m + k)
    BY <1>3, <1>11, <2>1, EncodeFramesKeep
  <2> QED
    BY <1>4, <1>11, <2>2 DEF SameStream
<1>18. q.given < (m + w) * EncFrame + EncFrame
  <2>1. PICK e \in Nat \ {0} : e = EncFrame
    BY EncFrameIs
  <2>2. (m + w) * e = m * e + w * e /\ m * e \in Nat /\ w * e \in Nat
    BY <1>14, <2>1, SMT
  <2>3. PICK x \in Nat, y \in Nat : x = m * e /\ y = w * e
    BY <2>2
  <2>4. q.given - x < y + e /\ (m + w) * e = x + y
    BY <1>13, <1>14, <2>1, <2>2, <2>3
  <2> QED
    BY <1>15, <2>1, <2>4
\* What is open stays so.
<1>19. ASSUME NEW j \in EncStates, NEW k \in Nat, Framing(j, k), j.kind = "encode", j.at = "open",
              ~j.finished, j.given <= EncInput, NEW v \in BOOLEAN, NEW o \in BOOLEAN,
              v => j.given < k * EncFrame + EncFrame, job' = [j EXCEPT !.valid = v, !.ok = o]
       PROVE  EncGiven(job') /\ job'.kind = "encode"
  <2>1. PICK i : i = [j EXCEPT !.valid = v, !.ok = o]
    OBVIOUS
  <2>2. i \in EncStates /\ Framing(i, k)
    BY <1>19, <2>1, StreamStates
  <2>3. i.at = "open" /\ ~i.finished /\ i.given = j.given /\ i.valid = v /\ i.kind = "encode"
    BY <1>19, <2>1 DEF EncStates
  <2>4. EncOpen(i)
    BY <1>19, <2>2, <2>3 DEF EncOpen
  <2> QED
    BY <1>19, <2>1, <2>2, <2>3, <2>4 DEF EncGiven
<1>20. CASE ~job.valid /\ job' = [job EXCEPT !.ok = FALSE]
  <2>1. job' = [job EXCEPT !.valid = FALSE, !.ok = FALSE]
    BY <1>1, <1>20 DEF EncStates
  <2> QED
    BY <1>1, <1>2, <1>3, <1>4, <1>19, <2>1
<1>21. CASE job.valid /\ n = 0 /\ job' = [header EXCEPT !.ok = TRUE]
  <2>1. /\ header.valid = TRUE /\ header.given = job.given /\ header.kind = "encode"
        /\ header.at = "open" /\ ~header.finished
    BY <1>1, <1>4, <1>7, <1>21 DEF SameStream, EncStates
  <2>2. job' = [header EXCEPT !.valid = TRUE, !.ok = TRUE]
    BY <1>7, <1>21, <2>1 DEF EncStates
  <2> QED
    BY <1>2, <1>3, <1>7, <1>8, <1>19, <1>21, <2>1, <2>2
<1>22. CASE job.valid /\ n > 0
            /\ job' \in {[j EXCEPT !.ok = TRUE] : j \in EncodeFrames(queued(n), whole(n))}
  <2>1. PICK j \in EncodeFrames(q, w) : job' = [j EXCEPT !.ok = TRUE]
    BY <1>9, <1>10, <1>22
  <2>2. w \in 0..w
    BY <1>14
  <2>3. /\ j \in EncStates /\ Framing(j, m + w) /\ j.kind = "encode" /\ j.at = "open"
        /\ ~j.finished /\ j.given = q.given
    BY <1>17, <2>2
  <2>4. m + w \in Nat /\ j.valid \in BOOLEAN /\ j.given <= EncInput
    BY <1>5, <1>11, <1>14, <2>3 DEF EncStates
  <2>5. job' = [j EXCEPT !.valid = j.valid, !.ok = TRUE]
    BY <2>1, <2>3 DEF EncStates
  <2>6. j.given < (m + w) * EncFrame + EncFrame
    BY <1>18, <2>3
  <2> QED
    BY <1>19, <2>3, <2>4, <2>5, <2>6
<1>23. CASE /\ job.valid /\ n > 0
            /\ job' \in {Invalid(j) : j \in UNION {EncodeFrames(queued(n), k) : k \in 0..whole(n)}}
  <2>0. PICK k \in 0..w : \E j \in EncodeFrames(q, k) : job' = Invalid(j)
    BY <1>9, <1>10, <1>23
  <2>1. PICK j \in EncodeFrames(q, k) : job' = Invalid(j)
    BY <2>0
  <2>2. /\ j \in EncStates /\ Framing(j, m + k) /\ j.kind = "encode" /\ j.at = "open"
        /\ ~j.finished /\ j.given = q.given
    BY <1>17
  <2>3. m + k \in Nat /\ j.given <= EncInput
    BY <1>5, <1>11, <1>14, <2>2
  <2>4. job' = [j EXCEPT !.valid = FALSE, !.ok = FALSE]
    BY <2>1 DEF Invalid
  <2> QED
    BY <1>19, <2>2, <2>3, <2>4
<1> QED
  BY <1>5, <1>20, <1>21, <1>22, <1>23

\* The last frame, the short one where the input ends in one.
LEMMA LastLine ==
  ASSUME NEW j \in EncStates, NEW m \in Nat, Framing(j, m), j.given < m * EncFrame + EncFrame,
         NEW i, i = IF j.fifo = <<>> THEN j ELSE SentFrame(j)
  PROVE  i \in EncStates /\ SameStream(i, j) /\ Line(i) = Opening(j.muxed) \o Framed(j.given)
<1>1. PICK a \in Nat : a = m * EncFrame
  BY EncFrameIs, TimesIs
<1>2. PICK g \in Nat : g = j.given
  BY DEF EncStates
<1>3. PICK e \in Nat \ {0} : e = EncFrame
  BY EncFrameIs
<1>4. PICK f \in Seq(Nat) : f = j.fifo
  BY DEF EncStates
<1>5. /\ a <= g /\ g < a + e /\ f = [k \in 1..g - a |-> a + k] /\ j.samples_in = a
      /\ Line(j) = Opening(j.muxed) \o FullFrames(m)
  BY <1>1, <1>2, <1>3, <1>4 DEF Framing
<1>6. Len(f) = g - a
  BY <1>1, <1>2, <1>4, FramingLen
<1>7. CASE f = <<>>
  <2>1. i = j /\ a = g
    BY <1>4, <1>5, <1>6, <1>7
  <2>2. Framed(g) = FullFrames(m)
    BY <1>1, <2>1, FramedWhole
  <2> QED
    BY <1>2, <1>5, <2>1, <2>2 DEF SameStream
<1>8. CASE f # <<>>
  <2>1. i = SentFrame(j) /\ a < g
    BY <1>4, <1>5, <1>6, <1>8
  <2>2. i \in EncStates /\ SameStream(i, j) /\ Line(i) = Line(j) \o <<FrameOf(j)>>
    BY <2>1, SentLine
  <2>3. Framed(g) = FullFrames(m) \o <<FrameAt(g, m + 1)>>
    BY <1>1, <1>3, <1>5, <2>1, FramedShort
  <2>4. FrameOf(j) = FrameAt(g, m + 1)
    <3>1. ASSUME NEW k \in 1..e
          PROVE  (IF k <= Len(f) THEN f[k] ELSE Silent) = (IF a + k <= g THEN a + k ELSE Silent)
      <4>1. CASE a + k <= g
        <5>1. k \in 1..g - a
          BY <1>5, <4>1
        <5> QED
          BY <1>5, <1>6, <4>1, <5>1
      <4>2. CASE ~(a + k <= g)
        BY <1>5, <1>6, <4>2
      <4> QED
        BY <4>1, <4>2
    <3>2. FrameOf(j) = [pts |-> a, of |-> [k \in 1..e |-> IF k <= Len(f) THEN f[k] ELSE Silent]]
      BY <1>3, <1>4, <1>5 DEF FrameOf
    <3>3. (m + 1) - 1 = m
      OBVIOUS
    <3>4. FrameAt(g, m + 1) = [pts |-> a, of |-> [k \in 1..e |-> IF a + k <= g THEN a + k ELSE Silent]]
      BY <1>1, <1>3, <3>3 DEF FrameAt
    <3>5. [k \in 1..e |-> IF k <= Len(f) THEN f[k] ELSE Silent]
          = [k \in 1..e |-> IF a + k <= g THEN a + k ELSE Silent]
      BY <3>1
    <3> QED
      BY <3>2, <3>4, <3>5
  <2>5. PICK u \in Seq(Pieces), v \in Seq(Pieces), x \in Pieces :
          u = Opening(j.muxed) /\ v = FullFrames(m) /\ x = FrameOf(j)
    <3>1. Opening(j.muxed) \in Seq(Pieces)
      BY OpeningIs DEF EncStates
    <3> QED
      BY <3>1, FullFramesIs, SentLine
  <2>6. (u \o v) \o <<x>> = u \o (v \o <<x>>)
    <3>1. <<x>> \in Seq(Pieces)
      OBVIOUS
    <3> QED
      BY <3>1, CatThree
  <2> QED
    BY <1>2, <1>5, <2>2, <2>3, <2>4, <2>5, <2>6
<1> QED
  BY <1>7, <1>8

LEMMA FinishGives == EncGiven(job) /\ EncodeFinish => EncGiven(job') /\ job'.kind = "encode"
<1> SUFFICES ASSUME EncGiven(job), EncodeFinish PROVE EncGiven(job') /\ job'.kind = "encode"
  OBVIOUS
<1>1. job.kind = "encode" /\ job.at = "open" /\ job \in EncStates
  BY DEF EncodeFinish, Kind, EncGiven
<1>2. EncOpen(job) /\ job.given <= EncInput
  BY <1>1 DEF EncGiven, EncShut
<1>3. PICK m \in Nat : Framing(job, m) /\ (job.valid => job.given < m * EncFrame + EncFrame)
  BY <1>2 DEF EncOpen
<1>4. PICK g \in Nat, b \in BOOLEAN : g = job.given /\ b = job.muxed
  BY <1>1 DEF EncStates
<1>5. PICK last : last = IF job.fifo = <<>> THEN job ELSE SentFrame(job)
  OBVIOUS
<1> DEFINE done == [DrainSink(last) EXCEPT
                      !.out = @ \o last.held \o IF job.muxed THEN <<Trailer>> ELSE <<>>, !.held = <<>>]
<1>6. PICK j : /\ job' = [j EXCEPT !.at = "end", !.finished = TRUE]
               /\ \/ job.valid /\ j = [done EXCEPT !.ok = TRUE]
                  \/ job.valid /\ \E i \in Drained(last) : j = [i EXCEPT !.ok = FALSE]
                  \/ ~job.valid /\ j = [job EXCEPT !.ok = FALSE]
  <2> DEFINE ends == IF job.valid THEN {[done EXCEPT !.ok = TRUE]}
                                      \cup {[i EXCEPT !.ok = FALSE] : i \in Drained(last)}
                     ELSE {[job EXCEPT !.ok = FALSE]}
  <2>1. job' \in {[j EXCEPT !.at = "end", !.finished = TRUE] : j \in ends}
    BY <1>5 DEF EncodeFinish
  <2> HIDE DEF done, ends
  <2>2. PICK j \in ends : job' = [j EXCEPT !.at = "end", !.finished = TRUE]
    BY <2>1
  <2>3. \/ job.valid /\ j = [done EXCEPT !.ok = TRUE]
        \/ job.valid /\ \E i \in Drained(last) : j = [i EXCEPT !.ok = FALSE]
        \/ ~job.valid /\ j = [job EXCEPT !.ok = FALSE]
    BY <2>2 DEF ends
  <2> QED
    BY <2>2, <2>3
\* What has ended with a beginning of the whole, and with all of it after a success.
<1>7. ASSUME j \in EncStates, j.kind = "encode", j.given = g, j.muxed = b,
             Begins(j.out, WholeOf(b, g)), j.ok => j.out = WholeOf(b, g)
      PROVE  EncGiven(job') /\ job'.kind = "encode"
  <2>1. PICK i : i = [j EXCEPT !.at = "end", !.finished = TRUE]
    OBVIOUS
  <2>2. /\ i \in EncStates /\ i.at = "end" /\ i.finished /\ i.given = g /\ i.muxed = b
        /\ i.out = j.out /\ i.ok = j.ok /\ i.kind = "encode"
    BY <1>7, <2>1 DEF EncStates
  <2>3. EncShut(i)
    BY <1>7, <2>2 DEF EncShut
  <2> QED
    BY <1>2, <1>4, <1>6, <2>1, <2>2, <2>3 DEF EncGiven
<1>8. ASSUME NEW i \in EncStates, SameStream(i, job), Begins(i.out, WholeOf(b, g)),
             j = [i EXCEPT !.ok = FALSE]
      PROVE  EncGiven(job') /\ job'.kind = "encode"
  <2>1. /\ j \in EncStates /\ j.kind = "encode" /\ j.given = g /\ j.muxed = b /\ j.out = i.out
        /\ j.ok = FALSE
    BY <1>1, <1>4, <1>8 DEF EncStates, SameStream
  <2> QED
    BY <1>7, <1>8, <2>1
<1>9. CASE ~job.valid /\ j = [job EXCEPT !.ok = FALSE]
  <2>1. Begins(job.out, WholeOf(b, g))
    BY <1>1, <1>3, <1>4, FramingBegins
  <2> QED
    BY <1>1, <1>8, <1>9, <2>1 DEF SameStream
<1>10. CASE job.valid
  <2>1. last \in EncStates /\ SameStream(last, job) /\ Line(last) = Opening(b) \o Framed(g)
    BY <1>1, <1>3, <1>4, <1>5, <1>10, LastLine
  <2>2. PICK x \in Seq(Pieces) : x = Line(last)
    BY <2>1, OutBegins
  <2>3. PICK y \in Seq(Pieces) : y = WholeOf(b, g)
    BY WholeOfIs
  <2>4. Begins(x, y)
    BY <2>1, <2>2, <2>3, WholeOfIs
  <2>5. CASE \E i \in Drained(last) : j = [i EXCEPT !.ok = FALSE]
    <3>1. PICK i \in Drained(last) : j = [i EXCEPT !.ok = FALSE]
      BY <2>5
    <3>2. i \in EncStates /\ SameStream(i, last) /\ Line(i) = x
      BY <2>1, <2>2, DrainedKeeps
    <3>3. i.out \in Seq(Pieces) /\ Begins(i.out, x)
      <4>1. i.out \in Seq(Pieces)
        BY <3>2 DEF EncStates
      <4> QED
        BY <3>2, <4>1, OutBegins
    <3>4. Begins(i.out, y)
      BY <2>4, <3>3, BeginsThrough
    <3>5. SameStream(i, job)
      BY <2>1, <3>2 DEF SameStream
    <3> QED
      BY <1>8, <2>3, <3>1, <3>2, <3>4, <3>5
  <2>6. CASE j = [done EXCEPT !.ok = TRUE]
    <3>1. PICK s : s = DrainSink(last)
      OBVIOUS
    <3>2. s \in EncStates /\ SameStream(s, last) /\ Line(s) = x
      BY <2>1, <2>2, <3>1, HeaderKeeps
    <3>3. PICK h \in Seq(Pieces) : h = last.held
      BY <2>1 DEF EncStates
    <3>4. PICK o \in Seq(Pieces) : o = s.out
      BY <3>2 DEF EncStates
    <3>5. PICK z \in Seq(Pieces) : z = o \o h
      BY CatTyped
    <3>6. z = x
      <4>1. DrainSink(last).out = last.out \o last.sink
        BY <2>1 DEF DrainSink, EncStates
      <4> QED
        BY <2>2, <3>1, <3>3, <3>4, <3>5, <4>1 DEF Line
    <3>7. z \o Closing(b) = y
      BY <2>1, <2>2, <2>3, <3>6 DEF WholeOf
    <3>8. PICK none \in Seq(Pieces) : none = <<>>
      BY EmptySeq
    <3>9. done = [s EXCEPT !.out = y, !.held = none]
      <4>1. Closing(b) = IF job.muxed THEN <<Trailer>> ELSE <<>>
        BY <1>4 DEF Closing
      <4>2. done = [s EXCEPT !.out = (s.out \o last.held) \o Closing(b), !.held = <<>>]
        BY <3>1, <3>2, <4>1 DEF EncStates
      <4> HIDE DEF done
      <4> QED
        BY <3>3, <3>4, <3>5, <3>7, <3>8, <4>2
    <3> HIDE DEF done
    <3>10. j = [s EXCEPT !.out = y, !.held = none, !.ok = TRUE]
      BY <2>6, <3>2, <3>9 DEF EncStates
    <3>11. j \in EncStates /\ j.kind = s.kind /\ j.given = s.given /\ j.muxed = s.muxed /\ j.out = y
      BY <3>2, <3>10 DEF EncStates
    <3>12. j.kind = "encode" /\ j.given = g /\ j.muxed = b
      BY <1>1, <1>4, <2>1, <3>2, <3>11 DEF SameStream
    <3>13. Begins(y, y)
      BY DEF Begins
    <3> QED
      BY <1>7, <2>3, <3>11, <3>12, <3>13
  <2> HIDE DEF done
  <2> QED
    BY <1>6, <1>10, <2>5, <2>6
<1> HIDE DEF done
<1> QED
  BY <1>6, <1>9, <1>10

LEMMA GivenFaithful == EncGiven(job) => EncodedFaithful
<1> SUFFICES ASSUME EncGiven(job), job.kind = "encode"
             PROVE  /\ IsPrefix(job.out,
                       Whole([job EXCEPT !.given = IF job.finished THEN @ ELSE EncInput + EncFrame]))
                    /\ job.finished /\ job.ok => job.out = Whole(job)
  BY DEF EncodedFaithful, Kind
<1>1. job \in EncStates /\ job.given <= EncInput /\ (EncOpen(job) \/ EncShut(job))
  BY DEF EncGiven
<1>2. PICK g \in Nat, b \in BOOLEAN, o \in Seq(Pieces) : g = job.given /\ b = job.muxed /\ o = job.out
  BY <1>1 DEF EncStates
<1>3. ASSUME NEW i, i.muxed = b PROVE Whole(i) = WholeOf(b, i.given)
  BY <1>3 DEF Whole, WholeOf, Opening, Closing
<1>4. PICK n : n = IF job.finished THEN g ELSE EncInput + EncFrame
  OBVIOUS
<1>5. PICK i : i = [job EXCEPT !.given = IF job.finished THEN @ ELSE EncInput + EncFrame]
  OBVIOUS
<1>6. i.muxed = b /\ i.given = n
  BY <1>1, <1>2, <1>4, <1>5 DEF EncStates
<1>7. Whole(i) = WholeOf(b, n) /\ Whole(job) = WholeOf(b, g)
  BY <1>2, <1>3, <1>6
<1>8. CASE EncShut(job)
  <2>1. job.finished /\ n = g /\ Begins(o, WholeOf(b, g)) /\ (job.ok => o = WholeOf(b, g))
    BY <1>2, <1>4, <1>8 DEF EncShut
  <2>2. IsPrefix(o, WholeOf(b, g))
    BY <2>1, WholeOfIs, BeginsIsPrefix
  <2> QED
    BY <1>2, <1>5, <1>7, <2>1, <2>2
<1>9. CASE EncOpen(job)
  <2>1. ~job.finished /\ n = EncInput + EncFrame /\ n \in Nat /\ g <= n
    BY <1>1, <1>2, <1>4, <1>9, StreamEncoderAssumption DEF EncOpen
  <2>2. PICK m \in Nat : Framing(job, m)
    BY <1>9 DEF EncOpen
  <2>3. Begins(o, WholeOf(b, n))
    BY <1>1, <1>2, <2>1, <2>2, FramingBegins
  <2>4. IsPrefix(o, WholeOf(b, n))
    BY <2>1, <2>3, WholeOfIs, BeginsIsPrefix
  <2> QED
    BY <1>2, <1>5, <1>7, <2>1, <2>4
<1> QED
  BY <1>1, <1>8, <1>9
-----------------------------------------------------------------------------
(* The stretcher (TimeStretch): what its buffer holds, and where windows   *)
(* are due.                                                                *)

LEMMA HighestIs ==
  ASSUME NEW a \in Int, NEW b \in Int
  PROVE  Highest(a, b) = IF a >= b THEN a ELSE b
<1>1. PICK c \in {a, b} : \A y \in {a, b} : c >= y
  <2>1. a >= b \/ b >= a
    OBVIOUS
  <2> QED
    BY <2>1
<1>2. Highest(a, b) \in {a, b} /\ \A y \in {a, b} : Highest(a, b) >= y
  BY <1>1 DEF Highest, Max
<1> QED
  BY <1>2

LEMMA LowestIs ==
  ASSUME NEW a \in Int, NEW b \in Int
  PROVE  Lowest(a, b) = IF a <= b THEN a ELSE b
<1>1. PICK c \in {a, b} : \A y \in {a, b} : c <= y
  <2>1. a <= b \/ b <= a
    OBVIOUS
  <2> QED
    BY <2>1
<1>2. Lowest(a, b) \in {a, b} /\ \A y \in {a, b} : Lowest(a, b) <= y
  BY <1>1 DEF Lowest, Min
<1> QED
  BY <1>2

LEMMA RoundedIs ==
  ASSUME NEW n \in Nat, NEW d \in Nat \ {0}
  PROVE  /\ Rounded(n, d) \in Nat
         /\ Rounded(n, d) * (2 * d) <= 2 * n + d
         /\ 2 * n + d < Rounded(n, d) * (2 * d) + 2 * d
<1>1. PICK a \in Nat, s \in Nat \ {0} : a = 2 * n + d /\ s = 2 * d
  OBVIOUS
<1>2. Rounded(n, d) = a \div s
  BY <1>1 DEF Rounded
<1>3. a \div s \in Nat /\ (a \div s) * s <= a /\ a < (a \div s) * s + s
  BY DivBounds
<1> QED
  BY <1>1, <1>2, <1>3

\* A quotient is as great as any number whose multiple the dividend holds.
LEMMA QuotientHolds ==
  ASSUME NEW q \in Nat, NEW s \in Nat \ {0}, NEW a \in Nat, a < q * s + s,
         NEW r \in Nat, r * s <= a
  PROVE  r <= q
<1> SUFFICES ASSUME q + 1 <= r PROVE FALSE
  OBVIOUS
<1>1. (q + 1) * s <= r * s /\ (q + 1) * s = q * s + s /\ q * s \in Nat /\ r * s \in Nat
  BY SMT
<1> QED
  BY <1>1

LEMMA RoundedGrows ==
  ASSUME NEW n \in Nat, NEW m \in Nat, n <= m, NEW d \in Nat \ {0}
  PROVE  Rounded(n, d) <= Rounded(m, d)
<1>1. PICK q \in Nat, r \in Nat : q = Rounded(n, d) /\ r = Rounded(m, d)
  BY RoundedIs
<1>2. q * (2 * d) <= 2 * n + d /\ 2 * m + d < r * (2 * d) + 2 * d
  BY <1>1, RoundedIs
<1>3. PICK s \in Nat \ {0} : s = 2 * d
  OBVIOUS
<1>4. PICK x \in Nat : x = q * s
  BY <1>3, TimesIs
<1>5. 2 * m + d \in Nat /\ q * s <= 2 * m + d /\ 2 * m + d < r * s + s
  BY <1>2, <1>3, <1>4
<1> QED
  BY <1>1, <1>5, QuotientHolds

\* Numbers that are heard: samples that were in the buffer.
Heard == Int \ {Missing}

StretchStates ==
  [kind : {"stretch"}, at : {"push", "end"}, speed : StretchSpeeds, sound : StretchSounds,
   given : Nat, buf : Seq(Int), base : Nat, windows : Nat, prev : Int, flushing : BOOLEAN,
   acc : Seq(Seq(Heard)), out : Seq(Seq(Heard)), pushed : Nat]

LEMMA StretchConstants ==
  /\ StretchHop \in Nat \ {0} /\ StretchReach \in Nat \ {0} /\ StretchStride \in Nat \ {0}
  /\ StretchDead \in Nat \ {0}
  /\ StretchWindow \in Nat \ {0} /\ StretchWindow = StretchHop + StretchHop
  BY TimeStretchAssumption DEF StretchWindow

LEMMA SpeedIs ==
  ASSUME NEW j \in StretchStates
  PROVE  j.speed[1] \in Nat \ {0} /\ j.speed[2] \in Nat \ {0} /\ j.sound \in Seq(Int)
  BY TimeStretchAssumption DEF StretchStates

\* Where the w-th window is due; its numerator.
DuePlace(w, speed) == Rounded(w * StretchHop * speed[1], speed[2])

LEMMA DueIs ==
  ASSUME NEW j \in StretchStates
  PROVE  Due(j) = DuePlace(j.windows, j.speed) /\ Due(j) \in Nat
<1>1. j.windows \in Nat
  BY DEF StretchStates
<1>2. j.windows * StretchHop * j.speed[1] \in Nat
  BY <1>1, SpeedIs, StretchConstants, TimesIs
<1> QED
  BY <1>2, SpeedIs, RoundedIs DEF Due, DuePlace

LEMMA DueGrows ==
  ASSUME NEW w \in Nat, NEW speed \in StretchSpeeds
  PROVE  DuePlace(w, speed) \in Nat /\ DuePlace(w, speed) <= DuePlace(w + 1, speed)
<1>1. PICK n \in Nat \ {0}, d \in Nat \ {0}, h \in Nat \ {0} :
        n = speed[1] /\ d = speed[2] /\ h = StretchHop
  BY TimeStretchAssumption
<1>2. (w + 1) * h = w * h + h /\ w * h \in Nat
  BY NextTimes
<1>3. PICK x \in Nat, y \in Nat : x = w * h /\ y = (w + 1) * h
  BY <1>2
<1>4. x <= y
  BY <1>2, <1>3
<1>5. x * n <= y * n /\ x * n \in Nat /\ y * n \in Nat
  BY <1>4, SMT
<1>6. Rounded(x * n, d) <= Rounded(y * n, d) /\ Rounded(x * n, d) \in Nat
  BY <1>5, RoundedGrows, RoundedIs
<1> QED
  BY <1>1, <1>3, <1>6 DEF DuePlace

\* The sample at place x of an input of g samples and its padding.
Content(g, x) == IF x < g THEN x + 1 ELSE Silence
Through(j) == j.given + (IF j.flushing THEN StretchWindow + 2 * StretchReach ELSE 0)

Held(j) == \A x \in j.base..Through(j) - 1 : j.buf[x + 1 - j.base] = Content(j.given, x)

\* The buffer holds the end of the input, from no later than the next
\* window and the comparison with the one before need it.
Buffered(j) ==
  /\ j \in StretchStates /\ j.base + Len(j.buf) = Through(j) /\ Held(j)
  /\ j.base = 0 \/ j.base <= Due(j) - StretchReach
  /\ (j.windows = 0 /\ j.prev = -1) \/ (j.windows > 0 /\ j.prev \in Nat)
  /\ j.prev >= 0 => /\ j.base <= j.prev + StretchHop
                    /\ j.prev + StretchWindow <= Through(j)
  /\ Len(j.acc) = StretchWindow /\ Len(j.out) = j.windows * StretchHop

\* The first place a window may be taken at.
Earliest(j) == IF Due(j) <= StretchReach THEN 0 ELSE Due(j) - StretchReach
Latest(j) == IF Due(j) + StretchReach <= Through(j) - StretchWindow THEN Due(j) + StretchReach
           ELSE Through(j) - StretchWindow

LEMMA ThroughIs ==
  ASSUME NEW j \in StretchStates
  PROVE  /\ Through(j) \in Nat /\ j.given <= Through(j)
         /\ ~j.flushing => Through(j) = j.given
         /\ j.flushing => Through(j) = j.given + StretchWindow + 2 * StretchReach
<1>1. j.given \in Nat /\ j.flushing \in BOOLEAN
  BY DEF StretchStates
<1> QED
  BY <1>1, StretchConstants DEF Through

LEMMA NearIs ==
  ASSUME NEW j, Buffered(j)
  PROVE  /\ Near(j) = [lo |-> Earliest(j), hi |-> Latest(j)]
         /\ Earliest(j) \in Nat /\ Latest(j) \in Int /\ j.base <= Earliest(j)
         /\ Latest(j) <= Due(j) + StretchReach /\ Latest(j) + StretchWindow <= Through(j)
<1>1. j \in StretchStates /\ j.base \in Nat /\ (j.base = 0 \/ j.base <= Due(j) - StretchReach)
  BY DEF Buffered, StretchStates
<1>2. PICK d \in Nat : d = Due(j)
  BY <1>1, DueIs
<1>3. PICK e \in Nat : e = Through(j)
  BY <1>1, ThroughIs
<1>4. BufEnd(j) = e
  BY <1>3 DEF Buffered, BufEnd
<1>5. PICK r \in Nat \ {0}, w \in Nat \ {0} : r = StretchReach /\ w = StretchWindow
  BY StretchConstants
<1>6. PICK b \in Nat : b = j.base /\ (b = 0 \/ b <= d - r)
  BY <1>1, <1>2, <1>5
<1>7. Highest(d - r, b) = Earliest(j) /\ Earliest(j) \in Nat /\ b <= Earliest(j)
  BY <1>2, <1>5, <1>6, HighestIs DEF Earliest
<1>8. Lowest(d + r, e - w) = Latest(j) /\ Latest(j) \in Int /\ Latest(j) <= d + r /\ Latest(j) + w <= e
  BY <1>2, <1>3, <1>5, LowestIs DEF Latest
<1> QED
  BY <1>2, <1>3, <1>4, <1>5, <1>6, <1>7, <1>8 DEF Near

LEMMA FitsIs ==
  ASSUME NEW j, Buffered(j)
  PROVE  Fits(j) <=> /\ j.flushing \/ j.prev < 0 \/ Due(j) + StretchReach + StretchWindow <= Through(j)
                     /\ Earliest(j) <= Latest(j)
<1>1. BufEnd(j) = Through(j)
  BY DEF Buffered, BufEnd
<1>2. Near(j).lo = Earliest(j) /\ Near(j).hi = Latest(j)
  BY NearIs
<1>3. j.prev < 0 \/ j.prev + StretchWindow <= Through(j)
  BY DEF Buffered
<1> QED
  BY <1>1, <1>2, <1>3 DEF Fits

\* How loud the c-th sample of a sound is.
Loudness(sound, c) == IF c \in DOMAIN sound THEN sound[c] ELSE 0

\* What is heard at a place in the buffer.
LEMMA SampleIs ==
  ASSUME NEW j, Buffered(j), NEW x \in Int, j.base <= x, x < Through(j)
  PROVE  /\ SampleAt(j, x) = Content(j.given, x) /\ Content(j.given, x) \in Heard
         /\ Amplitude(j, x) = Loudness(j.sound, Content(j.given, x))
         /\ Amplitude(j, x) \in Int
<1>1. j \in StretchStates /\ j.base \in Nat /\ j.buf \in Seq(Int) /\ j.given \in Nat
  BY DEF Buffered, StretchStates
<1>2. Through(j) \in Nat
  BY <1>1, ThroughIs
<1>3. j.base + Len(j.buf) = Through(j)
  BY DEF Buffered
<1>4. x + 1 - j.base \in 1..Len(j.buf)
  BY <1>1, <1>2, <1>3
<1>5. x \in j.base..Through(j) - 1
  BY <1>1, <1>2
<1>6. j.buf[x + 1 - j.base] = Content(j.given, x)
  BY <1>5 DEF Buffered, Held
<1>7. x + 1 - j.base \in DOMAIN j.buf
  BY <1>1, <1>4
<1>8. SampleAt(j, x) = Content(j.given, x)
  BY <1>6, <1>7 DEF SampleAt
<1>9. Content(j.given, x) \in Heard
  BY <1>1 DEF Content, Heard, Silence, Missing
<1>10. PICK c \in Int : c = Content(j.given, x)
  BY <1>9 DEF Heard
<1>11. PICK s \in Seq(Int) : s = j.sound
  BY <1>1, SpeedIs
<1>12. Loudness(s, c) \in Int
  BY DEF Loudness
<1>13. Amplitude(j, x) = Loudness(s, c)
  BY <1>8, <1>10, <1>11 DEF Amplitude, Loudness
<1> QED
  BY <1>8, <1>9, <1>10, <1>11, <1>12, <1>13

-----------------------------------------------------------------------------
(* The search: in reach, and the same where the same is heard.             *)

SumOf(product) ==
  LET upto[k \in 0..StretchHop] == IF k = 0 THEN 0 ELSE upto[k - 1] + product[k]
  IN upto[StretchHop]

LEMMA SumIs ==
  ASSUME NEW product \in [1..StretchHop -> Int]
  PROVE  SumOf(product) \in Int
<1> DEFINE n == StretchHop
           F == [e \in Int \X (1..n) |-> e[1] + product[e[2]]]
           Solves(f) == f = [k \in 0..n |-> IF k = 0 THEN 0 ELSE f[k - 1] + product[k]]
           g == CHOOSE f : Solves(f)
<1>1. n \in Nat
  BY StretchConstants
<1>2. F \in [Int \X (1..n) -> Int]
  OBVIOUS
<1>3. PICK f \in [0..n -> Int] : Stepwise(f, n, 0, F)
  <2>1. 0 \in Int
    OBVIOUS
  <2> HIDE DEF F, n
  <2> QED
    BY <1>1, <1>2, <2>1, StepByStep, Zenon
<1>4. \A k \in 1..n : f[k] = f[k - 1] + product[k]
  <2>1. ASSUME NEW k \in 1..n PROVE f[k] = f[k - 1] + product[k]
    <3>1. f[k] = F[<<f[k - 1], k>>]
      BY <1>3 DEF Stepwise
    <3>2. k - 1 \in 0..n
      BY <1>1
    <3>3. PICK y \in Int : y = f[k - 1]
      BY <3>2
    <3>4. F[<<y, k>>] = y + product[k]
      BY <3>3
    <3> QED
      BY <3>1, <3>3, <3>4
  <2> QED
    BY <2>1
<1>5. f[0] = 0
  BY <1>3 DEF Stepwise
<1>6. Solves(f)
  <2>1. \A k \in 0..n : f[k] = IF k = 0 THEN 0 ELSE f[k - 1] + product[k]
    <3>1. ASSUME NEW k \in 0..n PROVE f[k] = IF k = 0 THEN 0 ELSE f[k - 1] + product[k]
      <4>1. k = 0 \/ k \in 1..n
        BY <1>1
      <4> QED
        BY <1>4, <1>5, <4>1
    <3> QED
      BY <3>1
  <2>2. f = [k \in 0..n |-> f[k]]
    OBVIOUS
  <2> HIDE DEF n
  <2> QED
    BY <2>1, <2>2
<1>7. Solves(g)
  <2> HIDE DEF Solves
  <2> QED
    BY <1>6
<1>8. \A k \in 0..n : g[k] = IF k = 0 THEN 0 ELSE g[k - 1] + product[k]
  <2> HIDE DEF g
  <2>1. g = [k \in 0..n |-> IF k = 0 THEN 0 ELSE g[k - 1] + product[k]]
    BY <1>7
  <2> QED
    BY <2>1, Zenon
<1>9. \A k \in 0..n : g[k] \in Int
  <2> DEFINE T == {k \in 0..n : g[k] \in Int}
  <2>1. 0 \in T
    <3>1. 0 \in 0..n
      BY <1>1
    <3> HIDE DEF g
    <3> QED
      BY <1>8, <3>1
  <2>2. ASSUME NEW k \in 1..n, k - 1 \in T PROVE k \in T
    <3>1. k \in 0..n /\ k # 0 /\ g[k - 1] \in Int /\ product[k] \in Int
      BY <1>1, <2>2
    <3> HIDE DEF g
    <3>2. g[k] = g[k - 1] + product[k]
      BY <1>8, <3>1
    <3> QED
      BY <3>1, <3>2
  <2>3. \A k \in 0..n : k \in T
    <3> HIDE DEF T, n
    <3> QED
      BY <1>1, <2>1, <2>2, InductionUpTo
  <2> QED
    BY <2>3
<1>10. SumOf(product) = g[n]
  BY Zenon DEF SumOf
<1>11. n \in 0..n
  BY <1>1
<1> HIDE DEF g
<1> QED
  BY <1>9, <1>10, <1>11

Product(j, c) ==
  [k \in 1..StretchHop |-> Amplitude(j, j.prev + StretchHop + k - 1) * Amplitude(j, c + k - 1)]

LEMMA LikenessSum == ASSUME NEW j, NEW c PROVE Likeness(j, c) = SumOf(Product(j, c))
  BY Zenon DEF Likeness, SumOf, Product

\* A whole window and what would have followed the one before have arrived.
InReach(j, c) == c \in Int /\ j.base <= c /\ c + StretchWindow <= Through(j)

LEMMA LikenessIs ==
  ASSUME NEW j, Buffered(j), j.prev >= 0, NEW c, InReach(j, c)
  PROVE  Likeness(j, c) \in Int
<1>1. /\ j.prev \in Nat /\ j.base \in Nat /\ Through(j) \in Nat
      /\ j.base <= j.prev + StretchHop /\ j.prev + StretchWindow <= Through(j)
      /\ c \in Int /\ j.base <= c /\ c + StretchWindow <= Through(j)
  BY ThroughIs DEF Buffered, StretchStates, InReach
<1>2. PICK h \in Nat \ {0} : h = StretchHop /\ StretchWindow = h + h
  BY StretchConstants
<1>3. ASSUME NEW k \in 1..h
      PROVE  Amplitude(j, j.prev + h + k - 1) * Amplitude(j, c + k - 1) \in Int
  <2>1. /\ j.prev + h + k - 1 \in Int /\ j.base <= j.prev + h + k - 1
        /\ j.prev + h + k - 1 < Through(j)
    BY <1>1, <1>2
  <2>2. c + k - 1 \in Int /\ j.base <= c + k - 1 /\ c + k - 1 < Through(j)
    BY <1>1, <1>2
  <2>3. Amplitude(j, j.prev + h + k - 1) \in Int /\ Amplitude(j, c + k - 1) \in Int
    BY <2>1, <2>2, SampleIs
  <2> QED
    BY <2>3
<1>4. Product(j, c) \in [1..StretchHop -> Int]
  BY <1>2, <1>3 DEF Product
<1> QED
  BY <1>4, SumIs, LikenessSum

\* Of the places in an interval one is the most alike.
LEMMA MostOf ==
  ASSUME NEW n \in Nat, NEW v, NEW A, A \subseteq 0..n, A # {}, \A x \in A : v[x] \in Int
  PROVE  \E x \in A : \A y \in A : v[y] <= v[x]
<1> DEFINE Peaks(B) == \E x \in B : \A y \in B : v[y] <= v[x]
           T == {m \in Nat : \A B \in SUBSET (0..m) :
                               B # {} /\ (\A x \in B : v[x] \in Int) => Peaks(B)}
<1>1. 0 \in T
  <2>1. ASSUME NEW B \in SUBSET (0..0), B # {}, \A x \in B : v[x] \in Int PROVE Peaks(B)
    <3>1. B = {0} /\ v[0] \in Int
      <4>1. PICK x : x \in B
        BY <2>1
      <4>2. \A y \in B : y = 0
        OBVIOUS
      <4> QED
        BY <2>1, <4>1, <4>2
    <3>2. \A y \in B : v[y] <= v[0]
      BY <3>1
    <3> QED
      BY <3>1, <3>2
  <2> QED
    BY <2>1
<1>2. ASSUME NEW m \in Nat, m \in T PROVE m + 1 \in T
  <2>1. ASSUME NEW B \in SUBSET (0..m + 1), B # {}, \A x \in B : v[x] \in Int PROVE Peaks(B)
    <3>1. PICK C : C = B \ {m + 1}
      OBVIOUS
    <3>2. C \in SUBSET (0..m) /\ \A x \in C : v[x] \in Int
      BY <2>1, <3>1
    <3>3. CASE C = {}
      <4>1. B = {m + 1}
        BY <2>1, <3>1, <3>3
      <4> QED
        BY <2>1, <4>1
    <3>4. CASE C # {}
      <4>1. Peaks(C)
        BY <1>2, <3>2, <3>4
      <4>2. PICK x \in C : \A y \in C : v[y] <= v[x]
        BY <4>1
      <4>3. CASE m + 1 \in B /\ v[x] <= v[m + 1]
        <5>1. \A y \in B : v[y] <= v[m + 1]
          BY <2>1, <3>1, <3>2, <4>2, <4>3
        <5> QED
          BY <4>3, <5>1
      <4>4. CASE ~(m + 1 \in B /\ v[x] <= v[m + 1])
        <5>1. \A y \in B : v[y] <= v[x]
          BY <2>1, <3>1, <3>2, <4>2, <4>4
        <5>2. x \in B
          BY <3>1
        <5> QED
          BY <5>1, <5>2
      <4> QED
        BY <4>3, <4>4
    <3> QED
      BY <3>3, <3>4
  <2> HIDE DEF Peaks
  <2> QED
    BY <2>1
<1>3. \A m \in Nat : m \in T
  <2> HIDE DEF T
  <2> QED
    BY <1>1, <1>2, SetInduction
<1>4. Peaks(A)
  <2>1. n \in T
    BY <1>3
  <2> HIDE DEF Peaks
  <2> QED
    BY <2>1
<1> QED
  BY <1>4

LEMMA BestIs ==
  ASSUME NEW j, NEW n \in Nat, NEW A, A \subseteq 0..n, A # {}, \A c \in A : Likeness(j, c) \in Int
  PROVE  BestOf(j, A) \in A
<1> DEFINE v == [c \in A |-> Likeness(j, c)]
           B == {c \in A : \A d \in A : Likeness(j, d) <= Likeness(j, c)}
<1>1. \A c \in A : v[c] = Likeness(j, c)
  OBVIOUS
<1>2. \E x \in A : \A y \in A : v[y] <= v[x]
  <2>1. \A c \in A : v[c] \in Int
    OBVIOUS
  <2> HIDE DEF v
  <2> QED
    BY <2>1, MostOf
<1>3. B # {}
  <2> HIDE DEF v
  <2> QED
    BY <1>1, <1>2
<1>4. B \subseteq Nat /\ B \subseteq A
  <2>1. A \subseteq Nat
    OBVIOUS
  <2> QED
    BY <2>1
<1> HIDE DEF B
<1>5. \E x \in B : \A y \in B : x <= y
  BY <1>3, <1>4, LeastNat
<1>6. Min(B) \in B
  BY <1>5 DEF Min
<1>7. BestOf(j, A) = Min(B)
  BY DEF BestOf, B
<1> QED
  BY <1>4, <1>6, <1>7

LEMMA BestSame ==
  ASSUME NEW j, NEW i, NEW A, \A c \in A : Likeness(j, c) = Likeness(i, c)
  PROVE  BestOf(j, A) = BestOf(i, A)
<1>1. {c \in A : \A d \in A : Likeness(j, d) <= Likeness(j, c)}
      = {c \in A : \A d \in A : Likeness(i, d) <= Likeness(i, c)}
  OBVIOUS
<1> QED
  BY <1>1 DEF BestOf

\* The places of the coarse search, and those around the best of them.
Coarse(lo, hi) == {c \in lo..hi : (c - lo) % StretchStride = 0}
Fine(lo, hi, c) == Highest(lo, c - StretchStride + 1)..Lowest(hi, c + StretchStride - 1)

LEMMA PlacesIs ==
  ASSUME NEW lo \in Nat, NEW hi \in Nat, lo <= hi
  PROVE  /\ lo \in Coarse(lo, hi) /\ Coarse(lo, hi) \subseteq lo..hi /\ Coarse(lo, hi) \subseteq 0..hi
         /\ \A c \in lo..hi : /\ c \in Fine(lo, hi, c) /\ Fine(lo, hi, c) \subseteq lo..hi
                              /\ Fine(lo, hi, c) \subseteq 0..hi
<1>1. PICK s \in Nat \ {0} : s = StretchStride
  BY StretchConstants
<1>2. (lo - lo) % s = 0
  BY <1>1
<1>3. ASSUME NEW c \in lo..hi
      PROVE  c \in Fine(lo, hi, c) /\ Fine(lo, hi, c) \subseteq lo..hi /\ Fine(lo, hi, c) \subseteq 0..hi
  <2>1. /\ Highest(lo, c - s + 1) = (IF lo >= c - s + 1 THEN lo ELSE c - s + 1)
        /\ Lowest(hi, c + s - 1) = (IF hi <= c + s - 1 THEN hi ELSE c + s - 1)
    BY HighestIs, LowestIs
  <2> QED
    BY <1>1, <2>1 DEF Fine
<1> QED
  BY <1>1, <1>2, <1>3 DEF Coarse

SearchedIn(j, lo, hi) ==
  LET coarse == BestOf(j, Coarse(lo, hi))
      fine   == BestOf(j, Fine(lo, hi, coarse))
  IN IF Likeness(j, fine) > Likeness(j, coarse) THEN fine ELSE coarse

LEMMA SearchedIs ==
  ASSUME NEW j, Buffered(j)
  PROVE  Searched(j) = SearchedIn(j, Earliest(j), Latest(j))
<1>1. Near(j).lo = Earliest(j) /\ Near(j).hi = Latest(j)
  BY NearIs
<1> QED
  BY <1>1 DEF Searched, SearchedIn, Coarse, Fine

LEMMA SearchedInReach ==
  ASSUME NEW j, NEW lo \in Nat, NEW hi \in Nat, lo <= hi, \A c \in lo..hi : Likeness(j, c) \in Int
  PROVE  SearchedIn(j, lo, hi) \in lo..hi
<1>1. PICK c : c = BestOf(j, Coarse(lo, hi))
  OBVIOUS
<1>2. c \in lo..hi
  <2>1. PICK A : A = Coarse(lo, hi)
    OBVIOUS
  <2>2. A \subseteq 0..hi /\ A # {} /\ A \subseteq lo..hi
    BY <2>1, PlacesIs
  <2>3. BestOf(j, A) \in A
    BY <2>2, BestIs
  <2> QED
    BY <1>1, <2>1, <2>2, <2>3
<1>3. PICK f : f = BestOf(j, Fine(lo, hi, c))
  OBVIOUS
<1>4. f \in lo..hi
  <2>1. PICK A : A = Fine(lo, hi, c)
    OBVIOUS
  <2>2. A \subseteq 0..hi /\ A # {} /\ A \subseteq lo..hi
    BY <1>2, <2>1, PlacesIs
  <2>3. BestOf(j, A) \in A
    BY <2>2, BestIs
  <2> QED
    BY <1>3, <2>1, <2>2, <2>3
<1>5. SearchedIn(j, lo, hi) = IF Likeness(j, f) > Likeness(j, c) THEN f ELSE c
  BY <1>1, <1>3 DEF SearchedIn
<1> QED
  BY <1>2, <1>4, <1>5

LEMMA SearchedSame ==
  ASSUME NEW j, NEW i, NEW lo \in Nat, NEW hi \in Nat, lo <= hi,
         \A c \in lo..hi : Likeness(j, c) \in Int /\ Likeness(j, c) = Likeness(i, c)
  PROVE  SearchedIn(j, lo, hi) = SearchedIn(i, lo, hi)
<1>1. PICK c : c = BestOf(j, Coarse(lo, hi))
  OBVIOUS
<1>2. c \in lo..hi /\ c = BestOf(i, Coarse(lo, hi))
  <2>1. PICK A : A = Coarse(lo, hi)
    OBVIOUS
  <2>2. A \subseteq 0..hi /\ A # {} /\ A \subseteq lo..hi
    BY <2>1, PlacesIs
  <2>3. BestOf(j, A) \in A
    BY <2>2, BestIs
  <2>4. BestOf(j, A) = BestOf(i, A)
    BY <2>2, BestSame
  <2> QED
    BY <1>1, <2>1, <2>2, <2>3, <2>4
<1>3. PICK f : f = BestOf(j, Fine(lo, hi, c))
  OBVIOUS
<1>4. f \in lo..hi /\ f = BestOf(i, Fine(lo, hi, c))
  <2>1. PICK A : A = Fine(lo, hi, c)
    OBVIOUS
  <2>2. A \subseteq 0..hi /\ A # {} /\ A \subseteq lo..hi
    BY <1>2, <2>1, PlacesIs
  <2>3. BestOf(j, A) \in A
    BY <2>2, BestIs
  <2>4. BestOf(j, A) = BestOf(i, A)
    BY <2>2, BestSame
  <2> QED
    BY <1>3, <2>1, <2>2, <2>3, <2>4
<1>5. SearchedIn(j, lo, hi) = IF Likeness(j, f) > Likeness(j, c) THEN f ELSE c
  BY <1>1, <1>3 DEF SearchedIn
<1>6. SearchedIn(i, lo, hi) = IF Likeness(i, f) > Likeness(i, c) THEN f ELSE c
  BY <1>2, <1>4 DEF SearchedIn
<1>7. Likeness(j, f) = Likeness(i, f) /\ Likeness(j, c) = Likeness(i, c)
  BY <1>2, <1>4
<1> QED
  BY <1>5, <1>6, <1>7

-----------------------------------------------------------------------------
(* A window is laid.                                                       *)

LEMMA TakenIs ==
  ASSUME NEW j, Buffered(j), Fits(j)
  PROVE  /\ Taken(j) \in Nat /\ Earliest(j) <= Taken(j) /\ Taken(j) <= Latest(j)
         /\ InReach(j, Taken(j))
         /\ j.prev < 0 => Taken(j) = 0
         /\ j.prev >= 0 => /\ Taken(j) = SearchedIn(j, Earliest(j), Latest(j))
                           /\ \A c \in Earliest(j)..Latest(j) : InReach(j, c) /\ Likeness(j, c) \in Int
<1>1. j \in StretchStates /\ j.base \in Nat /\ j.windows \in Nat
  BY DEF Buffered, StretchStates
<1>2. PICK lo \in Nat, hi \in Int : lo = Earliest(j) /\ hi = Latest(j)
  BY NearIs
<1>3. /\ Near(j).lo = lo /\ Near(j).hi = hi /\ j.base <= lo
      /\ hi <= Due(j) + StretchReach /\ hi + StretchWindow <= Through(j)
  BY <1>2, NearIs
<1>4. lo <= hi /\ hi \in Nat
  BY <1>2, FitsIs
<1>5. StretchWindow \in Nat /\ Through(j) \in Nat
  BY <1>1, StretchConstants, ThroughIs
<1>6. ASSUME NEW c \in lo..hi PROVE InReach(j, c)
  BY <1>1, <1>3, <1>5 DEF InReach
<1>7. CASE j.prev < 0
  <2>1. j.windows = 0 /\ j.prev = -1
    BY <1>7 DEF Buffered
  <2>2. Due(j) = 0
    <3>1. PICK n \in Nat \ {0}, d \in Nat \ {0} : n = j.speed[1] /\ d = j.speed[2]
      BY <1>1, SpeedIs
    <3>2. 0 * StretchHop = 0
      BY StretchConstants
    <3>3. 0 * n = 0
      OBVIOUS
    <3>4. 0 * StretchHop * n = 0
      BY <3>2, <3>3
    <3>5. PICK q \in Nat : q = Rounded(0, d)
      BY RoundedIs
    <3>6. q * (2 * d) <= 2 * 0 + d
      BY <3>5, RoundedIs
    <3>7. q = 0
      <4> SUFFICES ASSUME 1 <= q PROVE FALSE
        BY <3>5
      <4>1. PICK s \in Nat \ {0} : s = 2 * d
        OBVIOUS
      <4>2. s <= q * s /\ q * s \in Nat
        BY SMT
      <4> QED
        BY <3>6, <4>1, <4>2
    <3> QED
      BY <1>1, <2>1, <3>1, <3>4, <3>5, <3>7 DEF Due
  <2>3. lo = 0
    BY <1>2, <2>2, StretchConstants DEF Earliest
  <2>4. Highest(0, lo) = 0
    BY <2>3, HighestIs
  <2>5. Lowest(0, hi) = 0
    BY <1>4, LowestIs
  <2>6. Taken(j) = 0
    BY <1>3, <1>7, <2>2, <2>4, <2>5 DEF Taken
  <2>7. 0 \in lo..hi
    BY <1>4, <2>3
  <2>8. ~(j.prev >= 0)
    BY <2>1
  <2> QED
    BY <1>2, <1>4, <1>6, <2>3, <2>6, <2>7, <2>8
<1>8. CASE ~(j.prev < 0)
  <2>1. j.prev >= 0
    BY <1>1, <1>8 DEF StretchStates
  <2>2. \A c \in lo..hi : Likeness(j, c) \in Int
    BY <1>6, <2>1, LikenessIs
  <2>3. Taken(j) = SearchedIn(j, lo, hi)
    BY <1>2, <1>8, SearchedIs DEF Taken
  <2>4. Taken(j) \in lo..hi
    BY <1>4, <2>2, <2>3, SearchedInReach
  <2>5. Taken(j) \in Nat /\ lo <= Taken(j) /\ Taken(j) <= hi
    BY <2>4
  <2> QED
    BY <1>2, <1>6, <1>8, <2>2, <2>3, <2>4, <2>5
<1> QED
  BY <1>7, <1>8

\* The windows laid: what is complete and what waits.
Laying(j) == [k \in 1..StretchWindow |-> Append(j.acc[k], SampleAt(j, Taken(j) + k - 1))]
Waiting(acc) == [k \in 1..StretchWindow |-> IF k <= StretchHop THEN acc[k + StretchHop] ELSE <<>>]

Emitted(j) == [j EXCEPT !.out = @ \o SubSeq(Laying(j), 1, StretchHop), !.acc = Waiting(Laying(j)),
                        !.prev = Taken(j), !.windows = @ + 1]

EmittedWith(j, o, a, at, v) == [j EXCEPT !.out = o, !.acc = a, !.prev = at, !.windows = v]

LEMMA LaidIs == ASSUME NEW j PROVE Laid(j) = Trimmed(Emitted(j))
  BY Zenon DEF Laid, LaidAt, Emitted, Laying, Waiting

LEMMA LayingIs ==
  ASSUME NEW j, Buffered(j), Fits(j)
  PROVE  /\ Laying(j) \in Seq(Seq(Heard)) /\ Len(Laying(j)) = StretchWindow
         /\ SubSeq(Laying(j), 1, StretchHop) \in Seq(Seq(Heard))
         /\ Len(SubSeq(Laying(j), 1, StretchHop)) = StretchHop
         /\ Waiting(Laying(j)) \in Seq(Seq(Heard)) /\ Len(Waiting(Laying(j))) = StretchWindow
<1>1. PICK w \in Nat \ {0}, h \in Nat \ {0} : w = StretchWindow /\ h = StretchHop /\ w = h + h
  BY StretchConstants
<1>2. PICK at \in Nat : at = Taken(j)
  BY TakenIs
<1>3. j.base <= at /\ at + w <= Through(j) /\ Through(j) \in Nat /\ j.base \in Nat
  BY <1>1, <1>2, TakenIs, ThroughIs DEF InReach, Buffered, StretchStates
<1>4. PICK a \in Seq(Seq(Heard)) : a = j.acc /\ Len(a) = w
  BY <1>1 DEF Buffered, StretchStates
<1>5. ASSUME NEW k \in 1..w PROVE Append(a[k], SampleAt(j, at + k - 1)) \in Seq(Heard)
  <2>1. at + k - 1 \in Int /\ j.base <= at + k - 1 /\ at + k - 1 < Through(j)
    BY <1>3
  <2>2. SampleAt(j, at + k - 1) \in Heard
    BY <2>1, SampleIs
  <2>3. PICK x \in Heard : x = SampleAt(j, at + k - 1)
    BY <2>2
  <2>4. PICK s \in Seq(Heard) : s = a[k]
    BY <1>4
  <2>5. Append(s, x) \in Seq(Heard)
    OBVIOUS
  <2> QED
    BY <2>3, <2>4, <2>5
<1>6. PICK l : l = Laying(j)
  OBVIOUS
<1>7. l = [k \in 1..w |-> Append(a[k], SampleAt(j, at + k - 1))]
  BY <1>1, <1>2, <1>4, <1>6 DEF Laying
<1>8. l \in [1..w -> Seq(Heard)]
  BY <1>5, <1>7
<1>9. l \in Seq(Seq(Heard)) /\ Len(l) = w
  BY <1>8
<1>10. SubSeq(l, 1, h) \in Seq(Seq(Heard)) /\ Len(SubSeq(l, 1, h)) = h
  BY <1>1, <1>9
<1>11. Waiting(l) \in [1..w -> Seq(Heard)]
  <2>1. <<>> \in Seq(Heard)
    BY EmptySeq
  <2>2. ASSUME NEW k \in 1..w PROVE (IF k <= h THEN l[k + h] ELSE <<>>) \in Seq(Heard)
    <3>1. CASE k <= h
      <4>1. k + h \in 1..w
        BY <1>1, <3>1
      <4>2. l[k + h] \in Seq(Heard)
        BY <1>8, <4>1
      <4> QED
        BY <3>1, <4>2
    <3>2. CASE ~(k <= h)
      BY <2>1, <3>2
    <3> QED
      BY <3>1, <3>2
  <2>3. Waiting(l) = [k \in 1..w |-> IF k <= h THEN l[k + h] ELSE <<>>]
    BY <1>1 DEF Waiting
  <2> QED
    BY <2>2, <2>3
<1>12. Waiting(l) \in Seq(Seq(Heard)) /\ Len(Waiting(l)) = w
  BY <1>11
<1> QED
  BY <1>1, <1>6, <1>9, <1>10, <1>12

\* What a step leaves alone.
SameInput(i, j) ==
  /\ i.kind = j.kind /\ i.at = j.at /\ i.speed = j.speed /\ i.sound = j.sound
  /\ i.given = j.given /\ i.flushing = j.flushing /\ i.pushed = j.pushed

LEMMA EmittedIs ==
  ASSUME NEW j, Buffered(j), Fits(j)
  PROVE  /\ Buffered(Emitted(j)) /\ SameInput(Emitted(j), j) /\ Emitted(j).prev = Taken(j)
         /\ Emitted(j).windows = j.windows + 1 /\ Emitted(j).acc = Waiting(Laying(j))
         /\ Emitted(j).out = j.out \o SubSeq(Laying(j), 1, StretchHop)
         /\ Emitted(j).prev >= 0
<1>1. /\ j \in StretchStates /\ j.base \in Nat /\ j.windows \in Nat /\ j.out \in Seq(Seq(Heard))
      /\ j.base + Len(j.buf) = Through(j) /\ Held(j) /\ Len(j.out) = j.windows * StretchHop
      /\ j.speed \in StretchSpeeds
  BY DEF Buffered, StretchStates
<1>2. PICK at \in Nat : at = Taken(j)
  BY TakenIs
<1>3. j.base <= at /\ at + StretchWindow <= Through(j)
  BY <1>2, TakenIs DEF InReach
<1>4. PICK a \in Seq(Seq(Heard)) : a = Waiting(Laying(j)) /\ Len(a) = StretchWindow
  BY LayingIs
<1>5. PICK h \in Nat \ {0} : h = StretchHop
  BY StretchConstants
<1>6. PICK s \in Seq(Seq(Heard)) : s = SubSeq(Laying(j), 1, StretchHop) /\ Len(s) = h
  BY <1>5, LayingIs
<1>7. PICK u \in Seq(Seq(Heard)) : u = j.out
  BY <1>1
<1>8. PICK o : o = u \o s
  OBVIOUS
<1>9. o \in Seq(Seq(Heard)) /\ Len(o) = Len(u) + Len(s)
  BY <1>8, CatIs
<1>10. PICK v \in Nat : v = j.windows + 1
  BY <1>1
<1>11. PICK e : e = Emitted(j)
  OBVIOUS
<1>12. e = [j EXCEPT !.out = o, !.acc = a, !.prev = at, !.windows = v]
  <2>1. Emitted(j) = EmittedWith(j, j.out \o SubSeq(Laying(j), 1, StretchHop),
                                 Waiting(Laying(j)), Taken(j), j.windows + 1)
    BY <1>1, Zenon DEF Emitted, EmittedWith, StretchStates
  <2>2. /\ o = j.out \o SubSeq(Laying(j), 1, StretchHop) /\ a = Waiting(Laying(j))
        /\ at = Taken(j) /\ v = j.windows + 1
    BY <1>2, <1>4, <1>6, <1>7, <1>8, <1>10
  <2>3. e = EmittedWith(j, o, a, at, v)
    BY <1>11, <2>1, <2>2, Zenon
  <2> QED
    BY <2>3 DEF EmittedWith
<1>13. e \in StretchStates
  <2>1. j \in StretchStates /\ o \in Seq(Seq(Heard)) /\ a \in Seq(Seq(Heard)) /\ at \in Int /\ v \in Nat
    BY <1>1, <1>9
  <2> QED
    BY <1>12, <2>1 DEF StretchStates
<1>14. /\ SameInput(e, j) /\ e.out = o /\ e.acc = a /\ e.prev = at /\ e.windows = v
       /\ e.buf = j.buf /\ e.base = j.base
  BY <1>1, <1>12 DEF StretchStates, SameInput
<1>15. Through(e) = Through(j) /\ Held(e)
  <2>1. e.given = j.given /\ e.flushing = j.flushing
    BY <1>14 DEF SameInput
  <2>2. Through(e) = Through(j)
    BY <2>1 DEF Through
  <2> QED
    BY <1>1, <1>14, <2>1, <2>2 DEF Held
<1>16. e.base = 0 \/ e.base <= Due(e) - StretchReach
  <2>1. e.speed = j.speed
    BY <1>14 DEF SameInput
  <2>2. Due(e) = DuePlace(j.windows + 1, j.speed) /\ Due(j) = DuePlace(j.windows, j.speed)
    BY <1>1, <1>10, <1>13, <1>14, <2>1, DueIs
  <2>3. Due(j) <= Due(e) /\ Due(j) \in Nat /\ Due(e) \in Nat
    BY <1>1, <1>13, <2>2, DueGrows, DueIs
  <2>4. j.base = 0 \/ j.base <= Due(j) - StretchReach
    BY DEF Buffered
  <2> QED
    BY <1>1, <1>14, <2>3, <2>4, StretchConstants
<1>17. Len(e.out) = e.windows * StretchHop
  <2>1. PICK w \in Nat : w = j.windows
    BY <1>1
  <2>2. (w + 1) * h = w * h + h
    BY NextTimes
  <2>3. PICK x : x = w * h
    OBVIOUS
  <2>4. Len(o) = x + h
    BY <1>1, <1>5, <1>6, <1>7, <1>9, <2>1, <2>3
  <2> QED
    BY <1>5, <1>10, <1>14, <2>1, <2>2, <2>3, <2>4
<1>18. Buffered(e)
  <2>1. e.windows > 0 /\ e.prev \in Nat /\ e.prev >= 0
    BY <1>1, <1>10, <1>14
  <2>2. e.base <= e.prev + StretchHop /\ e.prev + StretchWindow <= Through(e)
    BY <1>1, <1>3, <1>14, <1>15, StretchConstants
  <2>3. e.base + Len(e.buf) = Through(e) /\ Len(e.acc) = StretchWindow
    BY <1>1, <1>4, <1>14, <1>15
  <2> QED
    BY <1>13, <1>15, <1>16, <1>17, <2>1, <2>2, <2>3 DEF Buffered
<1> QED
  BY <1>2, <1>4, <1>6, <1>7, <1>8, <1>10, <1>11, <1>14, <1>18

\* What was dropped is not needed any more.
LEMMA TrimmedIs ==
  ASSUME NEW j, Buffered(j), j.prev >= 0
  PROVE  /\ Buffered(Trimmed(j)) /\ SameInput(Trimmed(j), j) /\ Trimmed(j).prev = j.prev
         /\ Trimmed(j).windows = j.windows /\ Trimmed(j).acc = j.acc /\ Trimmed(j).out = j.out
<1>1. /\ j \in StretchStates /\ j.base \in Nat /\ j.prev \in Nat /\ j.buf \in Seq(Int)
      /\ j.given \in Nat /\ j.flushing \in BOOLEAN
  BY DEF Buffered, StretchStates
<1>2. PICK d \in Nat, h \in Nat \ {0}, r \in Nat \ {0}, dead \in Nat \ {0}, e \in Nat :
        d = Due(j) /\ h = StretchHop /\ r = StretchReach /\ dead = StretchDead /\ e = Through(j)
  BY <1>1, DueIs, StretchConstants, ThroughIs
<1>3. StretchWindow = h + h
  BY <1>2, StretchConstants
<1>4. PICK b \in Nat, p \in Nat : b = j.base /\ p = j.prev
  BY <1>1
<1>5. PICK f \in Seq(Int) : f = j.buf
  BY <1>1
<1>6. /\ b + Len(f) = e /\ Held(j) /\ (b = 0 \/ b <= d - r) /\ b <= p + h /\ p + (h + h) <= e
      /\ Len(f) \in Nat
  BY <1>1, <1>2, <1>3, <1>4, <1>5 DEF Buffered
<1>7. PICK keep \in Int : keep = Lowest(d - r, p + h) /\ keep <= d - r /\ keep <= p + h
  BY LowestIs
<1>8. Trimmed(j) = IF keep - b > 0 /\ keep - b >= Len(f) THEN [j EXCEPT !.buf = <<>>, !.base = keep]
                   ELSE IF keep - b >= dead
                   THEN [j EXCEPT !.buf = SubSeq(f, keep - b + 1, Len(f)), !.base = keep]
                   ELSE j
  BY <1>1, <1>2, <1>4, <1>5, <1>7 DEF Trimmed, StretchStates
<1>9. ~(keep - b >= Len(f))
  BY <1>6, <1>7
<1>10. CASE ~(keep - b >= dead)
  BY <1>8, <1>9, <1>10 DEF SameInput
<1>11. CASE keep - b >= dead
  <2>1. PICK n \in Nat \ {0} : n = keep - b
    BY <1>11
  <2>2. keep \in Nat /\ keep = b + n /\ n < Len(f)
    BY <1>9, <2>1
  <2>3. PICK s : s = SubSeq(f, n + 1, Len(f))
    OBVIOUS
  <2>4. /\ s \in Seq(Int) /\ Len(s) = Len(f) - n
        /\ \A k \in 1..Len(f) - n : s[k] = f[n + k]
    <3>1. PICK m \in Nat : m = Len(f) /\ n < m
      BY <1>6, <2>2
    <3>2. s \in Seq(Int) /\ Len(s) = m - n
      BY <2>3, <3>1
    <3>3. \A k \in 1..m - n : s[k] = f[(n + 1) + k - 1] /\ (n + 1) + k - 1 = n + k
      BY <2>3, <3>1
    <3> QED
      BY <3>1, <3>2, <3>3
  <2>5. PICK t : t = Trimmed(j)
    OBVIOUS
  <2>6. t = [j EXCEPT !.buf = s, !.base = keep]
    BY <1>8, <1>9, <1>11, <2>1, <2>3, <2>5
  <2>7. t \in StretchStates
    BY <1>1, <2>2, <2>4, <2>6 DEF StretchStates
  <2>8. /\ SameInput(t, j) /\ t.prev = j.prev /\ t.windows = j.windows /\ t.acc = j.acc
        /\ t.out = j.out /\ t.buf = s /\ t.base = keep
    BY <1>1, <2>6 DEF StretchStates, SameInput
  <2>9. t.given = j.given /\ t.flushing = j.flushing /\ t.speed = j.speed
    BY <2>8 DEF SameInput
  <2>10. Through(t) = e
    BY <1>2, <2>9 DEF Through
  <2>11. Held(t)
    <3>1. ASSUME NEW x \in keep..e - 1 PROVE s[x + 1 - keep] = Content(j.given, x)
      <4>1. x + 1 - keep \in 1..Len(f) - n
        BY <1>6, <2>2
      <4>2. n + (x + 1 - keep) = x + 1 - b
        BY <2>2
      <4>3. x \in b..e - 1
        BY <2>2
      <4>4. f[x + 1 - b] = Content(j.given, x)
        BY <1>2, <1>4, <1>5, <1>6, <4>3 DEF Held
      <4> QED
        BY <2>4, <4>1, <4>2, <4>4
    <3> QED
      BY <2>8, <2>9, <2>10, <3>1 DEF Held
  <2>12. Due(t) = d
    BY <1>2, <2>8, <2>9 DEF Due
  <2>13. Buffered(t)
    <3>1. t.base + Len(t.buf) = Through(t)
      <4>1. PICK m \in Nat : m = Len(f)
        BY <1>6
      <4>2. b + m = e /\ t.base = b + n /\ Len(t.buf) = m - n
        BY <1>6, <2>2, <2>4, <2>8, <4>1
      <4> QED
        BY <2>10, <4>2
    <3>2. t.base <= Due(t) - StretchReach
      BY <1>2, <1>7, <2>8, <2>12
    <3>3. t.prev >= 0 /\ t.base <= t.prev + StretchHop /\ t.prev + StretchWindow <= Through(t)
      BY <1>2, <1>3, <1>4, <1>6, <1>7, <2>8, <2>10
    <3>4. (t.windows = 0 /\ t.prev = -1) \/ (t.windows > 0 /\ t.prev \in Nat)
      BY <2>8 DEF Buffered
    <3>5. Len(t.acc) = StretchWindow /\ Len(t.out) = t.windows * StretchHop
      BY <2>8 DEF Buffered
    <3> QED
      BY <2>7, <2>11, <3>1, <3>2, <3>3, <3>4, <3>5 DEF Buffered
  <2> QED
    BY <2>5, <2>8, <2>13
<1> QED
  BY <1>10, <1>11

LEMMA LaidKeeps ==
  ASSUME NEW j, Buffered(j), Fits(j)
  PROVE  /\ Buffered(Laid(j)) /\ SameInput(Laid(j), j) /\ Laid(j).prev = Taken(j)
         /\ Laid(j).windows = j.windows + 1 /\ Laid(j).acc = Waiting(Laying(j))
         /\ Laid(j).out = j.out \o SubSeq(Laying(j), 1, StretchHop)
<1>1. PICK e : e = Emitted(j)
  OBVIOUS
<1>2. /\ Buffered(e) /\ SameInput(e, j) /\ e.prev = Taken(j)
      /\ e.windows = j.windows + 1 /\ e.acc = Waiting(Laying(j))
      /\ e.out = j.out \o SubSeq(Laying(j), 1, StretchHop) /\ e.prev >= 0
  BY <1>1, EmittedIs
<1>3. PICK t : t = Trimmed(e)
  OBVIOUS
<1>4. /\ Buffered(t) /\ SameInput(t, e) /\ t.prev = e.prev
      /\ t.windows = e.windows /\ t.acc = e.acc /\ t.out = e.out
  BY <1>2, <1>3, TrimmedIs
<1>5. SameInput(t, j)
  BY <1>2, <1>4 DEF SameInput
<1>6. t = Laid(j)
  BY <1>1, <1>3, LaidIs
<1> QED
  BY <1>2, <1>4, <1>5, <1>6

-----------------------------------------------------------------------------
(* Two that are alike take the same step.                                  *)

Alike(j, i) ==
  /\ j.speed = i.speed /\ j.sound = i.sound /\ j.windows = i.windows /\ j.prev = i.prev
  /\ j.acc = i.acc /\ j.out = i.out

\* i has all of the input of j, and no padding unless j has it.
Behind(j, i) == j.given <= i.given /\ (j.flushing => i.flushing /\ i.given = j.given)

LEMMA BehindIs ==
  ASSUME NEW j, NEW i, j \in StretchStates, i \in StretchStates, Behind(j, i)
  PROVE  /\ Through(j) <= Through(i)
         /\ \A x \in Int : x < Through(j) => Content(j.given, x) = Content(i.given, x)
<1>1. j.given \in Nat /\ i.given \in Nat /\ j.flushing \in BOOLEAN /\ i.flushing \in BOOLEAN
  BY DEF StretchStates
<1>2. j.given <= i.given /\ (j.flushing => i.flushing /\ i.given = j.given)
  BY DEF Behind
<1>3. CASE j.flushing
  <2>1. Through(j) = Through(i) /\ Through(j) \in Nat /\ i.given = j.given
    BY <1>1, <1>2, <1>3, ThroughIs
  <2> QED
    BY <2>1
<1>4. CASE ~j.flushing
  <2>1. Through(j) = j.given /\ i.given <= Through(i) /\ Through(i) \in Nat
    BY <1>1, <1>4, ThroughIs
  <2> QED
    BY <1>1, <1>2, <2>1 DEF Content
<1> QED
  BY <1>3, <1>4

LEMMA HeardSame ==
  ASSUME NEW j, NEW i, Buffered(j), Buffered(i), Alike(j, i), Behind(j, i),
         NEW x \in Int, j.base <= x, i.base <= x, x < Through(j)
  PROVE  SampleAt(j, x) = SampleAt(i, x) /\ Amplitude(j, x) = Amplitude(i, x)
<1>1. j \in StretchStates /\ i \in StretchStates
  BY DEF Buffered
<1>2. Through(j) <= Through(i) /\ Content(j.given, x) = Content(i.given, x)
  BY <1>1, BehindIs
<1>3. Through(j) \in Nat /\ Through(i) \in Nat
  BY <1>1, ThroughIs
<1>4. x < Through(i)
  BY <1>2, <1>3
<1>5. j.sound = i.sound
  BY DEF Alike
<1>6. /\ SampleAt(j, x) = Content(j.given, x)
      /\ Amplitude(j, x) = Loudness(j.sound, Content(j.given, x))
  BY SampleIs
<1>7. /\ SampleAt(i, x) = Content(i.given, x)
      /\ Amplitude(i, x) = Loudness(i.sound, Content(i.given, x))
  BY <1>4, SampleIs
<1> QED
  BY <1>2, <1>5, <1>6, <1>7, Zenon

LEMMA LikenessSame ==
  ASSUME NEW j, NEW i, Buffered(j), Buffered(i), Alike(j, i), Behind(j, i), j.prev >= 0,
         NEW c, InReach(j, c), InReach(i, c)
  PROVE  Likeness(j, c) = Likeness(i, c)
<1>1. /\ j.prev \in Nat /\ i.prev = j.prev /\ j.base \in Nat /\ i.base \in Nat
      /\ Through(j) \in Nat
      /\ j.base <= j.prev + StretchHop /\ j.prev + StretchWindow <= Through(j)
      /\ i.base <= i.prev + StretchHop
  BY ThroughIs DEF Buffered, StretchStates, Alike
<1>2. PICK h \in Nat \ {0} : h = StretchHop /\ StretchWindow = h + h
  BY StretchConstants
<1>3. c \in Int /\ j.base <= c /\ i.base <= c /\ c + (h + h) <= Through(j)
  BY <1>2 DEF InReach
<1>4. PICK p \in Nat : p = j.prev
  BY <1>1
<1>5. ASSUME NEW k \in 1..h
      PROVE  Amplitude(j, p + h + k - 1) * Amplitude(j, c + k - 1)
             = Amplitude(i, p + h + k - 1) * Amplitude(i, c + k - 1)
  <2>1. PICK x \in Int : x = p + h + k - 1
    OBVIOUS
  <2>2. j.base <= x /\ i.base <= x /\ x < Through(j)
    BY <1>1, <1>2, <1>4, <2>1
  <2>3. PICK y \in Int : y = c + k - 1
    BY <1>3
  <2>4. j.base <= y /\ i.base <= y /\ y < Through(j)
    BY <1>1, <1>3, <2>3
  <2>5. Amplitude(j, x) = Amplitude(i, x) /\ Amplitude(j, y) = Amplitude(i, y)
    BY <2>2, <2>4, HeardSame
  <2> QED
    BY <2>1, <2>3, <2>5
<1>6. Product(j, c) = [k \in 1..h |-> Amplitude(j, p + h + k - 1) * Amplitude(j, c + k - 1)]
  BY <1>2, <1>4 DEF Product
<1>7. Product(i, c) = [k \in 1..h |-> Amplitude(i, p + h + k - 1) * Amplitude(i, c + k - 1)]
  BY <1>1, <1>2, <1>4 DEF Product
<1>8. Product(j, c) = Product(i, c)
  BY <1>5, <1>6, <1>7
<1> QED
  BY <1>8, LikenessSum

\* The one ahead lays the window the other lays.
LEMMA Follows ==
  ASSUME NEW j, NEW i, Buffered(j), Buffered(i), Alike(j, i), Behind(j, i), Fits(j)
  PROVE  Fits(i) /\ Alike(Laid(j), Laid(i))
<1>1. /\ j \in StretchStates /\ i \in StretchStates /\ j.windows \in Nat /\ j.prev \in Int
      /\ j.flushing \in BOOLEAN /\ i.flushing \in BOOLEAN /\ j.base \in Nat /\ i.base \in Nat
  BY DEF Buffered, StretchStates
<1>2. PICK d \in Nat, r \in Nat \ {0}, w \in Nat \ {0} :
        d = Due(j) /\ r = StretchReach /\ w = StretchWindow
  BY <1>1, DueIs, StretchConstants
<1>3. Due(i) = d
  BY <1>2 DEF Due, Alike
<1>4. PICK e \in Nat, f \in Nat : e = Through(j) /\ f = Through(i)
  BY <1>1, ThroughIs
<1>5. e <= f
  BY <1>1, <1>4, BehindIs
<1>6. i.prev = j.prev
  BY DEF Alike
<1>7. PICK lo \in Nat : lo = Earliest(j) /\ lo = Earliest(i)
  BY <1>2, <1>3 DEF Earliest
<1>8. PICK hi \in Int, hj \in Int : hi = Latest(i) /\ hj = Latest(j)
  BY NearIs
<1>9. /\ hj = (IF d + r <= e - w THEN d + r ELSE e - w)
      /\ hi = (IF d + r <= f - w THEN d + r ELSE f - w)
  BY <1>2, <1>3, <1>4, <1>8 DEF Latest
<1>10. hj <= hi
  BY <1>5, <1>9
<1>11. (j.flushing \/ j.prev < 0 \/ d + r + w <= e) /\ lo <= hj
  BY <1>2, <1>4, <1>7, <1>8, FitsIs
<1>12. j.flushing => i.flushing /\ e = f
  BY <1>4 DEF Behind, Through
<1>13. Fits(i)
  <2>1. i.flushing \/ i.prev < 0 \/ Due(i) + StretchReach + StretchWindow <= Through(i)
    BY <1>2, <1>3, <1>4, <1>5, <1>6, <1>11, <1>12
  <2>2. Earliest(i) <= Latest(i)
    BY <1>7, <1>8, <1>10, <1>11
  <2> QED
    BY <2>1, <2>2, FitsIs
<1>14. Taken(i) = Taken(j)
  <2>1. CASE j.prev < 0
    BY <1>6, <1>13, <2>1, TakenIs
  <2>2. CASE ~(j.prev < 0)
    <3>1. j.prev >= 0 /\ i.prev >= 0
      BY <1>1, <1>6, <2>2
    <3>2. hi = hj
      BY <1>4, <1>5, <1>9, <1>11, <1>12, <2>2
    <3>3. /\ Taken(j) = SearchedIn(j, lo, hj) /\ Taken(i) = SearchedIn(i, lo, hi)
          /\ \A c \in lo..hj : InReach(j, c) /\ Likeness(j, c) \in Int
          /\ \A c \in lo..hi : InReach(i, c)
      BY <1>7, <1>8, <1>13, <3>1, TakenIs
    <3>4. ASSUME NEW c \in lo..hj PROVE Likeness(j, c) = Likeness(i, c)
      BY <3>1, <3>2, <3>3, LikenessSame
    <3>5. hj \in Nat
      BY <1>11
    <3>6. SearchedIn(j, lo, hj) = SearchedIn(i, lo, hj)
      BY <1>11, <3>3, <3>4, <3>5, SearchedSame
    <3> QED
      BY <3>2, <3>3, <3>6
  <2> QED
    BY <2>1, <2>2
<1>15. Laying(j) = Laying(i)
  <2>1. PICK at \in Nat : at = Taken(j)
    BY TakenIs
  <2>2. j.base <= at /\ i.base <= at /\ at + w <= e
    BY <1>2, <1>4, <1>13, <1>14, <2>1, TakenIs DEF InReach
  <2>3. ASSUME NEW k \in 1..w PROVE SampleAt(j, at + k - 1) = SampleAt(i, at + k - 1)
    <3>1. PICK x \in Int : x = at + k - 1
      OBVIOUS
    <3>2. j.base <= x /\ i.base <= x /\ x < Through(j)
      BY <1>1, <1>4, <2>2, <3>1
    <3> QED
      BY <3>1, <3>2, HeardSame
  <2>4. j.acc = i.acc
    BY DEF Alike
  <2>5. Laying(j) = [k \in 1..w |-> Append(j.acc[k], SampleAt(j, at + k - 1))]
    BY <1>2, <2>1 DEF Laying
  <2>6. Laying(i) = [k \in 1..w |-> Append(j.acc[k], SampleAt(i, at + k - 1))]
    BY <1>2, <1>14, <2>1, <2>4 DEF Laying
  <2> QED
    BY <2>3, <2>5, <2>6
<1>16. PICK s, t : s = Laid(j) /\ t = Laid(i)
  OBVIOUS
<1>17. /\ SameInput(s, j) /\ s.prev = Taken(j) /\ s.windows = j.windows + 1
       /\ s.acc = Waiting(Laying(j)) /\ s.out = j.out \o SubSeq(Laying(j), 1, StretchHop)
  BY <1>16, LaidKeeps
<1>18. /\ SameInput(t, i) /\ t.prev = Taken(i) /\ t.windows = i.windows + 1
       /\ t.acc = Waiting(Laying(i)) /\ t.out = i.out \o SubSeq(Laying(i), 1, StretchHop)
  BY <1>13, <1>16, LaidKeeps
<1>19. Alike(s, t)
  <2>1. s.windows = t.windows /\ s.prev = t.prev /\ s.acc = t.acc
    BY <1>14, <1>15, <1>17, <1>18, Zenon DEF Alike
  <2>2. s.out = t.out
    BY <1>15, <1>17, <1>18, Zenon DEF Alike
  <2>3. s.speed = t.speed /\ s.sound = t.sound
    BY <1>17, <1>18, Zenon DEF Alike, SameInput
  <2> QED
    BY <2>1, <2>2, <2>3 DEF Alike
<1> QED
  BY <1>13, <1>16, <1>19

-----------------------------------------------------------------------------
(* As many windows as fit: an endless run that comes to rest.              *)

Lays(f, n, j) == f[0] = j /\ \A k \in 1..n : f[k] = LaidIfFits(f[k - 1])
Endless(f, j) == f[0] = j /\ \A k \in Nat : f[k + 1] = LaidIfFits(f[k])

LEMMA LaysExist == ASSUME NEW j, NEW m \in Nat PROVE \E f : Lays(f, m, j)
<1> DEFINE T == {n \in Nat : \E f : Lays(f, n, j)}
<1>1. 0 \in T
  <2>1. Lays([k \in 0..0 |-> j], 0, j)
    BY DEF Lays
  <2> QED
    BY <2>1
<1>2. ASSUME NEW n \in Nat, n \in T PROVE n + 1 \in T
  <2>1. PICK f : Lays(f, n, j)
    BY <1>2
  <2>2. PICK last : last = LaidIfFits(f[n])
    OBVIOUS
  <2> DEFINE h == [k \in 0..n + 1 |-> IF k = n + 1 THEN last ELSE f[k]]
  <2>3. \A k \in 0..n : h[k] = f[k]
    OBVIOUS
  <2>4. h[n + 1] = last
    OBVIOUS
  <2>5. h[0] = j
    BY <2>1, <2>3 DEF Lays
  <2>6. ASSUME NEW k \in 1..n + 1 PROVE h[k] = LaidIfFits(h[k - 1])
    <3>1. CASE k = n + 1
      <4>1. k - 1 = n /\ h[n] = f[n]
        BY <2>3, <3>1
      <4> HIDE DEF h
      <4> QED
        BY <2>2, <2>4, <3>1, <4>1
    <3>2. CASE k \in 1..n
      <4>1. h[k] = f[k] /\ h[k - 1] = f[k - 1]
        BY <2>3, <3>2
      <4>2. f[k] = LaidIfFits(f[k - 1])
        BY <2>1, <3>2 DEF Lays
      <4> HIDE DEF h
      <4> QED
        BY <4>1, <4>2
    <3>3. k = n + 1 \/ k \in 1..n
      OBVIOUS
    <3> HIDE DEF h
    <3> QED
      BY <3>1, <3>2, <3>3
  <2> HIDE DEF h
  <2> QED
    BY <2>5, <2>6 DEF Lays
<1>3. \A n \in Nat : n \in T
  <2> HIDE DEF T
  <2> QED
    BY <1>1, <1>2, SetInduction
<1> QED
  BY <1>3

LEMMA LaysAgree ==
  ASSUME NEW j, NEW f, NEW g, NEW n \in Nat, NEW m \in Nat, n <= m, Lays(f, n, j), Lays(g, m, j)
  PROVE  \A k \in 0..n : f[k] = g[k]
<1> DEFINE T == {k \in 0..n : f[k] = g[k]}
<1>1. 0 \in T
  <2>1. f[0] = j /\ g[0] = j /\ 0 \in 0..n
    BY DEF Lays
  <2> QED
    BY <2>1
<1>2. ASSUME NEW k \in 1..n, k - 1 \in T PROVE k \in T
  <2>1. f[k - 1] = g[k - 1]
    BY <1>2
  <2>2. k \in 1..m /\ k \in 0..n
    OBVIOUS
  <2>3. f[k] = LaidIfFits(f[k - 1]) /\ g[k] = LaidIfFits(g[k - 1])
    BY <2>2 DEF Lays
  <2> QED
    BY <2>1, <2>2, <2>3
<1>3. \A k \in 0..n : k \in T
  <2> HIDE DEF T
  <2> QED
    BY <1>1, <1>2, InductionUpTo
<1> QED
  BY <1>3

LEMMA EndlessExists == ASSUME NEW j PROVE \E f : Endless(f, j)
<1> DEFINE run(n) == CHOOSE f : Lays(f, n, j)
           h == [n \in Nat |-> run(n)[n]]
<1>1. ASSUME NEW n \in Nat PROVE Lays(run(n), n, j)
  BY LaysExist
<1>2. \A n \in Nat : h[n] = run(n)[n]
  OBVIOUS
<1> HIDE DEF run, h
<1>3. h[0] = j
  BY <1>1, <1>2 DEF Lays
<1>4. ASSUME NEW n \in Nat PROVE h[n + 1] = LaidIfFits(h[n])
  <2>1. Lays(run(n), n, j) /\ Lays(run(n + 1), n + 1, j)
    BY <1>1
  <2>2. n <= n + 1 /\ n + 1 \in Nat /\ n \in 0..n /\ n + 1 \in 1..n + 1 /\ (n + 1) - 1 = n
    OBVIOUS
  <2>3. run(n)[n] = run(n + 1)[n]
    BY <2>1, <2>2, LaysAgree
  <2>4. run(n + 1)[n + 1] = LaidIfFits(run(n + 1)[n])
    <3>1. run(n + 1)[n + 1] = LaidIfFits(run(n + 1)[(n + 1) - 1])
      BY <2>1, <2>2, Zenon DEF Lays
    <3> QED
      BY <2>2, <3>1
  <2> QED
    BY <1>2, <2>2, <2>3, <2>4
<1> QED
  BY <1>3, <1>4 DEF Endless

Most(j) == ((BufEnd(j) + StretchReach + 1) * j.speed[2]) \div (StretchHop * j.speed[1]) + 1

LEMMA LaidAllIs ==
  ASSUME NEW j, NEW f, Endless(f, j), Most(j) \in Nat
  PROVE  LaidAll(j) = f[Most(j)]
<1>1. PICK m \in Nat : m = Most(j)
  OBVIOUS
<1> DEFINE Solves(g) == g = [w \in 0..m |-> IF w = 0 THEN j ELSE LaidIfFits(g[w - 1])]
           a == CHOOSE g : Solves(g)
           h == [w \in 0..m |-> f[w]]
<1>2. Solves(h)
  <2>1. ASSUME NEW w \in 0..m PROVE h[w] = IF w = 0 THEN j ELSE LaidIfFits(h[w - 1])
    <3>1. CASE w = 0
      BY <3>1 DEF Endless
    <3>2. CASE w \in 1..m
      <4>1. h[w] = f[w] /\ h[w - 1] = f[w - 1] /\ w # 0 /\ w - 1 \in Nat /\ (w - 1) + 1 = w
        BY <3>2
      <4>2. f[(w - 1) + 1] = LaidIfFits(f[w - 1])
        BY <4>1, Zenon DEF Endless
      <4> HIDE DEF h
      <4> QED
        BY <4>1, <4>2
    <3>3. w = 0 \/ w \in 1..m
      OBVIOUS
    <3> HIDE DEF h
    <3> QED
      BY <3>1, <3>2, <3>3
  <2>2. h = [w \in 0..m |-> h[w]]
    OBVIOUS
  <2> HIDE DEF h
  <2> QED
    BY <2>1, <2>2
<1>3. Solves(a)
  <2> HIDE DEF Solves
  <2> QED
    BY <1>2
<1>4. Lays(a, m, j)
  <2> HIDE DEF a
  <2>1. a = [w \in 0..m |-> IF w = 0 THEN j ELSE LaidIfFits(a[w - 1])]
    BY <1>3
  <2>2. 0 \in 0..m /\ \A k \in 1..m : k \in 0..m /\ k # 0
    OBVIOUS
  <2>3. a[0] = j
    BY <2>1, <2>2
  <2>4. ASSUME NEW k \in 1..m PROVE a[k] = LaidIfFits(a[k - 1])
    BY <2>1, <2>2, Zenon
  <2> QED
    BY <2>3, <2>4 DEF Lays
<1>5. Lays(f, m, j)
  <2>1. ASSUME NEW k \in 1..m PROVE f[k] = LaidIfFits(f[k - 1])
    <3>1. k - 1 \in Nat /\ (k - 1) + 1 = k
      OBVIOUS
    <3>2. f[(k - 1) + 1] = LaidIfFits(f[k - 1])
      BY <3>1, Zenon DEF Endless
    <3> QED
      BY <3>1, <3>2
  <2>2. f[0] = j
    BY DEF Endless
  <2> QED
    BY <2>1, <2>2 DEF Lays
<1>6. LaidAll(j) = a[m]
  BY <1>1, Zenon DEF LaidAll, LaidIfFits, Most
<1>7. a[m] = f[m]
  <2>1. m \in 0..m /\ m <= m
    OBVIOUS
  <2> HIDE DEF a
  <2> QED
    BY <1>4, <1>5, <2>1, LaysAgree
<1> QED
  BY <1>1, <1>6, <1>7

LEMMA Goes ==
  ASSUME NEW j, Buffered(j), NEW f, Endless(f, j)
  PROVE  \A k \in Nat : /\ Buffered(f[k]) /\ SameInput(f[k], j)
                        /\ ~Fits(f[k]) \/ k <= f[k].windows
<1> DEFINE Good(k) == /\ Buffered(f[k]) /\ SameInput(f[k], j)
                      /\ ~Fits(f[k]) \/ k <= f[k].windows
           T == {k \in Nat : Good(k)}
<1>1. 0 \in T
  <2>1. f[0] = j
    BY DEF Endless
  <2>2. SameInput(j, j) /\ 0 <= j.windows
    BY DEF SameInput, Buffered, StretchStates
  <2>3. Good(0)
    BY <2>1, <2>2
  <2> QED
    BY <2>3
<1>2. ASSUME NEW k \in Nat, k \in T PROVE k + 1 \in T
  <2>1. PICK s, t : s = f[k] /\ t = f[k + 1]
    OBVIOUS
  <2>2. Buffered(s) /\ SameInput(s, j) /\ (~Fits(s) \/ k <= s.windows)
    BY <1>2, <2>1
  <2>3. t = LaidIfFits(s)
    BY <2>1, Zenon DEF Endless
  <2>4. CASE ~Fits(s)
    <3>1. t = s
      BY <2>3, <2>4 DEF LaidIfFits
    <3>2. Good(k + 1)
      BY <2>1, <2>2, <2>4, <3>1
    <3> QED
      BY <3>2
  <2>5. CASE Fits(s)
    <3>1. t = Laid(s)
      BY <2>3, <2>5 DEF LaidIfFits
    <3>2. Buffered(t) /\ SameInput(t, s) /\ t.windows = s.windows + 1
      BY <2>2, <2>5, <3>1, LaidKeeps
    <3>3. SameInput(t, j)
      BY <2>2, <3>2 DEF SameInput
    <3>4. s.windows \in Nat /\ k <= s.windows
      BY <2>2, <2>5 DEF Buffered, StretchStates
    <3>5. Good(k + 1)
      BY <2>1, <3>2, <3>3, <3>4
    <3> QED
      BY <3>5
  <2> QED
    BY <2>4, <2>5
<1>3. \A k \in Nat : k \in T
  <2> HIDE DEF T
  <2> QED
    BY <1>1, <1>2, SetInduction
<1> QED
  BY <1>3

LEMMA ThreeTimes ==
  ASSUME NEW a \in Nat, NEW b \in Nat, NEW c \in Nat
  PROVE  (a * b) * c = a * (b * c)
  BY SMT

LEMMA Settles ==
  ASSUME NEW j, Buffered(j)
  PROVE  /\ Most(j) \in Nat
         /\ \A s : Buffered(s) /\ SameInput(s, j) /\ Most(j) <= s.windows => ~Fits(s)
<1>1. j \in StretchStates
  BY DEF Buffered
<1>2. PICK n \in Nat \ {0}, d \in Nat \ {0}, h \in Nat \ {0}, r \in Nat \ {0} :
        n = j.speed[1] /\ d = j.speed[2] /\ h = StretchHop /\ r = StretchReach
  BY <1>1, SpeedIs, StretchConstants
<1>3. PICK e \in Nat : e = Through(j) /\ e = BufEnd(j)
  BY <1>1, ThroughIs DEF Buffered, BufEnd
<1>4. h * n \in Nat \ {0} /\ (e + r + 1) * d \in Nat
  BY SMT
<1>5. PICK x \in Nat, y \in Nat \ {0} : x = (e + r + 1) * d /\ y = h * n
  BY <1>4
<1>6. PICK q \in Nat : q = x \div y /\ x < q * y + y
  <2>1. x \div y \in Nat /\ x < (x \div y) * y + y
    BY DivBounds
  <2> QED
    BY <2>1
<1>7. Most(j) = q + 1
  BY <1>2, <1>3, <1>5, <1>6 DEF Most
<1>8. ASSUME NEW s, Buffered(s), SameInput(s, j), q + 1 <= s.windows, Fits(s) PROVE FALSE
  <2>1. s \in StretchStates
    BY <1>8 DEF Buffered
  <2>2. PICK w \in Nat : w = s.windows
    BY <2>1 DEF StretchStates
  <2>3. s.speed = j.speed /\ Through(s) = e
    BY <1>3, <1>8 DEF SameInput, Through
  <2>4. (w * h) * n = w * y
    BY <1>5, ThreeTimes
  <2>5. (q + 1) * y <= w * y /\ (q + 1) * y = q * y + y /\ w * y \in Nat /\ q * y \in Nat
    BY <1>8, <2>2, SMT
  <2>6. PICK z \in Nat : z = w * y
    BY <2>5
  <2>7. x < z
    BY <1>6, <2>5, <2>6
  <2>8. PICK p \in Nat : p = Rounded(z, d) /\ 2 * z + d < p * (2 * d) + 2 * d
    BY RoundedIs
  <2>9. Due(s) = p
    BY <1>2, <2>2, <2>3, <2>4, <2>6, <2>8 DEF Due
  <2>10. e + r + 1 <= p
    <3>1. PICK u \in Nat \ {0} : u = 2 * d
      OBVIOUS
    <3>2. (e + r + 1) * (2 * d) = 2 * ((e + r + 1) * d)
      BY SMT
    <3>3. (e + r + 1) * u <= 2 * z + d /\ 2 * z + d < p * u + u /\ 2 * z + d \in Nat
      BY <1>5, <2>7, <2>8, <3>1, <3>2
    <3>4. e + r + 1 \in Nat
      OBVIOUS
    <3> QED
      BY <3>3, <3>4, QuotientHolds
  <2>11. Earliest(s) = p - r
    BY <1>2, <2>9, <2>10 DEF Earliest
  <2>12. Latest(s) \in Int /\ Latest(s) + StretchWindow <= e /\ StretchWindow \in Nat
    BY <1>8, <2>3, NearIs, StretchConstants
  <2>13. Earliest(s) <= Latest(s)
    BY <1>8, FitsIs
  <2> QED
    BY <2>10, <2>11, <2>12, <2>13
<1> QED
  BY <1>6, <1>7, <1>8

LEMMA ComesToRest ==
  ASSUME NEW j, Buffered(j), NEW f, Endless(f, j)
  PROVE  /\ Most(j) \in Nat /\ \A k \in Nat : f[Most(j) + k] = LaidAll(j)
         /\ Buffered(LaidAll(j)) /\ SameInput(LaidAll(j), j) /\ ~Fits(LaidAll(j))
<1>1. PICK m \in Nat : m = Most(j)
  BY Settles
<1>2. LaidAll(j) = f[m]
  BY <1>1, LaidAllIs
<1>3. ASSUME NEW k \in Nat, m <= k PROVE Buffered(f[k]) /\ SameInput(f[k], j) /\ ~Fits(f[k])
  <2>1. PICK s : s = f[k]
    OBVIOUS
  <2>2. Buffered(s) /\ SameInput(s, j) /\ (~Fits(s) \/ k <= s.windows)
    BY <2>1, Goes
  <2>3. s.windows \in Nat
    BY <2>2 DEF Buffered, StretchStates
  <2>4. k <= s.windows => m <= s.windows
    BY <1>3, <2>3
  <2>5. ~Fits(s)
    BY <1>1, <2>2, <2>4, Settles
  <2> QED
    BY <2>1, <2>2, <2>5
<1> DEFINE T == {k \in Nat : f[m + k] = f[m]}
<1>4. 0 \in T
  <2>1. m + 0 = m
    OBVIOUS
  <2> QED
    BY <2>1
<1>5. ASSUME NEW k \in Nat, k \in T PROVE k + 1 \in T
  <2>1. m + k \in Nat /\ m <= m + k /\ m + (k + 1) = (m + k) + 1
    OBVIOUS
  <2>2. f[(m + k) + 1] = LaidIfFits(f[m + k])
    BY <2>1, Zenon DEF Endless
  <2>3. ~Fits(f[m + k])
    BY <1>3, <2>1
  <2>4. LaidIfFits(f[m + k]) = f[m + k]
    BY <2>3 DEF LaidIfFits
  <2>5. f[m + (k + 1)] = f[m]
    BY <1>5, <2>1, <2>2, <2>4
  <2> QED
    BY <2>5
<1>6. \A k \in Nat : k \in T
  <2> HIDE DEF T
  <2> QED
    BY <1>4, <1>5, SetInduction
<1>7. m <= m
  OBVIOUS
<1> QED
  BY <1>1, <1>2, <1>3, <1>6, <1>7

-----------------------------------------------------------------------------
(* Runs that are alike stay alike.                                         *)

SameAmount(j, i) == j.given = i.given /\ j.flushing = i.flushing

LEMMA AlikeSwaps == ASSUME NEW j, NEW i, Alike(j, i) PROVE Alike(i, j)
  BY DEF Alike

LEMMA AlikeThrough == ASSUME NEW j, NEW i, NEW h, Alike(j, i), Alike(i, h) PROVE Alike(j, h)
  BY DEF Alike

LEMMA SameBehind ==
  ASSUME NEW j, NEW i, j \in StretchStates, SameAmount(j, i) PROVE Behind(j, i) /\ Behind(i, j)
  BY DEF SameAmount, Behind, StretchStates

\* Whatever the one with less input comes to, the other comes to as well.
LEMMA Catches ==
  ASSUME NEW j, NEW i, Buffered(j), Buffered(i), Alike(j, i), Behind(j, i),
         NEW f, Endless(f, j), NEW g, Endless(g, i)
  PROVE  \A k \in Nat : \E m \in Nat : Alike(f[k], g[m])
<1> DEFINE T == {k \in Nat : \E m \in Nat : Alike(f[k], g[m])}
<1>1. 0 \in T
  <2>1. f[0] = j /\ g[0] = i
    BY DEF Endless
  <2>2. Alike(f[0], g[0])
    BY <2>1
  <2> QED
    BY <2>2
<1>2. ASSUME NEW k \in Nat, k \in T PROVE k + 1 \in T
  <2>1. PICK m \in Nat : Alike(f[k], g[m])
    BY <1>2
  <2>2. PICK s, t : s = f[k] /\ t = g[m]
    OBVIOUS
  <2>3. /\ Buffered(s) /\ SameInput(s, j) /\ Buffered(t) /\ SameInput(t, i)
    BY <2>2, Goes
  <2>4. Behind(s, t)
    BY <2>3 DEF Behind, SameInput
  <2>5. f[k + 1] = LaidIfFits(s) /\ g[m + 1] = LaidIfFits(t)
    BY <2>2, Zenon DEF Endless
  <2>6. CASE Fits(s)
    <3>1. Fits(t) /\ Alike(Laid(s), Laid(t))
      BY <2>1, <2>2, <2>3, <2>4, <2>6, Follows
    <3>2. Alike(f[k + 1], g[m + 1])
      BY <2>5, <2>6, <3>1 DEF LaidIfFits
    <3> QED
      BY <3>2
  <2>7. CASE ~Fits(s)
    <3>1. Alike(f[k + 1], g[m])
      BY <2>1, <2>2, <2>5, <2>7 DEF LaidIfFits
    <3> QED
      BY <3>1
  <2> QED
    BY <2>6, <2>7
<1>3. \A k \in Nat : k \in T
  <2> HIDE DEF T
  <2> QED
    BY <1>1, <1>2, SetInduction
<1> QED
  BY <1>3

\* From where two with the same input are alike they go on together.
LEMMA Together ==
  ASSUME NEW j, NEW i, Buffered(j), Buffered(i), SameAmount(j, i),
         NEW f, Endless(f, j), NEW g, Endless(g, i), NEW m \in Nat, Alike(j, g[m])
  PROVE  \A k \in Nat : Alike(f[k], g[m + k])
<1> DEFINE T == {k \in Nat : Alike(f[k], g[m + k])}
<1>1. 0 \in T
  <2>1. f[0] = j /\ m + 0 = m
    BY DEF Endless
  <2> QED
    BY <2>1
<1>2. ASSUME NEW k \in Nat, k \in T PROVE k + 1 \in T
  <2>1. m + k \in Nat /\ m + (k + 1) = (m + k) + 1
    OBVIOUS
  <2>2. PICK s, t : s = f[k] /\ t = g[m + k]
    OBVIOUS
  <2>3. Alike(s, t) /\ Buffered(s) /\ SameInput(s, j) /\ Buffered(t) /\ SameInput(t, i)
    BY <1>2, <2>1, <2>2, Goes
  <2>4. SameAmount(s, t) /\ s \in StretchStates
    BY <2>3 DEF SameAmount, SameInput, Buffered
  <2>5. Behind(s, t) /\ Behind(t, s)
    BY <2>4, SameBehind
  <2>6. f[k + 1] = LaidIfFits(s) /\ g[(m + k) + 1] = LaidIfFits(t)
    BY <2>1, <2>2, Zenon DEF Endless
  <2>7. CASE Fits(s)
    <3>1. Fits(t) /\ Alike(Laid(s), Laid(t))
      BY <2>3, <2>5, <2>7, Follows
    <3>2. Alike(f[k + 1], g[m + (k + 1)])
      BY <2>1, <2>6, <2>7, <3>1 DEF LaidIfFits
    <3> QED
      BY <3>2
  <2>8. CASE ~Fits(s)
    <3>1. ~Fits(t)
      BY <2>3, <2>5, <2>8, Follows, AlikeSwaps
    <3>2. Alike(f[k + 1], g[m + (k + 1)])
      BY <2>1, <2>3, <2>6, <2>8, <3>1 DEF LaidIfFits
    <3> QED
      BY <3>2
  <2> QED
    BY <2>7, <2>8
<1>3. \A k \in Nat : k \in T
  <2> HIDE DEF T
  <2> QED
    BY <1>1, <1>2, SetInduction
<1> QED
  BY <1>3

LEMMA SameEnd ==
  ASSUME NEW j, NEW i, Buffered(j), Buffered(i), SameAmount(j, i),
         NEW g, Endless(g, i), NEW m \in Nat, Alike(j, g[m])
  PROVE  Alike(LaidAll(j), LaidAll(i))
<1>1. PICK f : Endless(f, j)
  BY EndlessExists
<1>2. PICK a \in Nat, b \in Nat : a = Most(j) /\ b = Most(i)
  BY Settles
<1>3. PICK k \in Nat : k = a + b
  OBVIOUS
<1>4. f[a + b] = LaidAll(j)
  BY <1>1, <1>2, ComesToRest
<1>5. m + a \in Nat
  OBVIOUS
<1>6. g[b + (m + a)] = LaidAll(i)
  BY <1>2, <1>5, ComesToRest
<1>7. m + k = b + (m + a)
  BY <1>3
<1>8. Alike(f[k], g[m + k])
  BY <1>1, Together
<1> QED
  BY <1>3, <1>4, <1>6, <1>7, <1>8

LEMMA SameStart ==
  ASSUME NEW j, NEW i, Buffered(j), Buffered(i), SameAmount(j, i), Alike(j, i)
  PROVE  Alike(LaidAll(j), LaidAll(i))
<1>1. PICK g : Endless(g, i)
  BY EndlessExists
<1>2. Alike(j, g[0])
  BY <1>1 DEF Endless
<1> QED
  BY <1>1, <1>2, SameEnd

\* To stop on the way and to go on with more input makes no difference.
LEMMA Resumes ==
  ASSUME NEW a, NEW b, NEW j, Buffered(a), Buffered(b), Buffered(j), Alike(a, b), Behind(a, b),
         Alike(LaidAll(a), j), SameAmount(j, b)
  PROVE  Alike(LaidAll(j), LaidAll(b))
<1>1. PICK f, g : Endless(f, a) /\ Endless(g, b)
  BY EndlessExists
<1>2. PICK k \in Nat : k = Most(a)
  BY Settles
<1>3. f[k] = LaidAll(a)
  BY <1>1, <1>2, LaidAllIs
<1>4. PICK m \in Nat : Alike(f[k], g[m])
  BY <1>1, Catches
<1>5. Alike(j, g[m])
  BY <1>3, <1>4, AlikeSwaps, AlikeThrough
<1> QED
  BY <1>1, <1>5, SameEnd

LEMMA AtRest ==
  ASSUME NEW j, Buffered(j), ~Fits(j)
  PROVE  LaidAll(j) = j
<1>1. PICK f : Endless(f, j)
  BY EndlessExists
<1>2. PICK m \in Nat : m = Most(j)
  BY Settles
<1> DEFINE T == {k \in Nat : f[k] = j}
<1>3. 0 \in T
  BY <1>1 DEF Endless
<1>4. ASSUME NEW k \in Nat, k \in T PROVE k + 1 \in T
  <2>1. f[k + 1] = LaidIfFits(f[k]) /\ f[k] = j
    BY <1>1, <1>4, Zenon DEF Endless
  <2> QED
    BY <2>1 DEF LaidIfFits
<1>5. \A k \in Nat : k \in T
  <2> HIDE DEF T
  <2> QED
    BY <1>3, <1>4, SetInduction
<1> QED
  BY <1>1, <1>2, <1>5, LaidAllIs

-----------------------------------------------------------------------------
(* A chunk and the padding.                                                *)

Extended(j, given, flushing, more) ==
  [j EXCEPT !.given = given, !.flushing = flushing, !.buf = j.buf \o more]

Extra(b) == IF b THEN StretchWindow + 2 * StretchReach ELSE 0

\* more is what follows in an input of given samples and its padding.
Continues(j, given, flushing, more) ==
  /\ ~j.flushing /\ j.given <= given /\ Len(more) = (given - j.given) + Extra(flushing)
  /\ \A k \in 1..Len(more) : more[k] = Content(given, j.given + k - 1)

LEMMA ExtendedIs ==
  ASSUME NEW j, Buffered(j), NEW g \in Nat, NEW b \in BOOLEAN, NEW t \in Seq(Int),
         Continues(j, g, b, t)
  PROVE  /\ Buffered(Extended(j, g, b, t))
         /\ Extended(j, g, b, t).given = g /\ Extended(j, g, b, t).flushing = b
         /\ Alike(j, Extended(j, g, b, t)) /\ Behind(j, Extended(j, g, b, t))
         /\ Extended(j, g, b, t).kind = j.kind /\ Extended(j, g, b, t).at = j.at
         /\ Extended(j, g, b, t).pushed = j.pushed
<1>18. PICK i : i = Extended(j, g, b, t)
  OBVIOUS
<1>1. /\ j \in StretchStates /\ j.base \in Nat /\ j.buf \in Seq(Int) /\ j.given \in Nat
      /\ j.flushing = FALSE
  BY DEF Buffered, StretchStates, Continues
<1>2. PICK o \in Nat, base \in Nat : o = j.given /\ base = j.base
  BY <1>1
<1>0. PICK n \in Nat, w \in Nat :
        /\ n = Len(t) /\ w = Extra(b) /\ n = (g - o) + w /\ o <= g
        /\ \A k \in 1..n : t[k] = Content(g, o + k - 1)
  <2>1. Len(t) \in Nat /\ Extra(b) \in Nat
    BY StretchConstants DEF Extra
  <2>2. o <= g /\ Len(t) = (g - o) + Extra(b) /\ \A k \in 1..Len(t) : t[k] = Content(g, o + k - 1)
    BY <1>2, Zenon DEF Continues
  <2> QED
    BY <2>1, <2>2
<1>3. PICK f \in Seq(Int) : f = j.buf
  BY <1>1
<1>4. Through(j) = o /\ base + Len(f) = o /\ Len(f) \in Nat
  BY <1>1, <1>2, <1>3, ThroughIs DEF Buffered
<1>5. PICK m \in Nat : m = Len(f) /\ base + m = o
  BY <1>4
<1>6. PICK q : q = f \o t
  OBVIOUS
<1>7. /\ q \in Seq(Int) /\ Len(q) = m + n /\ (\A k \in 1..m : q[k] = f[k])
      /\ \A k \in 1..n : q[m + k] = t[k]
  <2>1. /\ q \in Seq(Int) /\ Len(q) = Len(f) + Len(t)
        /\ (\A k \in 1..Len(f) : q[k] = f[k])
        /\ \A k \in 1..Len(t) : q[Len(f) + k] = t[k]
    <3>1. f \in Seq(Int) /\ t \in Seq(Int)
      OBVIOUS
    <3> QED
      BY <1>6, <3>1, CatIs
  <2> QED
    BY <1>0, <1>5, <2>1
<1>8. i = [j EXCEPT !.given = g, !.flushing = b, !.buf = q]
  BY <1>3, <1>6, <1>18 DEF Extended
<1>9. i \in StretchStates
  BY <1>1, <1>7, <1>8 DEF StretchStates
<1>10. /\ i.given = g /\ i.flushing = b /\ i.buf = q /\ i.base = base /\ i.kind = j.kind
       /\ i.at = j.at /\ i.speed = j.speed /\ i.sound = j.sound /\ i.windows = j.windows
       /\ i.prev = j.prev /\ i.acc = j.acc /\ i.out = j.out /\ i.pushed = j.pushed
  BY <1>1, <1>2, <1>8 DEF StretchStates
<1>12. Through(i) = base + (m + n) /\ o <= Through(i)
  <2>1. Through(i) = g + w
    BY <1>0, <1>10 DEF Through, Extra
  <2>2. n = (g - o) + w /\ o <= g /\ base + m = o
    BY <1>0, <1>5
  <2>3. base + (m + n) = g + w /\ o <= g + w
    BY <2>2
  <2> QED
    BY <2>1, <2>3
<1>13. Held(i)
  <2>1. ASSUME NEW x \in base..(base + (m + n)) - 1 PROVE q[x + 1 - base] = Content(g, x)
    <3>0. x \in Int /\ base <= x /\ x <= base + m + n - 1 /\ o <= g
      BY <1>0
    <3>1. CASE x < o
      <4>1. x + 1 - base \in 1..m /\ x \in base..o - 1
        BY <1>5, <3>1
      <4>2. f[x + 1 - base] = Content(o, x)
        BY <1>2, <1>3, <1>4, <4>1 DEF Buffered, Held
      <4>3. Content(o, x) = Content(g, x)
        <5>1. x < g
          BY <3>0, <3>1
        <5> QED
          BY <3>1, <5>1, Zenon DEF Content
      <4> QED
        BY <1>7, <4>1, <4>2, <4>3
    <3>2. CASE ~(x < o)
      <4>1. PICK k \in 1..n : x + 1 - base = m + k
        <5>1. (x + 1 - base) - m \in 1..n /\ x + 1 - base = m + ((x + 1 - base) - m)
          BY <1>5, <3>0, <3>2
        <5> QED
          BY <5>1
      <4>2. x = o + k - 1
        BY <1>5, <3>0, <4>1
      <4>3. q[m + k] = Content(g, o + k - 1)
        BY <1>0, <1>7
      <4> QED
        BY <4>1, <4>2, <4>3
    <3> QED
      BY <3>1, <3>2
  <2> QED
    BY <1>10, <1>12, <2>1 DEF Held
<1>14. Due(i) = Due(j)
  BY <1>10 DEF Due
<1>15. Buffered(i)
  <2>1. i.base + Len(i.buf) = Through(i)
    BY <1>7, <1>10, <1>12
  <2>2. i.base = 0 \/ i.base <= Due(i) - StretchReach
    BY <1>2, <1>10, <1>14 DEF Buffered
  <2>3. (i.windows = 0 /\ i.prev = -1) \/ (i.windows > 0 /\ i.prev \in Nat)
    BY <1>10 DEF Buffered
  <2>4. ASSUME i.prev >= 0 PROVE i.base <= i.prev + StretchHop /\ i.prev + StretchWindow <= Through(i)
    <3>1. j.base <= j.prev + StretchHop /\ j.prev + StretchWindow <= o
      BY <1>4, <1>10, <2>4 DEF Buffered
    <3>2. j.prev \in Int /\ StretchWindow \in Nat /\ StretchHop \in Nat /\ Through(i) \in Nat
      BY <1>1, <1>9, StretchConstants, ThroughIs DEF StretchStates
    <3> QED
      BY <1>2, <1>10, <1>12, <3>1, <3>2
  <2>5. Len(i.acc) = StretchWindow /\ Len(i.out) = i.windows * StretchHop
    BY <1>10 DEF Buffered
  <2> QED
    BY <1>9, <1>13, <2>1, <2>2, <2>3, <2>4, <2>5 DEF Buffered
<1>16. Alike(j, i)
  BY <1>10 DEF Alike
<1>17. Behind(j, i)
  BY <1>0, <1>1, <1>2, <1>10 DEF Behind
<1> QED
  BY <1>10, <1>15, <1>16, <1>17, <1>18

NewSamples(j, n) == [k \in 1..n |-> j.given + k]
Padding == [k \in 1..StretchWindow + 2 * StretchReach |-> Silence]
WithChunk(j, n) == Extended(j, j.given + n, FALSE, NewSamples(j, n))
WithPadding(j) == Extended(j, j.given, TRUE, Padding)

LEMMA ChunkIs ==
  ASSUME NEW j, Buffered(j), ~j.flushing, NEW n \in Nat
  PROVE  /\ Buffered(WithChunk(j, n)) /\ WithChunk(j, n).given = j.given + n
         /\ WithChunk(j, n).flushing = FALSE
         /\ Alike(j, WithChunk(j, n)) /\ Behind(j, WithChunk(j, n))
         /\ WithChunk(j, n).kind = j.kind /\ WithChunk(j, n).at = j.at
         /\ Pushed(j, n) = Counted(LaidAll(WithChunk(j, n)))
<1>1. j \in StretchStates /\ j.flushing = FALSE
  BY DEF Buffered, StretchStates
<1>2. PICK o \in Nat : o = j.given
  BY <1>1 DEF StretchStates
<1>3. PICK t : t = NewSamples(j, n)
  OBVIOUS
<1>4. t \in Seq(Int) /\ Len(t) = n /\ \A k \in 1..n : t[k] = o + k
  <2>1. t = [k \in 1..n |-> o + k]
    BY <1>2, <1>3 DEF NewSamples
  <2>2. t \in [1..n -> Int]
    BY <2>1
  <2> QED
    BY <2>1, <2>2
<1>5. PICK g \in Nat : g = o + n
  OBVIOUS
<1>6. Continues(j, g, FALSE, t)
  <2>1. \A k \in 1..n : t[k] = Content(g, o + k - 1)
    <3>1. ASSUME NEW k \in 1..n PROVE t[k] = Content(g, o + k - 1)
      <4>1. o + k - 1 < g /\ (o + k - 1) + 1 = o + k
        BY <1>5
      <4>2. Content(g, o + k - 1) = (o + k - 1) + 1
        BY <4>1 DEF Content
      <4> QED
        BY <1>4, <4>1, <4>2
    <3> QED
      BY <3>1
  <2>2. o <= g /\ n = (g - o) + 0
    BY <1>5
  <2>3. Extra(FALSE) = 0
    BY DEF Extra
  <2> QED
    BY <1>2, <1>4, <2>1, <2>2, <2>3 DEF Continues
<1>7. PICK e : e = Extended(j, g, FALSE, t)
  OBVIOUS
<1>8. /\ Buffered(e) /\ e.given = g /\ e.flushing = FALSE /\ Alike(j, e) /\ Behind(j, e)
      /\ e.kind = j.kind /\ e.at = j.at /\ e.pushed = j.pushed
  <2>1. PICK b \in BOOLEAN : b = FALSE
    OBVIOUS
  <2>2. t \in Seq(Int) /\ Continues(j, g, b, t)
    BY <1>4, <1>6, <2>1
  <2>3. PICK i : i = Extended(j, g, b, t)
    OBVIOUS
  <2>4. /\ Buffered(i) /\ i.given = g /\ i.flushing = b /\ Alike(j, i) /\ Behind(j, i)
        /\ i.kind = j.kind /\ i.at = j.at /\ i.pushed = j.pushed
    BY <2>2, <2>3, ExtendedIs
  <2> QED
    BY <1>7, <2>1, <2>3, <2>4
<1>9. e = WithChunk(j, n)
  BY <1>2, <1>3, <1>5, <1>7 DEF WithChunk
<1>10. e = [j EXCEPT !.given = @ + n, !.buf = @ \o [k \in 1..n |-> j.given + k]]
  <2>1. e = [j EXCEPT !.given = j.given + n, !.flushing = FALSE, !.buf = j.buf \o NewSamples(j, n)]
    BY <1>9 DEF WithChunk, Extended
  <2> QED
    BY <1>1, <2>1 DEF StretchStates, NewSamples
<1>11. Pushed(j, n) = Counted(LaidAll(e))
  BY <1>10, Zenon DEF Pushed
<1> QED
  BY <1>2, <1>5, <1>8, <1>9, <1>11

LEMMA CountedIs ==
  ASSUME NEW s, Buffered(s), NEW i, i = Counted(s)
  PROVE  /\ Buffered(i) /\ Alike(s, i) /\ i.pushed = Len(i.out) /\ i.kind = s.kind /\ i.at = s.at
         /\ SameAmount(i, s)
<1>1. s \in StretchStates
  BY DEF Buffered
<1>2. PICK n \in Nat : n = Len(s.out)
  BY <1>1 DEF StretchStates
<1>3. i = [s EXCEPT !.pushed = n]
  BY <1>2 DEF Counted
<1>4. i \in StretchStates
  BY <1>1, <1>3 DEF StretchStates
<1>5. /\ i.given = s.given /\ i.flushing = s.flushing /\ i.buf = s.buf /\ i.base = s.base
      /\ i.kind = s.kind /\ i.at = s.at /\ i.speed = s.speed /\ i.sound = s.sound
      /\ i.windows = s.windows /\ i.prev = s.prev /\ i.acc = s.acc /\ i.out = s.out /\ i.pushed = n
  BY <1>1, <1>3 DEF StretchStates
<1>6. Through(i) = Through(s) /\ Due(i) = Due(s)
  BY <1>5 DEF Through, Due
<1>7. Held(i)
  BY <1>5, <1>6 DEF Buffered, Held
<1>8. Buffered(i)
  BY <1>4, <1>5, <1>6, <1>7 DEF Buffered
<1> QED
  BY <1>2, <1>5, <1>8 DEF Alike, SameAmount

LEMMA PushedIs ==
  ASSUME NEW j, Buffered(j), ~j.flushing, NEW n \in Nat
  PROVE  /\ Buffered(Pushed(j, n)) /\ Alike(LaidAll(WithChunk(j, n)), Pushed(j, n))
         /\ Pushed(j, n).pushed = Len(Pushed(j, n).out)
         /\ Pushed(j, n).given = j.given + n /\ Pushed(j, n).flushing = FALSE
         /\ Pushed(j, n).kind = j.kind /\ Pushed(j, n).at = j.at
         /\ Pushed(j, n).speed = j.speed /\ Pushed(j, n).sound = j.sound
<1>8. PICK p : p = Pushed(j, n)
  OBVIOUS
<1>1. PICK e : e = WithChunk(j, n)
  OBVIOUS
<1>2. /\ Buffered(e) /\ e.given = j.given + n /\ e.flushing = FALSE /\ Alike(j, e)
      /\ e.kind = j.kind /\ e.at = j.at /\ p = Counted(LaidAll(e))
  BY <1>1, <1>8, ChunkIs
<1>3. PICK s : s = LaidAll(e)
  OBVIOUS
<1>4. Buffered(s) /\ SameInput(s, e)
  <2>1. PICK f : Endless(f, e)
    BY EndlessExists
  <2> QED
    BY <1>2, <1>3, <2>1, ComesToRest
<1>5. /\ Buffered(p) /\ Alike(s, p) /\ p.pushed = Len(p.out) /\ p.kind = s.kind /\ p.at = s.at
      /\ SameAmount(p, s)
  BY <1>2, <1>3, <1>4, CountedIs
<1>6. p.given = j.given + n /\ p.flushing = FALSE /\ p.kind = j.kind /\ p.at = j.at
  BY <1>2, <1>4, <1>5 DEF SameInput, SameAmount
<1>7. p.speed = j.speed /\ p.sound = j.sound
  BY <1>2, <1>4, <1>5 DEF SameInput, Alike
<1> QED
  BY <1>1, <1>3, <1>5, <1>6, <1>7, <1>8

LEMMA StretcherIs ==
  ASSUME NEW speed \in StretchSpeeds, NEW sound \in StretchSounds
  PROVE  /\ Buffered(Stretcher(speed, sound)) /\ Stretcher(speed, sound).flushing = FALSE
         /\ Stretcher(speed, sound).given = 0 /\ Stretcher(speed, sound).prev = -1
         /\ Stretcher(speed, sound).speed = speed /\ Stretcher(speed, sound).sound = sound
         /\ Stretcher(speed, sound).pushed = Len(Stretcher(speed, sound).out)
         /\ Stretcher(speed, sound).at = "push" /\ Stretcher(speed, sound).kind = "stretch"
<1>14. PICK s : s = Stretcher(speed, sound)
  OBVIOUS
<1>1. PICK w \in Nat : w = StretchWindow
  BY StretchConstants
<1>2. PICK a : a = [k \in 1..StretchWindow |-> <<>>]
  OBVIOUS
<1>3. a \in Seq(Seq(Heard)) /\ Len(a) = w
  <2>1. <<>> \in Seq(Heard)
    BY EmptySeq
  <2>2. a \in [1..w -> Seq(Heard)]
    BY <1>1, <1>2, <2>1
  <2> QED
    BY <2>2
<1>4. PICK none \in Seq(Int) : none = <<>>
  BY EmptySeq
<1>5. PICK nothing \in Seq(Seq(Heard)) : nothing = <<>>
  BY EmptySeq
<1>6. Len(none) = 0 /\ Len(nothing) = 0
  BY <1>4, <1>5
<1>7. s = [kind |-> "stretch", at |-> "push", speed |-> speed, sound |-> sound, given |-> 0,
           buf |-> none, base |-> 0, windows |-> 0, prev |-> -1, flushing |-> FALSE,
           acc |-> a, out |-> nothing, pushed |-> 0]
  BY <1>2, <1>4, <1>5, <1>14 DEF Stretcher
<1>8. s \in StretchStates
  BY <1>3, <1>7 DEF StretchStates
<1>9. /\ s.given = 0 /\ s.flushing = FALSE /\ s.buf = none /\ s.base = 0 /\ s.windows = 0
      /\ s.prev = -1 /\ s.acc = a /\ s.out = nothing /\ s.pushed = 0
      /\ s.kind = "stretch" /\ s.at = "push" /\ s.speed = speed /\ s.sound = sound
  BY <1>7
<1>10. Through(s) = 0
  BY <1>8, <1>9, ThroughIs
<1>11. Held(s)
  BY <1>9, <1>10 DEF Held
<1>12. 0 * StretchHop = 0
  BY StretchConstants
<1>13. Buffered(s)
  BY <1>1, <1>3, <1>6, <1>8, <1>9, <1>10, <1>11, <1>12 DEF Buffered
<1> QED
  BY <1>6, <1>9, <1>13, <1>14

\* Open, and what one chunk would have come to.
Stretching(j) ==
  /\ j.at = "push" /\ ~j.flushing /\ Buffered(j) /\ j.pushed = Len(j.out)
  /\ Alike(Pushed(Stretcher(j.speed, j.sound), j.given), j)

Stretched(j) ==
  /\ j.at = "end" /\ j.out = OneChunk(j) /\ j.out \in Seq(Seq(Heard))
  /\ ~(j.pushed >= Asked(j)) => Len(j.out) = Asked(j)

StretchGiven(j) == j.kind = "stretch" => Stretching(j) \/ Stretched(j)

LEMMA PushKeeps ==
  ASSUME NEW j, Stretching(j), NEW n \in Nat, NEW p, p = Pushed(j, n)
  PROVE  Stretching(p)
<1>1. /\ j.at = "push" /\ j.flushing = FALSE /\ Buffered(j) /\ j \in StretchStates
      /\ j.given \in Nat /\ j.speed \in StretchSpeeds /\ j.sound \in StretchSounds
  BY DEF Stretching, Buffered, StretchStates
<1>2. PICK g \in Nat : g = j.given
  BY <1>1
<1>3. PICK s : s = Stretcher(j.speed, j.sound)
  OBVIOUS
<1>4. Buffered(s) /\ s.flushing = FALSE /\ s.given = 0 /\ s.speed = j.speed /\ s.sound = j.sound
  BY <1>1, <1>3, StretcherIs
<1>5. PICK a, b : a = WithChunk(s, g) /\ b = WithChunk(s, g + n)
  OBVIOUS
<1>6. g + n \in Nat /\ 0 + g = g /\ 0 + (g + n) = g + n /\ g <= g + n
  OBVIOUS
<1>7. Buffered(a) /\ a.given = g /\ a.flushing = FALSE /\ Alike(s, a)
  BY <1>4, <1>5, <1>6, ChunkIs
<1>8. Buffered(b) /\ b.given = g + n /\ b.flushing = FALSE /\ Alike(s, b)
  BY <1>4, <1>5, <1>6, ChunkIs
<1>9. Alike(a, b) /\ Behind(a, b)
  BY <1>6, <1>7, <1>8, AlikeSwaps, AlikeThrough DEF Behind
<1>10. PICK o, q : o = Pushed(s, g) /\ q = Pushed(s, g + n)
  OBVIOUS
<1>11. Alike(LaidAll(a), o)
  BY <1>4, <1>5, <1>10, PushedIs
<1>12. Alike(LaidAll(b), q)
  BY <1>4, <1>5, <1>6, <1>10, PushedIs
<1>13. Alike(o, j)
  BY <1>2, <1>3, <1>10 DEF Stretching
<1>14. PICK e : e = WithChunk(j, n)
  OBVIOUS
<1>15. Buffered(e) /\ e.given = g + n /\ e.flushing = FALSE /\ Alike(j, e)
  BY <1>1, <1>2, <1>14, ChunkIs
<1>16. Alike(LaidAll(a), e)
  BY <1>11, <1>13, <1>15, AlikeThrough
<1>17. SameAmount(e, b)
  BY <1>8, <1>15 DEF SameAmount
<1>18. Alike(LaidAll(e), LaidAll(b))
  BY <1>7, <1>8, <1>9, <1>15, <1>16, <1>17, Resumes
<1>19. /\ Buffered(p) /\ Alike(LaidAll(e), p) /\ p.pushed = Len(p.out)
       /\ p.given = g + n /\ p.flushing = FALSE /\ p.at = j.at
       /\ p.speed = j.speed /\ p.sound = j.sound
  BY <1>1, <1>2, <1>14, PushedIs
<1>20. Alike(q, p)
  BY <1>12, <1>18, <1>19, AlikeSwaps, AlikeThrough
<1>21. q = Pushed(Stretcher(p.speed, p.sound), p.given)
  BY <1>3, <1>10, <1>19
<1> QED
  BY <1>1, <1>19, <1>20, <1>21 DEF Stretching

LEMMA StretcherStarts ==
  ASSUME NEW speed \in StretchSpeeds, NEW sound \in StretchSounds
  PROVE  Stretching(Stretcher(speed, sound))
<1>1. PICK s : s = Stretcher(speed, sound)
  OBVIOUS
<1>2. /\ Buffered(s) /\ s.flushing = FALSE /\ s.given = 0 /\ s.speed = speed /\ s.sound = sound
      /\ s.pushed = Len(s.out) /\ s.at = "push" /\ s.prev = -1
  <2>1. speed \in StretchSpeeds /\ sound \in StretchSounds
    OBVIOUS
  <2>2. /\ Buffered(Stretcher(speed, sound)) /\ Stretcher(speed, sound).flushing = FALSE
        /\ Stretcher(speed, sound).given = 0 /\ Stretcher(speed, sound).prev = -1
        /\ Stretcher(speed, sound).speed = speed /\ Stretcher(speed, sound).sound = sound
        /\ Stretcher(speed, sound).pushed = Len(Stretcher(speed, sound).out)
        /\ Stretcher(speed, sound).at = "push" /\ Stretcher(speed, sound).kind = "stretch"
    BY <2>1, StretcherIs, Zenon
  <2> QED
    BY <1>1, <2>2
<1>3. PICK e : e = WithChunk(s, 0)
  OBVIOUS
<1>4. Buffered(e) /\ e.given = 0 + 0 /\ e.flushing = FALSE /\ Alike(s, e)
  <2>1. 0 \in Nat
    OBVIOUS
  <2> QED
    BY <1>2, <1>3, <2>1, ChunkIs, Zenon
<1>5. ~Fits(e)
  <2>1. e \in StretchStates
    BY <1>4 DEF Buffered
  <2>2. Through(e) = 0
    BY <1>4, <2>1, ThroughIs
  <2>3. Earliest(e) \in Nat /\ Latest(e) \in Int /\ Latest(e) + StretchWindow <= 0
    BY <1>4, <2>2, NearIs
  <2>4. ~(Earliest(e) <= Latest(e))
    BY <2>3, StretchConstants
  <2> QED
    BY <1>4, <2>4, FitsIs
<1>6. LaidAll(e) = e
  BY <1>4, <1>5, AtRest
<1>7. PICK p : p = Pushed(s, 0)
  OBVIOUS
<1>8. Alike(LaidAll(e), p)
  <2>1. 0 \in Nat
    OBVIOUS
  <2> QED
    BY <1>2, <1>3, <1>7, <2>1, PushedIs, Zenon
<1>9. Alike(p, s)
  BY <1>4, <1>6, <1>8, AlikeSwaps, AlikeThrough
<1> QED
  BY <1>1, <1>2, <1>7, <1>9 DEF Stretching

\* Nothing is left to lay, so more than was asked for is there.
LEMMA EnoughLaid ==
  ASSUME NEW s, Buffered(s), s.flushing, ~Fits(s)
  PROVE  Asked(s) \in Nat /\ Asked(s) <= Len(s.out)
<1>1. s \in StretchStates /\ s.given \in Nat /\ s.windows \in Nat
  BY DEF Buffered, StretchStates
<1>2. PICK n \in Nat \ {0}, d \in Nat \ {0}, h \in Nat \ {0}, r \in Nat \ {0}, w \in Nat \ {0} :
        n = s.speed[1] /\ d = s.speed[2] /\ h = StretchHop /\ r = StretchReach /\ w = StretchWindow
  BY <1>1, SpeedIs, StretchConstants
<1>3. PICK g \in Nat, v \in Nat : g = s.given /\ v = s.windows
  BY <1>1
<1>4. Through(s) = g + w + 2 * r
  BY <1>1, <1>2, <1>3, ThroughIs
<1>5. PICK p \in Nat : p = Due(s)
  BY <1>1, DueIs
<1>6. g < p
  <2>1. Earliest(s) = IF p <= r THEN 0 ELSE p - r
    BY <1>2, <1>5 DEF Earliest
  <2>2. Latest(s) = IF p + r <= g + 2 * r THEN p + r ELSE g + 2 * r
    <3>1. (g + w + 2 * r) - w = g + 2 * r
      OBVIOUS
    <3> QED
      BY <1>2, <1>4, <1>5, <3>1 DEF Latest
  <2>3. ~(Earliest(s) <= Latest(s))
    BY FitsIs
  <2> QED
    BY <2>1, <2>2, <2>3
<1>7. PICK z \in Nat : z = (v * h) * n
  <2>1. v * h \in Nat
    BY TimesIs
  <2> QED
    BY <2>1, TimesIs
<1>8. p = Rounded(z, d)
  BY <1>2, <1>3, <1>5, <1>7 DEF Due
<1>9. PICK x \in Nat : x = g * d
  BY TimesIs
\* The windows were due beyond the end.
<1>10. x <= z
  <2>1. p * (2 * d) <= 2 * z + d
    BY <1>8, RoundedIs
  <2>2. (g + 1) * (2 * d) <= p * (2 * d) /\ (g + 1) * (2 * d) = 2 * (g * d) + 2 * d
    BY <1>6, SMT
  <2>3. PICK y \in Nat : y = p * (2 * d)
    <3>1. 2 * d \in Nat
      OBVIOUS
    <3> QED
      BY <3>1, TimesIs
  <2>4. 2 * x + 2 * d <= y /\ y <= 2 * z + d
    BY <1>9, <2>1, <2>2, <2>3
  <2> QED
    BY <2>4
<1>11. PICK q \in Nat : q = Rounded(x, n) /\ q * (2 * n) <= 2 * x + n
  BY RoundedIs
<1>12. Asked(s) = q
  BY <1>2, <1>3, <1>9, <1>11 DEF Asked
<1>13. PICK l \in Nat : l = v * h
  BY TimesIs
<1>14. q <= l
  <2>1. PICK u \in Nat \ {0} : u = 2 * n
    OBVIOUS
  <2>2. l * (2 * n) = 2 * (l * n) /\ l * n = z
    BY <1>7, <1>13, SMT
  <2>3. q * u <= 2 * z + n
    BY <1>10, <1>11, <2>1
  <2>4. PICK y \in Nat : y = l * u
    BY <2>1, TimesIs
  <2>5. 2 * z + n < l * u + u
    BY <2>1, <2>2, <2>4
  <2>6. 2 * z + n \in Nat
    OBVIOUS
  <2> QED
    BY <2>3, <2>5, <2>6, QuotientHolds
<1>15. Len(s.out) = l
  BY <1>2, <1>3, <1>13 DEF Buffered
<1> QED
  BY <1>12, <1>14, <1>15

\* What a flush puts out, of what was laid.
Cut(asked, pushed, all) ==
  IF asked > pushed /\ Len(all) > asked THEN SubSeq(all, 1, asked) ELSE all

\* What is left when the padding has been laid.
Rested(i, j, s) ==
  /\ Buffered(s) /\ SameInput(s, i) /\ ~Fits(s) /\ s.kind = j.kind /\ s.pushed = j.pushed
  /\ s.given = j.given /\ s.speed = j.speed /\ s.sound = j.sound /\ s.flushing = TRUE

LEMMA PaddingIs ==
  ASSUME NEW j, Buffered(j), ~j.flushing
  PROVE  /\ Buffered(WithPadding(j)) /\ WithPadding(j).given = j.given
         /\ WithPadding(j).flushing = TRUE /\ Alike(j, WithPadding(j))
         /\ Rested(WithPadding(j), j, LaidAll(WithPadding(j)))
         /\ Flushed(j) = [LaidAll(WithPadding(j)) EXCEPT !.at = "end",
              !.out = Cut(Asked(j), j.pushed,
                          LaidAll(WithPadding(j)).out \o LaidAll(WithPadding(j)).acc)]
<1>15. PICK i, s : i = WithPadding(j) /\ s = LaidAll(i)
  OBVIOUS
<1>1. j \in StretchStates /\ j.flushing = FALSE
  BY DEF Buffered, StretchStates
<1>2. PICK g \in Nat : g = j.given
  BY <1>1 DEF StretchStates
<1>3. PICK t : t = Padding
  OBVIOUS
<1>4. PICK w \in Nat : w = StretchWindow + 2 * StretchReach
  BY StretchConstants
<1>5. t \in Seq(Int) /\ Len(t) = w /\ \A k \in 1..w : t[k] = Silence
  <2>1. t = [k \in 1..w |-> Silence]
    BY <1>3, <1>4 DEF Padding
  <2>2. t \in [1..w -> Int]
    BY <2>1 DEF Silence
  <2> QED
    BY <2>1, <2>2
<1>6. Continues(j, g, TRUE, t)
  <2>1. \A k \in 1..w : t[k] = Content(g, g + k - 1)
    <3>1. ASSUME NEW k \in 1..w PROVE t[k] = Content(g, g + k - 1)
      <4>1. ~(g + k - 1 < g)
        OBVIOUS
      <4>2. Content(g, g + k - 1) = Silence
        BY <4>1 DEF Content
      <4> QED
        BY <1>5, <4>2
    <3> QED
      BY <3>1
  <2>2. g <= g /\ w = (g - g) + w
    OBVIOUS
  <2>3. Extra(TRUE) = w
    BY <1>4 DEF Extra
  <2> QED
    BY <1>2, <1>5, <2>1, <2>2, <2>3 DEF Continues
<1>7. PICK b \in BOOLEAN : b = TRUE
  OBVIOUS
<1>8. PICK e : e = Extended(j, g, b, t)
  OBVIOUS
<1>9. /\ Buffered(e) /\ e.given = g /\ e.flushing = b /\ Alike(j, e)
      /\ e.kind = j.kind /\ e.at = j.at /\ e.pushed = j.pushed
  <2>1. t \in Seq(Int) /\ Continues(j, g, b, t)
    BY <1>5, <1>6, <1>7
  <2> QED
    BY <1>8, <2>1, ExtendedIs
<1>10. e = i
  BY <1>2, <1>3, <1>7, <1>8, <1>15 DEF WithPadding
<1>11. Buffered(s) /\ SameInput(s, i) /\ ~Fits(s)
  <2>1. PICK f : Endless(f, i)
    BY EndlessExists
  <2> QED
    BY <1>9, <1>10, <1>15, <2>1, ComesToRest
<1>12. /\ s.kind = j.kind /\ s.pushed = j.pushed /\ s.given = j.given /\ s.speed = j.speed
       /\ s.sound = j.sound /\ s.flushing = TRUE
  BY <1>2, <1>7, <1>9, <1>10, <1>11 DEF SameInput, Alike
<1>13. e = [j EXCEPT !.flushing = TRUE,
                     !.buf = @ \o [k \in 1..StretchWindow + 2 * StretchReach |-> Silence]]
  <2>1. e = [j EXCEPT !.given = j.given, !.flushing = TRUE, !.buf = j.buf \o Padding]
    BY <1>2, <1>3, <1>7, <1>8 DEF Extended
  <2> QED
    BY <1>1, <2>1 DEF StretchStates, Padding
<1>14. Flushed(j) = [s EXCEPT !.at = "end", !.out = Cut(Asked(j), j.pushed, s.out \o s.acc)]
  <2>1. s = LaidAll([j EXCEPT !.flushing = TRUE,
                       !.buf = @ \o [k \in 1..StretchWindow + 2 * StretchReach |-> Silence]])
    BY <1>10, <1>13, <1>15
  <2> QED
    BY <2>1, Zenon DEF Flushed, Ending, Cut
<1>16. Rested(i, j, s)
  BY <1>11, <1>12 DEF Rested
<1> QED
  BY <1>2, <1>7, <1>9, <1>10, <1>14, <1>15, <1>16

LEMMA FlushKeeps ==
  ASSUME NEW j, Stretching(j), NEW x, x = Flushed(j)
  PROVE  Stretched(x)
<1>1. /\ j.at = "push" /\ ~j.flushing /\ j.flushing = FALSE /\ Buffered(j) /\ j \in StretchStates
      /\ j.given \in Nat /\ j.speed \in StretchSpeeds /\ j.sound \in StretchSounds
      /\ j.pushed = Len(j.out)
  BY DEF Stretching, Buffered, StretchStates
<1>2. PICK i, s : i = WithPadding(j) /\ s = LaidAll(i)
  OBVIOUS
<1>3. /\ Buffered(i) /\ i.given = j.given /\ i.flushing = TRUE /\ Alike(j, i)
      /\ Buffered(s) /\ SameInput(s, i) /\ ~Fits(s) /\ s.pushed = j.pushed
      /\ s.given = j.given /\ s.speed = j.speed /\ s.sound = j.sound /\ s.flushing = TRUE
      /\ x = [s EXCEPT !.at = "end", !.out = Cut(Asked(j), j.pushed, s.out \o s.acc)]
  BY <1>1, <1>2, PaddingIs DEF Rested
\* The one that got it all as a chunk.
<1>4. PICK c : c = Stretcher(j.speed, j.sound)
  OBVIOUS
<1>5. Buffered(c) /\ c.flushing = FALSE /\ c.given = 0 /\ c.speed = j.speed /\ c.sound = j.sound
  BY <1>1, <1>4, StretcherIs
<1>6. PICK o : o = Pushed(c, j.given)
  OBVIOUS
<1>7. /\ Buffered(o) /\ o.pushed = Len(o.out) /\ o.given = 0 + j.given /\ o.flushing = FALSE
      /\ o.speed = j.speed /\ o.sound = j.sound
  BY <1>1, <1>5, <1>6, PushedIs
<1>8. Alike(o, j) /\ o.given = j.given
  BY <1>1, <1>4, <1>6, <1>7 DEF Stretching
<1>9. PICK k, u : k = WithPadding(o) /\ u = LaidAll(k)
  OBVIOUS
<1>10. /\ Buffered(k) /\ k.given = o.given /\ k.flushing = TRUE /\ Alike(o, k)
       /\ Buffered(u)
       /\ Flushed(o) = [u EXCEPT !.at = "end", !.out = Cut(Asked(o), o.pushed, u.out \o u.acc)]
  BY <1>7, <1>9, PaddingIs DEF Rested
<1>11. Alike(i, k) /\ SameAmount(i, k)
  <2>1. Alike(i, k)
    BY <1>3, <1>8, <1>10, AlikeSwaps, AlikeThrough
  <2> QED
    BY <1>3, <1>8, <1>10, <2>1 DEF SameAmount
<1>12. Alike(s, u)
  BY <1>2, <1>3, <1>9, <1>10, <1>11, SameStart
<1>13. Asked(o) = Asked(j) /\ o.pushed = j.pushed
  <2>1. o.out = j.out /\ o.speed = j.speed
    BY <1>8 DEF Alike
  <2>2. Asked(o) = Asked(j)
    BY <1>8, <2>1 DEF Asked
  <2> QED
    BY <1>1, <1>7, <2>1, <2>2
<1>14. PICK all : all = s.out \o s.acc
  OBVIOUS
<1>15. all = u.out \o u.acc
  BY <1>12, <1>14 DEF Alike
<1>16. PICK out : out = Cut(Asked(j), j.pushed, all)
  OBVIOUS
<1>17. s \in StretchStates /\ u \in StretchStates
  BY <1>3, <1>10 DEF Buffered
<1>18. x = [s EXCEPT !.at = "end", !.out = out]
  BY <1>3, <1>14, <1>16
<1>19. /\ x.at = "end" /\ x.out = out /\ x.given = j.given /\ x.speed = j.speed /\ x.sound = j.sound
       /\ x.pushed = j.pushed
  BY <1>3, <1>17, <1>18 DEF StretchStates
<1>20. OneChunk(x) = out
  <2>1. Flushed(o) = [u EXCEPT !.at = "end", !.out = out]
    BY <1>10, <1>13, <1>15, <1>16
  <2>2. Flushed(o).out = out
    BY <1>17, <2>1 DEF StretchStates
  <2>3. o = Pushed(Stretcher(x.speed, x.sound), x.given)
    BY <1>4, <1>6, <1>19
  <2> QED
    BY <2>2, <2>3, Zenon DEF OneChunk
<1>21. PICK a \in Nat : a = Asked(s) /\ a = Asked(j) /\ a = Asked(x) /\ a <= Len(s.out)
  <2>1. Asked(s) = Asked(j) /\ Asked(x) = Asked(j)
    BY <1>3, <1>19 DEF Asked
  <2> QED
    BY <1>3, <2>1, EnoughLaid
<1>22. PICK v \in Seq(Seq(Heard)), w \in Seq(Seq(Heard)) : v = s.out /\ w = s.acc
  BY <1>17 DEF StretchStates
<1>23. Len(w) > 0
  BY <1>3, <1>22, StretchConstants DEF Buffered
<1>24. all \in Seq(Seq(Heard)) /\ Len(all) = Len(v) + Len(w) /\ Len(v) \in Nat
  BY <1>14, <1>22, CatIs
<1>25. a < Len(all) /\ Len(all) \in Nat
  <2>1. PICK n \in Nat, m \in Nat : n = Len(v) /\ m = Len(w)
    BY <1>22
  <2>2. a <= n /\ m > 0 /\ Len(all) = n + m
    BY <1>21, <1>22, <1>23, <1>24, <2>1
  <2> QED
    BY <2>1, <2>2
<1>26. PICK n \in Nat : n = j.pushed
  BY <1>1 DEF StretchStates
<1>27. out \in Seq(Seq(Heard)) /\ (~(n >= a) => Len(out) = a)
  <2>1. out = IF a > n /\ Len(all) > a THEN SubSeq(all, 1, a) ELSE all
    BY <1>16, <1>21, <1>26 DEF Cut
  <2>2. SubSeq(all, 1, a) \in Seq(Seq(Heard)) /\ Len(SubSeq(all, 1, a)) = a
    BY <1>24, <1>25
  <2> QED
    BY <1>24, <1>25, <2>1, <2>2
<1> QED
  BY <1>19, <1>20, <1>21, <1>26, <1>27 DEF Stretched

LEMMA StretchedFaithful == StretchGiven(job) => StretchFaithful
<1> SUFFICES ASSUME StretchGiven(job), job.kind = "stretch", job.at = "end"
             PROVE  /\ job.out = OneChunk(job)
                    /\ \A k \in DOMAIN job.out : ~Contains(job.out[k], Missing)
                    /\ ~Overshot => Len(job.out) = Asked(job)
  BY DEF StretchFaithful, Kind
<1>1. Stretched(job)
  BY DEF StretchGiven, Stretching
<1>2. PICK out \in Seq(Seq(Heard)) : out = job.out
  BY <1>1 DEF Stretched
<1>3. ASSUME NEW k \in DOMAIN out PROVE ~Contains(out[k], Missing)
  <2>1. PICK s \in Seq(Heard) : s = out[k]
    OBVIOUS
  <2>2. \A i \in 1..Len(s) : s[i] # Missing
    BY DEF Heard
  <2> QED
    BY <2>1, <2>2 DEF Contains
<1> QED
  BY <1>1, <1>2, <1>3 DEF Stretched, Overshot

-----------------------------------------------------------------------------
(* The output path.                                                        *)

OutputGiven == EncGiven(job) /\ StretchGiven(job)

\* The stages behind the vocoder: however a sound is cut into chunks, what
\* the stretcher puts out is what it makes of the whole at once, without a
\* sample it had dropped and as long as was asked for, and what the encoder
\* puts out is the beginning of the one-shot encoding, and all of it after a
\* finish that succeeds (OutputFaithful).
THEOREM OutputKept == OutputSpec => []OutputFaithful
<1>1. OutputInit => OutputGiven
  <2>1. CASE StretchInit
    <3>1. PICK speed \in StretchSpeeds, sound \in StretchSounds : job = Stretcher(speed, sound)
      BY <2>1 DEF StretchInit
    <3>2. Stretching(job)
      BY <3>1, StretcherStarts
    <3>3. job.kind = "stretch"
      BY <3>1, StretcherIs
    <3> QED
      BY <3>2, <3>3 DEF OutputGiven, EncGiven, StretchGiven
  <2>2. CASE EncodeInit
    <3>1. job.kind = "encode"
      BY <2>2 DEF EncodeInit
    <3> QED
      BY <2>2, <3>1, EncodeInitGives DEF OutputGiven, StretchGiven
  <2> QED
    BY <2>1, <2>2 DEF OutputInit
<1>2. OutputGiven /\ [OutputNext]_job => OutputGiven'
  <2> SUFFICES ASSUME OutputGiven, [OutputNext]_job PROVE OutputGiven'
    OBVIOUS
  <2>1. CASE EncodeNext
    <3>1. EncGiven(job') /\ job'.kind = "encode"
      BY <2>1, PushGives, FinishGives DEF EncodeNext, OutputGiven
    <3> QED
      BY <3>1 DEF OutputGiven, StretchGiven
  <2>2. CASE StretchNext
    <3>1. job.kind = "stretch" /\ job.at = "push" /\ Stretching(job)
      BY <2>2 DEF StretchNext, StretchPush, StretchFlush, Kind, OutputGiven, StretchGiven, Stretched
    <3>2. Buffered(job) /\ ~job.flushing
      BY <3>1 DEF Stretching
    <3>3. CASE StretchPush
      <4>1. PICK n \in StretchChunks : job' = Pushed(job, n)
        BY <3>3 DEF StretchPush
      <4>2. n \in Nat
        BY TimeStretchAssumption
      <4>3. Stretching(job')
        BY <3>1, <4>1, <4>2, PushKeeps
      <4>4. job'.kind = "stretch"
        BY <3>1, <3>2, <4>1, <4>2, PushedIs
      <4> QED
        BY <4>3, <4>4 DEF OutputGiven, EncGiven, StretchGiven
    <3>4. CASE StretchFlush
      <4>1. job' = Flushed(job)
        BY <3>4 DEF StretchFlush
      <4>2. Stretched(job')
        BY <3>1, <4>1, FlushKeeps
      <4>3. job'.kind = "stretch"
        <5>1. PICK i, s : i = WithPadding(job) /\ s = LaidAll(i)
          OBVIOUS
        <5>2. /\ Buffered(s) /\ s.kind = job.kind
              /\ job' = [s EXCEPT !.at = "end", !.out = Cut(Asked(job), job.pushed, s.out \o s.acc)]
          BY <3>2, <4>1, <5>1, PaddingIs DEF Rested
        <5> QED
          BY <3>1, <5>2 DEF Buffered, StretchStates
      <4> QED
        BY <4>2, <4>3 DEF OutputGiven, EncGiven, StretchGiven
    <3> QED
      BY <2>2, <3>3, <3>4 DEF StretchNext
  <2>3. CASE UNCHANGED job
    BY <2>3 DEF OutputGiven
  <2> QED
    BY <2>1, <2>2, <2>3 DEF OutputNext
<1>3. OutputGiven => OutputFaithful
  BY GivenFaithful, StretchedFaithful DEF OutputGiven, OutputFaithful
<1> QED
  BY <1>1, <1>2, <1>3, PTL DEF OutputSpec
=============================================================================
