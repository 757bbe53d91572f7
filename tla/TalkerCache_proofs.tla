------------------------- MODULE TalkerCache_proofs -------------------------
(***************************************************************************)
(* Proofs about TalkerCache: the caches agree, the rows a forward attends  *)
(* to are the request's own, and the slab stays within its bounds, for any *)
(* requests, keys and sizes.                                               *)
(*                                                                         *)
(* The second part is about the other cache of K/V rows, that of the       *)
(* streaming aligner (FaStream), for any lengths of the audio, any words,  *)
(* any number of calls, and any sizes of hops, chunks and caches.          *)
(*                                                                         *)
(* The third part is about the times of the words (FaTimings), for any     *)
(* classes the aligner predicts and any loudness of the audio.             *)
(***************************************************************************)
EXTENDS TalkerCache, FaStream, FaTimings, SequenceTheorems, FiniteSetTheorems,
        WellFoundedInduction, TLAPS

---------------------------------------------------------------------------
(* Sequences without repetition.                                           *)

\* std::find and erase: what is left, where each key occurs once.
LEMMA RemoveFirstErases ==
  ASSUME NEW S, NEW s \in Seq(S), IsInjective(s), NEW e
  PROVE  LET t == RemoveFirst(s, e) IN
         /\ t \in Seq(S) /\ IsInjective(t)
         /\ ToSet(t) = ToSet(s) \ {e}
         /\ Len(t) = IF e \in ToSet(s) THEN Len(s) - 1 ELSE Len(s)
<1>1. CASE ~ \E i \in 1 .. Len(s) : s[i] = e
  <2>1. RemoveFirst(s, e) = s
    BY <1>1 DEF RemoveFirst
  <2>2. e \notin ToSet(s)
    BY <1>1, DOMAIN s = 1 .. Len(s) DEF ToSet
  <2> QED
    BY <2>1, <2>2
<1>2. CASE \E i \in 1 .. Len(s) : s[i] = e
  <2>1. PICK i \in 1 .. Len(s) : s[i] = e
    BY <1>2
  <2>2. {j \in 1 .. Len(s) : s[j] = e} = {i}
    BY <2>1, DOMAIN s = 1 .. Len(s) DEF IsInjective
  <2>3. SelectInSeq(s, LAMBDA v : v = e) = i
    BY <2>2 DEF SelectInSeq, Min
  <2>4. RemoveFirst(s, e) = RemoveAt(s, i)
    BY <1>2, <2>3 DEF RemoveFirst
  <2> DEFINE a == SubSeq(s, 1, i - 1)
             b == SubSeq(s, i + 1, Len(s))
             t == a \o b
  <2>5. /\ a \in Seq(S) /\ Len(a) = i - 1
        /\ \A j \in 1 .. i - 1 : a[j] = s[j]
    BY <2>1, SubSeqProperties
  <2>6. /\ b \in Seq(S) /\ Len(b) = Len(s) - i
        /\ \A j \in 1 .. Len(s) - i : b[j] = s[i + j]
    BY <2>1, SubSeqProperties
  <2>7. /\ t \in Seq(S) /\ Len(t) = Len(s) - 1
        /\ \A j \in 1 .. Len(t) : t[j] = IF j < i THEN s[j] ELSE s[j + 1]
    <3> HIDE DEF a, b
    <3>1. /\ t \in Seq(S) /\ Len(t) = Len(a) + Len(b)
          /\ \A j \in 1 .. Len(a) + Len(b) :
               t[j] = IF j <= Len(a) THEN a[j] ELSE b[j - Len(a)]
      BY <2>5, <2>6, ConcatProperties
    <3>2. ASSUME NEW j \in 1 .. Len(s) - 1, ~ j < i
          PROVE  b[j - (i - 1)] = s[j + 1]
      <4>1. j - (i - 1) \in 1 .. Len(s) - i /\ i + (j - (i - 1)) = j + 1
        BY <3>2, <2>1
      <4> QED
        BY <4>1, <2>6
    <3> QED
      BY <2>1, <2>5, <2>6, <3>1, <3>2
  <2> HIDE DEF a, b, t
  <2>0. DOMAIN s = 1 .. Len(s) /\ DOMAIN t = 1 .. Len(t)
    BY <2>7
  <2>8. IsInjective(t)
    <3>1. SUFFICES ASSUME NEW j \in 1 .. Len(t), NEW k \in 1 .. Len(t),
                          t[j] = t[k]
                   PROVE  j = k
      BY <2>0 DEF IsInjective
    <3> DEFINE at(l) == IF l < i THEN l ELSE l + 1
    <3>2. /\ at(j) \in DOMAIN s /\ t[j] = s[at(j)]
          /\ at(k) \in DOMAIN s /\ t[k] = s[at(k)]
      BY <2>0, <2>1, <2>7
    <3>3. at(j) = at(k)
      <4> HIDE DEF at
      <4> QED
        BY <3>1, <3>2 DEF IsInjective
    <3> QED
      BY <3>3, <2>1, <2>7
  <2>9. ToSet(t) = ToSet(s) \ {e}
    <3>1. ASSUME NEW j \in 1 .. Len(t) PROVE t[j] \in ToSet(s) \ {e}
      <4> DEFINE at == IF j < i THEN j ELSE j + 1
      <4>1. at \in DOMAIN s /\ at # i /\ t[j] = s[at]
        BY <2>0, <2>1, <2>7
      <4> HIDE DEF at
      <4>2. s[at] # s[i]
        BY <4>1, <2>0, <2>1 DEF IsInjective
      <4> QED
        BY <4>1, <4>2, <2>1 DEF ToSet
    <3>2. ASSUME NEW j \in 1 .. Len(s), s[j] # e PROVE s[j] \in ToSet(t)
      <4>1. CASE j < i
        BY <4>1, <2>0, <2>1, <2>7 DEF ToSet
      <4>2. CASE j > i
        <5>1. j - 1 \in DOMAIN t /\ t[j - 1] = s[j]
          BY <4>2, <2>0, <2>1, <2>7
        <5> QED
          BY <5>1 DEF ToSet
      <4> QED
        BY <4>1, <4>2, <3>2, <2>1
    <3> QED
      BY <2>0, <3>1, <3>2 DEF ToSet
  <2>10. RemoveFirst(s, e) = t
    BY <2>4 DEF RemoveAt, t, a, b
  <2>11. e \in ToSet(s)
    BY <2>0, <2>1 DEF ToSet
  <2> QED
    BY <2>7, <2>8, <2>9, <2>10, <2>11
<1> QED
  BY <1>1, <1>2

\* push_back of a key that is not there.
LEMMA AppendNew ==
  ASSUME NEW S, NEW s \in Seq(S), IsInjective(s), NEW e \in S, e \notin ToSet(s)
  PROVE  /\ Append(s, e) \in Seq(S) /\ IsInjective(Append(s, e))
         /\ ToSet(Append(s, e)) = ToSet(s) \cup {e}
         /\ Len(Append(s, e)) = Len(s) + 1
<1> DEFINE t == Append(s, e)
<1>1. /\ t \in Seq(S) /\ Len(t) = Len(s) + 1 /\ t[Len(s) + 1] = e
      /\ \A i \in 1 .. Len(s) : t[i] = s[i]
  OBVIOUS
<1> HIDE DEF t
<1>0. DOMAIN s = 1 .. Len(s) /\ DOMAIN t = 1 .. Len(t)
  BY <1>1
<1>2. IsInjective(t)
  BY <1>0, <1>1 DEF IsInjective, ToSet
<1>3. ToSet(t) = ToSet(s) \cup {e}
  BY <1>0, <1>1 DEF ToSet
<1> QED
  BY <1>1, <1>2, <1>3 DEF t

\* The evictions of an insertion leave room for one entry.
LEMMA RestHasRoom ==
  ASSUME TalkerAssumption, NEW S, NEW s \in Seq(S), IsInjective(s)
  PROVE  /\ Rest(s) \in Seq(S) /\ IsInjective(Rest(s))
         /\ ToSet(Rest(s)) = ToSet(s) \ Evicted(s)
         /\ Len(Rest(s)) < Capacity
<1> DEFINE n == Surplus(s)
           t == SubSeq(s, n + 1, Len(s))
<1>1. n \in 0 .. Len(s) /\ Len(s) - n < Capacity
  BY DEF TalkerAssumption, Surplus
<1>2. /\ t \in Seq(S) /\ Len(t) = Len(s) - n
      /\ \A i \in 1 .. Len(t) : t[i] = s[n + i]
  BY <1>1, SubSeqProperties, SMTT(60)
<1>3. Rest(s) = t /\ Evicted(s) = {s[i] : i \in 1 .. n}
  BY DEF Rest, Evicted
<1> HIDE DEF n, t
<1>0. DOMAIN s = 1 .. Len(s) /\ DOMAIN t = 1 .. Len(t)
  BY <1>2
<1>4. IsInjective(t)
  <2>1. SUFFICES ASSUME NEW j \in 1 .. Len(t), NEW k \in 1 .. Len(t),
                        t[j] = t[k]
                 PROVE  j = k
    BY <1>0 DEF IsInjective
  <2>2. n + j \in DOMAIN s /\ n + k \in DOMAIN s
    BY <1>0, <1>1, <1>2
  <2>3. s[n + j] = s[n + k]
    BY <1>2, <2>1
  <2>4. n + j = n + k
    BY <2>2, <2>3 DEF IsInjective
  <2> QED
    BY <2>4, <1>1
<1>5. ToSet(t) = ToSet(s) \ {s[i] : i \in 1 .. n}
  <2>1. ASSUME NEW j \in 1 .. Len(t)
        PROVE  t[j] \in ToSet(s) \ {s[i] : i \in 1 .. n}
    <3>1. n + j \in DOMAIN s /\ t[j] = s[n + j]
      BY <1>0, <1>1, <1>2
    <3>2. ASSUME NEW i \in 1 .. n PROVE s[i] # s[n + j]
      <4>1. i \in DOMAIN s /\ i # n + j
        BY <1>0, <1>1
      <4> QED
        BY <4>1, <3>1 DEF IsInjective
    <3> QED
      BY <3>1, <3>2 DEF ToSet
  <2>2. ASSUME NEW j \in 1 .. Len(s), j > n PROVE s[j] \in ToSet(t)
    <3>1. j - n \in DOMAIN t /\ t[j - n] = s[j]
      <4>1. j - n \in 1 .. Len(t) /\ n + (j - n) = j
        BY <2>2, <1>1, <1>2
      <4> QED
        BY <4>1, <1>0, <1>2
    <3> QED
      BY <3>1 DEF ToSet
  <2> QED
    <3>1. ASSUME NEW x \in ToSet(s) \ {s[i] : i \in 1 .. n}
          PROVE  x \in ToSet(t)
      <4>1. PICK j \in 1 .. Len(s) : x = s[j]
        BY <1>0 DEF ToSet
      <4>2. j > n
        BY <4>1, <1>1
      <4> QED
        BY <4>1, <4>2, <2>2
    <3> QED
      BY <1>0, <2>1, <3>1 DEF ToSet
<1> QED
  BY <1>1, <1>2, <1>3, <1>4, <1>5

---------------------------------------------------------------------------
(* Sizes.                                                                  *)

LEMMA RoundUpNat ==
  ASSUME NEW n \in Nat, NEW step \in Nat \ {0}
  PROVE  RoundUp(n, step) \in Nat
<1>1. n + step - 1 \in Nat
  OBVIOUS
<1>2. ASSUME NEW a \in Nat, NEW b \in Nat \ {0} PROVE a \div b \in Nat
  BY <1>2
<1>3. ASSUME NEW a \in Nat, NEW b \in Nat PROVE a * b \in Nat
  BY <1>3
<1> QED
  BY <1>1, <1>2, <1>3 DEF RoundUp

\* The first allocation holds the prefix and never more than the worst case.
LEMMA RequestSizes ==
  ASSUME TalkerAssumption, NEW r \in Requests
  PROVE  /\ r.prefill \in Nat \ {0} /\ r.max \in Nat \ {0} /\ r.sig \in Sigs
         /\ Worst(r) \in Nat /\ Worst(r) >= r.prefill + r.max
         /\ InitialCtx(r) \in Nat
         /\ InitialCtx(r) >= r.prefill /\ InitialCtx(r) <= Worst(r)
<1>1. r \in [key : Keys \cup {NoKey}, prefill : Nat \ {0},
             max : Nat \ {0}, sig : Sigs]
  BY DEF TalkerAssumption
<1> QED
  BY <1>1 DEF TalkerAssumption, Worst, InitialCtx, MinOf

---------------------------------------------------------------------------
(* The inductive invariant.                                                *)

\* Every snapshot is that of its key, and of sound rows unless a stale graph
\* has spoilt the slab.
SnapsSound ==
  \A k \in DOMAIN kv : /\ kv[k].n_pos = CacheableOf[k]
                       /\ liveRun => kv[k].sound

\* The request runs on a slab allocated for it, with its own hint; before
\* it is sized, clear_kv_cache has refused a slab without memory.
SlabServes ==
  /\ pc = "reserve" => slab.n_ctx = 0 \/ slab.backed
  /\ pc \in {"lookup", "prefill", "frames"} =>
       /\ slab.backed /\ hint = Worst(req)
       /\ slab.n_ctx >= InitialCtx(req)

\* n_past is n_used: what a growth saves is what attention reads.
PastIsUsed ==
  /\ pc \in {"prefill", "frames"} => past = slab.n_used
  /\ pc = "frames" =>
       /\ past >= req.prefill
       /\ past + 1 <= req.prefill + req.max

IInv ==
  /\ TypeOK /\ CachesAgree /\ SnapsSound
  /\ SlabServes /\ SlabStaysModest /\ PastIsUsed /\ RowsAreOwn

---------------------------------------------------------------------------
(* The snapshot cache.                                                     *)

\* What an insertion makes of the two structures, given what it leaves.
LEMMA InsertAgrees ==
  ASSUME TalkerAssumption, TypeOK, CachesAgree, SnapsSound,
         NEW key \in Keys, NEW snap \in Snapshot, NEW gone, NEW rest \in Seq(Keys),
         IsInjective(rest), key \notin ToSet(rest), Len(rest) < Capacity,
         ToSet(rest) \cup {key} = (DOMAIN kv \ gone) \cup {key},
         kv' = Insert(kv, gone, key, snap), lru' = Append(rest, key)
  PROVE  /\ CachesAgree' /\ lru' \in Seq(Keys)
         /\ DOMAIN kv' \subseteq Keys /\ kv' \in [DOMAIN kv' -> Snapshot]
         /\ \A k \in DOMAIN kv' : k # key => k \in DOMAIN kv /\ kv'[k] = kv[k]
         /\ kv'[key] = snap
<1>1. DOMAIN kv' = (DOMAIN kv \ gone) \cup {key}
  BY DEF Insert
<1>2. /\ lru' \in Seq(Keys) /\ IsInjective(lru')
      /\ ToSet(lru') = ToSet(rest) \cup {key}
      /\ Len(lru') = Len(rest) + 1
  BY AppendNew
<1>3. CachesAgree'
  BY <1>1, <1>2 DEF CachesAgree, TalkerAssumption
<1>4. /\ kv'[key] = snap
      /\ \A k \in DOMAIN kv' : k # key => k \in DOMAIN kv /\ kv'[k] = kv[k]
  BY <1>1 DEF Insert
<1>5. DOMAIN kv' \subseteq Keys
  BY <1>1 DEF TypeOK
<1>6. kv' \in [DOMAIN kv' -> Snapshot]
  <2>1. kv' = [k \in DOMAIN kv' |-> kv'[k]]
    BY <1>1 DEF Insert
  <2>2. ASSUME NEW k \in DOMAIN kv' PROVE kv'[k] \in Snapshot
    BY <1>4, <2>2 DEF TypeOK
  <2> QED
    BY <2>1, <2>2
<1> QED
  BY <1>2, <1>3, <1>4, <1>5, <1>6

\* The store of a miss: evict, drop the key's entry, append it.
LEMMA StoreAgrees ==
  ASSUME TalkerAssumption, TypeOK, CachesAgree, SnapsSound,
         NEW key \in Keys, NEW snap \in Snapshot, Store(key, snap)
  PROVE  /\ CachesAgree' /\ lru' \in Seq(Keys)
         /\ DOMAIN kv' \subseteq Keys /\ kv' \in [DOMAIN kv' -> Snapshot]
         /\ \A k \in DOMAIN kv' : k # key => k \in DOMAIN kv /\ kv'[k] = kv[k]
         /\ kv'[key] = snap
<1> DEFINE rest == RemoveFirst(Rest(lru), key)
           gone == Evicted(lru)
<1>1. lru \in Seq(Keys) /\ IsInjective(lru) /\ ToSet(lru) = DOMAIN kv
  BY DEF TypeOK, CachesAgree
<1>2. /\ Rest(lru) \in Seq(Keys) /\ IsInjective(Rest(lru))
      /\ ToSet(Rest(lru)) = DOMAIN kv \ gone
      /\ Len(Rest(lru)) < Capacity /\ Len(Rest(lru)) \in Nat
  BY <1>1, RestHasRoom
<1>3. /\ rest \in Seq(Keys) /\ IsInjective(rest)
      /\ ToSet(rest) = (DOMAIN kv \ gone) \ {key}
      /\ Len(rest) < Capacity
  BY <1>2, RemoveFirstErases DEF TalkerAssumption
<1>4. kv' = Insert(kv, gone, key, snap) /\ lru' = Append(rest, key)
  BY DEF Store, Touch
<1> HIDE DEF rest, gone
<1> QED
  BY <1>3, <1>4, InsertAgrees

\* put_prefill_kv_snapshot: drop the key's entry, evict, append it.
LEMMA PutAgrees ==
  ASSUME TalkerAssumption, TypeOK, CachesAgree, SnapsSound,
         NEW key \in Keys, NEW snap \in Snapshot, Put(key, snap)
  PROVE  /\ CachesAgree' /\ lru' \in Seq(Keys)
         /\ DOMAIN kv' \subseteq Keys /\ kv' \in [DOMAIN kv' -> Snapshot]
         /\ \A k \in DOMAIN kv' : k # key => k \in DOMAIN kv /\ kv'[k] = kv[k]
         /\ kv'[key] = snap
<1> DEFINE others == RemoveFirst(lru, key)
           rest == Rest(others)
           gone == Evicted(others)
<1>1. lru \in Seq(Keys) /\ IsInjective(lru) /\ ToSet(lru) = DOMAIN kv
  BY DEF TypeOK, CachesAgree
<1>2. /\ others \in Seq(Keys) /\ IsInjective(others)
      /\ ToSet(others) = DOMAIN kv \ {key}
  BY <1>1, RemoveFirstErases
<1>3. /\ rest \in Seq(Keys) /\ IsInjective(rest)
      /\ ToSet(rest) = (DOMAIN kv \ {key}) \ gone
      /\ Len(rest) < Capacity
  <2> HIDE DEF others
  <2> QED
    BY <1>2, RestHasRoom
<1>4. kv' = Insert(kv, gone, key, snap) /\ lru' = Append(rest, key)
  BY DEF Put
<1> HIDE DEF rest, gone
<1> QED
  BY <1>3, <1>4, InsertAgrees

\* A hit moves its key to the back and changes nothing else.
LEMMA TouchAgrees ==
  ASSUME TalkerAssumption, TypeOK, CachesAgree,
         NEW key \in DOMAIN kv, kv' = kv, lru' = Touch(lru, key)
  PROVE  CachesAgree' /\ lru' \in Seq(Keys)
<1> DEFINE rest == RemoveFirst(lru, key)
<1>1. lru \in Seq(Keys) /\ IsInjective(lru) /\ ToSet(lru) = DOMAIN kv
  BY DEF TypeOK, CachesAgree
<1>2. /\ rest \in Seq(Keys) /\ IsInjective(rest)
      /\ ToSet(rest) = DOMAIN kv \ {key}
      /\ Len(rest) = Len(lru) - 1
  BY <1>1, RemoveFirstErases
<1>3. lru' = Append(rest, key) /\ key \in Keys
  BY DEF Touch, TypeOK
<1> HIDE DEF rest
<1>4. /\ lru' \in Seq(Keys) /\ IsInjective(lru')
      /\ ToSet(lru') = DOMAIN kv
      /\ Len(lru') = Len(rest) + 1
  <2>1. key \notin ToSet(rest) /\ ToSet(rest) \cup {key} = DOMAIN kv
    BY <1>2
  <2>2. /\ Append(rest, key) \in Seq(Keys) /\ IsInjective(Append(rest, key))
        /\ ToSet(Append(rest, key)) = ToSet(rest) \cup {key}
        /\ Len(Append(rest, key)) = Len(rest) + 1
    BY <1>2, <1>3, <2>1, AppendNew
  <2> QED
    BY <1>3, <2>1, <2>2
<1> QED
  BY <1>1, <1>2, <1>4 DEF CachesAgree, TypeOK, TalkerAssumption

---------------------------------------------------------------------------
(* Growth.                                                                 *)

\* The slab a step runs on holds row n_past, has kept the rows below it, and
\* is no larger than it was or than the worst case of the request.
LEMMA StepSlabHolds ==
  ASSUME TalkerAssumption, IInv, pc = "frames", MoreFrames
  PROVE  /\ StepSlab \in SlabType /\ StepSlab.backed
         /\ StepSlab.n_ctx >= past + 1 /\ StepSlab.n_ctx >= slab.n_ctx
         /\ StepSlab.n_ctx <= slab.n_ctx \/ StepSlab.n_ctx <= Worst(req)
         /\ StepSlab.n_used = past
         /\ Kept \in Nat /\ (own >= past => Kept >= past)
         /\ past + 2 <= req.prefill + req.max
<1>1. /\ req \in Requests /\ slab \in SlabType /\ hint \in Nat /\ own \in Nat
      /\ past \in Nat /\ slab.n_used <= slab.n_ctx
  BY DEF IInv, TypeOK
<1>2. /\ slab.backed /\ hint = Worst(req) /\ past = slab.n_used
      /\ past >= req.prefill
  BY DEF IInv, SlabServes, PastIsUsed
<1>3. /\ req.prefill \in Nat \ {0} /\ req.max \in Nat \ {0}
      /\ Worst(req) \in Nat /\ Worst(req) >= req.prefill + req.max
  BY <1>1, RequestSizes
<1>4. past + 2 <= req.prefill + req.max
  BY <1>1, <1>2, <1>3 DEF MoreFrames
<1>5. /\ slab.n_ctx \in Nat /\ slab.n_used \in Nat /\ slab.backed \in BOOLEAN
  BY <1>1 DEF SlabType
<1>6. CASE ~ NeedsGrow
  BY <1>1, <1>2, <1>4, <1>5, <1>6 DEF NeedsGrow, StepSlab, Kept
<1>7. CASE NeedsGrow
  <2> DEFINE g == GrowTo(past + 1)
             u == RoundUp(past + 1, GrowStep)
  <2>1. u \in Nat /\ GrowStep \in Nat \ {0}
    BY <1>1, RoundUpNat DEF TalkerAssumption
  <2>2. /\ g \in Nat /\ g >= slab.n_ctx + 1 /\ g <= Worst(req)
    <3>1. g = IF hint > 0 /\ MaxOf(u, slab.n_ctx + GrowStep) > hint
              THEN MaxOf(past + 1, hint) ELSE MaxOf(u, slab.n_ctx + GrowStep)
      BY DEF GrowTo
    <3>2. past + 1 = slab.n_ctx + 1
      BY <1>1, <1>2, <1>5, <1>7 DEF NeedsGrow
    <3> HIDE DEF u, g
    <3> QED
      BY <1>1, <1>2, <1>3, <1>4, <1>5, <2>1, <3>1, <3>2 DEF MaxOf
  <2>3. /\ StepSlab = [n_ctx |-> g, n_used |-> slab.n_used, backed |-> TRUE]
        /\ Kept = MinOf(own, slab.n_used)
    BY <1>7 DEF StepSlab, Kept
  <2> HIDE DEF g, u
  <2> QED
    BY <1>1, <1>2, <1>4, <1>5, <1>7, <2>2, <2>3
    DEF SlabType, MinOf, NeedsGrow
<1> QED
  BY <1>6, <1>7

LEMMA GraphTypes ==
  ASSUME TalkerAssumption, TypeOK, NEW n \in Nat
  PROVE  NoGraph \in GraphType /\ GraphFor(n) \in GraphType
<1>1. req.sig \in Sigs /\ past \in Nat
  BY RequestSizes DEF TypeOK
<1>2. (CHOOSE s \in Sigs : TRUE) \in Sigs
  BY <1>1
<1>3. RoundUp(past + 1, Stride) \in Nat
  BY <1>1, RoundUpNat DEF TalkerAssumption
<1>4. NEff(n) \in Nat
  BY <1>3 DEF NEff, MinOf
<1> QED
  BY <1>1, <1>2, <1>4 DEF NoGraph, GraphFor, GraphType

---------------------------------------------------------------------------
(* The invariant holds initially and is preserved, one step per action.    *)

LEMMA InitIInv == TalkerAssumption /\ Init => IInv
<1> SUFFICES ASSUME TalkerAssumption, Init PROVE IInv
  OBVIOUS
<1>1. req.sig \in Sigs
  BY RequestSizes DEF Init
<1>2. NoGraph \in GraphType
  <2>1. (CHOOSE s \in Sigs : TRUE) \in Sigs
    BY <1>1
  <2> QED
    BY <2>1 DEF NoGraph, GraphType
<1>3. /\ kv = NoKv /\ DOMAIN kv = {} /\ lru = <<>>
      /\ lru \in Seq(Keys) /\ Len(lru) = 0 /\ DOMAIN lru = {}
  BY DEF Init, NoKv
<1>4. kv \in [DOMAIN kv -> Snapshot]
  BY <1>3 DEF NoKv
<1>5. TypeOK
  BY <1>2, <1>3, <1>4 DEF Init, TypeOK, Pcs, NoSlab, SlabType
<1>6. CachesAgree
  BY <1>3 DEF CachesAgree, ToSet, IsInjective, TalkerAssumption
<1>7. SnapsSound
  BY <1>3 DEF SnapsSound
<1> QED
  BY <1>5, <1>6, <1>7
  DEF Init, IInv, SlabServes, SlabStaysModest, PastIsUsed, RowsAreOwn

\* What an action that leaves both caches alone need not prove.
LEMMA CachesKept ==
  ASSUME IInv, UNCHANGED caches, liveRun' => liveRun
  PROVE  /\ CachesAgree' /\ SnapsSound'
         /\ DOMAIN kv' \subseteq Keys /\ kv' \in [DOMAIN kv' -> Snapshot]
         /\ lru' \in Seq(Keys)
BY DEF IInv, TypeOK, caches, CachesAgree, SnapsSound

LEMMA BeginIInv ==
  ASSUME TalkerAssumption, IInv, NEW r \in Requests, Begin(r)
  PROVE  IInv'
<1>1. /\ CachesAgree' /\ SnapsSound'
      /\ DOMAIN kv' \subseteq Keys /\ kv' \in [DOMAIN kv' -> Snapshot]
      /\ lru' \in Seq(Keys)
  BY CachesKept DEF Begin
<1>2. /\ slab \in SlabType /\ slab.n_used <= slab.n_ctx /\ slab.n_ctx \in Nat
      /\ graph \in GraphType /\ liveRun \in BOOLEAN /\ hint \in Nat
  BY DEF IInv, TypeOK, SlabType
<1>3. /\ pc' \in Pcs /\ req' \in Requests /\ own' \in Nat /\ past' \in Nat
      /\ hint' \in Nat /\ graph' \in GraphType /\ liveRun' \in BOOLEAN
  BY <1>2 DEF Begin, Pcs
<1>4. /\ slab' \in SlabType /\ slab'.n_used <= slab'.n_ctx
      /\ pc' = "reserve" => slab'.n_ctx = 0 \/ slab'.backed
      /\ pc' \in {"reserve", "aborted"}
  BY <1>2 DEF Begin, SlabType
<1>5. TypeOK'
  BY <1>1, <1>3, <1>4 DEF TypeOK
<1> QED
  BY <1>1, <1>4, <1>5
  DEF IInv, SlabServes, SlabStaysModest, PastIsUsed, RowsAreOwn

LEMMA ReserveIInv ==
  ASSUME TalkerAssumption, IInv, Reserve
  PROVE  IInv'
<1>1. /\ CachesAgree' /\ SnapsSound'
      /\ DOMAIN kv' \subseteq Keys /\ kv' \in [DOMAIN kv' -> Snapshot]
      /\ lru' \in Seq(Keys)
  BY CachesKept DEF Reserve
<1>2. /\ req' = req /\ req \in Requests
      /\ Worst(req) \in Nat /\ InitialCtx(req) \in Nat
      /\ InitialCtx(req) <= Worst(req)
      /\ slab.n_ctx \in Nat /\ slab.n_used \in Nat /\ slab.backed \in BOOLEAN
      /\ slab.n_used <= slab.n_ctx /\ Floor \in Nat
  BY RequestSizes DEF Reserve, IInv, TypeOK, SlabType, TalkerAssumption
<1>3. /\ slab' \in SlabType /\ slab'.n_used <= slab'.n_ctx
      /\ pc' \in {"lookup", "idle"}
  <2>1. slab' = slab \/ \E b \in BOOLEAN :
          slab' = [n_ctx |-> InitialCtx(req), n_used |-> 0, backed |-> b]
    BY DEF Reserve, Fresh
  <2>2. slab \in SlabType
    BY DEF IInv, TypeOK
  <2> QED
    BY <1>2, <2>1, <2>2 DEF Reserve, SlabType
<1>4. /\ graph' \in GraphType /\ own' \in Nat /\ past' \in Nat
      /\ liveRun' \in BOOLEAN /\ hint' \in Nat
  <2>1. graph \in GraphType /\ own \in Nat /\ past \in Nat /\ liveRun \in BOOLEAN
    BY DEF IInv, TypeOK
  <2>2. [graph EXCEPT !.live = FALSE] \in GraphType
    BY <2>1 DEF GraphType
  <2> QED
    BY <1>2, <2>1, <2>2 DEF Reserve
<1>5. TypeOK'
  BY <1>1, <1>2, <1>3, <1>4 DEF TypeOK, Pcs
<1>6. pc' = "lookup" =>
        /\ slab'.backed /\ slab'.n_ctx >= InitialCtx(req)
        /\ slab'.n_ctx <= MaxOf(2 * Worst(req), Floor)
  <2>1. CASE TooSmall(req) \/ TooLarge(req)
    BY <1>2, <2>1 DEF Reserve, Fresh, MaxOf
  <2>2. CASE ~ (TooSmall(req) \/ TooLarge(req))
    <3>1. pc' = "lookup" /\ slab' = slab
      BY <2>2 DEF Reserve
    <3>2. slab.n_ctx >= InitialCtx(req) /\ slab.n_ctx <= MaxOf(2 * Worst(req), Floor)
      BY <1>2, <2>2 DEF TooSmall, TooLarge, MaxOf
    <3>3. slab.backed
      <4>1. slab.n_ctx > 0
        BY <1>2, <3>2, RequestSizes
      <4> QED
        BY <4>1 DEF IInv, SlabServes, Reserve
    <3> QED
      BY <3>1, <3>2, <3>3
  <2> QED
    BY <2>1, <2>2
<1>7. SlabServes' /\ SlabStaysModest'
  BY <1>2, <1>3, <1>6 DEF SlabServes, SlabStaysModest, Reserve, Worst, InitialCtx
<1> QED
  BY <1>1, <1>3, <1>5, <1>7 DEF IInv, PastIsUsed, RowsAreOwn

LEMMA RestoreIInv ==
  ASSUME TalkerAssumption, IInv, Restore
  PROVE  IInv'
<1> DEFINE snap == kv[req.key]
<1>1. /\ req.key \in DOMAIN kv /\ snap \in Snapshot
      /\ snap.n_pos = CacheableOf[req.key] /\ (liveRun => snap.sound)
      /\ snap.fits /\ snap.n_pos <= slab.n_ctx
  BY DEF Restore, Hit, Restorable, IInv, TypeOK, SnapsSound
<1> HIDE DEF snap
<1>2. /\ req' = req /\ hint' = hint /\ kv' = kv /\ graph' = graph
      /\ liveRun' = liveRun /\ past' = snap.n_pos /\ pc' = "prefill"
      /\ slab' = [slab EXCEPT !.n_used = snap.n_pos]
      /\ own' = IF snap.sound /\ snap.fits THEN snap.n_pos ELSE 0
      /\ lru' = Touch(lru, req.key) /\ pc = "lookup"
  BY DEF Restore, snap
<1>3. CachesAgree' /\ lru' \in Seq(Keys)
  BY <1>1, <1>2, TouchAgrees DEF IInv
<1>4. SnapsSound'
  BY <1>2 DEF SnapsSound, IInv
<1>5. snap.n_pos \in Nat
  BY <1>1 DEF Snapshot
<1>6. slab' \in SlabType /\ slab'.n_ctx = slab.n_ctx /\ slab'.backed = slab.backed
      /\ slab'.n_used = snap.n_pos
  BY <1>2, <1>5 DEF IInv, TypeOK, SlabType
<1>7. TypeOK'
  BY <1>1, <1>2, <1>3, <1>5, <1>6 DEF IInv, TypeOK, Pcs
<1>8. SlabServes' /\ SlabStaysModest'
  BY <1>2, <1>6 DEF IInv, SlabServes, SlabStaysModest, Worst, InitialCtx
<1>9. PastIsUsed' /\ RowsAreOwn'
  BY <1>1, <1>2, <1>5, <1>6 DEF PastIsUsed, RowsAreOwn
<1> QED
  BY <1>3, <1>4, <1>7, <1>8, <1>9 DEF IInv

LEMMA StartColdIInv ==
  ASSUME TalkerAssumption, IInv, StartCold
  PROVE  IInv'
<1>1. /\ CachesAgree' /\ SnapsSound'
      /\ DOMAIN kv' \subseteq Keys /\ kv' \in [DOMAIN kv' -> Snapshot]
      /\ lru' \in Seq(Keys)
  BY CachesKept DEF StartCold
<1>2. /\ req' = req /\ hint' = hint /\ graph' = graph /\ liveRun' = liveRun
      /\ own' = 0 /\ past' = 0 /\ pc' = "prefill" /\ pc = "lookup"
      /\ slab' \in SlabType /\ slab'.n_ctx = slab.n_ctx
      /\ slab'.backed = slab.backed /\ slab'.n_used = 0 /\ slab.n_ctx \in Nat
  BY DEF StartCold, IInv, TypeOK, SlabType
<1>3. TypeOK'
  BY <1>1, <1>2 DEF IInv, TypeOK, Pcs
<1>4. SlabServes' /\ SlabStaysModest'
  BY <1>2 DEF IInv, SlabServes, SlabStaysModest, Worst, InitialCtx
<1>5. PastIsUsed' /\ RowsAreOwn'
  BY <1>2 DEF PastIsUsed, RowsAreOwn
<1> QED
  BY <1>1, <1>3, <1>4, <1>5 DEF IInv

LEMMA PrefillIInv ==
  ASSUME TalkerAssumption, IInv, Prefill
  PROVE  IInv'
<1>1. /\ req' = req /\ hint' = hint /\ graph' = graph /\ liveRun' = liveRun
      /\ past' = req.prefill /\ pc' = "frames" /\ pc = "prefill"
      /\ req.prefill <= slab.n_ctx
      /\ own' = Forwarded(own, req.prefill)
  BY DEF Prefill
<1>2. /\ req.prefill \in Nat \ {0} /\ req.max \in Nat \ {0} /\ req \in Requests
  BY RequestSizes DEF IInv, TypeOK
<1>3. /\ slab' \in SlabType /\ slab'.n_ctx = slab.n_ctx
      /\ slab'.backed = slab.backed /\ slab'.n_used = req.prefill
  BY <1>2 DEF Prefill, IInv, TypeOK, SlabType
<1>4. own' \in Nat /\ (liveRun => own' = req.prefill)
  BY <1>1, <1>2 DEF IInv, TypeOK, RowsAreOwn, Forwarded
<1>5. /\ CachesAgree' /\ SnapsSound' /\ lru' \in Seq(Keys)
      /\ DOMAIN kv' \subseteq Keys /\ kv' \in [DOMAIN kv' -> Snapshot]
  <2>1. CASE past = 0 /\ Cached(req)
    <3> DEFINE sound == own' >= CacheableOf[req.key]
               snap == [n_pos |-> CacheableOf[req.key], fits |-> TRUE,
                        sound |-> sound]
    <3>1. req.key \in Keys /\ CacheableOf[req.key] \in Nat \ {0}
      BY <1>2, <2>1 DEF Cached, TalkerAssumption
    <3>2. /\ snap \in Snapshot /\ snap.n_pos = CacheableOf[req.key]
          /\ liveRun => snap.sound
      <4>1. sound \in BOOLEAN
        OBVIOUS
      <4>2. liveRun => sound
        BY <1>2, <1>4, <2>1, <3>1 DEF Cached
      <4> HIDE DEF sound
      <4> QED
        BY <3>1, <4>1, <4>2 DEF Snapshot
    <3>3. Store(req.key, snap)
      BY <2>1 DEF Prefill
    <3> HIDE DEF snap
    <3>4. /\ CachesAgree' /\ lru' \in Seq(Keys)
          /\ DOMAIN kv' \subseteq Keys /\ kv' \in [DOMAIN kv' -> Snapshot]
          /\ \A k \in DOMAIN kv' : k # req.key => k \in DOMAIN kv /\ kv'[k] = kv[k]
          /\ kv'[req.key] = snap
      BY <3>1, <3>2, <3>3, StoreAgrees DEF IInv
    <3>5. SnapsSound'
      BY <1>1, <3>2, <3>4 DEF SnapsSound, IInv
    <3> QED
      BY <3>4, <3>5
  <2>2. CASE ~ (past = 0 /\ Cached(req))
    BY <2>2, <1>1, CachesKept DEF Prefill
  <2> QED
    BY <2>1, <2>2
<1>6. TypeOK'
  BY <1>1, <1>2, <1>3, <1>4, <1>5 DEF IInv, TypeOK, Pcs
<1>7. SlabServes' /\ SlabStaysModest'
  BY <1>1, <1>3 DEF IInv, SlabServes, SlabStaysModest, Worst, InitialCtx
<1>8. PastIsUsed' /\ RowsAreOwn'
  BY <1>1, <1>2, <1>3, <1>4 DEF PastIsUsed, RowsAreOwn
<1> QED
  BY <1>5, <1>6, <1>7, <1>8 DEF IInv

LEMMA PrefillFailsIInv ==
  ASSUME TalkerAssumption, IInv, PrefillFails
  PROVE  IInv'
<1>1. /\ CachesAgree' /\ SnapsSound'
      /\ DOMAIN kv' \subseteq Keys /\ kv' \in [DOMAIN kv' -> Snapshot]
      /\ lru' \in Seq(Keys)
  BY CachesKept DEF PrefillFails
<1>2. TypeOK'
  BY <1>1 DEF PrefillFails, memory, IInv, TypeOK, Pcs
<1> QED
  BY <1>1, <1>2
  DEF PrefillFails, IInv, SlabServes, SlabStaysModest, PastIsUsed, RowsAreOwn

LEMMA StopIInv ==
  ASSUME TalkerAssumption, IInv, Stop
  PROVE  IInv'
<1>1. /\ CachesAgree' /\ SnapsSound'
      /\ DOMAIN kv' \subseteq Keys /\ kv' \in [DOMAIN kv' -> Snapshot]
      /\ lru' \in Seq(Keys)
  BY CachesKept DEF Stop
<1>2. TypeOK'
  BY <1>1 DEF Stop, memory, IInv, TypeOK, Pcs
<1> QED
  BY <1>1, <1>2
  DEF Stop, IInv, SlabServes, SlabStaysModest, PastIsUsed, RowsAreOwn

\* Both kinds of step leave a slab that holds the row they wrote.
LEMMA FramesKept ==
  ASSUME TalkerAssumption, IInv, pc = "frames", MoreFrames,
         UNCHANGED <<req, hint>>, slab' = [StepSlab EXCEPT !.n_used = past + 1],
         past' = past + 1, pc' \in {"frames", "aborted"}
  PROVE  /\ slab' \in SlabType /\ slab'.n_used <= slab'.n_ctx
         /\ past' \in Nat /\ req' \in Requests /\ hint' \in Nat
         /\ SlabServes' /\ SlabStaysModest' /\ PastIsUsed'
<1>1. /\ StepSlab \in SlabType /\ StepSlab.backed
      /\ StepSlab.n_ctx >= past + 1 /\ StepSlab.n_ctx >= slab.n_ctx
      /\ StepSlab.n_ctx <= slab.n_ctx \/ StepSlab.n_ctx <= Worst(req)
      /\ past + 2 <= req.prefill + req.max
  BY StepSlabHolds
<1>2. /\ req \in Requests /\ past \in Nat /\ hint \in Nat /\ slab.n_ctx \in Nat
      /\ req.prefill \in Nat /\ req.max \in Nat
      /\ Worst(req) \in Nat /\ InitialCtx(req) \in Nat /\ Floor \in Nat
  BY RequestSizes DEF IInv, TypeOK, SlabType, TalkerAssumption
<1>3. /\ slab' \in SlabType /\ slab'.n_ctx = StepSlab.n_ctx
      /\ slab'.backed = StepSlab.backed /\ slab'.n_used = past + 1
  <2>1. PICK s \in SlabType : s = StepSlab
    BY <1>1
  <2>2. slab' = [s EXCEPT !.n_used = past + 1]
    BY <2>1
  <2>3. /\ slab' \in SlabType /\ slab'.n_ctx = s.n_ctx
        /\ slab'.backed = s.backed /\ slab'.n_used = past + 1
    BY <1>2, <2>1, <2>2 DEF SlabType
  <2> QED
    BY <2>1, <2>3
<1>4. StepSlab.n_ctx \in Nat
  BY <1>1 DEF SlabType
<1>5. /\ hint = Worst(req) /\ slab.n_ctx >= InitialCtx(req)
      /\ slab.n_ctx <= MaxOf(2 * Worst(req), Floor)
      /\ past >= req.prefill
  BY DEF IInv, SlabServes, SlabStaysModest, PastIsUsed
<1>6. SlabServes'
  BY <1>1, <1>2, <1>3, <1>4, <1>5 DEF SlabServes, Worst, InitialCtx
<1>7. SlabStaysModest'
  <2>1. slab'.n_ctx <= MaxOf(2 * Worst(req), Floor)
    BY <1>1, <1>2, <1>3, <1>4, <1>5 DEF MaxOf
  <2> QED
    BY <2>1 DEF SlabStaysModest, Worst
<1>8. PastIsUsed'
  BY <1>1, <1>2, <1>3, <1>5 DEF PastIsUsed
<1> QED
  BY <1>1, <1>2, <1>3, <1>4, <1>6, <1>7, <1>8

LEMMA StepIInv ==
  ASSUME TalkerAssumption, IInv, Step
  PROVE  IInv'
<1>1. /\ CachesAgree' /\ SnapsSound'
      /\ DOMAIN kv' \subseteq Keys /\ kv' \in [DOMAIN kv' -> Snapshot]
      /\ lru' \in Seq(Keys)
  BY CachesKept DEF Step
<1>2. /\ pc = "frames" /\ MoreFrames /\ pc' = pc /\ past' = past + 1
      /\ liveRun' = liveRun /\ own' = Forwarded(Kept, past + 1)
      /\ past \in Nat /\ liveRun \in BOOLEAN
  BY DEF Step, IInv, TypeOK
<1>3. /\ slab' \in SlabType /\ slab'.n_used <= slab'.n_ctx
      /\ past' \in Nat /\ req' \in Requests /\ hint' \in Nat
      /\ SlabServes' /\ SlabStaysModest' /\ PastIsUsed'
  BY <1>2, FramesKept DEF Step
<1>4. own' \in Nat /\ (liveRun => own' >= past')
  <2>1. Kept \in Nat /\ (own >= past => Kept >= past)
    BY <1>2, StepSlabHolds
  <2>2. liveRun => own >= past
    BY <1>2 DEF IInv, RowsAreOwn
  <2> QED
    BY <1>2, <2>1, <2>2 DEF Forwarded
<1>5. graph' \in GraphType
  <2>1. StepSlab.n_ctx \in Nat
    BY <1>2, StepSlabHolds DEF SlabType
  <2> QED
    BY <2>1, GraphTypes DEF Step, IInv
<1>6. TypeOK'
  BY <1>1, <1>2, <1>3, <1>4, <1>5 DEF TypeOK, Pcs
<1>7. RowsAreOwn'
  BY <1>2, <1>4 DEF RowsAreOwn
<1> QED
  BY <1>1, <1>3, <1>6, <1>7 DEF IInv

LEMMA StepStaleIInv ==
  ASSUME TalkerAssumption, IInv, StepStale
  PROVE  IInv'
<1>1. /\ CachesAgree' /\ SnapsSound'
      /\ DOMAIN kv' \subseteq Keys /\ kv' \in [DOMAIN kv' -> Snapshot]
      /\ lru' \in Seq(Keys)
  BY CachesKept DEF StepStale
<1>2. /\ pc = "frames" /\ MoreFrames /\ pc' \in {"frames", "aborted"}
      /\ past' = past + 1 /\ liveRun' = FALSE /\ own' = Kept
  BY DEF StepStale
<1>3. /\ slab' \in SlabType /\ slab'.n_used <= slab'.n_ctx
      /\ past' \in Nat /\ req' \in Requests /\ hint' \in Nat
      /\ SlabServes' /\ SlabStaysModest' /\ PastIsUsed'
  BY <1>2, FramesKept DEF StepStale
<1>4. own' \in Nat
  BY <1>2, StepSlabHolds
<1>5. graph' \in GraphType
  BY DEF StepStale, GraphType, IInv, TypeOK
<1>6. TypeOK'
  BY <1>1, <1>2, <1>3, <1>4, <1>5 DEF TypeOK, Pcs
<1>7. RowsAreOwn'
  BY <1>2 DEF RowsAreOwn
<1> QED
  BY <1>1, <1>3, <1>6, <1>7 DEF IInv

LEMMA StepFailsIInv ==
  ASSUME TalkerAssumption, IInv, StepFails
  PROVE  IInv'
<1>1. /\ CachesAgree' /\ SnapsSound'
      /\ DOMAIN kv' \subseteq Keys /\ kv' \in [DOMAIN kv' -> Snapshot]
      /\ lru' \in Seq(Keys)
  BY CachesKept DEF StepFails
<1>2. /\ pc = "frames" /\ MoreFrames /\ pc' = "idle" /\ slab' = StepSlab
      /\ own' = Kept /\ graph' = NoGraph
      /\ UNCHANGED <<req, hint, past, liveRun>>
  BY DEF StepFails
<1>3. /\ slab' \in SlabType /\ slab'.n_used <= slab'.n_ctx /\ own' \in Nat
  <2>1. /\ StepSlab \in SlabType /\ StepSlab.n_ctx >= past + 1
        /\ StepSlab.n_used = past /\ Kept \in Nat
    BY <1>2, StepSlabHolds
  <2>2. past \in Nat /\ StepSlab.n_ctx \in Nat
    BY <2>1 DEF IInv, TypeOK, SlabType
  <2> QED
    BY <1>2, <2>1, <2>2
<1>4. graph' \in GraphType
  BY <1>2, GraphTypes DEF IInv
<1>5. TypeOK'
  BY <1>1, <1>2, <1>3, <1>4 DEF IInv, TypeOK, Pcs
<1> QED
  BY <1>1, <1>2, <1>5
  DEF IInv, SlabServes, SlabStaysModest, PastIsUsed, RowsAreOwn

\* A slab that was freed, or a process that died.
LEMMA EmptySlab ==
  NoSlab \in SlabType /\ NoSlab.n_used <= NoSlab.n_ctx
BY DEF NoSlab, SlabType

LEMMA GrowFailsIInv ==
  ASSUME TalkerAssumption, IInv, GrowFails
  PROVE  IInv'
<1>1. /\ CachesAgree' /\ SnapsSound'
      /\ DOMAIN kv' \subseteq Keys /\ kv' \in [DOMAIN kv' -> Snapshot]
      /\ lru' \in Seq(Keys)
  BY CachesKept DEF GrowFails
<1>2. /\ pc' = "idle" /\ slab' = NoSlab /\ own' = 0
      /\ UNCHANGED <<req, hint, past, liveRun>>
  BY DEF GrowFails
<1>3. graph' \in GraphType
  BY DEF GrowFails, GraphType, IInv, TypeOK
<1>4. TypeOK'
  BY <1>1, <1>2, <1>3, EmptySlab DEF IInv, TypeOK, Pcs
<1> QED
  BY <1>1, <1>2, <1>4
  DEF IInv, SlabServes, SlabStaysModest, PastIsUsed, RowsAreOwn

LEMMA LoadWarmupIInv ==
  ASSUME TalkerAssumption, IInv, LoadWarmup
  PROVE  IInv'
<1>1. PICK key \in Keys, fits \in BOOLEAN :
        Put(key, [n_pos |-> CacheableOf[key], fits |-> fits, sound |-> TRUE])
  BY DEF LoadWarmup
<1> DEFINE snap == [n_pos |-> CacheableOf[key], fits |-> fits, sound |-> TRUE]
<1>2. /\ snap \in Snapshot /\ snap.n_pos = CacheableOf[key] /\ snap.sound
  BY DEF Snapshot, TalkerAssumption
<1>3. Put(key, snap)
  BY <1>1
<1> HIDE DEF snap
<1>4. /\ CachesAgree' /\ lru' \in Seq(Keys)
      /\ DOMAIN kv' \subseteq Keys /\ kv' \in [DOMAIN kv' -> Snapshot]
      /\ \A k \in DOMAIN kv' : k # key => k \in DOMAIN kv /\ kv'[k] = kv[k]
      /\ kv'[key] = snap
  BY <1>2, <1>3, PutAgrees DEF IInv
<1>5. /\ pc = "idle" /\ UNCHANGED <<pc, req, slab, hint, own, past, graph, liveRun>>
  BY DEF LoadWarmup, memory
<1>6. SnapsSound'
  BY <1>2, <1>4, <1>5 DEF SnapsSound, IInv
<1>7. TypeOK'
  BY <1>4, <1>5 DEF IInv, TypeOK
<1> QED
  BY <1>4, <1>5, <1>6, <1>7
  DEF IInv, SlabServes, SlabStaysModest, PastIsUsed, RowsAreOwn

\* Without entries the two caches agree.
LEMMA EmptyCaches ==
  ASSUME TalkerAssumption, kv' = NoKv, lru' = <<>>
  PROVE  /\ CachesAgree' /\ SnapsSound'
         /\ DOMAIN kv' \subseteq Keys /\ kv' \in [DOMAIN kv' -> Snapshot]
         /\ lru' \in Seq(Keys)
<1>1. /\ DOMAIN kv' = {} /\ lru' \in Seq(Keys)
      /\ Len(lru') = 0 /\ DOMAIN lru' = {}
  BY DEF NoKv
<1>2. kv' \in [DOMAIN kv' -> Snapshot]
  BY <1>1 DEF NoKv
<1>3. CachesAgree'
  BY <1>1 DEF CachesAgree, ToSet, IsInjective, TalkerAssumption
<1> QED
  BY <1>1, <1>2, <1>3 DEF SnapsSound

LEMMA UnloadIInv ==
  ASSUME TalkerAssumption, IInv, Unload \/ Respawn
  PROVE  IInv'
<1>1. /\ pc' = "idle" /\ slab' = NoSlab /\ own' = 0 /\ graph' = NoGraph
      /\ kv' = NoKv /\ lru' = <<>> /\ req' = req
  BY DEF Unload, Respawn
<1>2. /\ CachesAgree' /\ SnapsSound'
      /\ DOMAIN kv' \subseteq Keys /\ kv' \in [DOMAIN kv' -> Snapshot]
      /\ lru' \in Seq(Keys)
  BY <1>1, EmptyCaches
<1>3. NoGraph \in GraphType /\ req \in Requests
  BY GraphTypes DEF IInv, TypeOK
<1>4. hint' \in Nat /\ past' \in Nat /\ liveRun' \in BOOLEAN
  <2>1. hint \in Nat /\ past \in Nat /\ liveRun \in BOOLEAN
    BY DEF IInv, TypeOK
  <2>2. CASE Unload
    BY <2>1, <2>2 DEF Unload
  <2>3. CASE Respawn
    BY <2>3 DEF Respawn
  <2> QED
    BY <2>2, <2>3
<1>5. TypeOK'
  BY <1>1, <1>2, <1>3, <1>4, EmptySlab DEF TypeOK, Pcs
<1> QED
  BY <1>1, <1>2, <1>5
  DEF IInv, SlabServes, SlabStaysModest, PastIsUsed, RowsAreOwn

LEMMA NextIInv == TalkerAssumption /\ IInv /\ [Next]_vars => IInv'
<1> SUFFICES ASSUME TalkerAssumption, IInv, [Next]_vars PROVE IInv'
  OBVIOUS
<1>1. CASE \E r \in Requests : Begin(r)
  BY <1>1, BeginIInv
<1>2. CASE Reserve
  BY <1>2, ReserveIInv
<1>3. CASE Restore
  BY <1>3, RestoreIInv
<1>4. CASE StartCold
  BY <1>4, StartColdIInv
<1>5. CASE Prefill
  BY <1>5, PrefillIInv
<1>6. CASE PrefillFails
  BY <1>6, PrefillFailsIInv
<1>7. CASE Step
  BY <1>7, StepIInv
<1>8. CASE StepStale
  BY <1>8, StepStaleIInv
<1>9. CASE StepFails
  BY <1>9, StepFailsIInv
<1>10. CASE GrowFails
  BY <1>10, GrowFailsIInv
<1>11. CASE Stop
  BY <1>11, StopIInv
<1>12. CASE LoadWarmup
  BY <1>12, LoadWarmupIInv
<1>13. CASE Unload \/ Respawn
  BY <1>13, UnloadIInv
<1>14. CASE UNCHANGED vars
  BY <1>14 DEF vars, IInv, TypeOK, CachesAgree, SnapsSound, SlabServes,
     SlabStaysModest, PastIsUsed, RowsAreOwn, MoreFrames, Worst, InitialCtx
<1> QED
  BY <1>1, <1>2, <1>3, <1>4, <1>5, <1>6, <1>7, <1>8, <1>9, <1>10, <1>11,
     <1>12, <1>13, <1>14 DEF Next

LEMMA Invariance == Spec => []IInv
<1>1. Init => IInv
  BY InitIInv, TalkerAssumption
<1>2. IInv /\ [Next]_vars => IInv'
  BY NextIInv, TalkerAssumption
<1> QED
  BY <1>1, <1>2, PTL DEF Spec

---------------------------------------------------------------------------
(* The theorems.                                                           *)

\* Every variable of the talker's memory keeps its type, and n_used stays
\* within the slab through reuse, growth, failure and unload.
THEOREM TypeCorrect == Spec => []TypeOK
<1>1. IInv => TypeOK
  BY DEF IInv
<1> QED
  BY <1>1, Invariance, PTL

\* For any voices, requests and sizes, attention reads only rows the current
\* request produced or restored from a sound snapshot of its own key (unless
\* a stale graph ran), and every row it writes lies in a backed slab.
THEOREM RowsSafe == Spec => []AttentionSound
<1>1. IInv => AttentionSound
  BY DEF IInv, TypeOK, SlabServes, PastIsUsed, RowsFit, AttentionSound
<1> QED
  BY <1>1, Invariance, PTL

\* The snapshot map and its LRU list name the same keys, each once, and at
\* most kPrefillKvCacheCapacity of them, whatever is stored, touched,
\* seeded from a file or evicted.
THEOREM CachesSafe == Spec => []CachesAgree
<1>1. IInv => CachesAgree
  BY DEF IInv
<1> QED
  BY <1>1, Invariance, PTL

\* The slab a request runs on is at most twice its worst case (or the floor).
THEOREM SlabModest == Spec => []SlabStaysModest
<1>1. IInv => SlabStaysModest
  BY DEF IInv
<1> QED
  BY <1>1, Invariance, PTL

\* A growth during decoding never exceeds the request's worst case.
THEOREM GrowthBounded == Spec => GrowthStopsAtWorst
<1> DEFINE Grows == pc = "frames" /\ slab'.n_ctx > slab.n_ctx
                      => slab'.n_ctx <= Worst(req)
<1>1. IInv /\ [Next]_vars => [Grows]_vars
  <2> SUFFICES ASSUME IInv, Next, pc = "frames", slab'.n_ctx > slab.n_ctx
               PROVE  slab'.n_ctx <= Worst(req)
    OBVIOUS
  <2>1. slab.n_ctx \in Nat /\ past \in Nat
    BY DEF IInv, TypeOK, SlabType
  <2>2. CASE Step \/ StepStale \/ StepFails
    <3>1. MoreFrames /\ slab'.n_ctx = StepSlab.n_ctx
      <4>1. MoreFrames
        BY <2>2 DEF Step, StepStale, StepFails
      <4>2. PICK s \in SlabType : s = StepSlab
        BY <4>1, StepSlabHolds, TalkerAssumption
      <4>3. slab' = s \/ slab' = [s EXCEPT !.n_used = past + 1]
        BY <2>2, <4>2 DEF Step, StepStale, StepFails
      <4> QED
        BY <4>1, <4>2, <4>3 DEF SlabType
    <3>2. StepSlab.n_ctx <= slab.n_ctx \/ StepSlab.n_ctx <= Worst(req)
      BY <3>1, StepSlabHolds, TalkerAssumption
    <3>3. StepSlab.n_ctx \in Nat
      BY <3>1, StepSlabHolds, TalkerAssumption DEF SlabType
    <3> QED
      BY <2>1, <3>1, <3>2, <3>3
  <2>3. CASE GrowFails
    BY <2>1, <2>3 DEF GrowFails, NoSlab
  <2>4. CASE ~ (Step \/ StepStale \/ StepFails \/ GrowFails)
    <3>1. Stop
      BY <2>4 DEF Next, Begin, Reserve, Restore, StartCold, Prefill,
         PrefillFails, LoadWarmup, Unload, Respawn
    <3> QED
      BY <2>1, <3>1 DEF Stop, memory
  <2> QED
    BY <2>2, <2>3, <2>4
<1> QED
  BY <1>1, Invariance, PTL DEF Spec, GrowthStopsAtWorst

-----------------------------------------------------------------------------
(* Induction over the naturals, of sets: a least element comes from finite *)
(* sets being well founded.                                                *)

LEMMA LeastNat ==
  ASSUME NEW T, T \subseteq Nat, T # {}
  PROVE  \E x \in T : \A y \in T : x <= y
<1> DEFINE Below(x) == 0..x - 1
           B == {Below(x) : x \in T}
<1>1. B \subseteq FiniteSubsetsOf(Nat) /\ B # {}
  <2>1. ASSUME NEW x \in T PROVE Below(x) \subseteq Nat /\ IsFiniteSet(Below(x))
    BY FS_Interval
  <2> QED
    BY <2>1 DEF FiniteSubsetsOf
<1>2. \E b \in B : \A a \in B : ~(<<a, b>> \in StrictSubsetOrdering(Nat))
  <2> HIDE DEF B
  <2> QED
    BY <1>1, WFMin, FS_StrictSubsetOrderingWellFounded
<1>3. PICK x \in T : \A y \in T : ~(<<Below(y), Below(x)>> \in StrictSubsetOrdering(Nat))
  BY <1>2
<1>4. ASSUME NEW y \in T PROVE x <= y
  <2> SUFFICES ASSUME y < x PROVE FALSE
    OBVIOUS
  <2>1. x \in Nat /\ y \in Nat
    OBVIOUS
  <2>2. Below(y) \subseteq Below(x) /\ Below(y) # Below(x)
    <3>1. y \in Below(x) /\ y \notin Below(y)
      BY <2>1
    <3> QED
      BY <2>1, <3>1
  <2>3. Below(y) \in SUBSET Nat /\ Below(x) \in SUBSET Nat
    BY <2>1
  <2> HIDE DEF Below
  <2> QED
    BY <1>3, <2>2, <2>3 DEF StrictSubsetOrdering
<1> QED
  BY <1>4

LEMMA SetInduction ==
  ASSUME NEW S, 0 \in S, \A n \in Nat : n \in S => n + 1 \in S
  PROVE  \A n \in Nat : n \in S
<1> SUFFICES ASSUME Nat \ S # {} PROVE FALSE
  OBVIOUS
<1>1. PICK x \in Nat \ S : \A y \in Nat \ S : x <= y
  BY LeastNat
<1>2. x # 0 /\ x - 1 \in Nat /\ x - 1 \in S
  BY <1>1
<1> QED
  BY <1>1, <1>2

-----------------------------------------------------------------------------
(* FaStream: samples and mel frames.                                       *)

Heard == [stream : Nat, at : Int, cut : Nat]
Windows == [1..2 * FaHalf -> Heard]
Marks == {"audio_start", "audio_end", "audio", "word", "timestamp", "unwritten"}
Tokens == [tok : Marks, mel : Seq(Windows), row : Nat]

Rates == {16, 24}

LEMMA FaNumbers ==
  ASSUME FaStreamAssumption
  PROVE  /\ FaHop \in Nat \ {0} /\ FaHalf \in Nat \ {0} /\ FaChunk \in Nat \ {0}
         /\ FaRows \in Nat \ {0} /\ FaFilter \in Nat \ {0} /\ FaSlack \in Nat
         /\ FaOversize \in Nat /\ 2 * FaFilter <= 3 * FaHop
BY DEF FaStreamAssumption

LEMMA WholeHops ==
  ASSUME NEW a \in Nat, NEW s \in Nat \ {0}
  PROVE  /\ a \div s \in Nat
         /\ (a \div s) * s <= a
         /\ a < (a \div s) * s + s
<1>1. a \div s \in Nat
  OBVIOUS
<1>2. a = s * (a \div s) + (a % s) /\ a % s \in 0..s - 1
  OBVIOUS
<1> QED
  BY <1>1, <1>2

\* Samples of n at 24 kHz, at 16 kHz.
TwoThirds(n) == (2 * n) \div 3

LEMMA FunIsSeq ==
  ASSUME NEW S, NEW n \in Nat, NEW x \in [1..n -> S]
  PROVE  x \in Seq(S) /\ Len(x) = n /\ DOMAIN x = 1..n
OBVIOUS

\* Integer steps of the arithmetic below, with nothing else around them.
LEMMA Through ==
  ASSUME NEW a \in Int, NEW b \in Int, NEW c \in Int, a <= b, b <= c
  PROVE  a <= c
OBVIOUS

\* A place k of the frames kept, of the first had, or after them.
KeptAt(k, had, safe, l, f) ==
  /\ k \in 1..safe /\ had \in Nat /\ safe \in Nat /\ l \in Nat /\ f \in Nat
  /\ k <= had /\ had <= safe /\ had <= l /\ l <= f

LEMMA KeptPlace ==
  ASSUME NEW k, NEW had, NEW safe, NEW l, NEW f, KeptAt(k, had, safe, l, f)
  PROVE  k \in 1..had /\ k \in 1..l /\ k - 1 \in Nat /\ k - 1 < safe /\ k - 1 < f
BY DEF KeptAt

AddedAt(k, had, safe) ==
  had \in Nat /\ safe \in Nat /\ had <= safe /\ k \in 1..safe /\ ~(k <= had)

LEMMA AddedPlace ==
  ASSUME NEW k, NEW had, NEW safe, AddedAt(k, had, safe)
  PROVE  k - had \in 1..safe - had /\ had + (k - had) - 1 = k - 1 /\ had + (k - had) = k
BY DEF AddedAt

\* A place of the text, in a prompt of n rows and l tokens of text.
TextAt(k, n, l) == n \in Nat /\ l \in Nat /\ k \in 1..1 + n + l /\ k # 1 /\ ~(k - 1 \in 1..n)

LEMMA TextPlace ==
  ASSUME NEW k, NEW n, NEW l, TextAt(k, n, l)
  PROVE  k - (1 + n) \in 1..l /\ k = 1 + n + (k - (1 + n))
BY DEF TextAt

OffsetAt(k, n, l) == n \in Nat /\ l \in Nat /\ k \in 1..l

LEMMA OffsetPlace ==
  ASSUME NEW k, NEW n, NEW l, OffsetAt(k, n, l)
  PROVE  1 + n + k \in 1..1 + n + l
BY DEF OffsetAt

\* A place of the rows after the first c, and one of the text behind them.
RowAt(i, c, rows, l) ==
  c \in Nat /\ rows \in Nat /\ l \in Nat /\ c <= rows /\ i \in 1..1 + rows + l /\ i > 1 + c /\ i <= 1 + rows

LEMMA RowPlace ==
  ASSUME NEW i, NEW c, NEW rows, NEW l, RowAt(i, c, rows, l)
  PROVE  /\ i - (1 + c) \in 1..rows - c /\ i - (1 + c) \in 1..(rows - c) + l
         /\ i = 1 + c + (i - (1 + c)) /\ c + (i - (1 + c)) \in 1..rows
         /\ i = 1 + (c + (i - (1 + c)))
BY DEF RowAt

LEMMA Sums ==
  ASSUME NEW a \in Nat, NEW b \in Nat, NEW c \in Nat
  PROVE  a + b + c \in Nat /\ a + b \in Nat /\ a + b <= a + b + c
OBVIOUS

OfStream(x, s) == \A i \in 1..Len(x) : x[i].stream = s

LEMMA SamplesType ==
  ASSUME FaStreamAssumption, NEW s \in Nat, NEW r \in Rates, NEW n \in Nat
  PROVE  /\ Samples(s, r, n) \in Seq(Heard)
         /\ r = 16 => Len(Samples(s, r, n)) = n
         /\ r = 24 => Len(Samples(s, r, n)) = TwoThirds(n)
         /\ OfStream(Samples(s, r, n), s)
<1> DEFINE plain(i) == [stream |-> s, at |-> i - 1, cut |-> 0]
           c(i) == (3 * (i - 1)) \div 2
           taps(i) == IF i % 2 = 1 THEN FaFilter - 1 ELSE FaFilter
           filtered(i) == [stream |-> s, at |-> c(i), cut |-> IF c(i) + taps(i) > n - 1 THEN n ELSE 0]
           L == TwoThirds(n)
<1>1. CASE r = 16
  <2>1. Samples(s, r, n) = [i \in 1..n |-> plain(i)]
    BY <1>1 DEF Samples
  <2>2. \A i \in 1..n : plain(i) \in Heard
    BY DEF Heard
  <2>3. [i \in 1..n |-> plain(i)] \in [1..n -> Heard]
    BY <2>2
  <2>4. [i \in 1..n |-> plain(i)] \in Seq(Heard) /\ Len([i \in 1..n |-> plain(i)]) = n
    BY <2>3, FunIsSeq
  <2>5. \A i \in 1..n : Samples(s, r, n)[i].stream = s
    BY <2>1
  <2>6. Samples(s, r, n) \in Seq(Heard) /\ Len(Samples(s, r, n)) = n
    BY <2>1, <2>4
  <2>7. OfStream(Samples(s, r, n), s)
    BY <2>5, <2>6 DEF OfStream
  <2> QED
    BY <1>1, <2>6, <2>7
<1>2. CASE r = 24
  <2>1. Samples(s, r, n) = [i \in 1..L |-> filtered(i)]
    BY <1>2 DEF Samples, TwoThirds
  <2>2. L \in Nat
    BY DEF TwoThirds
  <2>3. \A i \in 1..L : c(i) \in Int
    OBVIOUS
  <2>4. \A i \in 1..L : filtered(i) \in Heard
    <3> HIDE DEF c, taps, L
    <3> QED
      BY <2>2, <2>3 DEF Heard
  <2> DEFINE x == [i \in 1..L |-> filtered(i)]
  <2>5. \A i \in 1..L : x[i].stream = s
    OBVIOUS
  <2>6. x \in [1..L -> Heard]
    BY <2>4
  <2> HIDE DEF x, L
  <2>7. x \in Seq(Heard) /\ Len(x) = L
    BY <2>2, <2>6, FunIsSeq
  <2>8. Samples(s, r, n) = x
    BY <2>1 DEF x, L
  <2>9. \A i \in 1..L : x[i].stream = s
    BY <2>5 DEF x, L
  <2>10. OfStream(x, s)
    BY <2>7, <2>9 DEF OfStream
  <2>11. r # 16 /\ Len(x) = TwoThirds(n)
    BY <1>2, <2>7 DEF L
  <2> QED
    BY <2>7, <2>8, <2>10, <2>11
<1> QED
  BY <1>1, <1>2 DEF Rates

\* The window of a frame that is kept ends a hop before the audio does.
LEMMA SafeBound ==
  ASSUME FaStreamAssumption, NEW x \in Seq(Heard)
  PROVE  /\ MelFrames(x) \in Nat /\ MelFrames(x) * FaHop <= Len(x)
         /\ SafeFrames(x) \in Nat /\ SafeFrames(x) <= MelFrames(x)
         /\ \A t \in Nat : t < SafeFrames(x) => t * FaHop + FaHalf + FaHop <= Len(x)
<1> DEFINE H == FaHop
           a == Len(x) - FaHalf
           q == a \div H
<1>1. Len(x) \in Nat /\ FaHalf \in Nat /\ H \in Nat \ {0}
  BY FaNumbers
<1>2. MelFrames(x) \in Nat /\ MelFrames(x) * H <= Len(x)
  BY <1>1, WholeHops DEF MelFrames
<1>3. CASE Len(x) < FaHalf
  BY <1>2, <1>3 DEF SafeFrames
<1>4. CASE ~(Len(x) < FaHalf)
  <2>1. a \in Nat
    BY <1>1, <1>4
  <2>2. q \in Nat /\ q * H <= a
    <3> HIDE DEF a, H
    <3> QED
      BY <1>1, <2>1, WholeHops
  <2>3. SafeFrames(x) = FaMin(q, MelFrames(x))
    BY <1>4 DEF SafeFrames
  <2> HIDE DEF q, H
  <2>4. SafeFrames(x) \in Nat /\ SafeFrames(x) <= q /\ SafeFrames(x) <= MelFrames(x)
    <3>1. q \in Nat /\ MelFrames(x) \in Nat
      BY <1>2, <2>2
    <3> QED
      BY <2>3, <3>1, SMTT(60) DEF FaMin
  <2>5. ASSUME NEW t \in Nat, t < SafeFrames(x) PROVE t * H + FaHalf + H <= Len(x)
    <3>0. PICK f \in Nat : f = SafeFrames(x)
      BY <2>4
    <3>1. t + 1 <= q /\ t + 1 \in Nat
      <4>1. t < f /\ f <= q /\ q \in Nat
        BY <2>2, <2>4, <2>5, <3>0
      <4> QED
        BY <4>1, SMTT(60)
    <3>2. (t + 1) * H <= q * H
      BY <1>1, <2>2, <3>1
    <3>3. (t + 1) * H = t * H + H /\ t * H \in Nat /\ q * H \in Nat
      BY <1>1, <2>2
    <3>4. PICK u \in Nat : u = t * H
      BY <3>3
    <3>5. PICK v \in Nat : v = q * H
      BY <3>3
    <3>6. PICK l \in Nat : l = Len(x)
      BY <1>1
    <3>7. u + H <= v /\ v <= l - FaHalf
      BY <2>2, <3>2, <3>3, <3>4, <3>5, <3>6
    <3>8. u + FaHalf + H <= l
      BY <1>1, <3>7
    <3> QED
      BY <3>4, <3>6, <3>8
  <2> QED
    BY <1>2, <2>4, <2>5 DEF H
<1> QED
  BY <1>3, <1>4

WellInside(i, x) == i + FaHop <= Len(x)
SourceAt(r, i) == IF r = 16 THEN i - 1 ELSE (3 * (i - 1)) \div 2
Settled(s, r, i) == [stream |-> s, at |-> SourceAt(r, i), cut |-> 0]

\* Up to a hop before its end, audio does not depend on where it ends.
LEMMA SampleSettled ==
  ASSUME FaStreamAssumption, NEW s \in Nat, NEW r \in Rates, NEW n \in Nat,
         NEW i \in Nat \ {0}, WellInside(i, Samples(s, r, n))
  PROVE  Samples(s, r, n)[i] = Settled(s, r, i)
<1>0. i + FaHop <= Len(Samples(s, r, n))
  BY DEF WellInside
<1>1. FaHop \in Nat \ {0} /\ FaFilter \in Nat \ {0} /\ 2 * FaFilter <= 3 * FaHop
  BY FaNumbers
<1>2. CASE r = 16
  <2>0. Len(Samples(s, r, n)) = n
    BY <1>2, SamplesType
  <2>1. i \in 1..n
    BY <1>0, <1>1, <2>0
  <2> QED
    BY <1>2, <2>1 DEF Samples, Settled, SourceAt
<1>3. CASE r = 24
  <2> DEFINE c == (3 * (i - 1)) \div 2
             taps == IF i % 2 = 1 THEN FaFilter - 1 ELSE FaFilter
  <2>1. Len(Samples(s, r, n)) = TwoThirds(n)
    BY <1>3, SamplesType, SMTT(60)
  <2>2. i \in 1..(2 * n) \div 3 /\ 3 * (i + FaHop) <= 2 * n
    BY <1>0, <1>1, <2>1 DEF TwoThirds
  <2>3. Samples(s, r, n)[i] = [stream |-> s, at |-> c, cut |-> IF c + taps > n - 1 THEN n ELSE 0]
    BY <1>3, <2>2 DEF Samples
  <2>4. c \in Int /\ 2 * c <= 3 * (i - 1)
    OBVIOUS
  <2>5. taps \in Int /\ taps <= FaFilter
    BY <1>1
  <2>6. ~(c + taps > n - 1)
    <3> HIDE DEF c, taps
    <3> QED
      BY <1>1, <2>2, <2>4, <2>5
  <2>7. SourceAt(r, i) = c
    BY <1>3 DEF SourceAt
  <2> QED
    BY <2>3, <2>6, <2>7 DEF Settled
<1> QED
  BY <1>2, <1>3 DEF Rates

LEMMA FrameType ==
  ASSUME FaStreamAssumption, NEW x \in Seq(Heard), NEW t \in Nat
  PROVE  MelFrame(x, t) \in Windows
<1> DEFINE v(k) == LET i == t * FaHop - FaHalf + k IN IF i \in 1..Len(x) THEN x[i] ELSE Outside
<1>1. Outside \in Heard
  BY DEF Outside, Heard
<1>2. \A k \in 1..2 * FaHalf : v(k) \in Heard
  BY <1>1, ElementOfSeq
<1>3. MelFrame(x, t) = [k \in 1..2 * FaHalf |-> v(k)]
  BY DEF MelFrame
<1> HIDE DEF v
<1> QED
  BY <1>2, <1>3 DEF Windows

\* m is the frames of x from a on, before b.
FramesFrom(m, x, a, b) ==
  /\ m \in Seq(Windows) /\ Len(m) = b - a
  /\ \A k \in 1..b - a : m[k] = MelFrame(x, a + k - 1)

LEMMA RangeFrames ==
  ASSUME FaStreamAssumption, NEW x \in Seq(Heard), NEW a \in Nat, NEW b \in Nat, a <= b
  PROVE  FramesFrom(MelRange(x, a, b), x, a, b)
<1> DEFINE v == [k \in 1..b - a |-> MelFrame(x, a + k - 1)]
<1>1. \A k \in 1..b - a : a + k - 1 \in Nat
  OBVIOUS
<1>2. v \in [1..b - a -> Windows]
  BY <1>1, FrameType
<1>3. b - a \in Nat
  OBVIOUS
<1>4. MelRange(x, a, b) = v
  BY DEF MelRange
<1>5. \A k \in 1..b - a : v[k] = MelFrame(x, a + k - 1)
  OBVIOUS
<1> HIDE DEF v
<1>6. v \in Seq(Windows) /\ Len(v) = b - a
  BY <1>2, <1>3, FunIsSeq
<1> QED
  BY <1>4, <1>5, <1>6 DEF FramesFrom

FirstFrames(m, x, b) ==
  /\ m \in Seq(Windows) /\ Len(m) = b
  /\ \A k \in 1..b : m[k] = MelFrame(x, k - 1)

LEMMA RangeFirst ==
  ASSUME FaStreamAssumption, NEW x \in Seq(Heard), NEW b \in Nat
  PROVE  FirstFrames(MelRange(x, 0, b), x, b)
<1> DEFINE m == MelRange(x, 0, b)
<1>1. FramesFrom(m, x, 0, b)
  <2>1. 0 \in Nat /\ 0 <= b
    OBVIOUS
  <2>2. FramesFrom(MelRange(x, 0, b), x, 0, b)
    BY <2>1, RangeFrames, SMTT(30)
  <2> QED
    BY <2>2
<1> HIDE DEF m
<1>2. ASSUME NEW k \in 1..b PROVE m[k] = MelFrame(x, k - 1)
  <2>1. k \in 1..b - 0 /\ 0 + k - 1 = k - 1
    OBVIOUS
  <2> QED
    BY <1>1, <2>1 DEF FramesFrom
<1>3. Len(m) = b
  BY <1>1 DEF FramesFrom
<1> QED
  BY <1>1, <1>2, <1>3 DEF FramesFrom, FirstFrames, m

\* c is s, a long, and then t, b long.
Joined(c, s, t, a, b) ==
  /\ Len(c) = a + b
  /\ \A k \in 1..a : c[k] = s[k]
  /\ \A k \in 1..b : c[a + k] = t[k]

LEMMA ConcatJoins ==
  ASSUME NEW S, NEW s \in Seq(S), NEW t \in Seq(S)
  PROVE  s \o t \in Seq(S) /\ Joined(s \o t, s, t, Len(s), Len(t))
<1>1. Len(s) \in Nat /\ Len(t) \in Nat
  BY LenProperties
<1> DEFINE c == s \o t
<1>2. /\ c \in Seq(S) /\ Len(c) = Len(s) + Len(t)
      /\ \A i \in 1..Len(s) + Len(t) : c[i] = IF i <= Len(s) THEN s[i] ELSE t[i - Len(s)]
  BY ConcatProperties
<1> HIDE DEF c
<1>3. ASSUME NEW k \in 1..Len(s) PROVE c[k] = s[k]
  <2>1. k \in 1..Len(s) + Len(t) /\ k <= Len(s)
    BY <1>1
  <2> QED
    BY <1>2, <2>1
<1>4. ASSUME NEW k \in 1..Len(t) PROVE c[Len(s) + k] = t[k]
  <2>1. Len(s) + k \in 1..Len(s) + Len(t) /\ ~(Len(s) + k <= Len(s)) /\ (Len(s) + k) - Len(s) = k
    BY <1>1
  <2> QED
    BY <1>2, <2>1
<1> QED
  BY <1>2, <1>3, <1>4 DEF c, Joined

LEMMA MelType ==
  ASSUME FaStreamAssumption, NEW x \in Seq(Heard)
  PROVE  /\ Mel(x) = MelRange(x, 0, MelFrames(x))
         /\ Mel(x) \in Seq(Windows) /\ Len(Mel(x)) = MelFrames(x)
<1>1. Len(x) \in Nat /\ FaHalf \in Nat /\ MelFrames(x) \in Nat
  BY FaNumbers, SafeBound
<1>2. (Len(x) + 2 * FaHalf) - 2 * FaHalf = Len(x)
  BY <1>1
<1>3. MelFrames(x) + 1 - 1 = MelFrames(x)
  BY <1>1
<1>4. Mel(x) = MelRange(x, 0, MelFrames(x))
  BY <1>2, <1>3 DEF Mel, MelFrames
<1>5. FirstFrames(MelRange(x, 0, MelFrames(x)), x, MelFrames(x))
  BY <1>1, RangeFirst
<1> QED
  BY <1>4, <1>5 DEF FirstFrames

Safe(t, x) == t < SafeFrames(x)
SettledWindow(s, r, t) ==
  [k \in 1..2 * FaHalf |->
     LET i == t * FaHop - FaHalf + k IN IF i >= 1 THEN Settled(s, r, i) ELSE Outside]

\* A frame that is kept does not depend on the length of the audio either.
LEMMA WindowSettled ==
  ASSUME FaStreamAssumption, NEW s \in Nat, NEW r \in Rates, NEW n \in Nat,
         NEW t \in Nat, Safe(t, Samples(s, r, n))
  PROVE  MelFrame(Samples(s, r, n), t) = SettledWindow(s, r, t)
<1> DEFINE x == Samples(s, r, n)
           at == t * FaHop - FaHalf
           window(i) == IF i \in 1..Len(x) THEN x[i] ELSE Outside
           settled(i) == IF i >= 1 THEN Settled(s, r, i) ELSE Outside
<1>1. /\ x \in Seq(Heard) /\ Len(x) \in Nat /\ FaHop \in Nat \ {0} /\ FaHalf \in Nat
  BY SamplesType, FaNumbers, LenProperties
<1>2. t * FaHop + FaHalf + FaHop <= Len(x)
  BY <1>1, SafeBound DEF Safe
<1>3. at \in Int /\ at + 2 * FaHalf + FaHop <= Len(x)
  BY <1>1, <1>2
<1>4. MelFrame(x, t) = [k \in 1..2 * FaHalf |-> window(at + k)]
      /\ SettledWindow(s, r, t) = [k \in 1..2 * FaHalf |-> settled(at + k)]
  BY DEF MelFrame, SettledWindow
<1> HIDE DEF x, at
<1>5. ASSUME NEW k \in 1..2 * FaHalf PROVE window(at + k) = settled(at + k)
  <2>1. PICK i \in Int : i = at + k
    BY <1>3, SMTT(60)
  <2>2. i + FaHop <= Len(x)
    BY <1>1, <1>3, <2>1
  <2>3. CASE i >= 1
    <3>1. i \in Nat \ {0} /\ i \in 1..Len(x) /\ WellInside(i, x)
      BY <1>1, <2>2, <2>3, SMTT(60) DEF WellInside
    <3>2. x[i] = Settled(s, r, i)
      BY <3>1, SampleSettled DEF x
    <3> QED
      BY <2>1, <2>3, <3>1, <3>2
  <2>4. CASE ~(i >= 1)
    BY <2>1, <2>4
  <2> QED
    BY <2>3, <2>4
<1> HIDE DEF window, settled
<1> QED
  BY <1>4, <1>5 DEF x

-----------------------------------------------------------------------------
(* The mel kept.                                                           *)

\* The frames kept are frames of the stream, from its beginning, which the audio
\* at the time kept.
MelOf(mel, s, r, n) ==
  /\ Len(mel) <= SafeFrames(Samples(s, r, n))
  /\ mel = MelRange(Samples(s, r, n), 0, Len(mel))
MelOwn(mel, s, r) == mel \in Seq(Windows) /\ \E n \in Nat : MelOf(mel, s, r, n)

KeptFrames(mel, x) == FaMin(Len(mel), SafeFrames(x))
ExtendedMel(mel, x) ==
  SubSeq(mel, 1, KeptFrames(mel, x)) \o MelRange(x, KeptFrames(mel, x), SafeFrames(x))

LEMMA MelNone == ASSUME FaStreamAssumption, NEW s \in Nat, NEW r \in Rates
                 PROVE  MelOwn(<<>>, s, r)
<1>1. Samples(s, r, 0) \in Seq(Heard)
  BY SamplesType
<1>2. /\ Len(MelRange(Samples(s, r, 0), 0, 0)) = 0 /\ SafeFrames(Samples(s, r, 0)) \in Nat
      /\ MelRange(Samples(s, r, 0), 0, 0) \in Seq(Windows)
  <2>1. FirstFrames(MelRange(Samples(s, r, 0), 0, 0), Samples(s, r, 0), 0)
    BY <1>1, RangeFirst
  <2> QED
    BY <1>1, <2>1, SafeBound DEF FirstFrames
<1>3. Len(<<>>) = 0 /\ <<>> \in Seq(Windows) /\ MelRange(Samples(s, r, 0), 0, 0) = <<>>
  BY <1>2, EmptySeq
<1> QED
  BY <1>2, <1>3, SMTT(60) DEF MelOwn, MelOf

LEMMA FirstOf ==
  ASSUME NEW S, NEW m \in Seq(S), NEW b \in Nat, b <= Len(m)
  PROVE  /\ SubSeq(m, 1, b) \in Seq(S) /\ Len(SubSeq(m, 1, b)) = b
         /\ \A k \in 1..b : SubSeq(m, 1, b)[k] = m[k]
<1> DEFINE o == SubSeq(m, 1, b)
<1>1. \A k \in 1..b : m[k] \in S
  <2>1. PICK l \in Nat : l = Len(m)
    BY LenProperties
  <2>2. \A k \in 1..b : k \in 1..l
    BY <2>1
  <2> QED
    BY <2>1, <2>2, ElementOfSeq
<1>2. /\ o \in Seq(S) /\ Len(o) = (IF 1 <= b THEN b - 1 + 1 ELSE 0)
      /\ \A k \in 1..b - 1 + 1 : o[k] = m[1 + k - 1]
  <2>1. 1 \in Int /\ b \in Int
    OBVIOUS
  <2> QED
    BY <1>1, <2>1, SubSeqProperties
<1> HIDE DEF o
<1>3. b - 1 + 1 = b /\ \A k \in 1..b : 1 + k - 1 = k
  OBVIOUS
<1>4. Len(o) = b
  BY <1>2
<1>5. \A k \in 1..b : o[k] = m[k]
  BY <1>2, <1>3
<1> QED
  BY <1>2, <1>4, <1>5 DEF o

LEMMA MelExtends ==
  ASSUME FaStreamAssumption, NEW s \in Nat, NEW r \in Rates, NEW n \in Nat,
         NEW mel, MelOwn(mel, s, r)
  PROVE  LET x == Samples(s, r, n) IN
         /\ ExtendedMel(mel, x) = MelRange(x, 0, SafeFrames(x))
         /\ MelOwn(ExtendedMel(mel, x), s, r)
<1> DEFINE x == Samples(s, r, n)
           safe == SafeFrames(x)
           had == KeptFrames(mel, x)
           old == SubSeq(mel, 1, had)
           new == MelRange(x, had, safe)
           all == MelRange(x, 0, safe)
<1>1. PICK m \in Nat : MelOf(mel, s, r, m)
  BY DEF MelOwn
<1> DEFINE y == Samples(s, r, m)
<1>2. x \in Seq(Heard) /\ y \in Seq(Heard) /\ mel \in Seq(Windows) /\ Len(mel) \in Nat
  BY SamplesType, LenProperties DEF MelOwn
<1>3. safe \in Nat /\ SafeFrames(y) \in Nat /\ Len(mel) <= SafeFrames(y)
      /\ mel = MelRange(y, 0, Len(mel))
  BY <1>1, <1>2, SafeBound DEF MelOf
<1>4. had \in Nat /\ had <= safe /\ had <= Len(mel)
  <2>1. Len(mel) \in Nat /\ safe \in Nat
    BY <1>2, <1>3
  <2>2. had = IF Len(mel) < safe THEN Len(mel) ELSE safe
    BY DEF KeptFrames, FaMin
  <2> HIDE DEF had, safe
  <2> QED
    BY <2>1, <2>2, SMTT(60)
<1> HIDE DEF x, y, safe, had
<1>5. FirstFrames(mel, y, Len(mel))
  BY <1>2, <1>3, RangeFirst
<1>6. old \in Seq(Windows) /\ Len(old) = had /\ \A k \in 1..had : old[k] = mel[k]
  BY <1>2, <1>4, FirstOf
<1>7. FramesFrom(new, x, had, safe)
  BY <1>2, <1>3, <1>4, RangeFrames
<1>8. FirstFrames(all, x, safe)
  BY <1>2, <1>3, RangeFirst
<1> HIDE DEF old, new, all
<1>9. /\ old \o new \in Seq(Windows) /\ Len(old \o new) = had + (safe - had)
      /\ Joined(old \o new, old, new, had, safe - had)
  <2>1. new \in Seq(Windows) /\ Len(new) = safe - had
    BY <1>7 DEF FramesFrom
  <2>2. old \o new \in Seq(Windows) /\ Joined(old \o new, old, new, Len(old), Len(new))
    BY <1>6, <2>1, ConcatJoins
  <2>3. Joined(old \o new, old, new, had, safe - had)
    BY <1>6, <2>1, <2>2
  <2> QED
    BY <2>2, <2>3 DEF Joined
<1>10. ASSUME NEW k \in 1..safe PROVE (old \o new)[k] = all[k]
  <2>0. all[k] = MelFrame(x, k - 1)
    BY <1>8 DEF FirstFrames
  <2>1. CASE k <= had
    <3>0. Len(mel) \in Nat /\ safe \in Nat /\ SafeFrames(y) \in Nat /\ Len(mel) <= SafeFrames(y)
      BY <1>2, <1>3
    <3>1. k \in 1..had /\ k \in 1..Len(mel) /\ k - 1 \in Nat /\ k - 1 < safe
          /\ k - 1 < SafeFrames(y)
      <4>1. PICK l \in Nat : l = Len(mel)
        BY <3>0
      <4>2. PICK f \in Nat : f = SafeFrames(y)
        BY <3>0
      <4>3. KeptAt(k, had, safe, l, f)
        BY <1>4, <2>1, <3>0, <4>1, <4>2 DEF KeptAt
      <4>4. k \in 1..had /\ k \in 1..l /\ k - 1 \in Nat /\ k - 1 < safe /\ k - 1 < f
        BY <4>3, KeptPlace, Zenon
      <4> QED
        BY <4>1, <4>2, <4>4
    <3>2. PICK t \in Nat : t = k - 1
      BY <3>1
    <3>5. Safe(t, x) /\ Safe(t, y)
      BY <3>1, <3>2 DEF Safe, safe
    <3>6. MelFrame(y, t) = SettledWindow(s, r, t)
      BY <3>5, WindowSettled, SMTT(60) DEF y
    <3>7. MelFrame(x, t) = SettledWindow(s, r, t)
      BY <3>5, WindowSettled, SMTT(60) DEF x
    <3>4. MelFrame(y, t) = MelFrame(x, t)
      BY <3>6, <3>7
    <3>3. mel[k] = MelFrame(y, k - 1)
      BY <1>5, <3>1 DEF FirstFrames
    <3> QED
      BY <1>6, <1>9, <2>0, <3>1, <3>2, <3>3, <3>4 DEF Joined
  <2>2. CASE ~(k <= had)
    <3>0. AddedAt(k, had, safe)
      BY <1>3, <1>4, <2>2 DEF AddedAt
    <3>1. k - had \in 1..safe - had /\ had + (k - had) - 1 = k - 1 /\ had + (k - had) = k
      BY <3>0, AddedPlace, Zenon
    <3>2. new[k - had] = MelFrame(x, had + (k - had) - 1)
      BY <1>7, <3>1 DEF FramesFrom
    <3>3. (old \o new)[had + (k - had)] = new[k - had]
      BY <1>9, <3>1 DEF Joined
    <3> QED
      BY <2>0, <3>1, <3>2, <3>3
  <2> QED
    BY <2>1, <2>2
<1>11. old \o new = all
  <2>1. Len(old \o new) = safe /\ Len(all) = safe /\ all \in Seq(Windows)
    BY <1>3, <1>4, <1>8, <1>9 DEF FirstFrames
  <2> QED
    BY <1>9, <1>10, <2>1, SeqEqual
<1>12. ExtendedMel(mel, x) = all
  BY <1>11 DEF ExtendedMel, old, new, had, safe
<1>13. MelOf(all, s, r, n)
  <2>1. Len(all) = safe /\ safe <= safe
    BY <1>3, <1>8 DEF FirstFrames
  <2>2. all = MelRange(x, 0, safe)
    BY DEF all
  <2>3. Len(all) <= safe /\ all = MelRange(x, 0, Len(all))
    BY <2>1, <2>2
  <2> QED
    BY <2>3 DEF MelOf, x, safe
<1>14. MelOwn(all, s, r)
  BY <1>8, <1>13 DEF MelOwn, FirstFrames
<1> QED
  BY <1>12, <1>14 DEF all, x, safe

\* Frames kept and frames before them are the mel of the audio.
LEMMA MelStitched ==
  ASSUME FaStreamAssumption, NEW x \in Seq(Heard)
  PROVE  MelRange(x, 0, SafeFrames(x)) \o MelRange(x, SafeFrames(x), MelFrames(x)) = Mel(x)
<1> DEFINE s == SafeFrames(x)
           f == MelFrames(x)
           old == MelRange(x, 0, s)
           new == MelRange(x, s, f)
           all == MelRange(x, 0, f)
<1>1. s \in Nat /\ f \in Nat /\ s <= f
  BY SafeBound
<1> HIDE DEF s, f
<1>2. FirstFrames(old, x, s)
  BY <1>1, RangeFirst
<1>3. FramesFrom(new, x, s, f)
  BY <1>1, RangeFrames
<1>4. FirstFrames(all, x, f)
  BY <1>1, RangeFirst
<1> HIDE DEF old, new, all
<1>5. /\ old \o new \in Seq(Windows) /\ Len(old \o new) = s + (f - s)
      /\ Joined(old \o new, old, new, s, f - s)
  <2>1. old \in Seq(Windows) /\ Len(old) = s /\ new \in Seq(Windows) /\ Len(new) = f - s
    BY <1>2, <1>3 DEF FramesFrom, FirstFrames
  <2>2. old \o new \in Seq(Windows) /\ Joined(old \o new, old, new, Len(old), Len(new))
    BY <2>1, ConcatJoins
  <2>3. Joined(old \o new, old, new, s, f - s)
    BY <2>1, <2>2
  <2> QED
    BY <2>2, <2>3 DEF Joined
<1>6. ASSUME NEW k \in 1..f PROVE (old \o new)[k] = all[k]
  <2>0. all[k] = MelFrame(x, k - 1)
    BY <1>4 DEF FirstFrames
  <2>1. CASE k <= s
    <3>1. k \in 1..s
      BY <1>1, <2>1
    <3> QED
      BY <1>2, <1>5, <2>0, <3>1 DEF FirstFrames, Joined
  <2>2. CASE ~(k <= s)
    <3>1. k - s \in 1..f - s /\ s + (k - s) - 1 = k - 1 /\ s + (k - s) = k
      BY <1>1, <2>2
    <3>2. new[k - s] = MelFrame(x, s + (k - s) - 1)
      BY <1>3, <3>1 DEF FramesFrom
    <3>3. (old \o new)[s + (k - s)] = new[k - s]
      BY <1>5, <3>1 DEF Joined
    <3> QED
      BY <2>0, <3>1, <3>2, <3>3
  <2> QED
    BY <2>1, <2>2
<1>7. old \o new = all
  <2>1. Len(old \o new) = f /\ Len(all) = f /\ all \in Seq(Windows)
    BY <1>1, <1>4, <1>5, SMTT(60) DEF FirstFrames
  <2> QED
    BY <1>5, <1>6, <2>1, SeqEqual
<1> QED
  BY <1>7, MelType DEF old, new, all, s, f

-----------------------------------------------------------------------------
(* The prompt.                                                             *)

FlatUpto(f, z, n) == f = [i \in 1..n |-> IF i = 1 THEN z[i] ELSE f[i - 1] \o z[i]]

LEMMA FlatExists == ASSUME NEW z PROVE \A n \in Nat : \E f : FlatUpto(f, z, n)
<1> DEFINE S == {n \in Nat : \E f : FlatUpto(f, z, n)}
<1>1. 0 \in S
  <2> DEFINE f == [i \in 1..0 |-> z[i]]
  <2>1. FlatUpto(f, z, 0)
    BY DEF FlatUpto
  <2> QED
    BY <2>1
<1>2. ASSUME NEW n \in Nat, n \in S PROVE n + 1 \in S
  <2>1. PICK f : FlatUpto(f, z, n)
    BY <1>2
  <2> DEFINE g == [i \in 1..n + 1 |-> IF i <= n THEN f[i]
                                      ELSE IF n = 0 THEN z[1] ELSE f[n] \o z[n + 1]]
  <2>2. ASSUME NEW i \in 1..n PROVE f[i] = (IF i = 1 THEN z[i] ELSE f[i - 1] \o z[i])
    BY <2>1 DEF FlatUpto
  <2>3. ASSUME NEW i \in 1..n + 1
        PROVE  g[i] = (IF i = 1 THEN z[i] ELSE g[i - 1] \o z[i])
    <3>1. CASE i = 1 /\ n = 0
      BY <3>1
    <3>2. CASE i = 1 /\ n # 0
      <4>1. i \in 1..n /\ i <= n
        BY <3>2
      <4> QED
        BY <2>2, <3>2, <4>1
    <3>3. CASE i \in 2..n
      <4>1. i - 1 \in 1..n /\ i - 1 <= n /\ i - 1 \in 1..n + 1 /\ i \in 1..n /\ i # 1 /\ i <= n
        BY <3>3
      <4> QED
        BY <2>2, <4>1
    <3>4. CASE i = n + 1 /\ n # 0
      <4>1. i - 1 = n /\ n \in 1..n + 1 /\ i # 1 /\ ~(i <= n) /\ n <= n
        BY <3>4
      <4> QED
        BY <3>4, <4>1
    <3> QED
      BY <3>1, <3>2, <3>3, <3>4
  <2>4. FlatUpto(g, z, n + 1)
    <3>1. g = [i \in 1..n + 1 |-> g[i]]
      OBVIOUS
    <3> HIDE DEF g
    <3> QED
      BY <2>3, <3>1 DEF FlatUpto
  <2> QED
    BY <2>4
<1> HIDE DEF S
<1>3. \A n \in Nat : n \in S
  BY <1>1, <1>2, SetInduction
<1> QED
  BY <1>3 DEF S

LEMMA FlattenType ==
  ASSUME NEW T, NEW z \in Seq(Seq(T)), z # <<>>
  PROVE  FlattenSeq(z) \in Seq(T)
<1> DEFINE n == Len(z)
           f == CHOOSE f : FlatUpto(f, z, n)
           S == {i \in Nat : i + 1 <= n => f[i + 1] \in Seq(T)}
<1>1. n \in Nat \ {0} /\ \A i \in 1..n : z[i] \in Seq(T)
  BY EmptySeq, ElementOfSeq
<1>2. FlatUpto(f, z, n)
  BY <1>1, FlatExists
<1>3. FlattenSeq(z) = f[n]
  BY <1>1 DEF FlattenSeq, FlatUpto
<1> HIDE DEF f, n
<1>4. \A i \in 1..n : f[i] = IF i = 1 THEN z[i] ELSE f[i - 1] \o z[i]
  BY <1>2 DEF FlatUpto
<1>5. 0 \in S
  <2>1. 1 \in 1..n
    BY <1>1
  <2> QED
    BY <1>1, <1>4, <2>1
<1>6. ASSUME NEW i \in Nat, i \in S PROVE i + 1 \in S
  <2> SUFFICES ASSUME i + 1 + 1 <= n PROVE f[i + 1 + 1] \in Seq(T)
    OBVIOUS
  <2>1. i + 1 <= n /\ i + 1 + 1 \in 1..n /\ i + 1 + 1 # 1 /\ (i + 1 + 1) - 1 = i + 1
    BY <1>1
  <2>2. f[i + 1] \in Seq(T) /\ z[i + 1 + 1] \in Seq(T)
    BY <1>1, <1>6, <2>1
  <2>3. f[i + 1 + 1] = f[i + 1] \o z[i + 1 + 1]
    BY <1>4, <2>1
  <2> QED
    BY <2>2, <2>3, ConcatProperties
<1> HIDE DEF S
<1>7. \A i \in Nat : i \in S
  BY <1>5, <1>6, SetInduction
<1>8. n - 1 \in Nat /\ (n - 1) + 1 = n
  BY <1>1
<1> QED
  BY <1>3, <1>7, <1>8 DEF S

LEMMA TextTokens ==
  /\ \A k \in Marks : TextToken(k) \in Tokens
  /\ Stamp \in Tokens /\ Unwritten \in Tokens /\ TextToken("audio_start") \in Tokens
  /\ TextToken("audio_end") \in Tokens /\ TextToken("word") \in Tokens
  /\ TextToken("audio_start").tok # "timestamp"
<1>1. <<>> \in Seq(Windows)
  BY EmptySeq
<1>2. ASSUME NEW k \in Marks PROVE TextToken(k) \in Tokens
  BY <1>1 DEF TextToken, Tokens
<1>3. /\ "timestamp" \in Marks /\ "unwritten" \in Marks /\ "audio_start" \in Marks
      /\ "audio_end" \in Marks /\ "word" \in Marks
  BY DEF Marks
<1>4. TextToken("audio_start").tok # "timestamp"
  BY DEF TextToken
<1> QED
  BY <1>2, <1>3, <1>4 DEF Stamp, Unwritten

LEMMA SuffixType ==
  ASSUME FaStreamAssumption, NEW words \in FaWords
  PROVE  TextSuffix(words) \in Seq(Tokens)
<1> DEFINE token(w, k) == [TextToken("word") EXCEPT !.row = words[w][k]]
           spelt(w) == [k \in 1..Len(words[w]) |-> token(w, k)]
           z == [w \in 1..Len(words) |-> spelt(w) \o <<Stamp, Stamp>>]
<1>1. words \in Seq(Seq(Nat)) /\ words # <<>>
  BY DEF FaStreamAssumption
<1>2. Len(words) \in Nat \ {0} /\ \A w \in 1..Len(words) : words[w] \in Seq(Nat)
  BY <1>1, EmptySeq, ElementOfSeq
<1>3. ASSUME NEW w \in 1..Len(words) PROVE spelt(w) \o <<Stamp, Stamp>> \in Seq(Tokens)
  <2>1. words[w] \in Seq(Nat) /\ Len(words[w]) \in Nat
    BY <1>2, LenProperties
  <2>2. ASSUME NEW k \in 1..Len(words[w]) PROVE token(w, k) \in Tokens
    <3>1. words[w][k] \in Nat
      BY <2>1, ElementOfSeq
    <3>2. TextToken("word") \in Tokens
      BY TextTokens
    <3> QED
      BY <3>1, <3>2 DEF Tokens
  <2> HIDE DEF token
  <2>3. spelt(w) \in [1..Len(words[w]) -> Tokens]
    BY <2>2
  <2> HIDE DEF spelt
  <2>4. spelt(w) \in Seq(Tokens)
    BY <2>1, <2>3, FunIsSeq
  <2>5. <<Stamp, Stamp>> \in Seq(Tokens)
    BY TextTokens
  <2> QED
    BY <2>4, <2>5, ConcatProperties
<1>4. TextSuffix(words) = <<TextToken("audio_end")>> \o FlattenSeq(z)
  BY DEF TextSuffix
<1> HIDE DEF spelt
<1>5. z \in [1..Len(words) -> Seq(Tokens)]
  BY <1>3
<1> HIDE DEF z
<1>6. z \in Seq(Seq(Tokens)) /\ Len(z) = Len(words)
  BY <1>2, <1>5, FunIsSeq
<1>7. z # <<>>
  BY <1>2, <1>6, EmptySeq
<1>8. FlattenSeq(z) \in Seq(Tokens)
  BY <1>6, <1>7, FlattenType
<1>9. TextToken("audio_end") \in Tokens
  BY TextTokens
<1>10. <<TextToken("audio_end")>> \in Seq(Tokens)
  BY <1>9
<1> QED
  BY <1>4, <1>8, <1>10, ConcatProperties

LEMMA RowsNat ==
  ASSUME FaStreamAssumption, NEW mel \in Seq(Windows)
  PROVE  EncodedRows(mel) \in Nat
<1> DEFINE up == (Len(mel) + FaChunk - 1) \div FaChunk
<1>1. Len(mel) + FaChunk - 1 \in Nat /\ FaChunk \in Nat \ {0} /\ FaRows \in Nat
  <2>1. Len(mel) \in Nat /\ FaChunk \in Nat \ {0} /\ FaRows \in Nat
    BY FaNumbers, LenProperties
  <2>2. PICK l \in Nat : l = Len(mel)
    BY <2>1
  <2>3. l + FaChunk - 1 \in Nat
    BY <2>1
  <2> QED
    BY <2>1, <2>2, <2>3
<1>2. up \in Nat
  BY <1>1, WholeHops
<1> HIDE DEF up
<1>3. FaRows * up \in Nat
  BY <1>1, <1>2
<1> QED
  BY <1>3 DEF EncodedRows, up

\* What the rows of the audio from a on are.
AudioFrom(t, mel, a) ==
  /\ t \in Seq(Tokens) /\ Len(t) = EncodedRows(mel) - a
  /\ \A k \in 1..EncodedRows(mel) - a : t[k] = AudioToken(mel, a + k)

LEMMA AudioRows ==
  ASSUME FaStreamAssumption, NEW mel \in Seq(Windows), NEW a \in Nat, a <= EncodedRows(mel)
  PROVE  AudioFrom(AudioTokens(mel, a), mel, a)
<1> DEFINE n == EncodedRows(mel) - a
           t == [k \in 1..n |-> AudioToken(mel, a + k)]
<1>1. n \in Nat
  <2>1. PICK rows \in Nat : rows = EncodedRows(mel)
    BY RowsNat
  <2>2. a <= rows
    BY <2>1
  <2>3. rows - a \in Nat
    BY <2>2
  <2> QED
    BY <2>1, <2>3
<1>2. \A k \in 1..n : AudioToken(mel, a + k) \in Tokens
  <2> TAKE k \in 1..n
  <2>1. PICK r \in Nat : r = a + k
    BY <1>1
  <2>2. AudioToken(mel, r) \in Tokens
    BY DEF AudioToken, Tokens, Marks
  <2> QED
    BY <2>1, <2>2
<1>3. AudioTokens(mel, a) = t
  BY DEF AudioTokens
<1>4. t \in [1..n -> Tokens] /\ \A k \in 1..n : t[k] = AudioToken(mel, a + k)
  BY <1>2
<1> HIDE DEF t, n
<1>5. t \in Seq(Tokens) /\ Len(t) = n
  BY <1>1, <1>4, FunIsSeq
<1> QED
  BY <1>3, <1>4, <1>5 DEF AudioFrom, n

\* The whole prompt, by place.
Prompts(p, mel, text) ==
  /\ p \in Seq(Tokens) /\ Len(p) = 1 + EncodedRows(mel) + Len(text)
  /\ p[1] = TextToken("audio_start")
  /\ \A k \in 1..EncodedRows(mel) : p[1 + k] = AudioToken(mel, k)
  /\ \A k \in 1..Len(text) : p[1 + EncodedRows(mel) + k] = text[k]

LEMMA PromptPlaces ==
  ASSUME FaStreamAssumption, NEW mel \in Seq(Windows), NEW text \in Seq(Tokens)
  PROVE  Prompts(FullPrompt(mel, text), mel, text)
<1> DEFINE b == <<TextToken("audio_start")>>
           a == AudioTokens(mel, 0)
           n == EncodedRows(mel)
           p == (b \o a) \o text
<1>1. n \in Nat /\ Len(text) \in Nat /\ FullPrompt(mel, text) = p
  BY RowsNat, LenProperties DEF FullPrompt
<1>2. b \in Seq(Tokens) /\ Len(b) = 1 /\ b[1] = TextToken("audio_start")
  <2> DEFINE e == TextToken("audio_start")
  <2>1. e \in Tokens
    BY TextTokens
  <2> HIDE DEF e
  <2>2. <<e>> \in Seq(Tokens) /\ Len(<<e>>) = 1 /\ <<e>>[1] = e
    BY <2>1
  <2> QED
    BY <2>2 DEF e
<1>3. a \in Seq(Tokens) /\ Len(a) = n /\ \A k \in 1..n : a[k] = AudioToken(mel, k)
  <2>1. AudioFrom(a, mel, 0)
    <3>1. 0 \in Nat /\ 0 <= EncodedRows(mel)
      BY <1>1
    <3> QED
      BY <3>1, AudioRows
  <2>2. n - 0 = n /\ \A k \in 1..n : 0 + k = k
    BY <1>1
  <2> HIDE DEF a
  <2> QED
    BY <2>1, <2>2 DEF AudioFrom, n
<1> HIDE DEF a, b, n
<1>4. b \o a \in Seq(Tokens) /\ Joined(b \o a, b, a, 1, n)
  <2>1. b \o a \in Seq(Tokens) /\ Joined(b \o a, b, a, Len(b), Len(a))
    BY <1>2, <1>3, ConcatJoins
  <2> QED
    BY <1>2, <1>3, <2>1
<1>5. p \in Seq(Tokens) /\ Joined(p, b \o a, text, 1 + n, Len(text))
  <2>1. p \in Seq(Tokens) /\ Joined(p, b \o a, text, Len(b \o a), Len(text))
    BY <1>4, ConcatJoins
  <2>2. Len(b \o a) = 1 + n
    BY <1>4 DEF Joined
  <2> QED
    BY <2>1, <2>2
<1>6. Len(p) = 1 + n + Len(text)
  BY <1>5 DEF Joined
<1>7. p[1] = TextToken("audio_start")
  <2>1. 1 \in 1..1 + n /\ 1 \in 1..1
    BY <1>1
  <2> QED
    BY <1>2, <1>4, <1>5, <2>1 DEF Joined
<1>8. ASSUME NEW k \in 1..n PROVE p[1 + k] = AudioToken(mel, k)
  <2>1. 1 + k \in 1..1 + n
    BY <1>1
  <2>2. p[1 + k] = (b \o a)[1 + k]
    BY <1>5, <2>1 DEF Joined
  <2>3. (b \o a)[1 + k] = a[k]
    BY <1>4 DEF Joined
  <2> QED
    BY <1>3, <2>2, <2>3
<1>9. ASSUME NEW k \in 1..Len(text) PROVE p[1 + n + k] = text[k]
  BY <1>5 DEF Joined
<1> HIDE DEF p
<1> QED
  BY <1>1, <1>5, <1>6, <1>7, <1>8, <1>9 DEF Prompts, n

\* Timestamps are in the text only.
LEMMA PromptStamps ==
  ASSUME FaStreamAssumption, NEW mel \in Seq(Windows), NEW text \in Seq(Tokens),
         NEW p, Prompts(p, mel, text)
  PROVE  Stamps(p) = {1 + EncodedRows(mel) + off : off \in Stamps(text)}
<1> DEFINE n == EncodedRows(mel)
<1>1. n \in Nat /\ Len(text) \in Nat /\ Len(p) = 1 + n + Len(text)
  BY RowsNat, LenProperties DEF Prompts
<1>2. ASSUME NEW k \in Stamps(p) PROVE \E off \in Stamps(text) : k = 1 + n + off
  <2>1. k \in 1..Len(p) /\ p[k].tok = "timestamp"
    BY DEF Stamps
  <2>2. k # 1
    BY <2>1, TextTokens DEF Prompts
  <2>3. ~(k - 1 \in 1..n)
    <3> SUFFICES ASSUME k - 1 \in 1..n PROVE FALSE
      OBVIOUS
    <3>1. k = 1 + (k - 1)
      BY <1>1, <2>1
    <3>2. p[k] = AudioToken(mel, k - 1)
      BY <3>1 DEF Prompts
    <3>3. p[k].tok = "audio"
      BY <3>2 DEF AudioToken
    <3> QED
      BY <2>1, <3>3
  <2>4. PICK off : off = k - (1 + n)
    OBVIOUS
  <2> HIDE DEF n
  <2>5. off \in 1..Len(text) /\ k = 1 + n + off
    <3>1. TextAt(k, n, Len(text))
      BY <1>1, <2>1, <2>2, <2>3 DEF TextAt
    <3>2. k - (1 + n) \in 1..Len(text) /\ k = 1 + n + (k - (1 + n))
      BY <3>1, TextPlace, Zenon
    <3> QED
      BY <2>4, <3>2, Zenon
  <2>6. p[k] = text[off]
    BY <2>5 DEF Prompts, n
  <2> QED
    BY <2>1, <2>5, <2>6 DEF Stamps
<1>3. ASSUME NEW off \in Stamps(text) PROVE 1 + n + off \in Stamps(p)
  <2>1. off \in 1..Len(text) /\ text[off].tok = "timestamp"
    BY DEF Stamps
  <2>2. p[1 + n + off] = text[off]
    BY <2>1 DEF Prompts
  <2>3. 1 + n + off \in 1..Len(p)
    <3> HIDE DEF n
    <3>1. OffsetAt(off, n, Len(text))
      BY <1>1, <2>1 DEF OffsetAt
    <3>2. 1 + n + off \in 1..1 + n + Len(text)
      BY <3>1, OffsetPlace, Zenon
    <3> QED
      BY <1>1, <3>2
  <2> QED
    BY <2>1, <2>2, <2>3 DEF Stamps
<1> QED
  BY <1>2, <1>3

-----------------------------------------------------------------------------
(* Places of tokens, and the slots of the K/V cache.                       *)

AudioPlace(r, s) == [tok |-> "audio", row |-> r, of |-> {s}]

LEMMA Products == ASSUME NEW a \in Nat \ {0}, NEW b \in Nat \ {0} PROVE a * b >= 1
OBVIOUS

\* Every row of audio has heard its stream, and nothing else.
LEMMA AudioPlaceOf ==
  ASSUME FaStreamAssumption, NEW s \in Nat \ {0}, NEW rate \in Rates, NEW n \in Nat,
         NEW x, x = Samples(s, rate, n), MelFrames(x) > 0, NEW r
  PROVE  Place(AudioToken(Mel(x), r)) = AudioPlace(r, s)
<1> DEFINE m == Mel(x)
           heard == {m[t][k].stream : t \in DOMAIN m, k \in 1..2 * FaHalf} \ {0}
<1>1. x \in Seq(Heard) /\ Len(x) \in Nat /\ OfStream(x, s)
  <2>1. Samples(s, rate, n) \in Seq(Heard)
    BY SamplesType
  <2>2. s \in Nat
    OBVIOUS
  <2>3. OfStream(Samples(s, rate, n), s)
    BY <2>2, SamplesType
  <2> QED
    BY <2>1, <2>3, LenProperties
<1>2. /\ FaHalf \in Nat \ {0} /\ FaHop \in Nat \ {0} /\ MelFrames(x) \in Nat
      /\ MelFrames(x) * FaHop <= Len(x)
  BY <1>1, FaNumbers, SafeBound
<1>3. FirstFrames(m, x, MelFrames(x))
  BY <1>1, <1>2, MelType, RangeFirst
<1>4. DOMAIN m = 1..MelFrames(x)
  <2> HIDE DEF m
  <2>1. m \in Seq(Windows) /\ Len(m) = MelFrames(x)
    BY <1>3 DEF FirstFrames
  <2> QED
    BY <2>1
<1>5. Place(AudioToken(m, r)) = [tok |-> "audio", row |-> r, of |-> heard]
  BY DEF Place, AudioToken
<1> HIDE DEF m
<1>6. ASSUME NEW t \in DOMAIN m, NEW k \in 1..2 * FaHalf PROVE m[t][k].stream \in {0, s}
  <2>1. m[t] = MelFrame(x, t - 1)
    BY <1>3, <1>4 DEF FirstFrames
  <2>2. PICK i : i = (t - 1) * FaHop - FaHalf + k
    OBVIOUS
  <2>3. MelFrame(x, t - 1)[k] = IF i \in 1..Len(x) THEN x[i] ELSE Outside
    BY <2>2 DEF MelFrame
  <2>4. CASE i \in 1..Len(x)
    <3>1. x[i].stream = s
      BY <1>1, <2>4 DEF OfStream
    <3> QED
      BY <2>1, <2>3, <2>4, <3>1
  <2>5. CASE ~(i \in 1..Len(x))
    <3>1. Outside.stream = 0
      BY DEF Outside
    <3> QED
      BY <2>1, <2>3, <2>5, <3>1
  <2> QED
    BY <2>4, <2>5
<1>7. \E t \in DOMAIN m, k \in 1..2 * FaHalf : m[t][k].stream = s
  <2>1. 1 \in DOMAIN m /\ FaHalf + 1 \in 1..2 * FaHalf
    BY <1>2, <1>4, SMTT(60)
  <2>2. 1 \in 1..Len(x)
    <3>1. PICK q \in Nat : q = MelFrames(x)
      BY <1>2
    <3>2. q > 0 /\ q * FaHop <= Len(x)
      BY <1>2, <3>1
    <3>3. PICK p \in Nat : p = q * FaHop
      BY <1>2
    <3>4. p >= 1
      <4>1. q \in Nat \ {0}
        BY <3>2
      <4>2. q * FaHop >= 1
        BY <1>2, <4>1, Products
      <4> QED
        BY <3>3, <4>2
    <3>5. PICK l \in Nat : l = Len(x)
      BY <1>1
    <3>6. 1 \in 1..l
      BY <3>2, <3>3, <3>4, <3>5, SMTT(60)
    <3> QED
      BY <3>5, <3>6
  <2>3. m[1] = MelFrame(x, 1 - 1)
    BY <1>3, <1>4, <2>1 DEF FirstFrames
  <2>4. (1 - 1) * FaHop - FaHalf + (FaHalf + 1) = 1
    BY <1>2
  <2>5. MelFrame(x, 1 - 1)[FaHalf + 1] = x[1]
    BY <2>1, <2>2, <2>4 DEF MelFrame
  <2>6. m[1][FaHalf + 1].stream = s
    BY <1>1, <2>2, <2>3, <2>5 DEF OfStream
  <2> QED
    BY <2>1, <2>6
<1>8. heard = {s}
  <2>1. s \in heard
    BY <1>7, SMTT(60)
  <2>2. ASSUME NEW e \in heard PROVE e = s
    <3>1. PICK t \in DOMAIN m, k \in 1..2 * FaHalf : e = m[t][k].stream
      BY SMTT(60)
    <3>2. e \in {0, s} /\ e # 0
      BY <1>6, <3>1, SMTT(60)
    <3> QED
      BY <3>2
  <2> HIDE DEF heard
  <2> QED
    BY <2>1, <2>2
<1> HIDE DEF heard
<1>9. Place(AudioToken(m, r)) = AudioPlace(r, s)
  BY <1>5, <1>8 DEF AudioPlace
<1> QED
  BY <1>9 DEF m

SlotPlace(i, s) == IF i = 1 THEN Place(TextToken("audio_start")) ELSE AudioPlace(i - 1, s)

\* The slots up to the last row of audio hold what belongs there.
SlotsOwn(slots, rows, s) ==
  1 + rows <= Len(slots) /\ \A i \in 1..1 + rows : Place(slots[i]) = SlotPlace(i, s)

\* What a forward leaves of a cache.
Written(slots, before, tokens) ==
  [p \in 1..Len(slots) |-> IF p \in before + 1..before + Len(tokens) THEN tokens[p - before] ELSE slots[p]]

WrittenIs(w, slots, before, tokens) ==
  /\ w \in Seq(Tokens) /\ Len(w) = Len(slots)
  /\ \A p \in 1..before : w[p] = slots[p]
  /\ \A k \in 1..Len(tokens) : w[before + k] = tokens[k]

LEMMA Writes ==
  ASSUME NEW slots \in Seq(Tokens), NEW before \in Nat, NEW tokens \in Seq(Tokens),
         before + Len(tokens) <= Len(slots)
  PROVE  WrittenIs(Written(slots, before, tokens), slots, before, tokens)
<1> DEFINE v(p) == IF p \in before + 1..before + Len(tokens) THEN tokens[p - before] ELSE slots[p]
           w == [p \in 1..Len(slots) |-> v(p)]
<1>1. Len(slots) \in Nat /\ Len(tokens) \in Nat
  BY LenProperties
<1>2. ASSUME NEW p \in 1..Len(slots) PROVE v(p) \in Tokens
  <2>1. slots[p] \in Tokens
    BY ElementOfSeq
  <2>2. CASE p \in before + 1..before + Len(tokens)
    <3>1. p - before \in 1..Len(tokens)
      BY <1>1, <2>2
    <3>2. tokens[p - before] \in Tokens
      BY <3>1, ElementOfSeq
    <3> QED
      BY <2>2, <3>2
  <2> QED
    BY <2>1, <2>2
<1>3. w \in [1..Len(slots) -> Tokens]
  <2> HIDE DEF v
  <2> QED
    BY <1>2
<1>4. \A p \in 1..before : w[p] = slots[p]
  BY <1>1
<1>5. ASSUME NEW k \in 1..Len(tokens) PROVE w[before + k] = tokens[k]
  <2>1. before + k \in 1..Len(slots) /\ before + k \in before + 1..before + Len(tokens) /\ (before + k) - before = k
    BY <1>1
  <2> QED
    BY <2>1
<1>6. Written(slots, before, tokens) = w
  BY DEF Written
<1> HIDE DEF w, v
<1>7. w \in Seq(Tokens) /\ Len(w) = Len(slots)
  BY <1>1, <1>3, FunIsSeq
<1> QED
  BY <1>4, <1>5, <1>6, <1>7 DEF WrittenIs

-----------------------------------------------------------------------------
(* What the worker keeps from call to call.                                *)

Lists == FaWords \cup {<<>>}
Readings == [seen : Seq(Tokens), rows : SUBSET Nat]

FaJobs == [kind : {"fa"}, at : {"stream"}, rate : Rates, reuse : BOOLEAN, init : BOOLEAN,
           committed : Nat, text : Seq(Tokens), sig : Lists, mel : Seq(Windows),
           kv : Seq(Tokens), stream : Nat, x : Seq(Heard), words : Lists, ok : BOOLEAN,
           got : Readings, calls : Nat]

\* The cache of a stream that reuses it: none, or the rows of its audio so far.
KvOwn(j, s) == j.init /\ j.reuse /\ Len(j.kv) > 0 => SlotsOwn(j.kv, j.committed, s)

FaOwn(j, s) ==
  /\ MelOwn(j.mel, s, j.rate)
  /\ j.init => j.sig \in FaWords /\ j.text = TextSuffix(j.sig)
  /\ KvOwn(j, s)

\* What the last call read is what it should have.
FaRight(j, x, words) ==
  j.ok => /\ ~j.reuse => j.got = OneShot(x, words)
          /\ Places(j.got) = Places(OneShot(x, words))

\* A cache that is large enough is kept; any other is empty.
LEMMA Sizes ==
  ASSUME NEW j \in FaJobs, NEW max \in Nat
  PROVE  \E slots \in Seq(Tokens) :
           /\ KvInit(j, max) = [j EXCEPT !.kv = slots] /\ max <= Len(slots)
           /\ Len(j.kv) > 0 /\ max <= Len(j.kv) => slots = j.kv
<1>1. j.kv \in Seq(Tokens) /\ Len(j.kv) \in Nat
  BY LenProperties DEF FaJobs
<1>2. CASE Len(j.kv) > 0 /\ max <= Len(j.kv)
  <2>1. KvInit(j, max) = j
    BY <1>2 DEF KvInit
  <2>2. j = [j EXCEPT !.kv = j.kv]
    BY DEF FaJobs
  <2> QED
    BY <1>1, <1>2, <2>1, <2>2
<1>3. CASE ~(Len(j.kv) > 0 /\ max <= Len(j.kv))
  <2> DEFINE slots == [p \in 1..max |-> Unwritten]
  <2>1. KvInit(j, max) = [j EXCEPT !.kv = slots]
    BY <1>3 DEF KvInit
  <2>2. slots \in [1..max -> Tokens]
    BY TextTokens
  <2> HIDE DEF slots
  <2>3. slots \in Seq(Tokens) /\ Len(slots) = max
    BY <2>2, FunIsSeq
  <2>4. max <= Len(slots)
    BY <2>3
  <2> QED
    BY <1>3, <2>1, <2>3, <2>4
<1> QED
  BY <1>2, <1>3

-----------------------------------------------------------------------------
(* What a forward reads.                                                   *)

\* The cache holds the prompt, token for token; or at least each in its place.
HoldsPrompt(w, prompt) == Len(prompt) <= Len(w) /\ \A i \in 1..Len(prompt) : w[i] = prompt[i]
HoldsPlaces(w, prompt) ==
  Len(prompt) <= Len(w) /\ \A i \in 1..Len(prompt) : Place(w[i]) = Place(prompt[i])

PlacesOwn(prompt, rows, s) == \A i \in 1..1 + rows : Place(prompt[i]) = SlotPlace(i, s)

LEMMA PromptSlots ==
  ASSUME FaStreamAssumption, NEW s \in Nat \ {0}, NEW rate \in Rates, NEW n \in Nat,
         NEW x, x = Samples(s, rate, n), MelFrames(x) > 0,
         NEW text \in Seq(Tokens), NEW prompt, Prompts(prompt, Mel(x), text)
  PROVE  PlacesOwn(prompt, EncodedRows(Mel(x)), s)
<1>0. PICK rows : rows = EncodedRows(Mel(x))
  OBVIOUS
<1>1. rows \in Nat
  BY <1>0, SamplesType, MelType, RowsNat
<1>a. ASSUME NEW k PROVE Place(AudioToken(Mel(x), k)) = AudioPlace(k, s)
  BY AudioPlaceOf, SMTT(60)
<1>2. ASSUME NEW i \in 1..1 + rows PROVE Place(prompt[i]) = SlotPlace(i, s)
  <2>1. CASE i = 1
    BY <2>1 DEF Prompts, SlotPlace
  <2>2. CASE i # 1
    <3>1. PICK k : k = i - 1
      OBVIOUS
    <3>2. k \in 1..rows /\ i = 1 + k
      BY <1>1, <2>2, <3>1
    <3>3. prompt[i] = AudioToken(Mel(x), k)
      BY <1>0, <3>2 DEF Prompts
    <3>4. Place(AudioToken(Mel(x), k)) = AudioPlace(k, s)
      BY <1>a
    <3> QED
      BY <2>2, <3>1, <3>3, <3>4 DEF SlotPlace
  <2> QED
    BY <2>1, <2>2
<1> QED
  BY <1>0, <1>2 DEF PlacesOwn

\* A forward of the whole prompt.
LEMMA WholeRead ==
  ASSUME NEW slots \in Seq(Tokens), NEW prompt \in Seq(Tokens), Len(prompt) <= Len(slots),
         NEW w, WrittenIs(w, slots, 0, prompt)
  PROVE  HoldsPrompt(w, prompt) /\ HoldsPlaces(w, prompt)
<1>1. Len(prompt) <= Len(w)
  BY DEF WrittenIs
<1>2. ASSUME NEW i \in 1..Len(prompt) PROVE w[i] = prompt[i]
  <2>1. w[0 + i] = prompt[i] /\ 0 + i = i
    BY DEF WrittenIs
  <2> QED
    BY <2>1
<1> QED
  BY <1>1, <1>2 DEF HoldsPrompt, HoldsPlaces

\* A place of the prompt is of the rows kept, of those that are new or of the text.
LEMMA PromptParts ==
  ASSUME NEW rows \in Nat, NEW c \in Nat, c <= rows, NEW l \in Nat, NEW i \in 1..1 + rows + l
  PROVE  /\ i <= 1 + c => i \in 1..1 + c /\ i \in 1..1 + rows
         /\ i > 1 + rows =>
              \A k : k = i - (1 + rows) =>
                /\ k \in 1..l /\ (rows - c) + k \in 1..(rows - c) + l
                /\ i = 1 + c + ((rows - c) + k) /\ i = 1 + rows + k
         /\ i <= 1 + c \/ (i > 1 + c /\ i <= 1 + rows) \/ i > 1 + rows
OBVIOUS

\* A forward of what follows c rows of audio that are there.
LEMMA ResumedRead ==
  ASSUME FaStreamAssumption, NEW s \in Nat \ {0}, NEW rate \in Rates, NEW n \in Nat,
         NEW x, x = Samples(s, rate, n), MelFrames(x) > 0,
         NEW text \in Seq(Tokens), NEW prompt, Prompts(prompt, Mel(x), text),
         NEW slots \in Seq(Tokens), NEW c \in Nat, c <= EncodedRows(Mel(x)), SlotsOwn(slots, c, s),
         NEW tokens, tokens = AudioTokens(Mel(x), c) \o text, Len(prompt) <= Len(slots),
         NEW w, WrittenIs(w, slots, 1 + c, tokens)
  PROVE  HoldsPlaces(w, prompt)
<1>0. PICK rows : rows = EncodedRows(Mel(x))
  OBVIOUS
<1>b. c <= rows
  BY <1>0
<1> DEFINE a == AudioTokens(Mel(x), c)
<1>1. Mel(x) \in Seq(Windows) /\ rows \in Nat /\ Len(text) \in Nat
  BY <1>0, SamplesType, MelType, RowsNat, LenProperties
<1>2. AudioFrom(a, Mel(x), c)
  BY <1>0, <1>1, <1>b, AudioRows
<1>3. Joined(tokens, a, text, rows - c, Len(text))
  <2>1. a \in Seq(Tokens) /\ Len(a) = rows - c
    BY <1>0, <1>2 DEF AudioFrom
  <2>2. Joined(a \o text, a, text, Len(a), Len(text))
    BY <2>1, ConcatJoins
  <2> QED
    BY <2>1, <2>2
<1> HIDE DEF a
<1>4. Len(prompt) \in Nat /\ Len(prompt) = 1 + rows + Len(text) /\ Len(prompt) <= Len(w)
  BY <1>0, LenProperties DEF Prompts, WrittenIs
<1>5. Len(tokens) = (rows - c) + Len(text)
  BY <1>3 DEF Joined
<1>s. PlacesOwn(prompt, rows, s)
  BY <1>0, PromptSlots
<1>6. ASSUME NEW i \in 1..Len(prompt) PROVE Place(w[i]) = Place(prompt[i])
  <2>0. i \in 1..1 + rows + Len(text)
    BY <1>4
  <2>1. CASE i <= 1 + c
    <3>1. i \in 1..1 + c /\ i \in 1..1 + rows
      BY PromptParts, <1>1, <1>b, <2>0, <2>1
    <3>2. w[i] = slots[i] /\ Place(slots[i]) = SlotPlace(i, s)
      BY <3>1 DEF WrittenIs, SlotsOwn
    <3>3. Place(prompt[i]) = SlotPlace(i, s)
      BY <1>s, <3>1 DEF PlacesOwn
    <3> QED
      BY <3>2, <3>3
  <2>2. CASE i > 1 + c /\ i <= 1 + rows
    <3>1. PICK k : k = i - (1 + c)
      OBVIOUS
    <3>2. /\ k \in 1..rows - c /\ k \in 1..Len(tokens) /\ i = 1 + c + k
          /\ c + k \in 1..rows /\ i = 1 + (c + k)
      <4>1. PICK l \in Nat : l = Len(text)
        BY <1>1
      <4>2. i \in 1..1 + rows + l /\ Len(tokens) = (rows - c) + l
        BY <1>5, <2>0, <4>1
      <4>3. /\ k \in 1..rows - c /\ k \in 1..(rows - c) + l /\ i = 1 + c + k
            /\ c + k \in 1..rows /\ i = 1 + (c + k)
        <5>1. RowAt(i, c, rows, l)
          BY <1>1, <1>b, <2>2, <4>2 DEF RowAt
        <5>2. /\ i - (1 + c) \in 1..rows - c /\ i - (1 + c) \in 1..(rows - c) + l
              /\ i = 1 + c + (i - (1 + c)) /\ c + (i - (1 + c)) \in 1..rows
              /\ i = 1 + (c + (i - (1 + c)))
          BY <5>1, RowPlace, Zenon
        <5> QED
          BY <3>1, <5>2
      <4> QED
        BY <4>2, <4>3
    <3>3. w[1 + c + k] = tokens[k]
      BY <3>2 DEF WrittenIs
    <3>4. tokens[k] = a[k] /\ a[k] = AudioToken(Mel(x), c + k)
      BY <1>0, <1>2, <1>3, <3>2 DEF Joined, AudioFrom
    <3>5. prompt[1 + (c + k)] = AudioToken(Mel(x), c + k)
      BY <1>0, <3>2 DEF Prompts
    <3> QED
      BY <3>2, <3>3, <3>4, <3>5
  <2>3. CASE i > 1 + rows
    <3>1. PICK k : k = i - (1 + rows)
      OBVIOUS
    <3>2. /\ k \in 1..Len(text) /\ (rows - c) + k \in 1..Len(tokens)
          /\ i = 1 + c + ((rows - c) + k) /\ i = 1 + rows + k
      <4>1. PICK l : l = Len(text)
        OBVIOUS
      <4>2. PICK g : g = rows - c
        OBVIOUS
      <4>3. /\ l \in Nat /\ rows \in Nat /\ c \in Nat /\ c <= rows /\ i \in 1..1 + rows + l
            /\ Len(tokens) = g + l
        BY <1>1, <1>5, <1>b, <2>0, <4>1, <4>2
      <4>4. k \in 1..l /\ g + k \in 1..g + l /\ i = 1 + c + (g + k) /\ i = 1 + rows + k
        <5>1. /\ i \in Int /\ g \in Nat /\ k \in Int /\ i = 1 + rows + k /\ rows = c + g
              /\ 1 + rows < i /\ i <= 1 + rows + l
          BY <2>3, <3>1, <4>2, <4>3
        <5>2. k >= 1 /\ k <= l
          BY <4>3, <5>1
        <5>3. k \in 1..l /\ g + k \in 1..g + l
          BY <4>3, <5>1, <5>2
        <5>4. i = 1 + c + (g + k)
          BY <4>3, <5>1
        <5> QED
          BY <5>1, <5>3, <5>4
      <4> QED
        BY <4>1, <4>2, <4>3, <4>4
    <3>3. w[1 + c + ((rows - c) + k)] = tokens[(rows - c) + k]
      BY <3>2 DEF WrittenIs
    <3>4. tokens[(rows - c) + k] = text[k]
      BY <1>3, <3>2 DEF Joined
    <3>5. prompt[1 + rows + k] = text[k]
      BY <1>0, <3>2 DEF Prompts
    <3> QED
      BY <3>2, <3>3, <3>4, <3>5
  <2> QED
    BY PromptParts, <1>1, <1>b, <2>0, <2>1, <2>2, <2>3
<1> QED
  BY <1>4, <1>6 DEF HoldsPlaces

\* The cache after a forward holds the rows of the audio.
LEMMA ReadSlots ==
  ASSUME FaStreamAssumption, NEW s \in Nat \ {0}, NEW rate \in Rates, NEW n \in Nat,
         NEW x, x = Samples(s, rate, n), MelFrames(x) > 0,
         NEW text \in Seq(Tokens), NEW prompt, Prompts(prompt, Mel(x), text),
         NEW w \in Seq(Tokens), HoldsPlaces(w, prompt)
  PROVE  SlotsOwn(w, EncodedRows(Mel(x)), s)
<1>0. PICK rows : rows = EncodedRows(Mel(x))
  OBVIOUS
<1>1. rows \in Nat /\ Len(text) \in Nat /\ Len(w) \in Nat
  BY <1>0, SamplesType, MelType, RowsNat, LenProperties
<1>2. Len(prompt) \in Nat /\ Len(prompt) = 1 + rows + Len(text) /\ Len(prompt) <= Len(w)
  BY <1>0, LenProperties DEF Prompts, HoldsPlaces
<1>s. PlacesOwn(prompt, rows, s)
  BY <1>0, PromptSlots
<1>3. ASSUME NEW i \in 1..1 + rows PROVE Place(w[i]) = SlotPlace(i, s)
  <2>1. i \in 1..Len(prompt)
    <3>1. PICK L : L = Len(prompt)
      OBVIOUS
    <3>2. PICK l : l = Len(text)
      OBVIOUS
    <3>3. L = 1 + rows + l /\ rows \in Nat /\ l \in Nat
      BY <1>1, <1>2, <3>1, <3>2
    <3>4. i \in 1..L
      BY <3>3
    <3> QED
      BY <3>1, <3>4
  <2>2. Place(w[i]) = Place(prompt[i])
    BY <2>1 DEF HoldsPlaces
  <2>3. Place(prompt[i]) = SlotPlace(i, s)
    BY <1>s DEF PlacesOwn
  <2> QED
    BY <2>2, <2>3
<1>4. 1 + rows <= Len(w)
  BY <1>1, <1>2
<1> QED
  BY <1>0, <1>3, <1>4 DEF SlotsOwn

PlacesSeen(p) == [i \in DOMAIN p |-> Place(p[i])]

\* What is read back is the prompt, or has its places.
LEMMA Seen ==
  ASSUME NEW w \in Seq(Tokens), NEW prompt \in Seq(Tokens), HoldsPlaces(w, prompt)
  PROVE  /\ SubSeq(w, 1, Len(prompt)) \in Seq(Tokens)
         /\ PlacesSeen(SubSeq(w, 1, Len(prompt))) = PlacesSeen(prompt)
         /\ HoldsPrompt(w, prompt) => SubSeq(w, 1, Len(prompt)) = prompt
<1> DEFINE L == Len(prompt)
           seen == SubSeq(w, 1, L)
<1>1. L \in Nat /\ Len(w) \in Nat /\ L <= Len(w) /\ DOMAIN prompt = 1..L
  BY LenProperties DEF HoldsPlaces
<1>2. seen \in Seq(Tokens) /\ Len(seen) = L /\ \A i \in 1..L : seen[i] = w[i]
  <2> HIDE DEF L
  <2> QED
    BY <1>1, FirstOf
<1> HIDE DEF seen
<1>3. DOMAIN seen = 1..L
  BY <1>2
<1>4. \A i \in 1..L : Place(w[i]) = Place(prompt[i])
  BY DEF HoldsPlaces
<1>5. PlacesSeen(seen) = PlacesSeen(prompt)
  <2>1. \A i \in 1..L : Place(seen[i]) = Place(prompt[i])
    BY <1>2, <1>4
  <2> HIDE DEF L
  <2> QED
    BY <1>1, <1>3, <2>1 DEF PlacesSeen
<1>6. ASSUME HoldsPrompt(w, prompt) PROVE seen = prompt
  <2>1. \A i \in 1..L : seen[i] = prompt[i]
    BY <1>2, <1>6 DEF HoldsPrompt
  <2> QED
    BY <1>2, <2>1, SeqEqual
<1> QED
  BY <1>2, <1>5, <1>6 DEF seen

-----------------------------------------------------------------------------
(* The rest of a call: what is forwarded, and what comes of it.            *)

TextOf(j, fresh, words) == IF fresh THEN TextSuffix(words) ELSE j.text
PastOf(j, fresh) == IF fresh \/ ~j.reuse THEN 0 ELSE Past(j.committed)
TokensOf(j, fresh, mel, text) ==
  IF fresh \/ ~j.reuse THEN FullPrompt(mel, text) ELSE AudioTokens(mel, j.committed) \o text
BaseOf(j, fresh, mel) ==
  IF fresh \/ ~j.reuse THEN 1 + EncodedRows(mel) ELSE EncodedRows(mel) - j.committed

\* A failed call keeps the stream; the cache may be gone, grown or written.
Failed(j, r, text, slots) == r = [j EXCEPT !.kv = slots, !.text = text, !.ok = FALSE]
Aligned(j, r, rows, text, slots, got) ==
  r = [j EXCEPT !.kv = slots, !.text = text, !.ok = TRUE, !.init = TRUE, !.committed = rows, !.got = got]

Outcome(j, r, mel, text, slots, before, tokens, base) ==
  \/ Failed(j, r, text, <<>>)
  \/ Failed(j, r, text, slots)
  \/ Failed(j, r, text, Written(slots, before, tokens))
  \/ Aligned(j, r, EncodedRows(mel), text, Written(slots, before, tokens),
             [seen |-> SubSeq(Written(slots, before, tokens), 1, before + Len(tokens)),
              rows |-> {before + base + off : off \in Stamps(text)}])

\* The cache a call forwards into: large enough, and kept when it was so.
KvFits(j, slots, before, tokens) ==
  /\ slots \in Seq(Tokens) /\ before + Len(tokens) <= Len(slots)
  /\ Len(j.kv) > 0 /\ before + Len(tokens) + FaSlack <= Len(j.kv) => slots = j.kv

LEMMA FaMaxIs ==
  ASSUME NEW a \in Nat, NEW b \in Nat
  PROVE  FaMax(a, b) \in Nat /\ b <= FaMax(a, b) /\ (b <= a => FaMax(a, b) = a)
BY DEF FaMax

LEMMA Outcomes ==
  ASSUME FaStreamAssumption, NEW j \in FaJobs, NEW fresh \in BOOLEAN, NEW x, NEW words, NEW fails,
         NEW mel, mel = Stitched(j, x), NEW text, text = TextOf(j, fresh, words),
         NEW before \in Nat, before = PastOf(j, fresh),
         NEW tokens \in Seq(Tokens), tokens = TokensOf(j, fresh, mel, text),
         NEW base, base = BaseOf(j, fresh, mel)
  PROVE  \E slots \in Seq(Tokens) :
           /\ before + Len(tokens) <= Len(slots)
           /\ ~fresh => KvFits(j, slots, before, tokens)
           /\ Outcome(j, Align(j, fresh, x, words, fails), mel, text, slots, before, tokens, base)
<1> DEFINE over == IF fresh /\ j.reuse THEN FaOversize ELSE FaSlack
           max == FaMax(Len(j.kv), before + Len(tokens) + over)
           sized == KvInit(j, max)
           ran == Forward(sized, before, tokens)
           stamps == {before + base + off : off \in Stamps(text)}
           r == Align(j, fresh, x, words, fails)
<1>1. Len(j.kv) \in Nat /\ Len(tokens) \in Nat /\ over \in Nat /\ FaSlack \in Nat
  BY FaNumbers, LenProperties DEF FaJobs
<1>2. max \in Nat /\ before + Len(tokens) <= max
  <2> HIDE DEF over
  <2>1. /\ before + Len(tokens) + over \in Nat /\ before + Len(tokens) \in Nat
        /\ before + Len(tokens) <= before + Len(tokens) + over
    BY <1>1, Sums
  <2>2. max \in Nat /\ before + Len(tokens) + over <= max
    BY <1>1, <2>1, FaMaxIs
  <2> HIDE DEF max
  <2>3. PICK u \in Nat : u = before + Len(tokens)
    BY <2>1
  <2>4. PICK v \in Nat : v = before + Len(tokens) + over
    BY <2>1
  <2>5. u <= v /\ v <= max
    BY <2>1, <2>2, <2>3, <2>4
  <2>6. u <= max
    BY <2>2, <2>5
  <2> QED
    BY <2>2, <2>3, <2>6
<1>3. ~fresh /\ before + Len(tokens) + FaSlack <= Len(j.kv) => max <= Len(j.kv)
  <2> SUFFICES ASSUME ~fresh, before + Len(tokens) + FaSlack <= Len(j.kv) PROVE max <= Len(j.kv)
    OBVIOUS
  <2>1. over = FaSlack
    OBVIOUS
  <2>2. PICK all : all = before + Len(tokens) + FaSlack
    OBVIOUS
  <2>3. all \in Nat
    <3>1. before + Len(tokens) + FaSlack \in Nat
      BY <1>1, Sums
    <3> QED
      BY <2>2, <3>1
  <2>4. all <= Len(j.kv)
    BY <2>2
  <2>5. FaMax(Len(j.kv), all) = Len(j.kv)
    BY <1>1, <2>3, <2>4, FaMaxIs
  <2>6. before + Len(tokens) + over = all
    BY <2>1, <2>2
  <2> HIDE DEF over
  <2>7. max = Len(j.kv)
    BY <2>5, <2>6
  <2> HIDE DEF max
  <2> QED
    BY <1>1, <2>7
<1> HIDE DEF max
<1>4. PICK slots \in Seq(Tokens) :
        /\ sized = [j EXCEPT !.kv = slots] /\ max <= Len(slots)
        /\ Len(j.kv) > 0 /\ max <= Len(j.kv) => slots = j.kv
  BY <1>2, Sizes
<1>5. before + Len(tokens) <= Len(slots)
  <2>1. Len(slots) \in Nat /\ before + Len(tokens) \in Nat
    BY <1>1, LenProperties, Sums
  <2> QED
    BY <1>2, <1>4, <2>1, Through, SMTT(60)
<1>6. ~fresh => KvFits(j, slots, before, tokens)
  BY <1>3, <1>4, <1>5 DEF KvFits
<1>7. /\ r = CASE fails = "kv" /\ Len(sized.kv) # Len(j.kv) ->
                    [j EXCEPT !.kv = <<>>, !.text = text, !.ok = FALSE]
               [] fails = "embed"   -> [sized EXCEPT !.text = text, !.ok = FALSE]
               [] fails = "forward" -> [ran EXCEPT !.text = text, !.ok = FALSE]
               [] OTHER -> [ran EXCEPT !.text = text, !.ok = TRUE, !.init = TRUE,
                              !.committed = EncodedRows(mel),
                              !.got = [seen |-> SubSeq(ran.kv, 1, before + Len(tokens)),
                                       rows |-> stamps]]
  BY DEF Align, TextOf, PastOf, TokensOf, BaseOf, max
<1> HIDE DEF sized, r, stamps
<1>8. sized.kv = slots
  BY <1>4 DEF FaJobs
<1> DEFINE w == Written(slots, before, tokens)
<1>9. ran = [j EXCEPT !.kv = w]
  <2>1. ran = [sized EXCEPT !.kv = w]
    BY <1>8 DEF Forward, Written
  <2> HIDE DEF ran, w
  <2> QED
    BY <1>4, <2>1 DEF FaJobs
<1> HIDE DEF ran, w
<1>10. ran.kv = w
  BY <1>9 DEF FaJobs
<1>11. CASE fails = "kv" /\ Len(sized.kv) # Len(j.kv)
  <2>1. r = [j EXCEPT !.kv = <<>>, !.text = text, !.ok = FALSE]
    BY <1>7, <1>11
  <2>2. Outcome(j, r, mel, text, slots, before, tokens, base)
    BY <2>1 DEF Outcome, Failed
  <2> QED
    BY <1>5, <1>6, <2>2 DEF r
<1>12. CASE fails = "embed"
  <2>1. r = [sized EXCEPT !.text = text, !.ok = FALSE]
    BY <1>7, <1>12
  <2>2. r = [j EXCEPT !.kv = slots, !.text = text, !.ok = FALSE]
    BY <1>4, <2>1 DEF FaJobs
  <2>3. Outcome(j, r, mel, text, slots, before, tokens, base)
    BY <2>2 DEF Outcome, Failed
  <2> QED
    BY <1>5, <1>6, <2>3 DEF r
<1>13. CASE fails = "forward"
  <2>1. r = [ran EXCEPT !.text = text, !.ok = FALSE]
    BY <1>7, <1>13
  <2>2. r = [j EXCEPT !.kv = w, !.text = text, !.ok = FALSE]
    BY <1>9, <2>1 DEF FaJobs
  <2>3. Outcome(j, r, mel, text, slots, before, tokens, base)
    BY <2>2 DEF Outcome, Failed, w
  <2> QED
    BY <1>5, <1>6, <2>3 DEF r
<1>14. CASE ~(fails = "kv" /\ Len(sized.kv) # Len(j.kv)) /\ fails # "embed" /\ fails # "forward"
  <2> DEFINE got == [seen |-> SubSeq(w, 1, before + Len(tokens)), rows |-> stamps]
  <2>1. r = [ran EXCEPT !.text = text, !.ok = TRUE, !.init = TRUE,
                        !.committed = EncodedRows(mel), !.got = got]
    BY <1>7, <1>10, <1>14
  <2> HIDE DEF got
  <2>2. Aligned(j, r, EncodedRows(mel), text, w, got)
    BY <1>9, <2>1 DEF FaJobs, Aligned
  <2>3. Outcome(j, r, mel, text, slots, before, tokens, base)
    BY <2>2 DEF Outcome, got, w, stamps
  <2> QED
    BY <1>5, <1>6, <2>3 DEF r
<1> QED
  BY <1>11, <1>12, <1>13, <1>14

\* What a call starts from, once the words and the mel are settled.
Ready(j, fresh, s, n, x, words) ==
  /\ j \in FaJobs /\ fresh \in BOOLEAN /\ s \in Nat \ {0} /\ n \in Nat /\ words \in FaWords
  /\ x = Samples(s, j.rate, n) /\ MelFrames(x) > 0
  /\ j.mel = MelRange(x, 0, SafeFrames(x)) /\ MelOwn(j.mel, s, j.rate) /\ j.sig = words
  /\ fresh => ~j.init
  /\ ~fresh => j.init /\ j.text = TextSuffix(words) /\ ~StartsOver(j, x) /\ KvOwn(j, s)

\* What a call leaves.
CallHolds(r, j, s, x, words) ==
  r \in FaJobs /\ r.rate = j.rate /\ FaOwn(r, s) /\ FaRight(r, x, words)

LEMMA FailedHolds ==
  ASSUME FaStreamAssumption, NEW j, NEW fresh, NEW s, NEW n, NEW x, NEW words,
         Ready(j, fresh, s, n, x, words), NEW slots \in Seq(Tokens),
         ~fresh /\ j.reuse /\ Len(slots) > 0 => SlotsOwn(slots, j.committed, s),
         NEW r, Failed(j, r, TextSuffix(words), slots)
  PROVE  CallHolds(r, j, s, x, words)
<1> DEFINE text == TextSuffix(words)
<1>1. /\ j \in FaJobs /\ words \in FaWords /\ MelOwn(j.mel, s, j.rate) /\ j.sig = words
      /\ fresh \in BOOLEAN /\ (fresh => ~j.init)
  BY DEF Ready
<1>2. text \in Seq(Tokens)
  BY <1>1, SuffixType
<1> HIDE DEF text
<1>3. r = [j EXCEPT !.kv = slots, !.text = text, !.ok = FALSE]
  BY DEF Failed, text
<1>4. /\ r \in FaJobs /\ r.rate = j.rate /\ r.mel = j.mel /\ r.init = j.init /\ r.sig = j.sig
      /\ r.text = text /\ r.reuse = j.reuse /\ r.kv = slots /\ r.committed = j.committed /\ ~r.ok
  BY <1>1, <1>2, <1>3 DEF FaJobs
<1>5. KvOwn(r, s)
  BY <1>1, <1>4 DEF KvOwn
<1>6. FaOwn(r, s)
  BY <1>1, <1>4, <1>5 DEF FaOwn, text
<1>7. FaRight(r, x, words)
  BY <1>4 DEF FaRight
<1> QED
  BY <1>4, <1>6, <1>7 DEF CallHolds

LEMMA AlignedHolds ==
  ASSUME FaStreamAssumption, NEW j, NEW fresh, NEW s, NEW n, NEW x, NEW words,
         Ready(j, fresh, s, n, x, words), NEW rows \in Nat, NEW slots \in Seq(Tokens),
         SlotsOwn(slots, rows, s), NEW got \in Readings,
         ~j.reuse => got = OneShot(x, words), Places(got) = Places(OneShot(x, words)),
         NEW r, Aligned(j, r, rows, TextSuffix(words), slots, got)
  PROVE  CallHolds(r, j, s, x, words)
<1> DEFINE text == TextSuffix(words)
<1>1. j \in FaJobs /\ words \in FaWords /\ MelOwn(j.mel, s, j.rate) /\ j.sig = words
  BY DEF Ready
<1>2. text \in Seq(Tokens)
  BY <1>1, SuffixType
<1> HIDE DEF text
<1>3. r = [j EXCEPT !.kv = slots, !.text = text, !.ok = TRUE, !.init = TRUE, !.committed = rows, !.got = got]
  BY DEF Aligned, text
<1>4. /\ r \in FaJobs /\ r.rate = j.rate /\ r.mel = j.mel /\ r.sig = j.sig
      /\ r.text = text /\ r.reuse = j.reuse /\ r.kv = slots /\ r.committed = rows /\ r.got = got
  BY <1>1, <1>2, <1>3 DEF FaJobs
<1>5. KvOwn(r, s)
  BY <1>4 DEF KvOwn
<1>6. FaOwn(r, s)
  BY <1>1, <1>4, <1>5 DEF FaOwn, text
<1>7. FaRight(r, x, words)
  BY <1>4 DEF FaRight
<1> QED
  BY <1>4, <1>6, <1>7 DEF CallHolds

ReadBack(w, prompt) == [seen |-> SubSeq(w, 1, Len(prompt)), rows |-> Stamps(prompt)]

\* What a successful call reads, against the one-shot alignment.
LEMMA ReadIsPrompt ==
  ASSUME NEW w \in Seq(Tokens), NEW x, NEW words,
         NEW prompt \in Seq(Tokens), prompt = FullPrompt(Mel(x), TextSuffix(words)),
         HoldsPlaces(w, prompt), NEW got, got = ReadBack(w, prompt)
  PROVE  /\ got \in Readings
         /\ HoldsPrompt(w, prompt) => got = OneShot(x, words)
         /\ Places(got) = Places(OneShot(x, words))
<1> DEFINE seen == SubSeq(w, 1, Len(prompt))
           one == OneShot(x, words)
<1>1. /\ seen \in Seq(Tokens) /\ PlacesSeen(seen) = PlacesSeen(prompt)
      /\ HoldsPrompt(w, prompt) => seen = prompt
  BY Seen
<1> HIDE DEF seen
<1>2. Stamps(prompt) \in SUBSET Nat
  <2>1. Len(prompt) \in Nat
    BY LenProperties
  <2> QED
    BY <2>1 DEF Stamps
<1>3. got = [seen |-> seen, rows |-> Stamps(prompt)]
  BY DEF seen, ReadBack
<1>4. one = [seen |-> prompt, rows |-> Stamps(prompt)]
  BY DEF OneShot
<1> HIDE DEF one
<1>5. got \in Readings
  BY <1>1, <1>2, <1>3 DEF Readings
<1>6. HoldsPrompt(w, prompt) => got = one
  BY <1>1, <1>3, <1>4
<1>7. Places(got) = Places(one)
  <2>1. got.seen = seen /\ got.rows = Stamps(prompt) /\ one.seen = prompt /\ one.rows = Stamps(prompt)
    BY <1>3, <1>4
  <2>2. Places(got) = [seen |-> PlacesSeen(seen), rows |-> Stamps(prompt)]
    BY <2>1 DEF Places, PlacesSeen
  <2>3. Places(one) = [seen |-> PlacesSeen(prompt), rows |-> Stamps(prompt)]
    BY <2>1 DEF Places, PlacesSeen
  <2> QED
    BY <1>1, <2>2, <2>3
<1> QED
  BY <1>5, <1>6, <1>7 DEF one

\* How long what a call forwards is, and where its text begins.
Spans(before, tokens, base, prompt, rows) ==
  /\ before \in Nat /\ tokens \in Seq(Tokens) /\ before + Len(tokens) = Len(prompt)
  /\ before + base = 1 + rows

LEMMA ResumedSpans ==
  ASSUME FaStreamAssumption, NEW mel \in Seq(Windows), NEW text \in Seq(Tokens),
         NEW prompt, Prompts(prompt, mel, text), NEW c \in Nat, c <= EncodedRows(mel)
  PROVE  Spans(1 + c, AudioTokens(mel, c) \o text, EncodedRows(mel) - c, prompt, EncodedRows(mel))
<1> DEFINE a == AudioTokens(mel, c)
<1>0. PICK rows : rows = EncodedRows(mel)
  OBVIOUS
<1>1. rows \in Nat /\ Len(text) \in Nat /\ c <= rows
  BY <1>0, RowsNat, LenProperties
<1>2. a \in Seq(Tokens) /\ Len(a) = rows - c
  <2>1. AudioFrom(a, mel, c)
    BY AudioRows
  <2> QED
    BY <1>0, <2>1 DEF AudioFrom
<1> HIDE DEF a
<1>3. a \o text \in Seq(Tokens) /\ Len(a \o text) = (rows - c) + Len(text)
  <2>1. a \o text \in Seq(Tokens) /\ Len(a \o text) = Len(a) + Len(text)
    BY <1>2, ConcatProperties
  <2> QED
    BY <1>2, <2>1
<1>4. Len(prompt) = 1 + rows + Len(text)
  BY <1>0 DEF Prompts
<1>5. 1 + c + ((rows - c) + Len(text)) = 1 + rows + Len(text)
  <2>1. PICK l \in Nat : l = Len(text)
    BY <1>1
  <2>2. 1 + c + ((rows - c) + l) = 1 + rows + l
    BY <1>1
  <2> QED
    BY <2>1, <2>2
<1>6. 1 + c + (rows - c) = 1 + rows
  BY <1>1
<1>7. 1 + c \in Nat
  OBVIOUS
<1> QED
  BY <1>0, <1>3, <1>4, <1>5, <1>6, <1>7 DEF Spans, a

\* A cache that is not outgrown has the rows of audio, and room for the rest.
LEMMA Resumes ==
  ASSUME FaStreamAssumption, NEW j \in FaJobs, NEW s, NEW x, NEW mel \in Seq(Windows),
         mel = Stitched(j, x), j.init, j.reuse, ~StartsOver(j, x), KvOwn(j, s)
  PROVE  /\ j.committed \in Nat /\ j.committed <= EncodedRows(mel)
         /\ 1 + EncodedRows(mel) + Len(j.text) + FaSlack <= Len(j.kv)
         /\ Len(j.kv) > 0 /\ SlotsOwn(j.kv, j.committed, s)
<1>0. PICK rows : rows = EncodedRows(mel)
  OBVIOUS
<1>1. PICK c : c = j.committed
  OBVIOUS
<1>2. PICK l : l = Len(j.text)
  OBVIOUS
<1>3. PICK k : k = Len(j.kv)
  OBVIOUS
<1>4. rows \in Nat /\ c \in Nat /\ l \in Nat /\ k \in Nat /\ FaSlack \in Nat
  BY <1>0, <1>1, <1>2, <1>3, FaNumbers, RowsNat, LenProperties DEF FaJobs
<1>5. ~(rows < c) /\ ~(1 + c + rows - c + l + FaSlack > k)
  BY <1>0, <1>1, <1>2, <1>3 DEF StartsOver, Past
<1>6. c <= rows /\ 1 + rows + l + FaSlack <= k /\ k > 0
  BY <1>4, <1>5
<1>7. SlotsOwn(j.kv, j.committed, s)
  BY <1>3, <1>6 DEF KvOwn
<1> QED
  BY <1>0, <1>1, <1>2, <1>3, <1>4, <1>6, <1>7

LEMMA AlignHolds ==
  ASSUME FaStreamAssumption, NEW j, NEW fresh, NEW s, NEW n, NEW x, NEW words, NEW fails,
         Ready(j, fresh, s, n, x, words)
  PROVE  CallHolds(Align(j, fresh, x, words, fails), j, s, x, words)
<1> DEFINE mel == Mel(x)
           rows == EncodedRows(mel)
           text == TextSuffix(words)
           prompt == FullPrompt(mel, text)
           before == PastOf(j, fresh)
           tokens == TokensOf(j, fresh, mel, text)
           base == BaseOf(j, fresh, mel)
           whole == fresh \/ ~j.reuse
           c == j.committed
           r == Align(j, fresh, x, words, fails)
<1>1. /\ j \in FaJobs /\ fresh \in BOOLEAN /\ s \in Nat \ {0} /\ n \in Nat /\ words \in FaWords
      /\ x = Samples(s, j.rate, n) /\ MelFrames(x) > 0 /\ j.mel = MelRange(x, 0, SafeFrames(x))
      /\ fresh => ~j.init
      /\ ~fresh => j.init /\ j.text = TextSuffix(words) /\ ~StartsOver(j, x) /\ KvOwn(j, s)
  BY DEF Ready
<1>2. j.rate \in Rates /\ j.reuse \in BOOLEAN
  BY <1>1 DEF FaJobs
<1>3. x \in Seq(Heard)
  BY <1>1, <1>2, SamplesType
<1>4. mel \in Seq(Windows)
  BY <1>3, MelType
<1>5. Stitched(j, x) = mel
  BY <1>1, <1>3, MelStitched DEF Stitched
<1>6. text \in Seq(Tokens) /\ TextOf(j, fresh, words) = text
  BY <1>1, SuffixType DEF TextOf
<1>7. rows \in Nat
  BY <1>4, RowsNat
<1> HIDE DEF mel, text
<1>8. Prompts(prompt, mel, text) /\ prompt \in Seq(Tokens)
  <2>1. Prompts(prompt, mel, text)
    BY <1>4, <1>6, PromptPlaces
  <2> QED
    BY <2>1 DEF Prompts
<1> HIDE DEF prompt, before, tokens, base, r
<1>9. ASSUME whole PROVE before = 0 /\ tokens = prompt /\ Spans(before, tokens, base, prompt, rows)
  <2>1. before = 0 /\ tokens = prompt /\ base = 1 + rows
    BY <1>9 DEF before, tokens, base, PastOf, TokensOf, BaseOf, prompt
  <2>2. 0 + Len(prompt) = Len(prompt) /\ 0 + (1 + rows) = 1 + rows
    BY <1>7, <1>8, LenProperties
  <2> QED
    BY <1>8, <2>1, <2>2 DEF Spans
<1>10. ASSUME ~whole
       PROVE  /\ before = 1 + c /\ tokens = AudioTokens(mel, c) \o text
              /\ Spans(before, tokens, base, prompt, rows)
  <2>1. before = 1 + c /\ tokens = AudioTokens(mel, c) \o text /\ base = rows - c
    BY <1>10 DEF before, tokens, base, PastOf, TokensOf, BaseOf, Past
  <2>2. c \in Nat /\ c <= rows
    BY <1>1, <1>4, <1>5, <1>10, Resumes
  <2>3. Spans(1 + c, AudioTokens(mel, c) \o text, rows - c, prompt, rows)
    BY <1>4, <1>6, <1>8, <2>2, ResumedSpans
  <2> QED
    BY <2>1, <2>3
<1>11. ASSUME ~whole
       PROVE  /\ c \in Nat /\ c <= rows /\ Len(prompt) + FaSlack <= Len(j.kv)
              /\ Len(j.kv) > 0 /\ SlotsOwn(j.kv, c, s)
  <2>1. /\ c \in Nat /\ c <= rows /\ 1 + rows + Len(j.text) + FaSlack <= Len(j.kv)
        /\ Len(j.kv) > 0 /\ SlotsOwn(j.kv, c, s)
    BY <1>1, <1>4, <1>5, <1>11, Resumes
  <2>2. Len(prompt) = 1 + rows + Len(j.text)
    BY <1>1, <1>8, <1>11 DEF Prompts, text
  <2> QED
    BY <2>1, <2>2
<1>12. Spans(before, tokens, base, prompt, rows)
  BY <1>9, <1>10
<1>13. PICK slots \in Seq(Tokens) :
         /\ before + Len(tokens) <= Len(slots)
         /\ ~fresh => KvFits(j, slots, before, tokens)
         /\ Outcome(j, r, mel, text, slots, before, tokens, base)
  <2>1. before \in Nat /\ tokens \in Seq(Tokens)
    BY <1>12 DEF Spans
  <2> HIDE DEF rows, c, whole
  <2> QED
    BY <1>1, <1>5, <1>6, <2>1, Outcomes DEF r, before, tokens, base
<1> DEFINE w == Written(slots, before, tokens)
<1>14. WrittenIs(w, slots, before, tokens) /\ w \in Seq(Tokens)
  <2>1. WrittenIs(w, slots, before, tokens)
    BY <1>12, <1>13, Writes DEF Spans
  <2> QED
    BY <2>1 DEF WrittenIs
<1> HIDE DEF w
<1>15. Len(prompt) <= Len(slots)
  BY <1>12, <1>13 DEF Spans
<1>16. ASSUME ~whole PROVE slots = j.kv
  <2>1. before + Len(tokens) + FaSlack <= Len(j.kv) /\ Len(j.kv) > 0
    BY <1>11, <1>12, <1>16 DEF Spans
  <2> QED
    BY <1>13, <1>16, <2>1 DEF KvFits
<1>17. HoldsPlaces(w, prompt) /\ (whole => HoldsPrompt(w, prompt))
  <2>1. ASSUME whole PROVE HoldsPlaces(w, prompt) /\ HoldsPrompt(w, prompt)
    BY <1>8, <1>9, <1>14, <1>15, <2>1, WholeRead
  <2>2. ASSUME ~whole PROVE HoldsPlaces(w, prompt)
    <3>1. c \in Nat /\ c <= rows /\ SlotsOwn(slots, c, s)
      BY <1>11, <1>16, <2>2
    <3>2. WrittenIs(w, slots, 1 + c, AudioTokens(mel, c) \o text)
      BY <1>10, <1>14, <2>2
    <3> HIDE DEF c, whole
    <3> QED
      BY <1>1, <1>2, <1>6, <1>8, <1>15, <3>1, <3>2, ResumedRead DEF mel, rows
  <2> QED
    BY <2>1, <2>2
<1>18. SlotsOwn(w, rows, s)
  BY <1>1, <1>2, <1>6, <1>8, <1>14, <1>17, ReadSlots DEF mel, rows
<1>19. ASSUME ~whole PROVE SlotsOwn(w, c, s)
  <2>1. c \in Nat /\ SlotsOwn(slots, c, s)
    BY <1>11, <1>16, <1>19
  <2>2. Len(w) = Len(slots) /\ \A p \in 1..1 + c : w[p] = slots[p]
    BY <1>10, <1>14, <1>19 DEF WrittenIs
  <2> HIDE DEF c
  <2> QED
    BY <2>1, <2>2 DEF SlotsOwn
<1> DEFINE got == [seen |-> SubSeq(w, 1, before + Len(tokens)),
                   rows |-> {before + base + off : off \in Stamps(text)}]
<1>20. got = ReadBack(w, prompt)
  <2>1. before + Len(tokens) = Len(prompt) /\ before + base = 1 + rows
    BY <1>12 DEF Spans
  <2>2. Stamps(prompt) = {1 + rows + off : off \in Stamps(text)}
    BY <1>4, <1>6, <1>8, PromptStamps
  <2> QED
    BY <2>1, <2>2 DEF ReadBack
<1> HIDE DEF got
<1>21. /\ got \in Readings /\ Places(got) = Places(OneShot(x, words))
       /\ HoldsPrompt(w, prompt) => got = OneShot(x, words)
  <2>1. prompt = FullPrompt(Mel(x), TextSuffix(words))
    BY DEF prompt, text, mel
  <2>2. HoldsPlaces(w, prompt)
    BY <1>17
  <2> QED
    BY <1>8, <1>14, <1>20, <2>1, <2>2, ReadIsPrompt, SMTT(60)
<1>22. CASE Failed(j, r, text, <<>>)
  <2>1. <<>> \in Seq(Tokens) /\ ~(Len(<<>>) > 0)
    BY EmptySeq
  <2> QED
    BY <1>22, <2>1, FailedHolds DEF text, r
<1>23. CASE Failed(j, r, text, slots)
  <2>1. ~fresh /\ j.reuse /\ Len(slots) > 0 => SlotsOwn(slots, j.committed, s)
    BY <1>11, <1>16
  <2> QED
    BY <1>23, <2>1, FailedHolds DEF text, r
<1>24. CASE Failed(j, r, text, w)
  <2>1. ~fresh /\ j.reuse /\ Len(w) > 0 => SlotsOwn(w, j.committed, s)
    BY <1>19
  <2> QED
    BY <1>14, <1>24, <2>1, FailedHolds DEF text, r
<1>25. CASE Aligned(j, r, rows, text, w, got)
  <2>1. ~j.reuse => got = OneShot(x, words)
    BY <1>17, <1>21
  <2> HIDE DEF rows
  <2> QED
    BY <1>7, <1>14, <1>18, <1>21, <1>25, <2>1, AlignedHolds DEF text, r
<1> QED
  <2>1. \/ Failed(j, r, text, <<>>) \/ Failed(j, r, text, slots) \/ Failed(j, r, text, w)
        \/ Aligned(j, r, rows, text, w, got)
    BY <1>13 DEF Outcome, w, got
  <2> QED
    BY <1>22, <1>23, <1>24, <1>25, <2>1 DEF r

-----------------------------------------------------------------------------
(* A whole call.                                                           *)

\* The words and the mel are settled.
SettledFor(k, b, s, x) ==
  /\ k \in FaJobs /\ FaOwn(k, s) /\ k.mel = MelRange(x, 0, SafeFrames(x))
  /\ k.rate = b.rate /\ k.sig = b.sig /\ k.init = b.init

LEMMA KeepHolds ==
  ASSUME FaStreamAssumption, NEW b \in FaJobs, NEW s \in Nat \ {0}, NEW n \in Nat,
         NEW x, x = Samples(s, b.rate, n), FaOwn(b, s)
  PROVE  SettledFor(KeepMel(b, x), b, s, x)
<1> DEFINE mel == ExtendedMel(b.mel, x)
           k == [b EXCEPT !.mel = mel]
<1>1. b.rate \in Rates /\ MelOwn(b.mel, s, b.rate)
  BY DEF FaJobs, FaOwn
<1>2. mel = MelRange(x, 0, SafeFrames(x)) /\ MelOwn(mel, s, b.rate)
  BY <1>1, MelExtends
<1>3. KeepMel(b, x) = k
  BY DEF KeepMel, ExtendedMel, KeptFrames
<1> HIDE DEF mel
<1>4. mel \in Seq(Windows)
  BY <1>2 DEF MelOwn
<1>5. /\ k \in FaJobs /\ k.mel = mel /\ k.rate = b.rate /\ k.sig = b.sig /\ k.init = b.init
      /\ k.text = b.text /\ k.reuse = b.reuse /\ k.kv = b.kv /\ k.committed = b.committed
  BY <1>4 DEF FaJobs
<1> HIDE DEF k
<1>6. KvOwn(k, s)
  BY <1>5 DEF FaOwn, KvOwn
<1>7. FaOwn(k, s)
  BY <1>2, <1>5, <1>6 DEF FaOwn
<1> QED
  BY <1>2, <1>3, <1>5, <1>7 DEF SettledFor

\* A stream that starts over has nothing of the one before.
Again(j, words) == [Reset(j) EXCEPT !.sig = words]

LEMMA AgainHolds ==
  ASSUME FaStreamAssumption, NEW j \in FaJobs, NEW s \in Nat \ {0}, NEW words \in FaWords
  PROVE  /\ Again(j, words) \in FaJobs /\ FaOwn(Again(j, words), s)
         /\ Again(j, words).rate = j.rate /\ Again(j, words).sig = words /\ ~Again(j, words).init
<1> DEFINE r == [j EXCEPT !.init = FALSE, !.committed = 0, !.text = <<>>, !.sig = <<>>, !.mel = <<>>]
           b == [r EXCEPT !.sig = words]
<1>0. Again(j, words) = b
  BY DEF Again, Reset
<1>1. <<>> \in Seq(Tokens) /\ <<>> \in Seq(Windows) /\ words \in Lists /\ <<>> \in Lists
  BY EmptySeq DEF Lists
<1>2. r \in FaJobs /\ r.rate = j.rate /\ r.mel = <<>> /\ ~r.init
  BY <1>1 DEF FaJobs
<1> HIDE DEF r
<1>3. b \in FaJobs /\ b.rate = j.rate /\ b.mel = <<>> /\ ~b.init /\ b.sig = words
  BY <1>1, <1>2 DEF FaJobs
<1> HIDE DEF b
<1>4. MelOwn(b.mel, s, b.rate)
  <2>1. b.rate \in Rates
    BY <1>3 DEF FaJobs
  <2>2. MelOwn(<<>>, s, b.rate)
    BY <2>1, MelNone
  <2> QED
    BY <1>3, <2>2
<1>5. FaOwn(b, s)
  BY <1>3, <1>4 DEF FaOwn, KvOwn
<1> QED
  BY <1>0, <1>3, <1>5

\* A call that stops early leaves what it kept.
LEMMA StopHolds ==
  ASSUME NEW k \in FaJobs, NEW j, k.rate = j.rate, NEW s, FaOwn(k, s), NEW x, NEW words,
         NEW r, r = [k EXCEPT !.ok = FALSE]
  PROVE  CallHolds(r, j, s, x, words)
<1>1. /\ r \in FaJobs /\ r.rate = k.rate /\ r.mel = k.mel /\ r.init = k.init /\ r.sig = k.sig
      /\ r.text = k.text /\ r.reuse = k.reuse /\ r.kv = k.kv /\ r.committed = k.committed /\ ~r.ok
  BY DEF FaJobs
<1>2. FaOwn(r, s)
  BY <1>1 DEF FaOwn, KvOwn
<1>3. FaRight(r, x, words)
  BY <1>1 DEF FaRight
<1> QED
  BY <1>1, <1>2, <1>3 DEF CallHolds

LEMMA StreamingHolds ==
  ASSUME FaStreamAssumption, NEW j \in FaJobs, NEW s \in Nat \ {0}, NEW n \in Nat,
         NEW words \in FaWords, NEW x, x = Samples(s, j.rate, n), NEW reset \in BOOLEAN,
         ~reset => FaOwn(j, s), NEW fails
  PROVE  CallHolds(AlignStreaming(j, reset, x, words, fails), j, s, x, words)
<1> DEFINE fresh == NeedsReset(j, reset, words)
           again == Again(j, words)
           b == IF fresh THEN again ELSE j
           kept == KeepMel(b, x)
           anew == KeepMel(again, x)
           r == AlignStreaming(j, reset, x, words, fails)
<1>1. again \in FaJobs /\ FaOwn(again, s) /\ again.rate = j.rate /\ again.sig = words /\ ~again.init
  BY AgainHolds
<1> HIDE DEF again
<1>2. /\ fresh \in BOOLEAN
      /\ ~fresh => ~reset /\ j.init /\ j.sig = words
  BY DEF NeedsReset, FaJobs
<1> HIDE DEF fresh
<1>3. b \in FaJobs /\ FaOwn(b, s) /\ b.rate = j.rate /\ b.sig = words /\ (fresh <=> ~b.init)
  BY <1>1, <1>2
<1> HIDE DEF b
<1>4. SettledFor(kept, b, s, x)
  BY <1>3, KeepHolds
<1>5. SettledFor(anew, again, s, x)
  BY <1>1, KeepHolds
<1>6. MelFrames(x) \in Nat
  BY SamplesType, SafeBound DEF FaJobs
<1>7. r = CASE MelFrames(x) = 0 -> [b EXCEPT !.ok = FALSE]
            [] MelFrames(x) > 0 /\ fails = "encoder" -> [kept EXCEPT !.ok = FALSE]
            [] MelFrames(x) > 0 /\ fails # "encoder" ->
                 IF ~fresh /\ StartsOver(kept, x)
                 THEN Align(anew, TRUE, x, words, fails)
                 ELSE Align(kept, fresh, x, words, fails)
  BY DEF AlignStreaming, Again, again, fresh, b
<1> HIDE DEF r, kept, anew
<1>12. ASSUME MelFrames(x) > 0, fails # "encoder"
       PROVE  r = IF ~fresh /\ StartsOver(kept, x)
                  THEN Align(anew, TRUE, x, words, fails)
                  ELSE Align(kept, fresh, x, words, fails)
  <2>1. MelFrames(x) # 0
    BY <1>6, <1>12
  <2> QED
    BY <1>7, <1>12, <2>1, Zenon
<1>8. CASE MelFrames(x) = 0
  <2>1. r = [b EXCEPT !.ok = FALSE]
    BY <1>7, <1>8
  <2> QED
    BY <1>3, <2>1, StopHolds DEF r
<1>9. CASE MelFrames(x) > 0 /\ fails = "encoder"
  <2>1. r = [kept EXCEPT !.ok = FALSE]
    BY <1>6, <1>7, <1>9
  <2>2. kept \in FaJobs /\ FaOwn(kept, s) /\ kept.rate = j.rate
    BY <1>3, <1>4 DEF SettledFor
  <2> QED
    BY <2>1, <2>2, StopHolds DEF r
<1>10. CASE MelFrames(x) > 0 /\ fails # "encoder" /\ ~fresh /\ StartsOver(kept, x)
  <2>1. r = Align(anew, TRUE, x, words, fails)
    BY <1>10, <1>12
  <2>2. Ready(anew, TRUE, s, n, x, words) /\ anew.rate = j.rate
    BY <1>1, <1>5, <1>10 DEF SettledFor, Ready, FaOwn
  <2>3. CallHolds(r, anew, s, x, words)
    BY <2>1, <2>2, AlignHolds
  <2> QED
    BY <2>2, <2>3 DEF CallHolds, r
<1>11. CASE MelFrames(x) > 0 /\ fails # "encoder" /\ ~(~fresh /\ StartsOver(kept, x))
  <2>1. r = Align(kept, fresh, x, words, fails)
    BY <1>11, <1>12
  <2>2. Ready(kept, fresh, s, n, x, words) /\ kept.rate = j.rate
    <3>1. ~fresh => kept.init /\ kept.text = TextSuffix(words) /\ ~StartsOver(kept, x) /\ KvOwn(kept, s)
      BY <1>2, <1>3, <1>4, <1>11 DEF SettledFor, FaOwn
    <3> QED
      BY <1>2, <1>3, <1>4, <1>11, <3>1 DEF SettledFor, Ready, FaOwn
  <2>3. CallHolds(r, kept, s, x, words)
    BY <2>1, <2>2, AlignHolds
  <2> QED
    BY <2>2, <2>3 DEF CallHolds, r
<1>13. MelFrames(x) = 0 \/ MelFrames(x) > 0
  BY <1>6
<1> HIDE DEF r
<1> QED
  BY <1>8, <1>9, <1>10, <1>11, <1>13 DEF r

-----------------------------------------------------------------------------
(* The worker's calls.                                                     *)

FaIInv == job \in FaJobs /\ FaOwn(job, job.stream) /\ FaRight(job, job.x, job.words)

LEMMA FaStarts == FaStreamAssumption /\ FaInit => FaIInv
<1> SUFFICES ASSUME FaStreamAssumption, FaInit PROVE FaIInv
  OBVIOUS
<1>1. PICK rate \in Rates, reuse \in BOOLEAN :
        job = [kind |-> "fa", at |-> "stream", rate |-> rate, reuse |-> reuse,
               init |-> FALSE, committed |-> 0, text |-> <<>>, sig |-> <<>>, mel |-> <<>>, kv |-> <<>>,
               stream |-> 0, x |-> <<>>, words |-> <<>>, ok |-> FALSE,
               got |-> [seen |-> <<>>, rows |-> {}], calls |-> FaCalls]
  BY DEF FaInit, Rates
<1>2. /\ <<>> \in Seq(Tokens) /\ <<>> \in Seq(Windows) /\ <<>> \in Seq(Heard) /\ <<>> \in Lists
      /\ FaCalls \in Nat
  BY EmptySeq DEF Lists, FaStreamAssumption
<1>3. [seen |-> <<>>, rows |-> {}] \in Readings
  BY <1>2 DEF Readings
<1>4. job \in FaJobs
  BY <1>1, <1>2, <1>3 DEF FaJobs
<1>5. job.mel = <<>> /\ job.rate = rate /\ job.stream = 0 /\ ~job.init /\ ~job.ok
  BY <1>1
<1>6. MelOwn(<<>>, 0, rate)
  BY MelNone
<1>7. FaOwn(job, job.stream)
  BY <1>5, <1>6 DEF FaOwn, KvOwn
<1>8. FaRight(job, job.x, job.words)
  BY <1>5 DEF FaRight
<1> QED
  BY <1>4, <1>7, <1>8 DEF FaIInv

LEMMA CalledHolds ==
  ASSUME FaStreamAssumption, FaIInv, NEW stream \in Nat \ {0},
         NEW n \in FaAudio, NEW words \in FaWords, NEW fails, Called(stream, n, words, fails)
  PROVE  FaIInv'
<1> DEFINE x == Samples(stream, job.rate, n)
           reset == stream # job.stream
           r == AlignStreaming(job, reset, x, words, fails)
           z == [r EXCEPT !.stream = stream, !.x = x, !.words = words, !.calls = job.calls - 1]
<1>1. job' = z /\ job.calls > 0
  BY DEF Called
<1>2. job \in FaJobs /\ job.rate \in Rates /\ job.calls \in Nat /\ n \in Nat
  BY DEF FaIInv, FaJobs, FaStreamAssumption
<1>3. CallHolds(r, job, stream, x, words)
  <2>1. ~reset => FaOwn(job, stream)
    BY DEF FaIInv
  <2> HIDE DEF reset, x
  <2>2. reset \in BOOLEAN
    BY DEF reset
  <2>3. x = Samples(stream, job.rate, n)
    BY DEF x
  <2> QED
    BY <1>2, <2>1, <2>2, <2>3, StreamingHolds
<1>4. x \in Seq(Heard)
  BY <1>2, SamplesType
<1> HIDE DEF r, x
<1>5. r \in FaJobs /\ FaOwn(r, stream) /\ FaRight(r, x, words)
  BY <1>3 DEF CallHolds
<1>6. job.calls - 1 \in Nat /\ words \in Lists
  <2>1. PICK c \in Nat : c = job.calls
    BY <1>2
  <2>2. c > 0
    BY <1>1, <2>1
  <2>3. c - 1 \in Nat
    BY <2>2
  <2> QED
    BY <2>1, <2>3 DEF Lists
<1>7. /\ z \in FaJobs /\ z.stream = stream /\ z.x = x /\ z.words = words
      /\ z.mel = r.mel /\ z.rate = r.rate /\ z.init = r.init /\ z.sig = r.sig /\ z.text = r.text
      /\ z.reuse = r.reuse /\ z.kv = r.kv /\ z.committed = r.committed /\ z.ok = r.ok /\ z.got = r.got
  BY <1>4, <1>5, <1>6 DEF FaJobs
<1> HIDE DEF z
<1>8. FaOwn(z, stream)
  BY <1>5, <1>7 DEF FaOwn, KvOwn
<1>9. FaRight(z, x, words)
  BY <1>5, <1>7 DEF FaRight
<1>10. z \in FaJobs /\ FaOwn(z, z.stream) /\ FaRight(z, z.x, z.words)
  BY <1>7, <1>8, <1>9
<1> QED
  BY <1>1, <1>10 DEF FaIInv

LEMMA FaKeeps == FaStreamAssumption /\ FaIInv /\ [FaNext]_job => FaIInv'
<1> SUFFICES ASSUME FaStreamAssumption, FaIInv, [FaNext]_job PROVE FaIInv'
  OBVIOUS
<1>0. PICK s \in Nat : s = job.stream
  BY DEF FaIInv, FaJobs
<1>1. CASE FaBegin
  <2>1. PICK n \in FaAudio, words \in FaWords, fails \in FaFails : Called(job.stream + 1, n, words, fails)
    BY <1>1 DEF FaBegin
  <2>2. s + 1 \in Nat \ {0}
    OBVIOUS
  <2> QED
    BY <1>0, <2>1, <2>2, CalledHolds
<1>2. CASE FaFeed
  <2>1. PICK n \in FaAudio, words \in FaWords, fails \in FaFails : Called(job.stream, n, words, fails)
    BY <1>2 DEF FaFeed
  <2>2. job.stream \in Nat \ {0}
    <3>1. job.stream > 0
      BY <1>2 DEF FaFeed
    <3>2. PICK t : t = job.stream
      OBVIOUS
    <3>3. t > 0 /\ t \in Nat
      BY <1>0, <3>1, <3>2
    <3>4. t \in Nat \ {0}
      BY <3>3
    <3> QED
      BY <3>2, <3>4
  <2> QED
    BY <2>1, <2>2, CalledHolds
<1>3. CASE FaEnd \/ UNCHANGED job
  <2>1. job' = job
    BY <1>3 DEF FaEnd
  <2> QED
    BY <2>1 DEF FaIInv
<1> QED
  BY <1>1, <1>2, <1>3 DEF FaNext

\* Whatever streams of audio the worker aligns, at either rate, with calls that
\* fail in between: a call that succeeds reads what the one-shot alignment of
\* the same audio and words does, exactly when no K/V is kept and in every
\* slot's place and timestamp when it is (align_words_streaming).
THEOREM StreamsAlike == FaSpec => []StreamFaithful
<1>1. FaIInv => StreamFaithful
  BY DEF FaIInv, FaRight, StreamFaithful, StreamIsOneShot, SameAsOneShot, ReuseKeepsPlaces
<1>2. FaStreamAssumption
  BY FaStreamAssumption
<1> QED
  BY <1>1, <1>2, FaStarts, FaKeeps, PTL DEF FaSpec

-----------------------------------------------------------------------------
(* The aligner's times: a recursion whose every step only looks back has a *)
(* solution, whatever the step does.                                       *)

\* f is the recursion that starts with base and makes f[k] of f[back[k]].
Recurs(f, n, base, back, F) ==
  f = [k \in 0..n |-> IF k = 0 THEN base ELSE F[<<f[back[k]], k>>]]

LEMMA RecursionSolved ==
  ASSUME NEW S, NEW n \in Nat, NEW base \in S, NEW F \in [S \X (1..n) -> S],
         NEW back \in [1..n -> Nat], \A k \in 1..n : back[k] < k
  PROVE  \E f \in [0..n -> S] : Recurs(f, n, base, back, F)
<1> DEFINE T == {m \in Nat : m <= n => \E f \in [0..m -> S] : Recurs(f, m, base, back, F)}
<1>1. 0 \in T
  <2>1. [k \in 0..0 |-> base] \in [0..0 -> S]
    OBVIOUS
  <2>2. Recurs([k \in 0..0 |-> base], 0, base, back, F)
    BY DEF Recurs
  <2> QED
    BY <2>1, <2>2
<1>2. ASSUME NEW m \in Nat, m \in T PROVE m + 1 \in T
  <2> SUFFICES ASSUME m + 1 <= n
               PROVE  \E f \in [0..m + 1 -> S] : Recurs(f, m + 1, base, back, F)
    OBVIOUS
  <2>1. PICK f \in [0..m -> S] : Recurs(f, m, base, back, F)
    BY <1>2
  <2>2. m + 1 \in 1..n /\ back[m + 1] \in 0..m
    OBVIOUS
  <2>3. PICK last \in S : last = F[<<f[back[m + 1]], m + 1>>]
    BY <2>2
  <2> DEFINE g == [k \in 0..m + 1 |-> IF k = m + 1 THEN last ELSE f[k]]
  <2>4. g \in [0..m + 1 -> S]
    OBVIOUS
  <2>5. ASSUME NEW k \in 0..m + 1
        PROVE  g[k] = IF k = 0 THEN base ELSE F[<<g[back[k]], k>>]
    <3>1. CASE k = m + 1
      <4>1. PICK b : b = back[k]
        OBVIOUS
      <4>2. b \in 0..m /\ b # m + 1 /\ b \in 0..m + 1
        BY <2>2, <3>1, <4>1
      <4>3. g[b] = f[b] /\ g[k] = last
        BY <3>1, <4>2
      <4> HIDE DEF g
      <4>4. g[k] = F[<<g[b], k>>]
        BY <2>3, <3>1, <4>1, <4>3
      <4> QED
        BY <3>1, <4>1, <4>4
    <3>2. CASE k \in 1..m
      <4>1. PICK b : b = back[k]
        OBVIOUS
      <4>2. b \in 0..m /\ b # m + 1 /\ b \in 0..m + 1 /\ k # m + 1
        BY <2>2, <3>2, <4>1
      <4>3. g[k] = f[k] /\ g[b] = f[b]
        BY <3>2, <4>2
      <4>4. f[k] = F[<<f[b], k>>]
        BY <2>1, <3>2, <4>1 DEF Recurs
      <4> HIDE DEF g
      <4>5. g[k] = F[<<g[b], k>>]
        BY <4>3, <4>4
      <4> QED
        BY <3>2, <4>1, <4>5
    <3>3. CASE k = 0
      <4>1. f[0] = base
        BY <2>1 DEF Recurs
      <4> QED
        BY <3>3, <4>1
    <3> QED
      BY <3>1, <3>2, <3>3
  <2>6. g = [k \in 0..m + 1 |-> IF k = 0 THEN base ELSE F[<<g[back[k]], k>>]]
    <3>1. DOMAIN g = 0..m + 1
      OBVIOUS
    <3> HIDE DEF g
    <3> QED
      BY <2>4, <2>5, <3>1
  <2> HIDE DEF g
  <2> QED
    BY <2>4, <2>6 DEF Recurs
<1>3. \A m \in Nat : m \in T
  <2> HIDE DEF T
  <2> QED
    BY <1>1, <1>2, SetInduction
<1> QED
  BY <1>3

LEMMA InductionUpTo ==
  ASSUME NEW n \in Nat, NEW T, 0 \in T, \A k \in 1..n : k - 1 \in T => k \in T
  PROVE  \A k \in 0..n : k \in T
<1> DEFINE U == {m \in Nat : m <= n => m \in T}
<1>1. 0 \in U
  OBVIOUS
<1>2. ASSUME NEW m \in Nat, m \in U PROVE m + 1 \in U
  <2> SUFFICES ASSUME m + 1 <= n PROVE m + 1 \in T
    OBVIOUS
  <2>1. m + 1 \in 1..n /\ (m + 1) - 1 = m /\ m \in T
    BY <1>2
  <2> QED
    BY <2>1
<1>3. \A m \in Nat : m \in U
  <2> HIDE DEF U
  <2> QED
    BY <1>1, <1>2, SetInduction
<1> QED
  BY <1>3

\* Before each row the one before it.
RowBefore(n) == [k \in 1..n |-> k - 1]

Stepwise(f, n, base, F) == f[0] = base /\ \A k \in 1..n : f[k] = F[<<f[k - 1], k>>]

LEMMA StepByStep ==
  ASSUME NEW S, NEW n \in Nat, NEW base \in S, NEW F \in [S \X (1..n) -> S]
  PROVE  \E f \in [0..n -> S] : Stepwise(f, n, base, F)
<1>1. RowBefore(n) \in [1..n -> Nat] /\ \A k \in 1..n : RowBefore(n)[k] < k
  BY DEF RowBefore
<1>2. PICK f \in [0..n -> S] : Recurs(f, n, base, RowBefore(n), F)
  BY <1>1, RecursionSolved
<1>3. f[0] = base
  BY <1>2 DEF Recurs
<1>4. ASSUME NEW k \in 1..n PROVE f[k] = F[<<f[k - 1], k>>]
  <2>1. RowBefore(n)[k] = k - 1
    BY DEF RowBefore
  <2>2. f[k] = F[<<f[RowBefore(n)[k]], k>>]
    <3>1. k \in 0..n /\ k # 0
      OBVIOUS
    <3>2. f = [j \in 0..n |-> IF j = 0 THEN base ELSE F[<<f[RowBefore(n)[j]], j>>]]
      BY <1>2, Zenon DEF Recurs
    <3> QED
      BY <3>1, <3>2, Zenon
  <2> QED
    BY <2>1, <2>2
<1> QED
  BY <1>3, <1>4 DEF Stepwise

-----------------------------------------------------------------------------
(* From predicted times to refined ones.                                   *)

TimedWord == [t0 : Int, t1 : Int]
Times(n) == [1..n -> TimedWord]

Ordered(s, n) ==
  \A w \in 1..n : /\ 0 <= s[w].t0 /\ s[w].t0 < s[w].t1
                  /\ w > 1 => s[w - 1].t1 <= s[w].t0

LEMMA TimesLen == ASSUME NEW n \in Nat, NEW s \in Times(n) PROVE Len(s) = n /\ DOMAIN s = 1..n
BY DEF Times

LEMMA LastingIs ==
  ASSUME NEW word \in TimedWord
  PROVE  /\ Lasting(word) \in TimedWord /\ Lasting(word).t0 = word.t0
         /\ Lasting(word).t0 < Lasting(word).t1
         /\ word.t0 < word.t1 => Lasting(word) = word
BY DEF Lasting, TimedWord

\* A step changes the one word, and makes it last and wait for the one before.
LEMMA SweptAtIs ==
  ASSUME NEW n \in Nat, NEW s \in Times(n), NEW w \in 1..n
  PROVE  /\ SweptAt(s, w) \in Times(n)
         /\ \A v \in 1..n : v # w => SweptAt(s, w)[v] = s[v]
         /\ SweptAt(s, w)[w].t0 < SweptAt(s, w)[w].t1
         /\ SweptAt(s, w)[w].t0 >= s[w].t0
         /\ w > 1 => SweptAt(s, w)[w].t0 >= s[w - 1].t1
<1>1. PICK word : word = Lasting(s[w])
  OBVIOUS
<1>2. s[w] \in TimedWord /\ (w > 1 => s[w - 1] \in TimedWord)
  BY DEF Times
<1>3. word \in TimedWord /\ word.t0 = s[w].t0
  BY <1>1, <1>2, LastingIs
<1>4. PICK t : t = IF w > 1 THEN Later(word.t0, s[w - 1].t1) ELSE word.t0
  OBVIOUS
<1>5. t \in Int /\ t >= s[w].t0 /\ (w > 1 => t >= s[w - 1].t1)
  BY <1>2, <1>3, <1>4 DEF Later, TimedWord
<1>6. PICK late : late = [word EXCEPT !.t0 = t]
  OBVIOUS
<1>7. late \in TimedWord /\ late.t0 = t
  BY <1>3, <1>5, <1>6 DEF TimedWord
<1>8. SweptAt(s, w) = [s EXCEPT ![w] = Lasting(late)]
  BY <1>1, <1>4, <1>6 DEF SweptAt
<1>9. /\ Lasting(late) \in TimedWord /\ Lasting(late).t0 = t
      /\ Lasting(late).t0 < Lasting(late).t1
  BY <1>7, LastingIs
<1> QED
  BY <1>5, <1>8, <1>9 DEF Times

LEMMA SweptOrdered ==
  ASSUME NEW n \in Nat, NEW ts \in Times(n), \A w \in 1..n : 0 <= ts[w].t0
  PROVE  Swept(ts) \in Times(n) /\ Ordered(Swept(ts), n)
<1> DEFINE F == [x \in Times(n) \X (1..n) |-> SweptAt(x[1], x[2])]
           Solves(f) == f = [k \in 0..n |-> IF k = 0 THEN ts ELSE SweptAt(f[k - 1], k)]
           g == CHOOSE f : Solves(f)
<1>1. F \in [Times(n) \X (1..n) -> Times(n)]
  BY SweptAtIs
<1>2. PICK f \in [0..n -> Times(n)] : Stepwise(f, n, ts, F)
  <2> HIDE DEF F
  <2> QED
    BY <1>1, StepByStep, Zenon
<1>3. Solves(f)
  <2>1. ASSUME NEW k \in 1..n PROVE f[k] = SweptAt(f[k - 1], k)
    <3>1. f[k - 1] \in Times(n)
      OBVIOUS
    <3>2. f[k] = F[<<f[k - 1], k>>]
      BY <1>2 DEF Stepwise
    <3> QED
      BY <3>1, <3>2
  <2>2. ASSUME NEW k \in 0..n PROVE f[k] = IF k = 0 THEN ts ELSE SweptAt(f[k - 1], k)
    BY <1>2, <2>1 DEF Stepwise
  <2> HIDE DEF F
  <2> QED
    BY <2>2
<1>4. Solves(g)
  BY <1>3
<1>5. Swept(ts) = g[n]
  BY TimesLen DEF Swept, Pass
<1> HIDE DEF g
<1>6. g[0] = ts /\ \A k \in 1..n : g[k] = SweptAt(g[k - 1], k)
  BY <1>4
<1> DEFINE T == {k \in 0..n : /\ g[k] \in Times(n)
                              /\ \A w \in 1..k : /\ 0 <= g[k][w].t0 /\ g[k][w].t0 < g[k][w].t1
                                                 /\ w > 1 => g[k][w - 1].t1 <= g[k][w].t0
                              /\ \A w \in k + 1..n : 0 <= g[k][w].t0}
<1>7. 0 \in T
  BY <1>6
<1>8. ASSUME NEW k \in 1..n, k - 1 \in T PROVE k \in T
  <2>1. PICK s, r : s = g[k - 1] /\ r = g[k]
    OBVIOUS
  <2>2. r = SweptAt(s, k)
    BY <1>6, <2>1
  <2>3. /\ s \in Times(n)
        /\ \A w \in 1..k - 1 : /\ 0 <= s[w].t0 /\ s[w].t0 < s[w].t1
                               /\ w > 1 => s[w - 1].t1 <= s[w].t0
        /\ \A w \in k..n : 0 <= s[w].t0
    BY <1>8, <2>1
  <2>4. /\ r \in Times(n) /\ \A v \in 1..n : v # k => r[v] = s[v]
        /\ r[k].t0 < r[k].t1 /\ r[k].t0 >= s[k].t0
        /\ k > 1 => r[k].t0 >= s[k - 1].t1
    BY <2>2, <2>3, SweptAtIs
  <2>5. s[k] \in TimedWord /\ r[k] \in TimedWord /\ 0 <= s[k].t0
    BY <2>3, <2>4 DEF Times
  <2>6. ASSUME NEW w \in 1..k
        PROVE  /\ 0 <= r[w].t0 /\ r[w].t0 < r[w].t1
               /\ w > 1 => r[w - 1].t1 <= r[w].t0
    <3>1. CASE w = k
      <4>1. 0 <= r[k].t0
        BY <2>4, <2>5 DEF TimedWord
      <4>2. ASSUME k > 1 PROVE r[k - 1].t1 <= r[k].t0
        <5>1. r[k - 1] = s[k - 1] /\ s[k - 1] \in TimedWord
          BY <2>3, <2>4, <4>2 DEF Times
        <5> QED
          BY <2>4, <2>5, <4>2, <5>1 DEF TimedWord
      <4> QED
        BY <2>4, <3>1, <4>1, <4>2
    <3>2. CASE w # k
      <4>1. r[w] = s[w] /\ (w > 1 => r[w - 1] = s[w - 1]) /\ w \in 1..k - 1
        BY <2>4, <3>2
      <4> QED
        BY <2>3, <4>1
    <3> QED
      BY <3>1, <3>2
  <2>7. ASSUME NEW w \in k + 1..n PROVE 0 <= r[w].t0
    BY <2>3, <2>4
  <2> QED
    BY <2>1, <2>4, <2>6, <2>7
<1>9. \A k \in 0..n : k \in T
  <2> HIDE DEF T
  <2> QED
    BY <1>7, <1>8, InductionUpTo
<1>10. n \in T
  BY <1>9
<1> QED
  BY <1>5, <1>10 DEF Ordered

\* Repair moves an onset to no earlier than the word before ends.
RepairedAt(rms, s, w) == [s EXCEPT ![w] = Repaired(rms, s, w)]
OrderedTimes(n) == {s \in Times(n) : Ordered(s, n)}

LEMMA RepairedAtIs ==
  ASSUME NEW n \in Nat, NEW s \in OrderedTimes(n), NEW w \in 1..n, NEW rms
  PROVE  RepairedAt(rms, s, w) \in OrderedTimes(n)
<1>1. s \in Times(n) /\ Ordered(s, n)
  BY DEF OrderedTimes
<1>2. PICK r, new, word : r = RepairedAt(rms, s, w) /\ new = Repaired(rms, s, w) /\ word = s[w]
  OBVIOUS
<1>3. word \in TimedWord /\ (w > 1 => s[w - 1] \in TimedWord)
  BY <1>1, <1>2 DEF Times
<1>4. /\ 0 <= word.t0 /\ word.t0 < word.t1
      /\ w > 1 => s[w - 1].t1 <= word.t0 /\ 0 <= s[w - 1].t0 /\ s[w - 1].t0 < s[w - 1].t1
  BY <1>1, <1>2 DEF Ordered
<1>5. PICK floor, to : floor = FloorOf(s, w) /\ to = RepairTo(rms, s, w)
  OBVIOUS
<1>6. floor \in Int /\ 0 <= floor /\ (w > 1 => s[w - 1].t1 = floor)
  BY <1>3, <1>4, <1>5 DEF FloorOf, TimedWord
<1>7. new \in TimedWord /\ 0 <= new.t0 /\ new.t0 < new.t1 /\ new.t1 = word.t1 /\ floor <= new.t0
  <2>1. CASE to \in floor..word.t0 - 1
    <3>1. PICK early : early = [word EXCEPT !.t0 = to]
      OBVIOUS
    <3>2. word.t0 \in Int /\ word.t1 \in Int /\ to \in Int /\ floor <= to /\ to <= word.t0 - 1
      BY <1>3, <1>6, <2>1 DEF TimedWord
    <3>3. early \in TimedWord /\ early.t0 = to /\ early.t1 = word.t1
      BY <1>3, <3>1, <3>2 DEF TimedWord
    <3>4. to < word.t1 /\ 0 <= to
      BY <1>4, <1>6, <3>2
    <3>5. new = Lasting(early)
      BY <1>2, <1>5, <2>1, <3>1 DEF Repaired
    <3>6. Lasting(early) = early
      BY <3>3, <3>4, LastingIs
    <3> QED
      BY <3>2, <3>3, <3>4, <3>5, <3>6
  <2>2. CASE to \notin floor..word.t0 - 1
    <3>1. new = word
      BY <1>2, <1>5, <2>2 DEF Repaired
    <3>2. floor <= word.t0
      BY <1>3, <1>4, <1>5, <1>6 DEF FloorOf
    <3> QED
      BY <1>3, <1>4, <3>1, <3>2
  <2> QED
    BY <2>1, <2>2
<1>8. r = [s EXCEPT ![w] = new]
  BY <1>2 DEF RepairedAt
<1>9. r \in Times(n)
  BY <1>1, <1>7, <1>8 DEF Times
<1>10. r[w] = new /\ \A v \in 1..n : v # w => r[v] = s[v]
  BY <1>1, <1>8 DEF Times
<1>11. ASSUME NEW v \in 1..n
       PROVE  /\ 0 <= r[v].t0 /\ r[v].t0 < r[v].t1
              /\ v > 1 => r[v - 1].t1 <= r[v].t0
  <2>1. CASE v = w
    <3>1. v > 1 => r[v - 1] = s[v - 1]
      BY <1>10, <2>1
    <3> QED
      BY <1>6, <1>7, <1>10, <2>1, <3>1
  <2>2. CASE v # w
    <3>1. r[v] = s[v]
      BY <1>10, <2>2
    <3>2. v > 1 => r[v - 1].t1 = s[v - 1].t1
      BY <1>2, <1>7, <1>10
    <3> QED
      BY <1>1, <3>1, <3>2 DEF Ordered
  <2> QED
    BY <2>1, <2>2
<1>12. r \in OrderedTimes(n)
  BY <1>9, <1>11 DEF Ordered, OrderedTimes
<1> QED
  BY <1>2, <1>12

LEMMA RepairedOrdered ==
  ASSUME NEW n \in Nat, NEW ts \in OrderedTimes(n), NEW rms
  PROVE  AllRepaired(rms, ts) \in OrderedTimes(n)
<1> DEFINE S == OrderedTimes(n)
           F == [x \in S \X (1..n) |-> RepairedAt(rms, x[1], x[2])]
           Solves(f) == f = [k \in 0..n |-> IF k = 0 THEN ts ELSE RepairedAt(rms, f[k - 1], k)]
           g == CHOOSE f : Solves(f)
<1>1. F \in [S \X (1..n) -> S]
  BY RepairedAtIs
<1>2. PICK f \in [0..n -> S] : Stepwise(f, n, ts, F)
  <2> HIDE DEF F, S
  <2>1. ts \in S
    BY DEF S
  <2> QED
    BY <1>1, <2>1, StepByStep, Zenon
<1>3. Solves(f)
  <2>1. ASSUME NEW k \in 1..n PROVE f[k] = RepairedAt(rms, f[k - 1], k)
    <3>1. f[k - 1] \in S
      OBVIOUS
    <3>2. f[k] = F[<<f[k - 1], k>>]
      BY <1>2 DEF Stepwise
    <3> QED
      BY <3>1, <3>2
  <2>2. ASSUME NEW k \in 0..n PROVE f[k] = IF k = 0 THEN ts ELSE RepairedAt(rms, f[k - 1], k)
    BY <1>2, <2>1 DEF Stepwise
  <2> HIDE DEF F, S
  <2> QED
    BY <2>2
<1>4. Solves(g)
  BY <1>3
<1>5. AllRepaired(rms, ts) = g[n]
  <2>1. Len(ts) = n
    BY TimesLen DEF OrderedTimes
  <2> QED
    BY <2>1 DEF AllRepaired, Pass, RepairedAt
<1> HIDE DEF g
<1>6. g[0] = ts /\ \A k \in 1..n : g[k] = RepairedAt(rms, g[k - 1], k)
  BY <1>4
<1> DEFINE T == {k \in 0..n : g[k] \in S}
<1>7. 0 \in T
  BY <1>6
<1>8. ASSUME NEW k \in 1..n, k - 1 \in T PROVE k \in T
  BY <1>6, <1>8, RepairedAtIs
<1>9. \A k \in 0..n : k \in T
  <2> HIDE DEF T
  <2> QED
    BY <1>7, <1>8, InductionUpTo
<1>10. n \in T
  BY <1>9
<1> QED
  BY <1>5, <1>10

\* Of some bins one is the quietest, and of those the first.
LEMMA QuietestIs ==
  ASSUME NEW rms \in Seq(Nat), NEW lo \in Nat, NEW hi \in Nat, lo <= hi, hi < Len(rms)
  PROVE  Quietest(rms, lo, hi) \in lo..hi
<1> DEFINE Levels == {rms[b + 1] : b \in lo..hi}
<1>1. ASSUME NEW b \in lo..hi PROVE b + 1 \in 1..Len(rms) /\ rms[b + 1] \in Nat
  OBVIOUS
<1>2. Levels \subseteq Nat /\ Levels # {}
  <2>1. lo \in lo..hi
    OBVIOUS
  <2> QED
    BY <1>1, <2>1
<1>3. PICK level \in Levels : \A x \in Levels : level <= x
  <2> HIDE DEF Levels
  <2> QED
    BY <1>2, LeastNat
<1> DEFINE At == {b \in lo..hi : rms[b + 1] = level}
<1>4. At \subseteq Nat /\ At # {}
  <2>1. PICK b \in lo..hi : rms[b + 1] = level
    OBVIOUS
  <2>2. b \in At
    BY <2>1
  <2>3. lo..hi \subseteq Nat
    OBVIOUS
  <2> QED
    BY <2>2, <2>3
<1>5. PICK first \in At : \A b \in At : first <= b
  <2> HIDE DEF At
  <2> QED
    BY <1>4, LeastNat
<1>6. first \in lo..hi /\ rms[first + 1] = level
  OBVIOUS
<1>7. ASSUME NEW k \in lo..hi PROVE rms[first + 1] <= rms[k + 1]
  BY <1>3, <1>6
<1>8. ASSUME NEW k \in lo..first - 1 PROVE rms[k + 1] > rms[first + 1]
  <2>1. k \in lo..hi /\ k < first
    BY <1>6
  <2>2. k \notin At
    BY <1>5, <1>6, <2>1
  <2>3. rms[k + 1] # level /\ level <= rms[k + 1]
    BY <1>3, <2>1, <2>2
  <2> QED
    BY <1>1, <1>6, <2>1, <2>3
<1> HIDE DEF Levels, At
<1> QED
  BY <1>6, <1>7, <1>8 DEF Quietest

\* Where two words meet in a loud gap, both still last.
LEMMA BridgedAtIs ==
  ASSUME NEW n \in Nat, NEW s \in OrderedTimes(n), NEW w \in 1..n,
         NEW rms \in Seq(Nat), rms # <<>>
  PROVE  /\ BridgedAt(rms, s, w) \in OrderedTimes(n)
         /\ \A v \in 1..n : v < w - 1 => BridgedAt(rms, s, w)[v] = s[v]
         /\ w > 1 => BridgedAt(rms, s, w)[w - 1].t0 = s[w - 1].t0
         /\ w > 1 => ~LoudGap(rms, BridgedAt(rms, s, w)[w - 1].t1, BridgedAt(rms, s, w)[w].t0)
<1>1. s \in Times(n) /\ Ordered(s, n)
  BY DEF OrderedTimes
<1>2. CASE w = 1 \/ ~LoudGap(rms, s[w - 1].t1, s[w].t0)
  <2>1. BridgedAt(rms, s, w) = s
    BY <1>2 DEF BridgedAt
  <2> QED
    BY <1>2, <2>1
<1>3. CASE w # 1 /\ LoudGap(rms, s[w - 1].t1, s[w].t0)
  <2>1. PICK r, last, next : r = BridgedAt(rms, s, w) /\ last = s[w - 1] /\ next = s[w]
    OBVIOUS
  <2>2. w - 1 \in 1..n /\ w - 1 # w /\ w > 1
    BY <1>3
  <2>3. last \in TimedWord /\ next \in TimedWord
    BY <1>1, <2>1, <2>2 DEF Times
  <2>4. 0 <= last.t0 /\ last.t0 < last.t1 /\ last.t1 <= next.t0 /\ next.t0 < next.t1
    BY <1>1, <2>1, <2>2 DEF Ordered
  <2>5. last.t0 \in Int /\ last.t1 \in Int /\ next.t0 \in Int /\ next.t1 \in Int
    BY <2>3 DEF TimedWord
  <2>6. PICK hi : hi = Sooner(next.t0 - 1, Bins(rms) - 1)
    OBVIOUS
  <2>7. Bins(rms) \in Nat \ {0} /\ Bins(rms) = Len(rms)
    BY EmptySeq DEF Bins
  <2>8. last.t1 <= hi
    BY <1>3, <2>1, <2>6 DEF LoudGap, MostlyLoud
  <2>9. last.t1 \in Nat /\ hi \in Nat /\ hi <= next.t0 - 1 /\ hi < Len(rms)
    <3>1. PICK x, y : x = next.t0 - 1 /\ y = Bins(rms) - 1
      OBVIOUS
    <3>2. x \in Int /\ y \in Int /\ hi = IF x < y THEN x ELSE y
      BY <2>5, <2>6, <2>7, <3>1 DEF Sooner
    <3>3. hi \in Int /\ hi <= x /\ hi <= y
      BY <3>2
    <3>4. last.t1 \in Nat
      BY <2>4, <2>5
    <3> QED
      BY <2>5, <2>7, <2>8, <3>1, <3>3, <3>4
  <2>10. PICK mid : mid = Quietest(rms, last.t1, hi)
    OBVIOUS
  <2>11. mid \in last.t1..hi
    BY <2>8, <2>9, <2>10, QuietestIs
  <2>12. mid \in Int /\ last.t0 < mid /\ mid < next.t1 /\ 0 <= mid
    <3>1. mid \in Nat /\ last.t1 <= mid /\ mid <= hi
      BY <2>9, <2>11
    <3>2. PICK x, y, u, v : x = last.t0 /\ y = last.t1 /\ u = next.t0 /\ v = next.t1
      OBVIOUS
    <3>3. /\ x \in Int /\ y \in Int /\ u \in Int /\ v \in Int
          /\ x < y /\ u < v /\ y <= mid /\ mid <= hi /\ hi \in Nat /\ hi <= u - 1
      BY <2>4, <2>5, <2>9, <3>1, <3>2
    <3>4. x < mid /\ mid < v
      BY <3>1, <3>3
    <3> QED
      BY <3>1, <3>2, <3>4
  <2>13. r = [s EXCEPT ![w - 1].t1 = mid, ![w].t0 = mid]
    BY <1>3, <2>1, <2>6, <2>10 DEF BridgedAt
  <2>14. PICK a, b : a = [last EXCEPT !.t1 = mid] /\ b = [next EXCEPT !.t0 = mid]
    OBVIOUS
  <2>15. /\ a \in TimedWord /\ a.t0 = last.t0 /\ a.t1 = mid
         /\ b \in TimedWord /\ b.t0 = mid /\ b.t1 = next.t1
    BY <2>3, <2>12, <2>14 DEF TimedWord
  <2>16. r = [v \in 1..n |-> IF v = w THEN b ELSE IF v = w - 1 THEN a ELSE s[v]]
    BY <1>1, <2>1, <2>2, <2>13, <2>14 DEF Times
  <2>17. r \in Times(n)
    BY <1>1, <2>15, <2>16 DEF Times
  <2>18. r[w] = b /\ r[w - 1] = a /\ \A v \in 1..n : v # w /\ v # w - 1 => r[v] = s[v]
    BY <2>2, <2>16
  <2>19. ASSUME NEW v \in 1..n
         PROVE  /\ 0 <= r[v].t0 /\ r[v].t0 < r[v].t1
                /\ v > 1 => r[v - 1].t1 <= r[v].t0
    <3>1. CASE v = w
      BY <2>12, <2>15, <2>18, <3>1
    <3>2. CASE v = w - 1
      <4>1. v > 1 => r[v - 1] = s[v - 1] /\ s[v - 1].t1 <= last.t0
        BY <1>1, <2>1, <2>18, <3>2 DEF Ordered
      <4> QED
        BY <2>4, <2>12, <2>15, <2>18, <3>2, <4>1
    <3>3. CASE v # w /\ v # w - 1
      <4>1. r[v] = s[v] /\ 0 <= s[v].t0 /\ s[v].t0 < s[v].t1 /\ (v > 1 => s[v - 1].t1 <= s[v].t0)
        BY <1>1, <2>18, <3>3 DEF Ordered
      <4>2. CASE v - 1 = w
        <5>1. r[v - 1] = b /\ b.t1 = s[v - 1].t1
          BY <2>1, <2>15, <2>18, <4>2
        <5> QED
          BY <4>1, <5>1
      <4>3. CASE v - 1 # w
        <5>1. v > 1 => r[v - 1] = s[v - 1]
          BY <2>18, <3>3, <4>3
        <5> QED
          BY <4>1, <5>1
      <4> QED
        BY <4>2, <4>3
    <3> QED
      BY <3>1, <3>2, <3>3
  <2>20. r \in OrderedTimes(n)
    BY <2>17, <2>19 DEF Ordered, OrderedTimes
  <2>21. ~LoudGap(rms, mid, mid)
    BY <2>12 DEF LoudGap, GapMin
  <2>22. \A v \in 1..n : v < w - 1 => r[v] = s[v]
    BY <2>18
  <2> QED
    BY <2>1, <2>15, <2>18, <2>20, <2>21, <2>22
<1> QED
  BY <1>2, <1>3

LEMMA BridgedOrdered ==
  ASSUME NEW n \in Nat, NEW ts \in OrderedTimes(n), NEW rms \in Seq(Nat), rms # <<>>
  PROVE  /\ Bridged(rms, ts) \in OrderedTimes(n)
         /\ \A v \in 2..n : ~LoudGap(rms, Bridged(rms, ts)[v - 1].t1, Bridged(rms, ts)[v].t0)
<1> DEFINE S == OrderedTimes(n)
           F == [x \in S \X (1..n) |-> BridgedAt(rms, x[1], x[2])]
           Solves(f) == f = [k \in 0..n |-> IF k = 0 THEN ts ELSE BridgedAt(rms, f[k - 1], k)]
           g == CHOOSE f : Solves(f)
<1>1. F \in [S \X (1..n) -> S]
  BY BridgedAtIs
<1>2. PICK f \in [0..n -> S] : Stepwise(f, n, ts, F)
  <2> HIDE DEF F, S
  <2>1. ts \in S
    BY DEF S
  <2> QED
    BY <1>1, <2>1, StepByStep, Zenon
<1>3. Solves(f)
  <2>1. ASSUME NEW k \in 1..n PROVE f[k] = BridgedAt(rms, f[k - 1], k)
    <3>1. f[k - 1] \in S
      OBVIOUS
    <3>2. f[k] = F[<<f[k - 1], k>>]
      BY <1>2 DEF Stepwise
    <3> QED
      BY <3>1, <3>2
  <2>2. ASSUME NEW k \in 0..n PROVE f[k] = IF k = 0 THEN ts ELSE BridgedAt(rms, f[k - 1], k)
    BY <1>2, <2>1 DEF Stepwise
  <2> HIDE DEF F, S
  <2> QED
    BY <2>2
<1>4. Solves(g)
  BY <1>3
<1>5. Bridged(rms, ts) = g[n]
  <2>1. Len(ts) = n
    BY TimesLen DEF OrderedTimes
  <2> QED
    BY <2>1 DEF Bridged, Pass
<1> HIDE DEF g
<1>6. g[0] = ts /\ \A k \in 1..n : g[k] = BridgedAt(rms, g[k - 1], k)
  BY <1>4
<1> DEFINE T == {k \in 0..n : /\ g[k] \in S
                              /\ \A v \in 2..k : ~LoudGap(rms, g[k][v - 1].t1, g[k][v].t0)}
<1>7. 0 \in T
  BY <1>6
<1>8. ASSUME NEW k \in 1..n, k - 1 \in T PROVE k \in T
  <2>1. PICK s, r : s = g[k - 1] /\ r = g[k]
    OBVIOUS
  <2>2. s \in S /\ \A v \in 2..k - 1 : ~LoudGap(rms, s[v - 1].t1, s[v].t0)
    BY <1>8, <2>1
  <2>3. r = BridgedAt(rms, s, k)
    BY <1>6, <2>1
  <2>4. /\ r \in S /\ \A v \in 1..n : v < k - 1 => r[v] = s[v]
        /\ k > 1 => r[k - 1].t0 = s[k - 1].t0
        /\ k > 1 => ~LoudGap(rms, r[k - 1].t1, r[k].t0)
    BY <2>2, <2>3, BridgedAtIs
  <2>5. ASSUME NEW v \in 2..k PROVE ~LoudGap(rms, r[v - 1].t1, r[v].t0)
    <3>1. CASE v = k
      BY <2>4, <3>1
    <3>2. CASE v < k
      <4>1. v - 1 \in 1..n /\ v - 1 < k - 1 /\ v \in 2..k - 1 /\ v \in 1..n
        BY <3>2
      <4>2. r[v - 1] = s[v - 1] /\ r[v].t0 = s[v].t0
        <5>1. CASE v = k - 1
          BY <2>4, <4>1, <5>1
        <5>2. CASE v < k - 1
          BY <2>4, <4>1, <5>2
        <5> QED
          BY <4>1, <5>1, <5>2
      <4> QED
        BY <2>2, <4>1, <4>2
    <3> QED
      BY <3>1, <3>2
  <2> QED
    BY <2>1, <2>4, <2>5
<1>9. \A k \in 0..n : k \in T
  <2> HIDE DEF T
  <2> QED
    BY <1>7, <1>8, InductionUpTo
<1>10. n \in T
  BY <1>9
<1> QED
  BY <1>5, <1>10

\* A run of loud bins ends within the audio.
LEMMA LoudRunIs ==
  ASSUME NEW rms, NEW b \in Int, NEW d \in Int, NEW n \in Nat, LoudAt(rms, b)
  PROVE  LoudRun(rms, b, d, n) \in 0..n /\ LoudAt(rms, b + d * LoudRun(rms, b, d, n))
<1> DEFINE Ends == {k \in 0..n : k = n \/ ~LoudAt(rms, b + d * (k + 1))}
           Run(k) == /\ \A i \in 0..k : LoudAt(rms, b + d * i)
                     /\ k < n => ~LoudAt(rms, b + d * (k + 1))
<1>1. Ends \subseteq Nat /\ Ends # {}
  <2>1. n \in Ends
    OBVIOUS
  <2> QED
    BY <2>1
<1>2. PICK k \in Ends : \A x \in Ends : k <= x
  <2> HIDE DEF Ends
  <2> QED
    BY <1>1, LeastNat
<1>3. k \in 0..n /\ (k = n \/ ~LoudAt(rms, b + d * (k + 1)))
  OBVIOUS
<1>4. ASSUME NEW i \in 0..k PROVE LoudAt(rms, b + d * i)
  <2>1. CASE i = 0
    <3>1. b + d * 0 = b
      OBVIOUS
    <3> QED
      BY <2>1, <3>1
  <2>2. CASE i # 0
    <3>1. i - 1 \in 0..n /\ i - 1 < k /\ (i - 1) + 1 = i
      BY <1>3, <2>2
    <3>2. i - 1 \notin Ends
      <4> HIDE DEF Ends
      <4> QED
        BY <1>2, <1>3, <3>1
    <3> QED
      BY <3>1, <3>2
  <2> QED
    BY <2>1, <2>2
<1>5. Run(k)
  BY <1>3, <1>4
<1>6. LoudRun(rms, b, d, n) = CHOOSE r \in 0..n : Run(r)
  BY DEF LoudRun
<1>7. LoudRun(rms, b, d, n) \in 0..n /\ Run(LoudRun(rms, b, d, n))
  <2> HIDE DEF Run
  <2> QED
    BY <1>3, <1>5, <1>6
<1> QED
  BY <1>7

LEMMA BinIs ==
  ASSUME NEW rms \in Seq(Nat), rms # <<>>, NEW t \in Int
  PROVE  BinOf(rms, t) \in 0..Len(rms) - 1
<1>1. Len(rms) \in Nat \ {0}
  BY EmptySeq
<1> QED
  BY <1>1 DEF BinOf, Bins, Later, Sooner

LEMMA OnsetIs ==
  ASSUME FaTimingsAssumption, NEW rms \in Seq(Nat), rms # <<>>, NEW t \in Int
  PROVE  Onset(rms, t) \in Nat
<1>1. PICK b : b = BinOf(rms, t)
  OBVIOUS
<1>2. b \in Nat /\ Window \in Nat
  BY <1>1, BinIs DEF FaTimingsAssumption
<1>3. CASE LoudAt(rms, b)
  <2>1. PICK k : k = LoudRun(rms, b, -1, Window)
    OBVIOUS
  <2>2. k \in 0..Window /\ LoudAt(rms, b + (-1) * k)
    BY <1>2, <1>3, <2>1, LoudRunIs
  <2>3. b - k \in Nat
    <3>1. b + (-1) * k = b - k /\ b - k \in Int
      BY <1>2, <2>2
    <3>2. b - k \in 0..Bins(rms) - 1
      BY <2>2, <3>1 DEF LoudAt
    <3> QED
      BY <3>1, <3>2
  <2> QED
    BY <1>1, <1>3, <2>1, <2>3 DEF Onset
<1>4. CASE ~LoudAt(rms, b) /\ NextLoud(rms, b, 1) = {}
  BY <1>1, <1>2, <1>4 DEF Onset
<1>5. CASE ~LoudAt(rms, b) /\ NextLoud(rms, b, 1) # {}
  <2>1. PICK i : i = CHOOSE x \in NextLoud(rms, b, 1) : TRUE
    OBVIOUS
  <2>2. i \in NextLoud(rms, b, 1)
    BY <1>5, <2>1
  <2>3. i \in 1..Window
    BY <2>2 DEF NextLoud
  <2> QED
    BY <1>1, <1>2, <1>5, <2>1, <2>3 DEF Onset
<1> QED
  BY <1>3, <1>4, <1>5

LEMMA OffsetIs ==
  ASSUME FaTimingsAssumption, NEW rms \in Seq(Nat), rms # <<>>, NEW t \in Int
  PROVE  Offset(rms, t) \in Int
<1>1. PICK b : b = BinOf(rms, IF t > 0 THEN t - 1 ELSE 0)
  OBVIOUS
<1>2. b \in Nat /\ Window \in Nat
  <2>1. PICK x : x = IF t > 0 THEN t - 1 ELSE 0
    OBVIOUS
  <2>2. x \in Int
    BY <2>1
  <2>3. b \in 0..Len(rms) - 1
    BY <1>1, <2>1, <2>2, BinIs
  <2> QED
    BY <2>3 DEF FaTimingsAssumption
<1>3. CASE LoudAt(rms, b)
  <2>1. PICK k : k = LoudRun(rms, b, 1, Window)
    OBVIOUS
  <2>2. k \in 0..Window
    BY <1>2, <1>3, <2>1, LoudRunIs
  <2> QED
    BY <1>1, <1>2, <1>3, <2>1, <2>2 DEF Offset
<1>4. CASE ~LoudAt(rms, b) /\ NextLoud(rms, b, -1) = {}
  BY <1>1, <1>2, <1>4 DEF Offset
<1>5. CASE ~LoudAt(rms, b) /\ NextLoud(rms, b, -1) # {}
  <2>1. PICK i : i = CHOOSE x \in NextLoud(rms, b, -1) : TRUE
    OBVIOUS
  <2>2. i \in NextLoud(rms, b, -1)
    BY <1>5, <2>1
  <2>3. i \in 1..Window
    BY <2>2 DEF NextLoud
  <2> QED
    BY <1>1, <1>2, <1>5, <2>1, <2>3 DEF Offset
<1> QED
  BY <1>3, <1>4, <1>5

\* Whatever was predicted: words that last, in order, with no loud gap.
LEMMA RefinedInOrder ==
  ASSUME FaTimingsAssumption, NEW n \in Nat, NEW ts \in Times(n), NEW rms \in Seq(Nat), rms # <<>>
  PROVE  /\ RefineBounds(rms, ts) \in OrderedTimes(n)
         /\ \A v \in 2..n :
              ~LoudGap(rms, RefineBounds(rms, ts)[v - 1].t1, RefineBounds(rms, ts)[v].t0)
<1>1. PICK walked : walked = Walked(rms, ts)
  OBVIOUS
<1>2. ASSUME NEW w \in 1..n PROVE Onset(rms, ts[w].t0) \in Nat /\ Offset(rms, ts[w].t1) \in Int
  <2>1. ts[w].t0 \in Int /\ ts[w].t1 \in Int
    BY DEF Times, TimedWord
  <2> QED
    BY <2>1, OnsetIs, OffsetIs
<1>3. walked = [w \in 1..n |-> [t0 |-> Onset(rms, ts[w].t0), t1 |-> Offset(rms, ts[w].t1)]]
  BY <1>1, TimesLen DEF Walked
<1>4. walked \in Times(n) /\ \A w \in 1..n : 0 <= walked[w].t0
  BY <1>2, <1>3 DEF Times, TimedWord
<1>5. Swept(walked) \in OrderedTimes(n)
  BY <1>4, SweptOrdered DEF OrderedTimes
<1>6. AllRepaired(rms, Swept(walked)) \in OrderedTimes(n)
  BY <1>5, RepairedOrdered
<1> QED
  BY <1>1, <1>6, BridgedOrdered DEF RefineBounds

-----------------------------------------------------------------------------
(* The longest chain: patience sorting.                                    *)

Piled == [top : Seq(Nat), parent : Seq(Nat)]

LEMMA CountedFromOne ==
  ASSUME NEW L \in Nat, NEW D, D \subseteq 1..L, \A q \in D : \A x \in 1..q : x \in D
  PROVE  Cardinality(D) \in 0..L /\ D = 1..Cardinality(D)
<1> DEFINE T == (1..L + 1) \ D
<1>1. T \subseteq Nat /\ T # {}
  <2>1. L + 1 \in T
    OBVIOUS
  <2> QED
    BY <2>1
<1>2. PICK m \in T : \A x \in T : m <= x
  <2> HIDE DEF T
  <2> QED
    BY <1>1, LeastNat
<1>3. m \in 1..L + 1 /\ m \notin D
  OBVIOUS
<1>4. ASSUME NEW x \in D PROVE x \in 1..m - 1
  <2>1. x \in 1..L /\ (m \in 1..x => m \in D)
    OBVIOUS
  <2> QED
    BY <1>3, <2>1
<1>5. ASSUME NEW x \in 1..m - 1 PROVE x \in D
  <2>1. x \in 1..L + 1 /\ x < m
    BY <1>3
  <2>2. x \notin T
    <3> HIDE DEF T
    <3> QED
      BY <1>2, <1>3, <2>1
  <2> QED
    BY <2>1, <2>2
<1>6. D = 1..m - 1
  BY <1>4, <1>5
<1>7. Cardinality(1..m - 1) = m - 1
  BY <1>3, FS_Interval
<1> QED
  BY <1>3, <1>6, <1>7

\* A row is put on one of the piles, or on a new one behind them.
DealtTo(s, i, p, r) ==
  /\ p \in 1..Len(s.top) + 1 /\ r \in Piled
  /\ Len(r.top) = IF p > Len(s.top) THEN p ELSE Len(s.top)
  /\ \A q \in 1..Len(r.top) : r.top[q] = IF q = p THEN i ELSE s.top[q]
  /\ Len(r.parent) = Len(s.parent) + 1
  /\ r.parent[Len(s.parent) + 1] = IF p > 1 THEN s.top[p - 1] ELSE 0
  /\ \A k \in 1..Len(s.parent) : r.parent[k] = s.parent[k]

LEMMA DealtIs ==
  ASSUME NEW s \in Piled, NEW cls, NEW i \in Nat, NEW p, p = PlaceOf(s, cls, cls[i]),
         NEW r, r = Dealt(s, cls, i)
  PROVE  DealtTo(s, i, p, r)
<1>1. PICK top, parent : top = s.top /\ parent = s.parent
  OBVIOUS
<1>2. top \in Seq(Nat) /\ parent \in Seq(Nat) /\ Len(top) \in Nat /\ Len(parent) \in Nat
  BY <1>1 DEF Piled
<1>3. p \in 1..Len(top) + 1
  <2> DEFINE D == {q \in DOMAIN top : cls[top[q]] <= cls[i]}
  <2>1. IsFiniteSet(1..Len(top)) /\ Cardinality(1..Len(top)) = Len(top)
    <3>1. PICK L : L = Len(top)
      OBVIOUS
    <3>2. L \in Nat
      BY <1>2, <3>1
    <3>3. IsFiniteSet(1..L) /\ Cardinality(1..L) = L
      BY <3>2, FS_Interval
    <3> QED
      BY <3>1, <3>3
  <2>2. D \subseteq 1..Len(top)
    BY <1>2
  <2>3. p = Cardinality(D) + 1
    BY <1>1 DEF PlaceOf
  <2> HIDE DEF D
  <2>4. IsFiniteSet(D) /\ Cardinality(D) <= Len(top)
    BY <2>1, <2>2, FS_Subset
  <2>5. Cardinality(D) \in Nat
    BY <2>4, FS_CardinalityType
  <2> QED
    BY <1>2, <2>3, <2>4, <2>5
<1>4. PICK before : before = IF p > 1 THEN top[p - 1] ELSE 0
  OBVIOUS
<1>5. before \in Nat
  BY <1>2, <1>3, <1>4
<1>6. PICK new : new = IF p > Len(top) THEN Append(top, i) ELSE [top EXCEPT ![p] = i]
  OBVIOUS
<1>7. /\ new \in Seq(Nat) /\ Len(new) = IF p > Len(top) THEN p ELSE Len(top)
      /\ \A q \in 1..Len(new) : new[q] = IF q = p THEN i ELSE top[q]
  <2>1. CASE p > Len(top)
    <3>1. p = Len(top) + 1 /\ new = Append(top, i)
      BY <1>2, <1>3, <1>6, <2>1
    <3> QED
      BY <1>2, <2>1, <3>1
  <2>2. CASE ~(p > Len(top))
    <3>1. p \in 1..Len(top) /\ new = [top EXCEPT ![p] = i]
      BY <1>2, <1>3, <1>6, <2>2
    <3> QED
      BY <1>2, <2>2, <3>1
  <2> QED
    BY <2>1, <2>2
<1>8. r = [top |-> new, parent |-> Append(parent, before)]
  BY <1>1, <1>4, <1>6 DEF Dealt
<1>9. r \in Piled /\ r.top = new /\ r.parent = Append(parent, before)
  BY <1>2, <1>5, <1>7, <1>8 DEF Piled
<1>10. /\ Len(r.parent) = Len(parent) + 1 /\ r.parent[Len(parent) + 1] = before
       /\ \A k \in 1..Len(parent) : r.parent[k] = parent[k]
  BY <1>2, <1>5, <1>9
<1> QED
  BY <1>1, <1>3, <1>4, <1>7, <1>9, <1>10 DEF DealtTo

\* P says which pile each of the first i rows was put on.
OnTop(s, i, P) == \A q \in 1..Len(s.top) : s.top[q] \in 1..i /\ P[s.top[q]] = q
TopsAscend(s, cls) ==
  \A q \in 1..Len(s.top), x \in 1..Len(s.top) : q <= x => cls[s.top[q]] <= cls[s.top[x]]
Covered(s, cls, i, P) ==
  \A k \in 1..i : P[k] \in 1..Len(s.top) /\ cls[s.top[P[k]]] <= cls[k]
Linked(s, cls, i, P) ==
  \A k \in 1..i :
    /\ s.parent[k] \in 0..k - 1
    /\ s.parent[k] = 0 => P[k] = 1
    /\ s.parent[k] # 0 => P[k] = P[s.parent[k]] + 1 /\ cls[s.parent[k]] <= cls[k]
Rising(cls, i, P) ==
  \A j \in 1..i, k \in 1..i : j < k /\ cls[j] <= cls[k] => P[j] < P[k]

Piles(s, cls, i, P) ==
  /\ s \in Piled /\ P \in [1..i -> Nat] /\ Len(s.parent) = i
  /\ OnTop(s, i, P) /\ TopsAscend(s, cls) /\ Covered(s, cls, i, P)
  /\ Linked(s, cls, i, P) /\ Rising(cls, i, P)

LEMMA PilesKept ==
  ASSUME NEW n \in Nat, NEW cls \in [1..n -> Nat], NEW i \in 1..n, NEW s, NEW P,
         Piles(s, cls, i - 1, P)
  PROVE  \E Q : Piles(Dealt(s, cls, i), cls, i, Q)
<1>1. PICK p, r : p = PlaceOf(s, cls, cls[i]) /\ r = Dealt(s, cls, i)
  OBVIOUS
<1>2. PICK L, h : L = Len(s.top) /\ h = i - 1
  OBVIOUS
<1>3. /\ s \in Piled /\ P \in [1..h -> Nat] /\ Len(s.parent) = h /\ h \in Nat /\ L \in Nat
      /\ OnTop(s, h, P) /\ TopsAscend(s, cls) /\ Covered(s, cls, h, P)
      /\ Linked(s, cls, h, P) /\ Rising(cls, h, P)
  BY <1>2 DEF Piles, Piled
<1>4. /\ p \in 1..L + 1 /\ r \in Piled
      /\ Len(r.top) = IF p > L THEN p ELSE L
      /\ \A q \in 1..Len(r.top) : r.top[q] = IF q = p THEN i ELSE s.top[q]
      /\ Len(r.parent) = i
      /\ r.parent[i] = IF p > 1 THEN s.top[p - 1] ELSE 0
      /\ \A k \in 1..h : r.parent[k] = s.parent[k]
  <2>1. h + 1 = i
    BY <1>2
  <2>2. i \in Nat
    OBVIOUS
  <2>3. DealtTo(s, i, p, r)
    BY <1>1, <1>3, <2>2, DealtIs
  <2> QED
    BY <1>2, <1>3, <2>1, <2>3 DEF DealtTo
<1>5. ASSUME NEW q \in 1..L
      PROVE  s.top[q] \in 1..h /\ s.top[q] \in 1..n /\ P[s.top[q]] = q /\ cls[s.top[q]] \in Nat
  BY <1>2, <1>3 DEF OnTop
<1>6. cls[i] \in Nat
  OBVIOUS
<1>7. /\ \A q \in 1..L : q < p => cls[s.top[q]] <= cls[i]
      /\ \A q \in 1..L : q >= p => cls[s.top[q]] > cls[i]
  <2> DEFINE D == {q \in DOMAIN s.top : cls[s.top[q]] <= cls[i]}
  <2>1. DOMAIN s.top = 1..L
    BY <1>2, <1>3 DEF Piled
  <2>2. ASSUME NEW q \in D, NEW x \in 1..q PROVE x \in D
    <3>1. q \in 1..L /\ x \in 1..L /\ x <= q /\ cls[s.top[q]] <= cls[i]
      BY <1>3, <2>1
    <3>2. cls[s.top[x]] <= cls[s.top[q]]
      BY <1>2, <1>3, <3>1 DEF TopsAscend
    <3>3. cls[s.top[x]] <= cls[i]
      BY <1>5, <1>6, <3>1, <3>2
    <3> QED
      BY <2>1, <3>1, <3>3
  <2>3. D \subseteq 1..L
    BY <2>1
  <2>4. D = 1..Cardinality(D) /\ Cardinality(D) \in 0..L
    <3> HIDE DEF D
    <3> QED
      BY <1>3, <2>2, <2>3, CountedFromOne
  <2>5. p = Cardinality(D) + 1
    BY <1>1 DEF PlaceOf
  <2>6. PICK m : m = Cardinality(D)
    OBVIOUS
  <2>7. m \in 0..L /\ p = m + 1 /\ D = 1..m
    BY <2>4, <2>5, <2>6
  <2>8. \A q \in 1..L : q \in 1..m <=> cls[s.top[q]] <= cls[i]
    BY <2>1, <2>7
  <2> HIDE DEF D
  <2>9. ASSUME NEW q \in 1..L, q < p PROVE cls[s.top[q]] <= cls[i]
    <3>1. q \in 1..m
      BY <2>7, <2>9
    <3> QED
      BY <2>8, <3>1
  <2>10. ASSUME NEW q \in 1..L, q >= p PROVE cls[s.top[q]] > cls[i]
    <3>1. q \notin 1..m
      BY <2>7, <2>10
    <3> QED
      BY <1>5, <1>6, <2>8, <3>1
  <2> QED
    BY <2>9, <2>10
<1> DEFINE Q == [k \in 1..i |-> IF k = i THEN p ELSE P[k]]
<1>8. Q \in [1..i -> Nat] /\ Q[i] = p /\ \A k \in 1..h : Q[k] = P[k] /\ k \in 1..i /\ k # i
  BY <1>2, <1>3, <1>4
<1>9. i \in 1..i /\ \A k \in 1..i : k = i \/ k \in 1..h
  BY <1>2
<1> HIDE DEF Q
<1>10. \A q \in 1..L : q \in 1..Len(r.top)
  BY <1>3, <1>4
<1>11. p \in 1..Len(r.top) /\ \A q \in 1..Len(r.top) : q = p \/ (q \in 1..L /\ q # p)
  BY <1>3, <1>4
<1>12. r.top[p] = i /\ \A q \in 1..L : q # p => r.top[q] = s.top[q]
  BY <1>4, <1>10, <1>11
<1>13. OnTop(r, i, Q)
  <2> SUFFICES ASSUME NEW q \in 1..Len(r.top) PROVE r.top[q] \in 1..i /\ Q[r.top[q]] = q
    BY DEF OnTop
  <2>1. CASE q = p
    BY <1>8, <1>9, <1>12, <2>1
  <2>2. CASE q # p
    <3>1. q \in 1..L /\ r.top[q] = s.top[q]
      BY <1>11, <1>12, <2>2
    <3>2. s.top[q] \in 1..h /\ P[s.top[q]] = q
      BY <1>5, <3>1
    <3> QED
      BY <1>8, <3>1, <3>2
  <2> QED
    BY <2>1, <2>2
<1>14. TopsAscend(r, cls)
  <2> SUFFICES ASSUME NEW q \in 1..Len(r.top), NEW x \in 1..Len(r.top), q <= x
               PROVE  cls[r.top[q]] <= cls[r.top[x]]
    BY DEF TopsAscend
  <2>1. CASE q = p /\ x = p
    BY <1>6, <1>12, <2>1
  <2>2. CASE q = p /\ x # p
    <3>1. x \in 1..L /\ x >= p
      BY <1>11, <2>2
    <3>2. cls[s.top[x]] > cls[i] /\ cls[s.top[x]] \in Nat
      BY <1>5, <1>7, <3>1
    <3>3. r.top[q] = i /\ r.top[x] = s.top[x]
      BY <1>12, <2>2, <3>1
    <3> QED
      BY <1>6, <3>2, <3>3
  <2>3. CASE q # p /\ x = p
    <3>1. q \in 1..L /\ q < p
      BY <1>4, <1>11, <2>3
    <3> QED
      BY <1>7, <1>12, <2>3, <3>1
  <2>4. CASE q # p /\ x # p
    <3>1. q \in 1..L /\ x \in 1..L
      BY <1>11, <2>4
    <3> QED
      BY <1>2, <1>3, <1>12, <2>4, <3>1 DEF TopsAscend
  <2> QED
    BY <2>1, <2>2, <2>3, <2>4
<1>15. Covered(r, cls, i, Q)
  <2> SUFFICES ASSUME NEW k \in 1..i
               PROVE  Q[k] \in 1..Len(r.top) /\ cls[r.top[Q[k]]] <= cls[k]
    BY DEF Covered
  <2>1. CASE k = i
    BY <1>6, <1>8, <1>11, <1>12, <2>1
  <2>2. CASE k # i
    <3>1. k \in 1..h /\ Q[k] = P[k] /\ cls[k] \in Nat
      BY <1>8, <1>9, <2>2
    <3>2. P[k] \in 1..L /\ cls[s.top[P[k]]] <= cls[k]
      BY <1>2, <1>3, <3>1 DEF Covered
    <3>3. CASE P[k] = p
      <4>1. cls[s.top[p]] > cls[i] /\ cls[s.top[p]] \in Nat
        BY <1>4, <1>5, <1>7, <3>2, <3>3
      <4> QED
        BY <1>6, <1>11, <1>12, <3>1, <3>2, <3>3, <4>1
    <3>4. CASE P[k] # p
      BY <1>10, <1>12, <3>1, <3>2, <3>4
    <3> QED
      BY <3>3, <3>4
  <2> QED
    BY <2>1, <2>2
<1>16. Linked(r, cls, i, Q)
  <2> SUFFICES ASSUME NEW k \in 1..i
               PROVE  /\ r.parent[k] \in 0..k - 1
                      /\ r.parent[k] = 0 => Q[k] = 1
                      /\ r.parent[k] # 0 => /\ Q[k] = Q[r.parent[k]] + 1
                                            /\ cls[r.parent[k]] <= cls[k]
    BY DEF Linked
  <2>1. CASE k = i /\ p = 1
    <3>1. r.parent[k] = 0 /\ Q[k] = 1
      BY <1>4, <1>8, <2>1
    <3> QED
      BY <3>1
  <2>2. CASE k = i /\ p # 1
    <3>1. p - 1 \in 1..L /\ p - 1 < p /\ r.parent[k] = s.top[p - 1]
      BY <1>3, <1>4, <2>2
    <3>2. PICK b : b = s.top[p - 1]
      OBVIOUS
    <3>3. b \in 1..h /\ P[b] = p - 1 /\ cls[b] <= cls[i]
      BY <1>5, <1>7, <3>1, <3>2
    <3>4. b \in 0..k - 1 /\ b # 0 /\ Q[b] = p - 1 /\ Q[k] = p
      BY <1>2, <1>8, <2>2, <3>3
    <3>5. Q[k] = Q[b] + 1
      BY <1>4, <3>4
    <3> QED
      BY <2>2, <3>1, <3>2, <3>3, <3>4, <3>5
  <2>3. CASE k # i
    <3>1. k \in 1..h /\ Q[k] = P[k] /\ r.parent[k] = s.parent[k]
      BY <1>4, <1>8, <1>9, <2>3
    <3>2. PICK b : b = s.parent[k]
      OBVIOUS
    <3>3. /\ b \in 0..k - 1 /\ (b = 0 => P[k] = 1)
          /\ b # 0 => P[k] = P[b] + 1 /\ cls[b] <= cls[k]
      BY <1>3, <3>1, <3>2 DEF Linked
    <3>4. b # 0 => b \in 1..h
      BY <1>3, <3>1, <3>3
    <3>5. b # 0 => Q[b] = P[b]
      BY <1>8, <3>4
    <3> QED
      BY <3>1, <3>2, <3>3, <3>5
  <2> QED
    BY <2>1, <2>2, <2>3
<1>17. Rising(cls, i, Q)
  <2> SUFFICES ASSUME NEW j \in 1..i, NEW k \in 1..i, j < k, cls[j] <= cls[k]
               PROVE  Q[j] < Q[k]
    BY DEF Rising
  <2>1. j \in 1..h /\ Q[j] = P[j] /\ j \in 1..n
    <3>1. j \in 1..h
      <4>1. j \in Int /\ k \in Int /\ 1 <= j /\ j < k /\ k <= i
        OBVIOUS
      <4> QED
        BY <1>2, <1>3, <4>1
    <3>2. j \in 1..n
      BY <1>2, <1>3, <3>1
    <3> QED
      BY <1>8, <3>1, <3>2
  <2>2. CASE k = i
    <3>1. P[j] \in 1..L /\ cls[s.top[P[j]]] <= cls[j]
      BY <1>2, <1>3, <2>1 DEF Covered
    <3>2. PICK x : x = P[j]
      OBVIOUS
    <3>3. x \in 1..L /\ cls[s.top[x]] \in Nat /\ cls[j] \in Nat /\ cls[s.top[x]] <= cls[j]
      BY <1>5, <2>1, <3>1, <3>2
    <3>4. cls[s.top[x]] <= cls[i]
      BY <1>6, <2>2, <3>3
    <3>5. ~(x >= p)
      <4>1. PICK y, z : y = cls[s.top[x]] /\ z = cls[i]
        OBVIOUS
      <4>2. y \in Nat /\ z \in Nat /\ y <= z
        BY <1>6, <3>3, <3>4, <4>1
      <4>3. x >= p => y > z
        BY <1>7, <3>3, <4>1
      <4> QED
        BY <4>2, <4>3
    <3>6. x < p
      BY <1>4, <3>3, <3>5
    <3> QED
      BY <1>8, <2>1, <2>2, <3>2, <3>6
  <2>3. CASE k # i
    <3>1. k \in 1..h /\ Q[k] = P[k]
      BY <1>8, <1>9, <2>3
    <3> QED
      BY <1>3, <2>1, <3>1 DEF Rising
  <2> QED
    BY <2>2, <2>3
<1>18. Piles(r, cls, i, Q)
  BY <1>4, <1>8, <1>13, <1>14, <1>15, <1>16, <1>17 DEF Piles
<1> QED
  BY <1>1, <1>18

LEMMA PatienceIs ==
  ASSUME NEW n \in Nat, NEW cls \in [1..n -> Nat]
  PROVE  \E P : Piles(Patience(cls), cls, n, P)
<1> DEFINE none == [top |-> <<>>, parent |-> <<>>]
           F == [x \in Piled \X (1..n) |-> Dealt(x[1], cls, x[2])]
           Solves(f) == f = [k \in 0..n |-> IF k = 0 THEN none ELSE Dealt(f[k - 1], cls, k)]
           g == CHOOSE f : Solves(f)
<1>0. none \in Piled /\ Len(none.top) = 0 /\ Len(none.parent) = 0
  BY EmptySeq DEF Piled
<1>1. F \in [Piled \X (1..n) -> Piled]
  <2>1. ASSUME NEW s \in Piled, NEW i \in 1..n PROVE Dealt(s, cls, i) \in Piled
    <3>1. PICK p, r : p = PlaceOf(s, cls, cls[i]) /\ r = Dealt(s, cls, i)
      OBVIOUS
    <3>2. i \in Nat
      OBVIOUS
    <3>3. DealtTo(s, i, p, r)
      BY <3>1, <3>2, DealtIs
    <3> QED
      BY <3>1, <3>3 DEF DealtTo
  <2> QED
    BY <2>1
<1>2. PICK f \in [0..n -> Piled] : Stepwise(f, n, none, F)
  <2> HIDE DEF F, none
  <2> QED
    BY <1>0, <1>1, StepByStep, Zenon
<1>3. Solves(f)
  <2>1. ASSUME NEW k \in 1..n PROVE f[k] = Dealt(f[k - 1], cls, k)
    <3>1. f[k - 1] \in Piled
      OBVIOUS
    <3>2. f[k] = F[<<f[k - 1], k>>]
      BY <1>2 DEF Stepwise
    <3> QED
      BY <3>1, <3>2
  <2>2. ASSUME NEW k \in 0..n PROVE f[k] = IF k = 0 THEN none ELSE Dealt(f[k - 1], cls, k)
    BY <1>2, <2>1 DEF Stepwise
  <2> HIDE DEF F, none
  <2> QED
    BY <2>2
<1>4. Solves(g)
  BY <1>3
<1>5. Patience(cls) = g[n]
  <2>1. Len(cls) = n
    OBVIOUS
  <2> QED
    BY <2>1 DEF Patience
<1> HIDE DEF g
<1>6. g[0] = none /\ \A k \in 1..n : g[k] = Dealt(g[k - 1], cls, k)
  BY <1>4
<1> HIDE DEF none, F
<1> DEFINE T == {k \in 0..n : \E P : Piles(g[k], cls, k, P)}
<1>7. 0 \in T
  <2>1. PICK P : P = [k \in 1..0 |-> 0]
    OBVIOUS
  <2>2. P \in [1..0 -> Nat]
    BY <2>1
  <2>3. Piles(none, cls, 0, P)
    BY <1>0, <2>2 DEF Piles, OnTop, TopsAscend, Covered, Linked, Rising
  <2> QED
    BY <1>6, <2>3
<1>8. ASSUME NEW k \in 1..n, k - 1 \in T PROVE k \in T
  <2>1. PICK P : Piles(g[k - 1], cls, k - 1, P)
    BY <1>8
  <2>2. \E Q : Piles(Dealt(g[k - 1], cls, k), cls, k, Q)
    BY <2>1, PilesKept
  <2> QED
    BY <1>6, <2>2
<1>9. \A k \in 0..n : k \in T
  <2> HIDE DEF T
  <2> QED
    BY <1>7, <1>8, InductionUpTo
<1>10. n \in T
  BY <1>9
<1> QED
  BY <1>5, <1>10

Ascending(cls, c) == \A i \in c, k \in c : i < k => cls[i] <= cls[k]

\* Followed back from a row: as many rows as its pile has before it, and itself.
ChainTo(c, k, cls, P) ==
  /\ c \subseteq 1..k /\ k \in c /\ IsFiniteSet(c) /\ Cardinality(c) = P[k]
  /\ Ascending(cls, c) /\ \A x \in c : cls[x] <= cls[k]

LEMMA FollowedBack ==
  ASSUME NEW n \in Nat, NEW cls \in [1..n -> Nat], NEW s, NEW P, Piles(s, cls, n, P),
         NEW f, f[0] = {}, \A k \in 1..n : f[k] = {k} \cup f[s.parent[k]]
  PROVE  \A k \in 1..n : ChainTo(f[k], k, cls, P)
<1>1. P \in [1..n -> Nat] /\ Linked(s, cls, n, P)
  BY DEF Piles
<1> DEFINE T == {m \in 0..n : \A k \in 1..m : ChainTo(f[k], k, cls, P)}
<1>2. 0 \in T
  OBVIOUS
<1>3. ASSUME NEW m \in 1..n, m - 1 \in T PROVE m \in T
  <2>1. \A k \in 1..m - 1 : ChainTo(f[k], k, cls, P)
    BY <1>3
  <2>2. PICK b, c, d : b = s.parent[m] /\ c = f[m] /\ d = f[b]
    OBVIOUS
  <2>3. c = {m} \cup d
    BY <2>2
  <2>4. /\ b \in 0..m - 1 /\ (b = 0 => P[m] = 1)
        /\ b # 0 => P[m] = P[b] + 1 /\ cls[b] <= cls[m]
    BY <1>1, <2>2 DEF Linked
  <2>5. cls[m] \in Nat
    OBVIOUS
  <2>6. CASE b = 0
    <3>1. c = {m}
      BY <2>2, <2>3, <2>6
    <3>2. IsFiniteSet({m}) /\ Cardinality({m}) = 1
      BY FS_Singleton
    <3>3. ChainTo(c, m, cls, P)
      BY <2>4, <2>5, <2>6, <3>1, <3>2 DEF ChainTo, Ascending
    <3> QED
      BY <2>1, <2>2, <3>3
  <2>7. CASE b # 0
    <3>1. b \in 1..m - 1 /\ b \in 1..n
      BY <2>4, <2>7
    <3>2. ChainTo(d, b, cls, P)
      BY <2>1, <2>2, <3>1
    <3>3. /\ d \subseteq 1..b /\ IsFiniteSet(d) /\ Cardinality(d) = P[b]
          /\ Ascending(cls, d) /\ \A x \in d : cls[x] <= cls[b]
      BY <3>2 DEF ChainTo
    <3>4. m \notin d /\ d \subseteq 1..m
      BY <3>1, <3>3
    <3>5. IsFiniteSet(d \cup {m}) /\ Cardinality(d \cup {m}) = Cardinality(d) + 1
      BY <3>3, <3>4, FS_AddElement
    <3>6. c = d \cup {m}
      BY <2>3
    <3>7. ASSUME NEW x \in c PROVE cls[x] <= cls[m]
      <4>1. CASE x = m
        BY <2>5, <4>1
      <4>2. CASE x \in d
        <5>1. x \in 1..n /\ cls[x] \in Nat /\ cls[b] \in Nat
          BY <3>1, <3>4, <4>2
        <5>2. cls[x] <= cls[b] /\ cls[b] <= cls[m]
          BY <2>4, <2>7, <3>3, <4>2
        <5> QED
          BY <2>5, <5>1, <5>2
      <4> QED
        BY <3>6, <4>1, <4>2
    <3>8. Ascending(cls, c)
      <4> SUFFICES ASSUME NEW i \in c, NEW k \in c, i < k PROVE cls[i] <= cls[k]
        BY DEF Ascending
      <4>1. CASE k = m
        BY <3>7, <4>1
      <4>2. CASE k # m
        <5>1. k \in d /\ k < m
          BY <3>4, <3>6, <4>2
        <5>2. i # m
          <6>1. i \in Int /\ k \in Int
            BY <3>4, <3>6
          <6> QED
            BY <5>1, <6>1
        <5>3. i \in d
          BY <3>6, <5>2
        <5> QED
          BY <3>3, <5>1, <5>3 DEF Ascending
      <4> QED
        BY <4>1, <4>2
    <3>9. Cardinality(c) = P[m]
      <4>1. Cardinality(c) = Cardinality(d) + 1
        BY <3>5, <3>6, Zenon
      <4>2. Cardinality(d) = P[b] /\ P[m] = P[b] + 1
        BY <2>4, <2>7, <3>3
      <4> QED
        BY <4>1, <4>2
    <3>10. c \subseteq 1..m /\ m \in c /\ IsFiniteSet(c)
      <4>1. IsFiniteSet(c)
        BY <3>5, <3>6, Zenon
      <4>2. m \in 1..m
        OBVIOUS
      <4>3. c \subseteq 1..m /\ m \in c
        BY <3>4, <3>6, <4>2
      <4> QED
        BY <4>1, <4>3
    <3>11. ChainTo(c, m, cls, P)
      BY <3>7, <3>8, <3>9, <3>10 DEF ChainTo
    <3> QED
      BY <2>1, <2>2, <3>11
  <2> QED
    BY <2>6, <2>7
<1>4. \A m \in 0..n : m \in T
  <2> HIDE DEF T
  <2> QED
    BY <1>2, <1>3, InductionUpTo
<1>5. n \in T
  BY <1>4
<1> QED
  BY <1>5

\* The chain ascends, and there is a numbering up to its length that rises along
\* every ascent of the rows.
LEMMA ChainIs ==
  ASSUME NEW n \in Nat \ {0}, NEW cls \in [1..n -> Nat]
  PROVE  /\ Chain(cls) \subseteq 1..n /\ Chain(cls) # {} /\ IsFiniteSet(Chain(cls))
         /\ Ascending(cls, Chain(cls))
         /\ \E P \in [1..n -> 1..Cardinality(Chain(cls))] : Rising(cls, n, P)
<1>1. PICK s, P : s = Patience(cls) /\ Piles(s, cls, n, P)
  BY PatienceIs
<1>2. /\ s \in Piled /\ P \in [1..n -> Nat] /\ OnTop(s, n, P) /\ Covered(s, cls, n, P)
      /\ Linked(s, cls, n, P) /\ Rising(cls, n, P)
  BY <1>1 DEF Piles
<1>3. PICK L : L = Len(s.top)
  OBVIOUS
<1>4. L \in Nat \ {0}
  <2>1. 1 \in 1..n
    OBVIOUS
  <2>2. P[1] \in 1..L
    BY <1>2, <1>3, <2>1 DEF Covered
  <2>3. L \in Nat
    BY <1>2, <1>3 DEF Piled
  <2> QED
    BY <2>2, <2>3
<1> DEFINE F == [x \in (SUBSET Nat) \X (1..n) |-> {x[2]} \cup x[1]]
           back == [k \in 1..n |-> s.parent[k]]
           Solves(f) == f = [k \in 0..n |-> IF k = 0 THEN {} ELSE {k} \cup f[s.parent[k]]]
           g == CHOOSE f : Solves(f)
<1>5. \A k \in 1..n : s.parent[k] \in 0..k - 1
  BY <1>2 DEF Linked
<1>6. back \in [1..n -> Nat] /\ \A k \in 1..n : back[k] < k
  BY <1>5
<1>7. F \in [(SUBSET Nat) \X (1..n) -> SUBSET Nat]
  OBVIOUS
<1>8. PICK f \in [0..n -> SUBSET Nat] : Recurs(f, n, {}, back, F)
  <2> HIDE DEF F, back
  <2>1. {} \in SUBSET Nat
    OBVIOUS
  <2> QED
    BY <1>6, <1>7, <2>1, RecursionSolved
<1>9. Solves(f)
  <2>1. ASSUME NEW k \in 0..n
        PROVE  f[k] = IF k = 0 THEN {} ELSE {k} \cup f[s.parent[k]]
    <3>1. f[k] = IF k = 0 THEN {} ELSE F[<<f[back[k]], k>>]
      <4> HIDE DEF F, back
      <4>1. f = [j \in 0..n |-> IF j = 0 THEN {} ELSE F[<<f[back[j]], j>>]]
        BY <1>8, Zenon DEF Recurs
      <4> QED
        BY <4>1, Zenon
    <3>2. ASSUME k # 0 PROVE F[<<f[back[k]], k>>] = {k} \cup f[s.parent[k]]
      <4>1. k \in 1..n
        BY <3>2
      <4>2. back[k] = s.parent[k] /\ s.parent[k] \in 0..n
        BY <1>5, <4>1
      <4>3. f[s.parent[k]] \in SUBSET Nat
        BY <4>2
      <4> HIDE DEF back
      <4> QED
        BY <4>1, <4>2, <4>3
    <3> HIDE DEF F, back
    <3> QED
      BY <3>1, <3>2
  <2> HIDE DEF F, back
  <2> QED
    BY <2>1
<1>10. Solves(g)
  BY <1>9
<1>11. Chain(cls) = g[s.top[L]]
  <2>1. Len(cls) = n
    OBVIOUS
  <2> QED
    BY <1>1, <1>3, <2>1 DEF Chain
<1> HIDE DEF g, F, back
<1>12. g[0] = {} /\ \A k \in 1..n : g[k] = {k} \cup g[s.parent[k]]
  <2>1. ASSUME NEW k \in 0..n
        PROVE  g[k] = IF k = 0 THEN {} ELSE {k} \cup g[s.parent[k]]
    BY <1>10, Zenon
  <2>2. 0 \in 0..n /\ \A k \in 1..n : k \in 0..n /\ k # 0
    OBVIOUS
  <2> QED
    BY <2>1, <2>2, Zenon
<1>13. PICK last : last = s.top[L]
  OBVIOUS
<1>14. last \in 1..n /\ P[last] = L
  BY <1>2, <1>3, <1>4, <1>13 DEF OnTop
<1>15. ChainTo(g[last], last, cls, P)
  BY <1>1, <1>12, <1>14, FollowedBack
<1>16. PICK c : c = Chain(cls)
  OBVIOUS
<1>17. /\ c \subseteq 1..last /\ last \in c /\ IsFiniteSet(c) /\ Cardinality(c) = L
       /\ Ascending(cls, c)
  BY <1>11, <1>13, <1>14, <1>15, <1>16 DEF ChainTo
<1>18. P \in [1..n -> 1..Cardinality(c)]
  BY <1>2, <1>3, <1>17 DEF Covered
<1>19. c \subseteq 1..n /\ c # {}
  BY <1>14, <1>17
<1> QED
  BY <1>2, <1>16, <1>17, <1>18, <1>19

\* Of more rows than piles, two lie on one.
Shared(S, f) == \E x \in S : \E y \in S : x # y /\ f[x] = f[y]

LEMMA TwoShare ==
  ASSUME NEW S, NEW T, NEW f \in [S -> T], IsFiniteSet(S), IsFiniteSet(T),
         Cardinality(T) < Cardinality(S)
  PROVE  Shared(S, f)
<1>1. \E x, y \in S : x # y /\ f[x] = f[y]
  BY FS_PigeonHole
<1> QED
  BY <1>1 DEF Shared

\* No chain that does not descend is longer.
LEMMA ChainLongest ==
  ASSUME NEW n \in Nat \ {0}, NEW cls \in [1..n -> Nat],
         NEW c \in SUBSET (1..n), Ascending(cls, c)
  PROVE  Cardinality(c) <= Cardinality(Chain(cls))
<1>1. PICK size : size = Cardinality(Chain(cls))
  OBVIOUS
<1>2. size \in Nat
  BY <1>1, ChainIs, FS_CardinalityType
<1>3. PICK P \in [1..n -> 1..size] : Rising(cls, n, P)
  BY <1>1, ChainIs
<1>4. IsFiniteSet(1..size) /\ Cardinality(1..size) = size
  BY <1>2, FS_Interval
<1>5. IsFiniteSet(1..n)
  BY FS_Interval
<1>6. IsFiniteSet(c) /\ Cardinality(c) \in Nat
  BY <1>5, FS_Subset, FS_CardinalityType
<1> SUFFICES ASSUME size < Cardinality(c) PROVE FALSE
  BY <1>1, <1>2, <1>6
<1>7. PICK f : f = [x \in c |-> P[x]]
  OBVIOUS
<1>8. f \in [c -> 1..size]
  <2>1. \A x \in c : P[x] \in 1..size
    OBVIOUS
  <2> QED
    BY <1>7, <2>1
<1>9. PICK x \in c, y \in c : x # y /\ f[x] = f[y]
  <2>1. PICK T : T = 1..size
    OBVIOUS
  <2>2. IsFiniteSet(c) /\ IsFiniteSet(T) /\ Cardinality(T) < Cardinality(c) /\ f \in [c -> T]
    BY <1>4, <1>6, <1>8, <2>1
  <2>3. Shared(c, f)
    BY <2>2, TwoShare
  <2> QED
    BY <2>3 DEF Shared
<1>10. ASSUME NEW i \in c, NEW k \in c, i < k PROVE P[i] # P[k]
  <2>1. cls[i] <= cls[k] /\ i \in 1..n /\ k \in 1..n
    BY <1>10 DEF Ascending
  <2>2. P[i] < P[k] /\ P[i] \in 1..size /\ P[k] \in 1..size
    BY <1>3, <1>10, <2>1 DEF Rising
  <2> QED
    BY <2>2
<1>11. x \in 1..n /\ y \in 1..n /\ (x < y \/ y < x) /\ P[x] = P[y]
  BY <1>7, <1>9
<1> QED
  BY <1>10, <1>11

-----------------------------------------------------------------------------
(* From the chain to classes that do not descend.                          *)

LEMMA GreatestOf ==
  ASSUME NEW n \in Nat, NEW A, A \subseteq 0..n, A # {}
  PROVE  \E x \in A : \A y \in A : y <= x
<1> DEFINE T == {n - x : x \in A}
<1>1. T \subseteq Nat /\ T # {}
  <2>1. ASSUME NEW x \in A PROVE n - x \in Nat
    <3>1. x \in 0..n
      OBVIOUS
    <3> QED
      BY <3>1
  <2>2. PICK x : x \in A
    OBVIOUS
  <2>3. n - x \in T
    BY <2>2
  <2> QED
    BY <2>1, <2>3
<1>2. PICK t \in T : \A y \in T : t <= y
  <2> HIDE DEF T
  <2> QED
    BY <1>1, LeastNat
<1>3. PICK x \in A : t = n - x
  OBVIOUS
<1>4. ASSUME NEW y \in A PROVE y <= x
  <2>1. n - y \in T
    OBVIOUS
  <2>2. t <= n - y
    <3> HIDE DEF T
    <3> QED
      BY <1>2, <2>1
  <2>3. x \in 0..n /\ y \in 0..n
    OBVIOUS
  <2> QED
    BY <1>3, <2>2, <2>3
<1> QED
  BY <1>4

LEMMA AnchorsAre ==
  ASSUME NEW n \in Nat \ {0}, NEW cls \in [1..n -> Nat], NEW sure
  PROVE  Anchors(cls, sure) \subseteq 1..n /\ Anchors(cls, sure) # {}
<1>1. PICK kept : kept = Chain(cls) \cap sure
  OBVIOUS
<1>2. Chain(cls) \subseteq 1..n /\ Chain(cls) # {}
  BY ChainIs
<1>3. CASE Cardinality(kept) >= 2
  <2>1. Cardinality({}) = 0
    BY FS_EmptySet
  <2>2. kept # {}
    <3>1. SUFFICES ASSUME kept = {} PROVE FALSE
      OBVIOUS
    <3>2. Cardinality(kept) = 0
      BY <2>1, <3>1, Zenon
    <3> QED
      BY <1>3, <3>2
  <2> QED
    BY <1>1, <1>2, <1>3, <2>2 DEF Anchors
<1>4. CASE ~(Cardinality(kept) >= 2)
  BY <1>1, <1>2, <1>4 DEF Anchors
<1> QED
  BY <1>3, <1>4

LEMMA InterpolatedTyped ==
  ASSUME NEW n \in Nat, NEW cls \in [1..n -> Nat], NEW A, A \subseteq 1..n, A # {}
  PROVE  Interpolated(cls, A) \in [1..n -> Int]
<1> DEFINE First == CHOOSE i \in A : \A k \in A : i <= k
           Final == CHOOSE i \in A : \A k \in A : i >= k
           Before(j) == CHOOSE i \in A : i < j /\ \A k \in A : k < j => k <= i
           After(j)  == CHOOSE i \in A : i > j /\ \A k \in A : k > j => k >= i
           At(j) == IF j \in A THEN cls[j]
                    ELSE IF j < First THEN Later(0, cls[First] - (First - j))
                    ELSE IF j > Final THEN cls[Final] + (j - Final)
                    ELSE LET a == Before(j)
                             b == After(j)
                         IN cls[a] + ((j - a) * (cls[b] - cls[a])) \div (b - a)
<1>1. First \in A /\ \A k \in A : First <= k
  <2>1. \E i \in A : \A k \in A : i <= k
    <3>1. A \subseteq Nat
      OBVIOUS
    <3> QED
      BY <3>1, LeastNat
  <2> QED
    BY <2>1
<1>2. Final \in A /\ \A k \in A : Final >= k
  <2>1. \E i \in A : \A k \in A : k <= i
    <3>1. A \subseteq 0..n
      OBVIOUS
    <3> QED
      BY <3>1, GreatestOf
  <2>2. \E i \in A : \A k \in A : i >= k
    BY <2>1
  <2> QED
    BY <2>2
<1> HIDE DEF First, Final
<1>3. cls[First] \in Nat /\ First \in 1..n /\ cls[Final] \in Nat /\ Final \in 1..n
  BY <1>1, <1>2
<1>4. ASSUME NEW j \in 1..n PROVE At(j) \in Int
  <2>1. CASE j \in A
    BY <2>1
  <2>2. CASE j \notin A /\ j < First
    BY <1>3, <2>2 DEF Later
  <2>3. CASE j \notin A /\ ~(j < First) /\ j > Final
    BY <1>3, <2>3
  <2>4. CASE j \notin A /\ ~(j < First) /\ ~(j > Final)
    <3>1. First < j /\ Final > j
      BY <1>1, <1>2, <1>3, <2>4
    <3> DEFINE Lower == {i \in A : i < j}
               Upper == {i \in A : i > j}
    <3>2. Lower \subseteq 0..n /\ Lower # {} /\ Upper \subseteq Nat /\ Upper # {}
      <4>1. First \in Lower
        BY <1>1, <3>1
      <4>2. Final \in Upper
        BY <1>2, <3>1
      <4>3. Lower \subseteq A /\ Upper \subseteq A
        OBVIOUS
      <4>4. A \subseteq 0..n /\ A \subseteq Nat
        OBVIOUS
      <4> HIDE DEF Lower, Upper
      <4> QED
        BY <4>1, <4>2, <4>3, <4>4
    <3>3. PICK x \in Lower : \A k \in Lower : k <= x
      <4> HIDE DEF Lower, Upper
      <4> QED
        BY <3>2, GreatestOf
    <3>4. PICK y \in Upper : \A k \in Upper : y <= k
      <4> HIDE DEF Lower, Upper
      <4> QED
        BY <3>2, LeastNat
    <3>5. x \in A /\ x < j /\ \A k \in A : k < j => k <= x
      BY <3>3
    <3>6. y \in A /\ y > j /\ \A k \in A : k > j => k >= y
      BY <3>4
    <3>7. Before(j) \in A /\ Before(j) < j
      BY <3>5
    <3>8. After(j) \in A /\ After(j) > j
      BY <3>6
    <3>9. PICK a, b : a = Before(j) /\ b = After(j)
      OBVIOUS
    <3> HIDE DEF Before, After
    <3>10. a \in 1..n /\ b \in 1..n /\ cls[a] \in Nat /\ cls[b] \in Nat /\ b - a \in Nat \ {0}
      <4>1. a \in A /\ a < j /\ b \in A /\ j < b
        BY <3>7, <3>8, <3>9
      <4>2. a \in 1..n /\ b \in 1..n
        BY <4>1
      <4>3. cls[a] \in Nat /\ cls[b] \in Nat
        BY <4>2
      <4> QED
        BY <4>1, <4>2, <4>3
    <3>11. PICK p, d : p = (j - a) * (cls[b] - cls[a]) /\ d = b - a
      OBVIOUS
    <3>12. p \in Int /\ d \in Nat \ {0}
      BY <3>10, <3>11
    <3>13. p \div d \in Int
      BY <3>12
    <3>14. At(j) = cls[a] + p \div d
      BY <2>4, <3>9, <3>11
    <3> QED
      BY <3>10, <3>13, <3>14
  <2> QED
    BY <2>1, <2>2, <2>3, <2>4
<1>5. Interpolated(cls, A) = [j \in 1..n |-> At(j)]
  BY DEF Interpolated, First, Final
<1> HIDE DEF At
<1> QED
  BY <1>4, <1>5

Classed(n) == [1..n -> Int]

\* The pass that spaces words, and the values it has on its way.
LEMMA SpacedBy ==
  ASSUME NEW n \in Nat, NEW cls \in Classed(n)
  PROVE  \E g \in [0..n -> Classed(n)] :
           /\ Spaced(cls) = g[n] /\ g[0] = cls
           /\ \A k \in 1..n : g[k] = SpacedAt(g[k - 1], k)
<1> DEFINE S == Classed(n)
           F == [x \in S \X (1..n) |-> SpacedAt(x[1], x[2])]
           Solves(f) == f = [k \in 0..n |-> IF k = 0 THEN cls ELSE SpacedAt(f[k - 1], k)]
           g == CHOOSE f : Solves(f)
<1>1. ASSUME NEW c \in S, NEW i \in 1..n PROVE SpacedAt(c, i) \in S
  <2>1. CASE i = 1
    BY <2>1 DEF SpacedAt
  <2>2. CASE i # 1
    <3>1. c[i] \in Int /\ i - 1 \in 1..n /\ c[i - 1] \in Int
      BY <2>2 DEF Classed
    <3>2. PICK x : x = Later(c[i], IF i % 2 = 0 THEN c[i - 1] + 1 ELSE c[i - 1])
      OBVIOUS
    <3>3. x \in Int
      BY <3>1, <3>2 DEF Later
    <3>4. SpacedAt(c, i) = [c EXCEPT ![i] = x]
      BY <2>2, <3>2 DEF SpacedAt
    <3> QED
      BY <3>3, <3>4 DEF Classed
  <2> QED
    BY <2>1, <2>2
<1>2. F \in [S \X (1..n) -> S]
  BY <1>1
<1>3. PICK f \in [0..n -> S] : Stepwise(f, n, cls, F)
  <2> HIDE DEF F, S
  <2>1. cls \in S
    BY DEF S
  <2> QED
    BY <1>2, <2>1, StepByStep, Zenon
<1>4. Solves(f)
  <2>1. ASSUME NEW k \in 1..n PROVE f[k] = SpacedAt(f[k - 1], k)
    <3>1. f[k - 1] \in S
      OBVIOUS
    <3>2. f[k] = F[<<f[k - 1], k>>]
      BY <1>3 DEF Stepwise
    <3> QED
      BY <3>1, <3>2
  <2>2. ASSUME NEW k \in 0..n PROVE f[k] = IF k = 0 THEN cls ELSE SpacedAt(f[k - 1], k)
    BY <1>3, <2>1 DEF Stepwise
  <2> HIDE DEF F, S
  <2> QED
    BY <2>2
<1>5. Solves(g)
  BY <1>4
<1>6. Spaced(cls) = g[n]
  <2>1. Len(cls) = n
    BY DEF Classed
  <2> QED
    BY <2>1 DEF Spaced, Pass
<1> HIDE DEF g
<1>7. g[0] = cls /\ (\A k \in 1..n : g[k] = SpacedAt(g[k - 1], k)) /\ DOMAIN g = 0..n
  BY <1>5
<1>8. g = [k \in 0..n |-> g[k]]
  <2>1. g = [k \in 0..n |-> IF k = 0 THEN cls ELSE SpacedAt(g[k - 1], k)]
    BY <1>5
  <2> QED
    BY <2>1
<1> DEFINE T == {k \in 0..n : g[k] \in S}
<1>9. 0 \in T
  BY <1>7
<1>10. ASSUME NEW k \in 1..n, k - 1 \in T PROVE k \in T
  BY <1>1, <1>7, <1>10
<1>11. \A k \in 0..n : k \in T
  <2> HIDE DEF T
  <2> QED
    BY <1>9, <1>10, InductionUpTo
<1>12. g \in [0..n -> S]
  BY <1>8, <1>11
<1> QED
  BY <1>6, <1>7, <1>12

LEMMA MonotonizedTyped ==
  ASSUME NEW n \in Nat \ {0}, NEW cls \in [1..n -> Nat], NEW sure
  PROVE  LisMonotonize(cls, sure) \in Classed(n)
<1>1. Interpolated(cls, Anchors(cls, sure)) \in Classed(n)
  BY AnchorsAre, InterpolatedTyped DEF Classed
<1> QED
  BY <1>1, SpacedBy DEF LisMonotonize

InOrder(cls, n) ==
  Ascending(cls, 1..n) /\ \A i \in 1..n : i % 2 = 0 => cls[i - 1] < cls[i]

\* Predictions in order, all of them sure, are all on the chain and stay.
LEMMA OrderStays ==
  ASSUME NEW n \in Nat \ {0}, NEW cls \in [1..n -> Nat], InOrder(cls, n)
  PROVE  LisMonotonize(cls, 1..n) = cls
<1>1. Chain(cls) = 1..n
  <2>1. PICK c, r : c = Chain(cls) /\ r = 1..n
    OBVIOUS
  <2>2. c \in SUBSET r /\ IsFiniteSet(r)
    <3>1. c \subseteq 1..n
      BY <2>1, ChainIs
    <3>2. IsFiniteSet(1..n)
      BY FS_Interval
    <3> QED
      BY <2>1, <3>1, <3>2
  <2>3. Cardinality(r) <= Cardinality(c)
    BY <2>1, ChainLongest DEF InOrder
  <2>4. Cardinality(c) <= Cardinality(r) /\ Cardinality(c) \in Nat /\ Cardinality(r) \in Nat
    BY <2>2, FS_Subset, FS_CardinalityType
  <2>5. Cardinality(r) = Cardinality(c)
    BY <2>3, <2>4
  <2> QED
    BY <2>1, <2>2, <2>5, FS_Subset
<1>2. Anchors(cls, 1..n) = 1..n
  BY <1>1 DEF Anchors
<1>3. Interpolated(cls, 1..n) = cls
  BY DEF Interpolated
<1>4. cls \in Classed(n)
  BY DEF Classed
<1>5. PICK g \in [0..n -> Classed(n)] :
        /\ Spaced(cls) = g[n] /\ g[0] = cls
        /\ \A k \in 1..n : g[k] = SpacedAt(g[k - 1], k)
  BY <1>4, SpacedBy, SMTT(40)
<1>6. ASSUME NEW i \in 1..n PROVE SpacedAt(cls, i) = cls
  <2>1. CASE i = 1
    BY <2>1 DEF SpacedAt
  <2>2. CASE i # 1
    <3>1. i - 1 \in 1..n /\ i - 1 < i /\ cls[i] \in Nat /\ cls[i - 1] \in Nat
      BY <2>2
    <3>2. cls[i - 1] <= cls[i] /\ (i % 2 = 0 => cls[i - 1] < cls[i])
      BY <3>1 DEF InOrder, Ascending
    <3>3. Later(cls[i], IF i % 2 = 0 THEN cls[i - 1] + 1 ELSE cls[i - 1]) = cls[i]
      BY <3>1, <3>2 DEF Later
    <3>4. SpacedAt(cls, i) = [cls EXCEPT ![i] = cls[i]]
      BY <2>2, <3>3 DEF SpacedAt
    <3> QED
      BY <3>4
  <2> QED
    BY <2>1, <2>2
<1> DEFINE T == {k \in 0..n : g[k] = cls}
<1>7. 0 \in T
  BY <1>5
<1>8. ASSUME NEW k \in 1..n, k - 1 \in T PROVE k \in T
  BY <1>5, <1>6, <1>8
<1>9. \A k \in 0..n : k \in T
  <2> HIDE DEF T
  <2> QED
    BY <1>7, <1>8, InductionUpTo
<1>10. n \in T
  BY <1>9
<1> QED
  BY <1>2, <1>3, <1>5, <1>10 DEF LisMonotonize

-----------------------------------------------------------------------------
(* The timings.                                                            *)

Predicted(n, rms, cls, sure) ==
  job = [kind |-> "times", at |-> "predicted", cls |-> cls, sure |-> sure, rms |-> rms,
         ts |-> <<>>]

TimesIInv ==
  \/ \E n \in TimedWords, rms \in Ladders :
       \E cls \in [1..2 * n -> Classes], sure \in SUBSET (1..2 * n) :
         Predicted(n, rms, cls, sure)
  \/ job.at = "end" /\ TimesInOrder

LEMMA TimesStart == FaTimingsAssumption /\ TimesInit => TimesIInv
BY DEF TimesInit, TimesIInv, Predicted

LEMMA TimesKeep == FaTimingsAssumption /\ TimesIInv /\ [TimeWords]_job => TimesIInv'
<1> SUFFICES ASSUME FaTimingsAssumption, TimesIInv, TimeWords PROVE TimesIInv'
  BY DEF TimesIInv, TimesInOrder, Predicted, Kind
<1>1. job.at = "predicted"
  BY DEF TimeWords
<1>2. PICK n \in TimedWords, rms \in Ladders :
        \E cls \in [1..2 * n -> Classes], sure \in SUBSET (1..2 * n) : Predicted(n, rms, cls, sure)
  BY <1>1 DEF TimesIInv
<1>3. PICK cls \in [1..2 * n -> Classes], sure \in SUBSET (1..2 * n) : Predicted(n, rms, cls, sure)
  BY <1>2
<1>4. job.cls = cls /\ job.sure = sure /\ job.rms = rms
  BY <1>3 DEF Predicted
<1>5. PICK m : m = 2 * n
  OBVIOUS
<1>6. n \in Nat \ {0} /\ m \in Nat \ {0} /\ rms \in Seq(Nat) /\ rms # <<>>
  BY <1>5 DEF FaTimingsAssumption
<1>7. cls \in [1..m -> Nat]
  BY <1>5 DEF FaTimingsAssumption
<1>8. PICK made : made = LisMonotonize(cls, sure)
  OBVIOUS
<1>9. made \in Classed(m)
  BY <1>6, <1>7, <1>8, MonotonizedTyped
<1>10. Len(made) \div 2 = n /\ \A w \in 1..n : made[2 * w - 1] \in Int /\ made[2 * w] \in Int
  <2>1. Len(made) = m
    BY <1>6, <1>9 DEF Classed
  <2>2. \A w \in 1..n : 2 * w - 1 \in 1..m /\ 2 * w \in 1..m
    BY <1>5, <1>6
  <2> QED
    BY <1>5, <1>6, <1>9, <2>1, <2>2 DEF Classed
<1>11. PICK ts :
         ts = [w \in 1..n |-> [t0 |-> made[2 * w - 1] * ClassBins, t1 |-> made[2 * w] * ClassBins]]
  OBVIOUS
<1>12. ts \in Times(n)
  BY <1>10, <1>11 DEF Times, TimedWord, ClassBins
<1>13. job' = [job EXCEPT !.at = "end", !.ts = RefineBounds(rms, ts)]
  BY <1>4, <1>8, <1>10, <1>11 DEF TimeWords
<1>14. job'.at = "end" /\ job'.ts = RefineBounds(rms, ts) /\ job'.rms = rms
  BY <1>3, <1>4, <1>13 DEF Predicted
<1>15. PICK out : out = RefineBounds(rms, ts)
  OBVIOUS
<1>16. /\ out \in Times(n) /\ Ordered(out, n)
       /\ \A v \in 2..n : ~LoudGap(rms, out[v - 1].t1, out[v].t0)
  BY <1>6, <1>12, <1>15, RefinedInOrder DEF OrderedTimes
<1>17. DOMAIN out = 1..n
  BY <1>16 DEF Times
<1>18. ASSUME NEW w \in 1..n
       PROVE  /\ 0 <= out[w].t0 /\ out[w].t0 < out[w].t1
              /\ w > 1 => /\ out[w - 1].t1 <= out[w].t0
                          /\ ~LoudGap(rms, out[w - 1].t1, out[w].t0)
  <2>1. /\ 0 <= out[w].t0 /\ out[w].t0 < out[w].t1
        /\ w > 1 => out[w - 1].t1 <= out[w].t0
    BY <1>16 DEF Ordered
  <2>2. w > 1 => w \in 2..n
    BY <1>6
  <2>3. w > 1 => ~LoudGap(rms, out[w - 1].t1, out[w].t0)
    BY <1>16, <2>2
  <2> QED
    BY <2>1, <2>3
<1>19. TimesInOrder'
  BY <1>14, <1>15, <1>17, <1>18 DEF TimesInOrder
<1> QED
  BY <1>14, <1>19 DEF TimesIInv

LEMMA TimesRight == FaTimingsAssumption /\ TimesIInv => TimingsSound
<1> SUFFICES ASSUME FaTimingsAssumption, TimesIInv PROVE LisIsLongest /\ TimesInOrder
  BY DEF TimingsSound
<1>1. CASE job.at = "end" /\ TimesInOrder
  BY <1>1 DEF LisIsLongest
<1>2. CASE \E n \in TimedWords, rms \in Ladders :
             \E cls \in [1..2 * n -> Classes], sure \in SUBSET (1..2 * n) :
               Predicted(n, rms, cls, sure)
  <2>1. PICK n \in TimedWords, rms \in Ladders :
          \E cls \in [1..2 * n -> Classes], sure \in SUBSET (1..2 * n) :
            Predicted(n, rms, cls, sure)
    BY <1>2
  <2>2. PICK cls \in [1..2 * n -> Classes], sure \in SUBSET (1..2 * n) :
          Predicted(n, rms, cls, sure)
    BY <2>1
  <2>3. job.cls = cls /\ job.sure = sure /\ job.at = "predicted"
    BY <2>2 DEF Predicted
  <2>4. PICK m : m = 2 * n
    OBVIOUS
  <2>5. m \in Nat \ {0} /\ cls \in [1..m -> Nat]
    <3>1. n \in Nat \ {0} /\ Classes \subseteq Nat
      BY DEF FaTimingsAssumption
    <3>2. m \in Nat \ {0}
      BY <2>4, <3>1
    <3> QED
      BY <2>4, <3>1, <3>2
  <2>6. Ascending(cls, Chain(cls))
    BY <2>5, ChainIs
  <2>7. \A c \in SUBSET (1..m) : Ascending(cls, c) => Cardinality(c) <= Cardinality(Chain(cls))
    BY <2>5, ChainLongest
  <2>8. InOrder(cls, m) => LisMonotonize(cls, 1..m) = cls
    BY <2>5, OrderStays
  <2>9. DOMAIN cls = 1..m
    BY <2>5
  <2>10. LisIsLongest
    BY <2>3, <2>6, <2>7, <2>8, <2>9 DEF LisIsLongest, Ascending, InOrder
  <2> QED
    BY <2>3, <2>10 DEF TimesInOrder
<1> QED
  BY <1>1, <1>2 DEF TimesIInv

\* For any classes predicted, any of them sure, and any loudness of the audio: the
\* chain kept is the longest, predictions in order are left alone, and the words'
\* times are in order, each lasts, and no long gap between two is mostly speech
\* (qwen3_fa_lis_monotonize, qwen3_fa_audio_refine_bounds).
THEOREM TimesAreSound == TimesSpec => []TimingsSound
<1>1. TimesInit => TimesIInv
  BY TimesStart, FaTimingsAssumption
<1>2. TimesIInv /\ [TimeWords]_job => TimesIInv'
  BY TimesKeep, FaTimingsAssumption
<1>3. TimesIInv => TimingsSound
  BY TimesRight, FaTimingsAssumption
<1> QED
  BY <1>1, <1>2, <1>3, PTL DEF TimesSpec

=============================================================================
