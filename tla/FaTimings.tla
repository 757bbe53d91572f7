----------------------------- MODULE FaTimings -----------------------------
(***************************************************************************)
(* From the classes the aligner's model predicts to the times of words.    *)
(* Two classes a word, its start and its end: they are made monotone along *)
(* the longest chain that is, then turned into times and moved to the      *)
(* edges of speech that the loudness of the audio shows.                   *)
(*                                                                         *)
(* Time is counted in bins of the loudness ladder (40 ms): a class is two  *)
(* of them. Loudness is a small number; a bin is loud above three tenths   *)
(* of the median.                                                          *)
(***************************************************************************)
EXTENDS Integers, FiniteSets, SequencesExt, Job

CONSTANTS Classes,    \* classes a row may predict
          TimedWords, \* numbers of words
          Ladders,    \* loudness of the audio's bins
          Window      \* bins a boundary is walked by, QWEN3_FA_AUDIO_REFINE

ASSUME FaTimingsAssumption ==
  /\ Classes \subseteq Nat /\ TimedWords \subseteq Nat \ {0} /\ Window \in Nat \ {0}
  /\ Ladders \subseteq Seq(Nat) \ {<<>>}

ClassBins == 2  \* 80 ms
GapMin    == 3  \* QWEN3_FA_AUDIO_REFINE_GAP_MIN_MS, 120 ms

Later(a, b) == IF a > b THEN a ELSE b
Sooner(a, b) == IF a < b THEN a ELSE b

\* What a pass over the elements of s, first to last, makes of it.
Pass(s, At(_, _)) ==
  LET after[n \in 0..Len(s)] == IF n = 0 THEN s ELSE At(after[n - 1], n) IN after[Len(s)]

-----------------------------------------------------------------------------
(* lis_monotonize: patience sorting. top[p] is the row that ends the best  *)
(* chain of p rows, parent the row before it on its chain.               *)

\* Mutant: a row equal to the end of a chain does not go on with it.
PlaceAtEqual(s, cls, val) == Cardinality({p \in DOMAIN s.top : cls[s.top[p]] < val}) + 1

\* upper_bound over the ends of the chains.
PlaceOf(s, cls, val) == Cardinality({p \in DOMAIN s.top : cls[s.top[p]] <= val}) + 1

Dealt(s, cls, i) ==
  LET p == PlaceOf(s, cls, cls[i])
  IN [top    |-> IF p > Len(s.top) THEN Append(s.top, i) ELSE [s.top EXCEPT ![p] = i],
      parent |-> Append(s.parent, IF p > 1 THEN s.top[p - 1] ELSE 0)]

Patience(cls) ==
  LET after[n \in 0..Len(cls)] ==
        IF n = 0 THEN [top |-> <<>>, parent |-> <<>>] ELSE Dealt(after[n - 1], cls, n)
  IN after[Len(cls)]

\* The longest chain, followed back from its end.
Chain(cls) ==
  LET s == Patience(cls)
      back[k \in 0..Len(cls)] == IF k = 0 THEN {} ELSE {k} \cup back[s.parent[k]]
  IN back[s.top[Len(s.top)]]

\* Rows of low confidence are no anchors, unless fewer than two are left.
Anchors(cls, sure) ==
  LET kept == Chain(cls) \cap sure
  IN IF Cardinality(kept) >= 2 THEN kept ELSE Chain(cls)

\* Rows that are no anchors: a class a row back from the first, on from the
\* last, and evenly between two.
Interpolated(cls, anchors) ==
  LET first == CHOOSE i \in anchors : \A k \in anchors : i <= k
      last  == CHOOSE i \in anchors : \A k \in anchors : i >= k
      Before(j) == CHOOSE i \in anchors : i < j /\ \A k \in anchors : k < j => k <= i
      After(j)  == CHOOSE i \in anchors : i > j /\ \A k \in anchors : k > j => k >= i
  IN [j \in DOMAIN cls |->
        IF j \in anchors THEN cls[j]
        ELSE IF j < first THEN Later(0, cls[first] - (first - j))
        ELSE IF j > last THEN cls[last] + (j - last)
        ELSE LET a == Before(j)
                 b == After(j)
             IN cls[a] + ((j - a) * (cls[b] - cls[a])) \div (b - a)]

\* Each word lasts a class at least, and pushes the next if it must.
SpacedAt(c, i) ==
  IF i = 1 THEN c ELSE [c EXCEPT ![i] = Later(@, IF i % 2 = 0 THEN c[i - 1] + 1 ELSE c[i - 1])]

Spaced(cls) == Pass(cls, SpacedAt)

LisMonotonize(cls, sure) == Spaced(Interpolated(cls, Anchors(cls, sure)))

-----------------------------------------------------------------------------
(* audio_refine_bounds. rms: the ladder, bins counted from 0.              *)

Bins(rms) == Len(rms)
Median(rms) == SortSeq(rms, <)[Len(rms) \div 2 + 1]
LoudAt(rms, b) == b \in 0..Bins(rms) - 1 /\ 10 * rms[b + 1] > 3 * Median(rms)
BinOf(rms, t) == Sooner(Later(t, 0), Bins(rms) - 1)

\* The run of loud bins from b in steps of d, as far as n bins.
LoudRun(rms, b, d, n) ==
  CHOOSE k \in 0..n :
    /\ \A i \in 0..k : LoudAt(rms, b + d * i)
    /\ k < n => ~LoudAt(rms, b + d * (k + 1))

\* The first loud bin within the window from b in steps of d, or none.
NextLoud(rms, b, d) == {i \in 1..Window : LoudAt(rms, b + d * i)
                                          /\ \A k \in 1..i - 1 : ~LoudAt(rms, b + d * k)}

Onset(rms, t) ==
  LET b == BinOf(rms, t) IN
  IF LoudAt(rms, b) THEN b - LoudRun(rms, b, -1, Window)
  ELSE IF NextLoud(rms, b, 1) = {} THEN b ELSE b + CHOOSE i \in NextLoud(rms, b, 1) : TRUE

Offset(rms, t) ==
  LET b == BinOf(rms, IF t > 0 THEN t - 1 ELSE 0) IN
  1 + (IF LoudAt(rms, b) THEN b + LoudRun(rms, b, 1, Window)
       ELSE IF NextLoud(rms, b, -1) = {} THEN b
       ELSE b - CHOOSE i \in NextLoud(rms, b, -1) : TRUE)

Walked(rms, ts) == [w \in DOMAIN ts |-> [t0 |-> Onset(rms, ts[w].t0), t1 |-> Offset(rms, ts[w].t1)]]

Lasting(word) == IF word.t1 <= word.t0 THEN [word EXCEPT !.t1 = word.t0 + 1] ELSE word

\* The monotonicity sweep.
SweptAt(ts, w) ==
  LET word == Lasting(ts[w])
      from == IF w > 1 THEN Later(word.t0, ts[w - 1].t1) ELSE word.t0
  IN [ts EXCEPT ![w] = Lasting([word EXCEPT !.t0 = from])]

Swept(ts) == Pass(ts, SweptAt)

\* Where the silence before an onset ends: at a loud bin, or where the word
\* before it does.
BackTo(rms, floor, b) ==
  CHOOSE k \in 0..b : /\ k = 0 \/ LoudAt(rms, k) \/ k <= floor
                      /\ \A n \in k + 1..b : ~LoudAt(rms, n) /\ n > floor

MostlyLoud(rms, lo, hi) ==
  hi >= lo /\ 5 * Cardinality({b \in lo..hi : LoudAt(rms, b)}) >= 3 * (hi - lo + 1)

FloorOf(ts, w) == IF w > 1 THEN ts[w - 1].t1 ELSE 0

\* Run-aware onset repair: an onset in silence goes back to the start of the
\* run before it, one after a loud gap to the end of the word before.
RepairTo(rms, ts, w) ==
  LET b == BinOf(rms, ts[w].t0)
      i == BackTo(rms, FloorOf(ts, w), b)
  IN CASE ~LoudAt(rms, b) /\ LoudAt(rms, i) -> i - LoudRun(rms, i, -1, i)
       [] LoudAt(rms, b) /\ w > 1 /\ ts[w].t0 - FloorOf(ts, w) >= GapMin
            /\ MostlyLoud(rms, BinOf(rms, FloorOf(ts, w)), b - 1) -> FloorOf(ts, w)
       [] OTHER -> -1

Repaired(rms, ts, w) ==
  IF RepairTo(rms, ts, w) \in FloorOf(ts, w)..ts[w].t0 - 1
  THEN Lasting([ts[w] EXCEPT !.t0 = RepairTo(rms, ts, w)]) ELSE ts[w]

AllRepaired(rms, ts) == Pass(ts, LAMBDA s, w : [s EXCEPT ![w] = Repaired(rms, s, w)])

\* A gap between two words that is mostly loud.
LoudGap(rms, from, to) ==
  to - from >= GapMin /\ MostlyLoud(rms, from, Sooner(to - 1, Bins(rms) - 1))

Quietest(rms, lo, hi) ==
  CHOOSE b \in lo..hi : /\ \A k \in lo..hi : rms[b + 1] <= rms[k + 1]
                        /\ \A k \in lo..b - 1 : rms[k + 1] > rms[b + 1]

\* Gap bridging: the two words meet at its quietest bin.
BridgedAt(rms, ts, w) ==
  IF w = 1 \/ ~LoudGap(rms, ts[w - 1].t1, ts[w].t0) THEN ts
  ELSE LET mid == Quietest(rms, ts[w - 1].t1, Sooner(ts[w].t0 - 1, Bins(rms) - 1))
       IN [ts EXCEPT ![w - 1].t1 = mid, ![w].t0 = mid]

Bridged(rms, ts) == Pass(ts, LAMBDA s, w : BridgedAt(rms, s, w))

RefineBounds(rms, ts) == Bridged(rms, AllRepaired(rms, Swept(Walked(rms, ts))))

-----------------------------------------------------------------------------
TimesInit ==
  \E n \in TimedWords, rms \in Ladders :
    \E cls \in [1..2 * n -> Classes], sure \in SUBSET (1..2 * n) :
      job = [kind |-> "times", at |-> "predicted", cls |-> cls, sure |-> sure, rms |-> rms, ts |-> <<>>]

\* extract_word_timings and what follows it in a call.
TimeWords ==
  /\ Kind("times") /\ job.at = "predicted"
  /\ LET cls == LisMonotonize(job.cls, job.sure)
         ts  == [w \in 1..Len(cls) \div 2 |->
                   [t0 |-> cls[2 * w - 1] * ClassBins, t1 |-> cls[2 * w] * ClassBins]]
     IN job' = [job EXCEPT !.at = "end", !.ts = RefineBounds(job.rms, ts)]

TimesSpec == TimesInit /\ [][TimeWords]_job

-----------------------------------------------------------------------------
(* Properties.                                                             *)

\* The chain is the longest that does not descend, and predictions that are
\* already in order come out as they went in.
LisIsLongest ==
  Kind("times") /\ job.at = "predicted" =>
    LET rows == DOMAIN job.cls
        Ascends(c) == \A i \in c, k \in c : i < k => job.cls[i] <= job.cls[k]
        InOrder == Ascends(rows) /\ \A i \in rows : i % 2 = 0 => job.cls[i - 1] < job.cls[i]
    IN /\ Ascends(Chain(job.cls))
       /\ \A c \in SUBSET rows : Ascends(c) => Cardinality(c) <= Cardinality(Chain(job.cls))
       /\ InOrder /\ job.sure = rows => LisMonotonize(job.cls, job.sure) = job.cls

\* Whatever was predicted and however loud the audio is, each word lasts, ends
\* before the next starts, and no long gap between two words is mostly speech.
TimesInOrder ==
  Kind("times") /\ job.at = "end" =>
    \A w \in DOMAIN job.ts :
      /\ 0 <= job.ts[w].t0 /\ job.ts[w].t0 < job.ts[w].t1
      /\ w > 1 => /\ job.ts[w - 1].t1 <= job.ts[w].t0
                  /\ ~LoudGap(job.rms, job.ts[w - 1].t1, job.ts[w].t0)

\* From the predicted classes to the words' times.
TimingsSound == LisIsLongest /\ TimesInOrder
=============================================================================
