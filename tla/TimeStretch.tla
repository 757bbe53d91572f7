---------------------------- MODULE TimeStretch ----------------------------
(***************************************************************************)
(* WSOLA, the streaming change of duration: windows of the input are laid  *)
(* over one another at a steady hop, each taken where, near its due place, *)
(* the input continues the window before best. Input arrives in chunks of  *)
(* any size, and what can no longer be reached is dropped.                 *)
(*                                                                         *)
(* An output sample is known by the input samples that were added to it;   *)
(* the gains (window, final fade) and the energy a candidate's score is    *)
(* divided by are left out. A speed is a fraction.                         *)
(***************************************************************************)
EXTENDS Integers, Sequences, SequencesExt, FiniteSetsExt, Job

CONSTANTS StretchHop,    \* Hs_, half a window
          StretchReach,  \* D_, how far from its due place a window may be taken
          StretchStride, \* kStride of the coarse search
          StretchDead,   \* dead samples that are worth a compaction, 4 * N_
          StretchSpeeds, \* <<numerator, denominator>>
          StretchSounds, \* inputs
          StretchChunks  \* sizes of a chunk

ASSUME TimeStretchAssumption ==
  /\ {StretchHop, StretchReach, StretchStride, StretchDead} \subseteq Nat \ {0}
  /\ StretchSpeeds \subseteq (Nat \ {0}) \X (Nat \ {0})
  /\ StretchSounds \subseteq Seq(Int) /\ StretchChunks \subseteq Nat

StretchWindow == 2 * StretchHop
Highest(a, b) == Max({a, b})
Lowest(a, b) == Min({a, b})

\* llround of n / d.
Rounded(n, d) == (2 * n + d) \div (2 * d)

\* A sample of the padding; a sample that is not in the buffer.
Silence == -1
Missing == -2

Stretcher(speed, sound) ==
  [kind |-> "stretch", at |-> "push", speed |-> speed, sound |-> sound, given |-> 0,
   buf |-> <<>>, base |-> 0, windows |-> 0, prev |-> -1, flushing |-> FALSE,
   acc |-> [k \in 1..StretchWindow |-> <<>>], out |-> <<>>, pushed |-> 0]

BufEnd(j) == j.base + Len(j.buf)
SampleAt(j, i) == IF i + 1 - j.base \in DOMAIN j.buf THEN j.buf[i + 1 - j.base] ELSE Missing
Amplitude(j, i) == IF SampleAt(j, i) \in DOMAIN j.sound THEN j.sound[SampleAt(j, i)] ELSE 0

\* Where the next window is due.
Due(j) == Rounded(j.windows * StretchHop * j.speed[1], j.speed[2])

Near(j) == [lo |-> Highest(Due(j) - StretchReach, j.base),
            hi |-> Lowest(Due(j) + StretchReach, BufEnd(j) - StretchWindow)]

\* Mutant: a window is laid as soon as the due place has arrived.
FitsEarly(j) == Near(j).lo <= Near(j).hi
                /\ (j.prev < 0 \/ j.prev + StretchWindow <= BufEnd(j))

\* A window is laid when all its candidates have arrived, and what would
\* have followed the one before.
Fits(j) ==
  /\ j.flushing \/ j.prev < 0 \/ Due(j) + StretchReach + StretchWindow <= BufEnd(j)
  /\ Near(j).lo <= Near(j).hi
  /\ j.prev < 0 \/ j.prev + StretchWindow <= BufEnd(j)

\* How well the window at c continues the previous one.
Likeness(j, c) ==
  LET product == [k \in 1..StretchHop |->
                    Amplitude(j, j.prev + StretchHop + k - 1) * Amplitude(j, c + k - 1)]
      upto[k \in 0..StretchHop] == IF k = 0 THEN 0 ELSE upto[k - 1] + product[k]
  IN upto[StretchHop]

\* The first of the best places in a set.
BestOf(j, places) ==
  Min({c \in places : \A d \in places : Likeness(j, d) <= Likeness(j, c)})

\* Coarse, then between the neighbours of the best; a tie stays.
Searched(j) ==
  LET near   == Near(j)
      coarse == BestOf(j, {c \in near.lo..near.hi : (c - near.lo) % StretchStride = 0})
      fine   == BestOf(j, Highest(near.lo, coarse - StretchStride + 1)
                          ..Lowest(near.hi, coarse + StretchStride - 1))
  IN IF Likeness(j, fine) > Likeness(j, coarse) THEN fine ELSE coarse

Taken(j) ==
  IF j.prev < 0 THEN Lowest(Highest(Due(j), Near(j).lo), Near(j).hi) ELSE Searched(j)

\* trim: what neither the search nor the comparison can reach any more.
Trimmed(j) ==
  LET keep == IF j.prev >= 0 THEN Lowest(Due(j) - StretchReach, j.prev + StretchHop)
              ELSE Due(j) - StretchReach
      drop == keep - j.base
  IN IF drop > 0 /\ drop >= Len(j.buf) THEN [j EXCEPT !.buf = <<>>, !.base = keep]
     ELSE IF drop >= StretchDead
     THEN [j EXCEPT !.buf = SubSeq(@, drop + 1, Len(@)), !.base = keep]
     ELSE j

\* emit_frame: half a window is complete, the other waits for the next.
LaidAt(j, at) ==
  LET acc == [k \in 1..StretchWindow |-> Append(j.acc[k], SampleAt(j, at + k - 1))]
  IN Trimmed([j EXCEPT !.out = @ \o SubSeq(acc, 1, StretchHop),
                       !.acc = [k \in 1..StretchWindow |->
                                  IF k <= StretchHop THEN acc[k + StretchHop] ELSE <<>>],
                       !.prev = at, !.windows = @ + 1])
Laid(j) == LaidAt(j, Taken(j))

\* As many windows as fit: never more than most, as each is due a hop later.
LaidIfFits(j) == IF Fits(j) THEN Laid(j) ELSE j
LaidAll(j) ==
  LET most == ((BufEnd(j) + StretchReach + 1) * j.speed[2]) \div (StretchHop * j.speed[1]) + 1
      after[w \in 0..most] == IF w = 0 THEN j ELSE LaidIfFits(after[w - 1])
  IN after[most]

\* emitted_, what the pushes have put out.
Counted(j) == [j EXCEPT !.pushed = Len(j.out)]
Pushed(j, n) ==
  Counted(LaidAll([j EXCEPT !.given = @ + n, !.buf = @ \o [k \in 1..n |-> j.given + k]]))

Asked(j) == Rounded(j.given * j.speed[2], j.speed[1])

\* What the windows left over, and a cut to the duration asked for, unless
\* that has been passed.
Ending(j, drained) ==
  LET all == drained.out \o drained.acc
  IN [drained EXCEPT !.at = "end",
        !.out = IF Asked(j) > j.pushed /\ Len(all) > Asked(j) THEN SubSeq(all, 1, Asked(j)) ELSE all]

\* flush: padding and the windows that are left.
Flushed(j) ==
  Ending(j, LaidAll([j EXCEPT !.flushing = TRUE,
                      !.buf = @ \o [k \in 1..StretchWindow + 2 * StretchReach |-> Silence]]))

StretchInit ==
  \E speed \in StretchSpeeds, sound \in StretchSounds : job = Stretcher(speed, sound)

StretchPush ==
  /\ Kind("stretch") /\ job.at = "push"
  /\ \E n \in StretchChunks : /\ n \in 1..Len(job.sound) - job.given
                              /\ job' = Pushed(job, n)
StretchFlush == Kind("stretch") /\ job.at = "push" /\ job' = Flushed(job)

StretchNext == StretchPush \/ StretchFlush

-----------------------------------------------------------------------------
(* Property.                                                               *)

OneChunk(j) == Flushed(Pushed(Stretcher(j.speed, j.sound), j.given)).out

\* More was emitted before the flush than the request asked for: nothing is
\* cut then, and the output is longer than the duration asked for.
Overshot == job.pushed >= Asked(job)

\* However the audio was cut into chunks and whatever was dropped from the
\* buffer, the output is that of a single chunk, made of samples that were
\* still there, and "the exact duration the request asked for".
StretchFaithful ==
  Kind("stretch") /\ job.at = "end" =>
    /\ job.out = OneChunk(job)
    /\ \A k \in DOMAIN job.out : ~Contains(job.out[k], Missing)
    /\ ~Overshot => Len(job.out) = Asked(job)
=============================================================================
