---------------------------- MODULE Engine_proofs ----------------------------
(***************************************************************************)
(* Theorems about the two engines: Engine, for any number of failed loads  *)
(* and any calls, and LongRead, for any passages, budgets and block sizes. *)
(*                                                                         *)
(* That a flag tells what a part holds, and that the count of the shared   *)
(* backend is that of its holders, has to survive a load that fails at any *)
(* of its stages. The invariant therefore says what a part that is being   *)
(* loaded holds at each stage (LoadInv); that of no part but the speaker   *)
(* encoder anything is left when its load begins (LostInv) is what the     *)
(* unload at the beginning of load_model is for. What a call may still do  *)
(* is one of a few lists of tasks, each the rest of another (Plans), which *)
(* says when the callback is set and which flags are up (PlanInv).         *)
(*                                                                         *)
(* A long read has three places that work at their own pace, and its       *)
(* invariant relates them: each message on the wire belongs to a chunk     *)
(* (Chain), a chunk that waits for alignment knows where its audio is in   *)
(* the stream (JobRight), and one that has audio is on the wire, open,     *)
(* queued, in a pass, or placed (AllVoiced). Where a worker loses the start *)
(* of a chunk without audio (Lost), only the count of words before a later *)
(* chunk is off (Counted), and stays so (LostKept).                        *)
(***************************************************************************)
EXTENDS Engine, LongRead, SequenceTheorems, FiniteSetTheorems, TLAPS

-----------------------------------------------------------------------------
(* The inductive invariant.                                                *)

\* The rests of a load and of a registration.
Outside ==
  {<<>>, <<"transformer", "ready">>, <<"transformer", "decoder", "ready">>,
   <<"decoder", "ready">>, <<"ready">>,
   <<"encoder", "compute">>, <<"codec", "compute">>, <<"compute">>}

\* A synthesis before its callback is set, and from then on.
Preparing ==
  {<<"encoder", "arm", "transformer", "talk", "decoder", "decode", "disarm">>,
   <<"encoder", "codec", "arm", "transformer", "talk", "decoder", "decode", "disarm">>,
   <<"codec", "arm", "transformer", "talk", "decoder", "decode", "disarm">>,
   <<"arm", "transformer", "talk", "decoder", "decode", "disarm">>,
   <<"arm", "transformer", "decoder", "talk", "play", "disarm">>}
Speaking ==
  {<<"transformer", "talk", "decoder", "decode", "disarm">>,
   <<"talk", "decoder", "decode", "disarm">>,
   <<"decoder", "decode", "disarm">>,
   <<"decode", "disarm">>,
   <<"transformer", "decoder", "talk", "play", "disarm">>,
   <<"decoder", "talk", "play", "disarm">>,
   <<"talk", "play", "disarm">>,
   <<"play", "disarm">>,
   <<"disarm">>}
Plans == Outside \union Preparing \union Speaking

\* Rests of a synthesis whose talker, whose vocoder has been seen to.
TalkerSeen ==
  {<<"talk", "decoder", "decode", "disarm">>,
   <<"decoder", "talk", "play", "disarm">>,
   <<"talk", "play", "disarm">>}
VocoderSeen ==
  {<<"decode", "disarm">>, <<"talk", "play", "disarm">>, <<"play", "disarm">>}

AllResources ==
  {"file", "ctx", "buffer", "backend", "cpu", "sched", "galloc", "mask"}

Types ==
  /\ env \in [low : BOOLEAN, async : BOOLEAN]
  /\ todo \in Plans /\ stage \in Nat
  /\ held \in [Parts -> SUBSET AllResources]
  /\ refs \in Nat /\ shared \in {"none", "high", "default"}
  /\ flag \in [Parts -> BOOLEAN] /\ loaded \in BOOLEAN
  /\ cb \in BOOLEAN /\ armed \in SUBSET Parts

\* A synthesis has a model. The callback is set while it runs, and every part
\* that is loaded has it; what the rest of a synthesis computes with is loaded.
PlanInv ==
  /\ todo \in Preparing \union Speaking => loaded
  /\ cb <=> todo \in Speaking
  /\ ~cb => armed = {}
  /\ cb => \A p \in Parts \ {"codec"} : flag[p] => p \in armed
  /\ todo \in TalkerSeen => flag["transformer"]
  /\ todo \in VocoderSeen => flag["decoder"]

\* What a load that has come to stage s has taken.
Taken(p, s) == {Stages(p)[i] : i \in 2..(s - 1)}

LoadInv ==
  /\ \A p \in Parts : held[p] \subseteq Resources(p)
  /\ \A p \in Parts : flag[p] => held[p] = Resources(p)
  /\ stage # 0 =>
       /\ AtPart /\ ~flag[Part] /\ stage <= Len(Stages(Part)) + 1
       /\ Taken(Part, stage) \subseteq held[Part]
       /\ Part # "encoder" => held[Part] = Taken(Part, stage)
LostInv == \A l \in lost : l[1] = "encoder"

IInv == PlanInv /\ LoadInv /\ LostInv /\ BackendCounted

-----------------------------------------------------------------------------
(* Plans.                                                                  *)

\* What can follow the first task of a list.
LEMMA Rests ==
  ASSUME NEW t \in Plans, t # <<>>
  PROVE  /\ Tail(t) \in Plans
         /\ t \in Outside \union Preparing => t \notin Speaking
         /\ Tail(t) \in Preparing \union Speaking => t \in Preparing \union Speaking
         /\ Head(t) \in Parts =>
              /\ Tail(t) \in Speaking <=> t \in Speaking
              /\ Tail(t) \in TalkerSeen => t \in TalkerSeen \/ Head(t) = "transformer"
              /\ Tail(t) \in VocoderSeen => t \in VocoderSeen \/ Head(t) = "decoder"
         /\ Head(t) \in {"ready", "compute"} => Tail(t) = <<>> /\ t \notin Speaking
         /\ Head(t) = "disarm" => Tail(t) = <<>> /\ t \in Speaking
         /\ Head(t) = "arm" => /\ t \notin Speaking /\ Tail(t) \in Speaking
                               /\ Tail(t) \notin TalkerSeen \union VocoderSeen
         /\ Head(t) = "talk" => /\ t \in TalkerSeen /\ Tail(t) \in Speaking
                                /\ Tail(t) \notin TalkerSeen
                                /\ Tail(t) \in VocoderSeen => t \in VocoderSeen
         /\ Head(t) \in {"play", "decode"} => t \in VocoderSeen /\ Tail(t) = <<"disarm">>
<1>1. CASE t = <<"transformer", "ready">>
  <2>1. Head(t) = "transformer" /\ Tail(t) = <<"ready">>
    BY <1>1
  <2> QED
    BY <1>1, <2>1 DEF Plans, Outside, Preparing, Speaking, TalkerSeen, VocoderSeen, Parts
<1>2. CASE t = <<"transformer", "decoder", "ready">>
  <2>1. Head(t) = "transformer" /\ Tail(t) = <<"decoder", "ready">>
    BY <1>2
  <2> QED
    BY <1>2, <2>1 DEF Plans, Outside, Preparing, Speaking, TalkerSeen, VocoderSeen, Parts
<1>3. CASE t = <<"decoder", "ready">>
  <2>1. Head(t) = "decoder" /\ Tail(t) = <<"ready">>
    BY <1>3
  <2> QED
    BY <1>3, <2>1 DEF Plans, Outside, Preparing, Speaking, TalkerSeen, VocoderSeen, Parts
<1>4. CASE t = <<"ready">>
  <2>1. Head(t) = "ready" /\ Tail(t) = <<>>
    BY <1>4
  <2> QED
    BY <1>4, <2>1 DEF Plans, Outside, Preparing, Speaking, TalkerSeen, VocoderSeen, Parts
<1>5. CASE t = <<"encoder", "compute">>
  <2>1. Head(t) = "encoder" /\ Tail(t) = <<"compute">>
    BY <1>5
  <2> QED
    BY <1>5, <2>1 DEF Plans, Outside, Preparing, Speaking, TalkerSeen, VocoderSeen, Parts
<1>6. CASE t = <<"codec", "compute">>
  <2>1. Head(t) = "codec" /\ Tail(t) = <<"compute">>
    BY <1>6
  <2> QED
    BY <1>6, <2>1 DEF Plans, Outside, Preparing, Speaking, TalkerSeen, VocoderSeen, Parts
<1>7. CASE t = <<"compute">>
  <2>1. Head(t) = "compute" /\ Tail(t) = <<>>
    BY <1>7
  <2> QED
    BY <1>7, <2>1 DEF Plans, Outside, Preparing, Speaking, TalkerSeen, VocoderSeen, Parts
<1>8. CASE t = <<"encoder", "arm", "transformer", "talk", "decoder", "decode", "disarm">>
  <2>1. Head(t) = "encoder" /\ Tail(t) = <<"arm", "transformer", "talk", "decoder", "decode", "disarm">>
    BY <1>8
  <2> QED
    BY <1>8, <2>1 DEF Plans, Outside, Preparing, Speaking, TalkerSeen, VocoderSeen, Parts
<1>9. CASE t = <<"encoder", "codec", "arm", "transformer", "talk", "decoder", "decode", "disarm">>
  <2>1. Head(t) = "encoder" /\ Tail(t) = <<"codec", "arm", "transformer", "talk", "decoder", "decode", "disarm">>
    BY <1>9
  <2> QED
    BY <1>9, <2>1 DEF Plans, Outside, Preparing, Speaking, TalkerSeen, VocoderSeen, Parts
<1>10. CASE t = <<"codec", "arm", "transformer", "talk", "decoder", "decode", "disarm">>
  <2>1. Head(t) = "codec" /\ Tail(t) = <<"arm", "transformer", "talk", "decoder", "decode", "disarm">>
    BY <1>10
  <2> QED
    BY <1>10, <2>1 DEF Plans, Outside, Preparing, Speaking, TalkerSeen, VocoderSeen, Parts
<1>11. CASE t = <<"arm", "transformer", "talk", "decoder", "decode", "disarm">>
  <2>1. Head(t) = "arm" /\ Tail(t) = <<"transformer", "talk", "decoder", "decode", "disarm">>
    BY <1>11
  <2> QED
    BY <1>11, <2>1 DEF Plans, Outside, Preparing, Speaking, TalkerSeen, VocoderSeen, Parts
<1>12. CASE t = <<"arm", "transformer", "decoder", "talk", "play", "disarm">>
  <2>1. Head(t) = "arm" /\ Tail(t) = <<"transformer", "decoder", "talk", "play", "disarm">>
    BY <1>12
  <2> QED
    BY <1>12, <2>1 DEF Plans, Outside, Preparing, Speaking, TalkerSeen, VocoderSeen, Parts
<1>13. CASE t = <<"transformer", "talk", "decoder", "decode", "disarm">>
  <2>1. Head(t) = "transformer" /\ Tail(t) = <<"talk", "decoder", "decode", "disarm">>
    BY <1>13
  <2> QED
    BY <1>13, <2>1 DEF Plans, Outside, Preparing, Speaking, TalkerSeen, VocoderSeen, Parts
<1>14. CASE t = <<"talk", "decoder", "decode", "disarm">>
  <2>1. Head(t) = "talk" /\ Tail(t) = <<"decoder", "decode", "disarm">>
    BY <1>14
  <2> QED
    BY <1>14, <2>1 DEF Plans, Outside, Preparing, Speaking, TalkerSeen, VocoderSeen, Parts
<1>15. CASE t = <<"decoder", "decode", "disarm">>
  <2>1. Head(t) = "decoder" /\ Tail(t) = <<"decode", "disarm">>
    BY <1>15
  <2> QED
    BY <1>15, <2>1 DEF Plans, Outside, Preparing, Speaking, TalkerSeen, VocoderSeen, Parts
<1>16. CASE t = <<"decode", "disarm">>
  <2>1. Head(t) = "decode" /\ Tail(t) = <<"disarm">>
    BY <1>16
  <2> QED
    BY <1>16, <2>1 DEF Plans, Outside, Preparing, Speaking, TalkerSeen, VocoderSeen, Parts
<1>17. CASE t = <<"transformer", "decoder", "talk", "play", "disarm">>
  <2>1. Head(t) = "transformer" /\ Tail(t) = <<"decoder", "talk", "play", "disarm">>
    BY <1>17
  <2> QED
    BY <1>17, <2>1 DEF Plans, Outside, Preparing, Speaking, TalkerSeen, VocoderSeen, Parts
<1>18. CASE t = <<"decoder", "talk", "play", "disarm">>
  <2>1. Head(t) = "decoder" /\ Tail(t) = <<"talk", "play", "disarm">>
    BY <1>18
  <2> QED
    BY <1>18, <2>1 DEF Plans, Outside, Preparing, Speaking, TalkerSeen, VocoderSeen, Parts
<1>19. CASE t = <<"talk", "play", "disarm">>
  <2>1. Head(t) = "talk" /\ Tail(t) = <<"play", "disarm">>
    BY <1>19
  <2> QED
    BY <1>19, <2>1 DEF Plans, Outside, Preparing, Speaking, TalkerSeen, VocoderSeen, Parts
<1>20. CASE t = <<"play", "disarm">>
  <2>1. Head(t) = "play" /\ Tail(t) = <<"disarm">>
    BY <1>20
  <2> QED
    BY <1>20, <2>1 DEF Plans, Outside, Preparing, Speaking, TalkerSeen, VocoderSeen, Parts
<1>21. CASE t = <<"disarm">>
  <2>1. Head(t) = "disarm" /\ Tail(t) = <<>>
    BY <1>21
  <2> QED
    BY <1>21, <2>1 DEF Plans, Outside, Preparing, Speaking, TalkerSeen, VocoderSeen, Parts
<1> QED
  BY <1>1, <1>2, <1>3, <1>4, <1>5, <1>6, <1>7, <1>8, <1>9, <1>10, <1>11,
     <1>12, <1>13, <1>14, <1>15, <1>16, <1>17, <1>18, <1>19, <1>20, <1>21
     DEF Plans, Outside, Preparing, Speaking

\* The lists with nothing or only the callback left to do.
LEMMA Ends ==
  /\ <<>> \in Plans /\ <<>> \notin Preparing \union Speaking
  /\ <<"disarm">> \in Plans /\ <<"disarm">> \in Speaking
  /\ <<>> \notin TalkerSeen \union VocoderSeen
  /\ <<"disarm">> \notin TalkerSeen \union VocoderSeen
  /\ TalkerSeen \subseteq Speaking /\ VocoderSeen \subseteq Speaking
BY DEF Plans, Outside, Preparing, Speaking, TalkerSeen, VocoderSeen

LEMMA StageFacts ==
  ASSUME NEW p \in Parts
  PROVE  /\ Len(Stages(p)) \in Nat /\ Len(Stages(p)) >= 6
         /\ \A i \in 1..Len(Stages(p)) :
              /\ Stages(p)[i] \in AllResources
              /\ Stages(p)[i] = "file" <=> i = 1
              /\ Stages(p)[i] = "backend" <=> i = 4
              /\ \A j \in 1..Len(Stages(p)) : Stages(p)[i] = Stages(p)[j] => i = j
         /\ Stages(p)[5] = "cpu"
<1>1. CASE p = "transformer"
  BY <1>1 DEF Stages, LoadTransformer, AllResources
<1>2. CASE p = "decoder"
  BY <1>2 DEF Stages, LoadDecoder, AllResources
<1>3. CASE p = "encoder"
  BY <1>3 DEF Stages, LoadEncoder, AllResources
<1>4. CASE p = "codec"
  BY <1>4 DEF Stages, LoadCodec, AllResources
<1> QED
  BY <1>1, <1>2, <1>3, <1>4 DEF Parts

\* The flag tells which resources are taken when a part has all its stages.
LEMMA AllTaken ==
  ASSUME NEW p \in Parts
  PROVE  /\ Taken(p, 1) = {} /\ Taken(p, 2) = {}
         /\ Taken(p, Len(Stages(p)) + 1) = Resources(p)
         /\ Resources(p) \subseteq AllResources
         /\ {"backend", "cpu"} \subseteq Resources(p)
         /\ \A s \in 2..Len(Stages(p)) :
              /\ Taken(p, s + 1) = Taken(p, s) \union {Stages(p)[s]}
              /\ Stages(p)[s] \in Resources(p) /\ Stages(p)[s] \notin Taken(p, s)
<1> DEFINE n == Len(Stages(p))
           at(i) == Stages(p)[i]
<1>1. n \in Nat /\ n >= 6
  BY StageFacts
<1>2. \A i \in 1..n : at(i) \in AllResources
  BY StageFacts
<1>3. \A i, j \in 1..n : at(i) = at(j) => i = j
  BY StageFacts
<1>4. at(4) = "backend" /\ at(5) = "cpu"
  <2>1. 4 \in 1..n
    BY <1>1
  <2> QED
    BY <2>1, StageFacts
<1>5. \A s \in Nat : Taken(p, s) = {at(i) : i \in 2..s - 1}
  BY DEF Taken
<1>6. Resources(p) = {at(i) : i \in 2..n}
  BY DEF Resources
<1> HIDE DEF n, at
<1>7. Taken(p, 1) = {} /\ Taken(p, 2) = {}
  BY <1>5
<1>8. Taken(p, n + 1) = Resources(p)
  <2>1. n + 1 \in Nat /\ (n + 1) - 1 = n
    BY <1>1
  <2> QED
    BY <1>5, <1>6, <2>1
<1>9. Resources(p) \subseteq AllResources
  BY <1>1, <1>2, <1>6
<1>10. {"backend", "cpu"} \subseteq Resources(p)
  <2>1. 4 \in 2..n /\ 5 \in 2..n
    BY <1>1
  <2> QED
    BY <1>4, <1>6, <2>1
<1>11. ASSUME NEW s \in 2..n
       PROVE  /\ Taken(p, s + 1) = Taken(p, s) \union {at(s)}
              /\ at(s) \in Resources(p) /\ at(s) \notin Taken(p, s)
  <2>1. s \in Nat /\ s + 1 \in Nat /\ (s + 1) - 1 = s /\ s \in 1..n
    BY <1>1
  <2>2. 2..s = (2..s - 1) \union {s}
    BY <1>1
  <2>3. Taken(p, s + 1) = {at(i) : i \in 2..s}
    BY <1>5, <2>1
  <2>4. Taken(p, s) = {at(i) : i \in 2..s - 1}
    BY <1>5, <2>1
  <2>5. \A i \in 2..s - 1 : i \in 1..n /\ i # s
    BY <1>1
  <2>6. at(s) \notin Taken(p, s)
    BY <1>3, <2>1, <2>4, <2>5
  <2>7. Taken(p, s + 1) = Taken(p, s) \union {at(s)}
    BY <2>2, <2>3, <2>4
  <2> QED
    BY <1>6, <2>6, <2>7
<1> QED
  BY <1>7, <1>8, <1>9, <1>10, <1>11 DEF n, at

-----------------------------------------------------------------------------
(* The shared backend.                                                     *)

LEMMA PartsFinite == IsFiniteSet(Parts)
<1>1. IsFiniteSet({} \union {"transformer"})
  BY FS_EmptySet, FS_AddElement
<1>2. IsFiniteSet(({} \union {"transformer"}) \union {"decoder"})
  BY <1>1, FS_AddElement
<1>3. IsFiniteSet((({} \union {"transformer"}) \union {"decoder"}) \union {"encoder"})
  BY <1>2, FS_AddElement
<1>4. IsFiniteSet(((({} \union {"transformer"}) \union {"decoder"}) \union {"encoder"})
                  \union {"codec"})
  BY <1>3, FS_AddElement
<1>5. Parts = ((({} \union {"transformer"}) \union {"decoder"}) \union {"encoder"})
              \union {"codec"}
  BY DEF Parts
<1> QED
  BY <1>4, <1>5

LEMMA SharersFinite ==
  /\ IsFiniteSet(Sharers) /\ Cardinality(Sharers) \in Nat
  /\ Sharers = {} => Cardinality(Sharers) = 0
<1>1. IsFiniteSet(Sharers)
  BY PartsFinite, FS_Subset DEF Sharers
<1> QED
  BY <1>1, FS_CardinalityType, FS_EmptySet

\* What neither gives back a share nor takes one leaves the count right.
LEMMA CountStays ==
  ASSUME BackendCounted, UNCHANGED <<env, lost, refs, shared>>,
         \A p \in Parts : "backend" \in held'[p] <=> "backend" \in held[p]
  PROVE  BackendCounted'
<1>1. Sharers' = Sharers
  BY DEF Sharers, Shares
<1> QED
  BY <1>1 DEF BackendCounted

\* Unloading parts returns one reference for each share they have.
LEMMA FreeCounts ==
  ASSUME Types, BackendCounted, NEW ps \in SUBSET Parts, Free(ps), UNCHANGED <<env, lost>>
  PROVE  /\ BackendCounted' /\ refs' \in Nat /\ shared' \in {"none", "high", "default"}
         /\ ps = Parts /\ LostRef \notin lost => shared' = "none"
<1> DEFINE gone == {p \in ps : Shares(p) /\ "backend" \in held[p]}
<1>1. gone \subseteq Sharers /\ Sharers' = Sharers \ gone
  BY DEF Free, Sharers, Shares, Types
<1>2. IsFiniteSet(gone) /\ IsFiniteSet(Sharers')
  BY <1>1, SharersFinite, FS_Subset
<1>3. Cardinality(gone) \in Nat /\ Cardinality(Sharers') \in Nat
  BY <1>2, FS_CardinalityType
<1>4. Cardinality(Sharers') = Cardinality(Sharers) - Cardinality(gone)
  <2>1. Sharers \cap gone = gone
    BY <1>1
  <2>2. Cardinality(Sharers \ gone) = Cardinality(Sharers) - Cardinality(Sharers \cap gone)
    BY SharersFinite, FS_Difference
  <2> QED
    BY <1>1, <2>1, <2>2
<1>5. ps = Parts => gone = Sharers
  BY DEF Sharers
<1>6. refs' = refs - Cardinality(gone)
      /\ shared' = IF refs = Cardinality(gone) /\ Cardinality(gone) > 0 THEN "none" ELSE shared
  BY DEF Free, Released
<1>7. Cardinality(gone) <= refs
  BY <1>3, <1>4, SharersFinite DEF BackendCounted, Types
<1> HIDE DEF gone
<1>8. refs' \in Nat
  BY <1>3, <1>6, <1>7 DEF Types
<1>9. BackendCounted'
  BY <1>3, <1>4, <1>6, <1>7, <1>8, SharersFinite DEF BackendCounted, Types
<1>10. ps = Parts /\ LostRef \notin lost => shared' = "none"
  BY <1>3, <1>5, <1>6, SharersFinite DEF BackendCounted, Types
<1>11. shared' \in {"none", "high", "default"}
  BY <1>6 DEF Types
<1> QED
  BY <1>8, <1>9, <1>10, <1>11

\* Taking a resource: a share is a reference more; the reference of the
\* speaker encoder's that is taken again is one more than there are holders.
LEMMA TakeCounts ==
  ASSUME Types, BackendCounted, NEW p \in Parts, NEW r \in AllResources, Take(p, r),
         UNCHANGED env, r \in held[p] => p = "encoder"
  PROVE  BackendCounted' /\ refs' \in Nat /\ shared' \in {"none", "high", "default"}
<1>1. held' = [held EXCEPT ![p] = @ \union {r}]
      /\ lost' = IF r \in held[p] THEN lost \union {<<p, r>>} ELSE lost
  BY DEF Take
<1>2. CASE r # "backend"
  <2>1. UNCHANGED <<refs, shared>>
    BY <1>2 DEF Take
  <2>2. Sharers' = Sharers
    BY <1>1, <1>2 DEF Sharers, Shares, Types
  <2>3. LostRef \in lost' <=> LostRef \in lost
    BY <1>1, <1>2 DEF LostRef
  <2> QED
    BY <2>1, <2>2, <2>3 DEF BackendCounted, Types
<1>3. CASE r = "backend" /\ ~Shares(p)
  <2>1. UNCHANGED <<refs, shared>>
    BY <1>3 DEF Take
  <2>2. Sharers' = Sharers
    BY <1>1, <1>3 DEF Sharers, Shares, Types
  <2>3. LostRef \in lost' <=> LostRef \in lost
    BY <1>1, <1>3 DEF LostRef, Shares
  <2> QED
    BY <2>1, <2>2, <2>3 DEF BackendCounted, Types
<1>4. CASE r = "backend" /\ Shares(p)
  <2>1. refs' = refs + 1 /\ shared' = IF shared = "none" THEN Priority(p) ELSE shared
    BY <1>4 DEF Take, Acquire
  <2>2. Priority(p) \in {"high", "default"}
    BY DEF Priority
  <2>3. Sharers' = Sharers \union {p}
    BY <1>1, <1>4 DEF Sharers, Shares, Types
  <2>4. p \in Sharers <=> r \in held[p]
    BY <1>4 DEF Sharers
  <2>5. Cardinality(Sharers') =
          IF p \in Sharers THEN Cardinality(Sharers) ELSE Cardinality(Sharers) + 1
    BY <2>3, SharersFinite, FS_AddElement
  <2>6. CASE r \in held[p]
    <3>1. LostRef \in lost'
      BY <1>1, <1>4, <2>6 DEF LostRef
    <3> QED
      BY <2>1, <2>2, <2>4, <2>5, <2>6, <3>1, SharersFinite DEF BackendCounted, Types
  <2>7. CASE r \notin held[p]
    BY <1>1, <2>1, <2>2, <2>4, <2>5, <2>7, SharersFinite DEF BackendCounted, Types
  <2> QED
    BY <2>6, <2>7
<1> QED
  BY <1>2, <1>3, <1>4

-----------------------------------------------------------------------------
(* The invariant holds in every step. What an action does not touch:       *)

LEMMA HeldStays ==
  ASSUME Types, LoadInv, UNCHANGED <<held, flag>>, stage' = 0
  PROVE  LoadInv'
BY DEF LoadInv

\* Parts whose flags are down give back what they have.
LEMMA FreeLoads ==
  ASSUME Types, LoadInv, NEW ps \in SUBSET Parts, Free(ps), stage' = 0,
         \A p \in Parts : flag'[p] => flag[p] /\ p \notin ps
  PROVE  LoadInv'
BY DEF LoadInv, Free, Types

LEMMA FreeTypes ==
  ASSUME Types, NEW ps \in SUBSET Parts, Free(ps)
  PROVE  held' \in [Parts -> SUBSET AllResources] /\ armed' \in SUBSET Parts
BY DEF Free, Types

LEMMA InitInv == Init => Types /\ IInv
<1> SUFFICES ASSUME Init PROVE Types /\ IInv
  OBVIOUS
<1>1. Types
  BY Ends DEF Init, Types
<1>2. PlanInv
  BY Ends DEF Init, PlanInv
<1>3. LoadInv /\ LostInv
  BY DEF Init, LoadInv, LostInv
<1>4. Sharers = {}
  BY DEF Init, Sharers
<1>5. BackendCounted
  BY <1>4, SharersFinite DEF Init, BackendCounted
<1> QED
  BY <1>1, <1>2, <1>3, <1>5 DEF IInv

\* An action that begins or ends a call, or does one of its tasks.
LEMMA LoadKeeps ==
  ASSUME Types, IInv, Load PROVE (Types /\ IInv)'
<1> DEFINE ps == {"transformer", "decoder"}
<1>1. ps \in SUBSET Parts /\ Free(ps) /\ UNCHANGED <<env, stage, lost, loaded, cb>>
  BY DEF Load, Parts
<1>2. todo = <<>> /\ ~cb /\ todo' \in Outside
  BY Ends DEF Load, Idle, IInv, PlanInv, Outside
<1>3. /\ todo' \in Plans /\ todo' \notin Preparing \union Speaking
      /\ todo' \notin TalkerSeen \union VocoderSeen
  BY Ends DEF Load, Plans, Outside, Preparing, Speaking, TalkerSeen, VocoderSeen
<1>4. \A p \in Parts : flag'[p] \in BOOLEAN /\ (flag'[p] => flag[p] /\ p \notin ps)
  BY DEF Load, Types, Parts
<1>5. flag' \in [Parts -> BOOLEAN]
  BY DEF Load, Types
<1>6. stage = 0
  BY <1>2 DEF IInv, LoadInv, AtPart, Idle
<1>7. Types'
  BY <1>1, <1>3, <1>5, FreeTypes, FreeCounts DEF Types, IInv
<1>8. PlanInv'
  BY <1>1, <1>2, <1>3 DEF Free, IInv, PlanInv
<1>9. LoadInv'
  BY <1>1, <1>4, <1>6, FreeLoads DEF IInv
<1>10. BackendCounted'
  BY <1>1, FreeCounts DEF IInv
<1> QED
  BY <1>1, <1>7, <1>8, <1>9, <1>10 DEF IInv, LostInv

LEMMA NotLoading ==
  ASSUME LoadInv, ~AtPart PROVE stage = 0
BY DEF LoadInv

LEMMA Tasks ==
  {"ready", "compute", "arm", "disarm", "talk", "play", "decode"} \cap Parts = {}
BY DEF Parts

\* An action that touches no part: what remains is the plan and the callback.
LEMMA QuietKeeps ==
  ASSUME Types, IInv, UNCHANGED <<env, held, lost, refs, shared, flag>>,
         stage' = 0, todo' \in Plans, loaded' \in BOOLEAN, cb' \in BOOLEAN,
         armed' \in SUBSET Parts, PlanInv'
  PROVE  (Types /\ IInv)'
<1>1. Types'
  BY DEF Types
<1>2. LoadInv'
  BY HeldStays DEF IInv
<1>3. BackendCounted'
  BY CountStays DEF IInv
<1> QED
  BY <1>1, <1>2, <1>3 DEF IInv, LostInv

\* A call begins: its list of tasks is a plan, and no callback is set.
LEMMA CallBegins ==
  ASSUME Types, IInv, Idle, todo' \in Outside \union Preparing,
         todo' \in Preparing => loaded,
         UNCHANGED <<env, stage, held, lost, refs, shared, flag, loaded, cb, armed>>
  PROVE  (Types /\ IInv)'
<1>1. ~cb /\ stage = 0
  BY Ends, NotLoading DEF Idle, IInv, PlanInv, AtPart
<1>2. todo' \in Plans
  BY DEF Plans
<1>3. todo' \notin Speaking
  <2>1. CASE todo' = <<>>
    BY <2>1, Ends
  <2>2. CASE todo' # <<>>
    BY <1>2, <2>2, Rests
  <2> QED
    BY <2>1, <2>2
<1>4. PlanInv'
  BY <1>1, <1>3, Ends DEF IInv, PlanInv
<1> QED
  BY <1>1, <1>2, <1>4, QuietKeeps DEF Types

LEMMA SpeakKeeps ==
  ASSUME Types, IInv, NEW voice \in BOOLEAN, NEW ref \in BOOLEAN, NEW streamed \in BOOLEAN,
         Speak(voice, ref, streamed)
  PROVE  (Types /\ IInv)'
<1>1. streamed => ~ref /\ ~voice
  BY DEF Speak
<1>2. todo' \in Preparing
  BY <1>1 DEF Speak, SpeakTasks, Preparing
<1> QED
  BY <1>2, CallBegins DEF Speak

LEMMA RegisterKeeps ==
  ASSUME Types, IInv, NEW p \in Parts, Register(p) PROVE (Types /\ IInv)'
<1>1. todo' = <<p, "compute">> /\ p \in {"encoder", "codec"}
  BY DEF Register
<1>2. todo' \in Outside
  BY <1>1 DEF Outside
<1> QED
  BY <1>2, CallBegins DEF Register

\* A call ends early: the callback, if it is set, is still to be put back.
LEMMA GivenUp ==
  ASSUME Types, IInv, GiveUp, UNCHANGED <<cb, loaded>>,
         \A p \in Parts : flag'[p] => flag[p] /\ (p \in armed => p \in armed'),
         armed' \in SUBSET armed
  PROVE  /\ todo' \in Plans /\ stage' = 0 /\ armed' \in SUBSET Parts
         /\ PlanInv'
<1>1. todo' = IF cb THEN <<"disarm">> ELSE <<>>
  BY DEF GiveUp
<1>2. cb => loaded /\ \A p \in Parts \ {"codec"} : flag'[p] => p \in armed'
  BY DEF IInv, PlanInv
<1>3. ~cb => armed' = {}
  BY DEF IInv, PlanInv
<1>4. PlanInv'
  BY <1>1, <1>2, <1>3, Ends DEF PlanInv, Types
<1> QED
  BY <1>1, <1>4, Ends DEF GiveUp, Types

LEMMA ComputationFailsKeeps ==
  ASSUME Types, IInv, ComputationFails PROVE (Types /\ IInv)'
<1>1. GiveUp /\ UNCHANGED <<env, held, lost, refs, shared, flag, loaded, cb, armed>>
  BY DEF ComputationFails
<1>2. todo' \in Plans /\ stage' = 0 /\ armed' \in SUBSET Parts /\ PlanInv'
  BY <1>1, GivenUp DEF Types
<1> QED
  BY <1>1, <1>2, QuietKeeps DEF Types

LEMMA TokenizerFailsKeeps ==
  ASSUME Types, IInv, TokenizerFails PROVE (Types /\ IInv)'
<1>1. /\ todo # <<>> /\ Head(todo) = "transformer" /\ ~loaded /\ stage' = 0 /\ todo' = <<>>
      /\ UNCHANGED <<env, held, lost, refs, shared, flag, loaded, cb, armed>>
  BY DEF TokenizerFails, Idle
<1>2. ~cb
  BY <1>1 DEF IInv, PlanInv
<1>3. PlanInv'
  BY <1>1, <1>2, Ends DEF IInv, PlanInv
<1> QED
  BY <1>1, <1>3, Ends, QuietKeeps DEF Types

\* A task of the call that is done, without touching a part.
LEMMA TaskKeeps ==
  ASSUME Types, IInv, AlreadyLoaded \/ Ready \/ Compute \/ Arm \/ Disarm
  PROVE  (Types /\ IInv)'
<1>1. CASE AlreadyLoaded
  <2>1. /\ todo # <<>> /\ Head(todo) \in Parts /\ flag[Head(todo)] /\ todo' = Tail(todo)
        /\ stage' = 0
        /\ UNCHANGED <<env, held, lost, refs, shared, flag, loaded, cb, armed>>
    BY <1>1 DEF AlreadyLoaded, AtPart, Part, Idle
  <2>2. PlanInv'
    BY <2>1, Rests DEF Types, IInv, PlanInv
  <2> QED
    BY <2>1, <2>2, Rests, QuietKeeps DEF Types
<1>2. CASE Ready \/ Compute
  <2>1. /\ todo # <<>> /\ Head(todo) \in {"ready", "compute"} /\ todo' = Tail(todo)
        /\ loaded' \in BOOLEAN
        /\ UNCHANGED <<env, stage, held, lost, refs, shared, flag, cb, armed>>
    BY <1>2 DEF Ready, Compute, At, Idle, Types
  <2>2. todo' = <<>> /\ ~cb
    BY <2>1, Rests DEF Types, IInv, PlanInv
  <2>3. stage' = 0
    BY <2>1, Tasks, NotLoading DEF AtPart, Part, IInv
  <2>4. PlanInv'
    BY <2>1, <2>2, Ends DEF IInv, PlanInv
  <2> QED
    BY <2>1, <2>2, <2>3, <2>4, Ends, QuietKeeps DEF Types
<1>3. CASE Arm
  <2>1. /\ todo # <<>> /\ Head(todo) = "arm" /\ todo' = Tail(todo) /\ cb' = TRUE
        /\ armed' = {p \in Parts \ {"codec"} : "cpu" \in held[p]}
        /\ UNCHANGED <<env, stage, held, lost, refs, shared, flag, loaded>>
    BY <1>3 DEF Arm, At, Idle
  <2>2. /\ todo' \in Speaking /\ todo' \in Plans /\ todo \in Preparing \union Speaking
        /\ todo' \notin TalkerSeen \union VocoderSeen
    BY <2>1, Rests DEF Types
  <2>3. stage' = 0
    BY <2>1, Tasks, NotLoading DEF AtPart, Part, IInv
  <2>4. \A p \in Parts \ {"codec"} : flag'[p] => p \in armed'
    BY <2>1, AllTaken DEF IInv, LoadInv
  <2>5. PlanInv'
    BY <2>1, <2>2, <2>4 DEF IInv, PlanInv
  <2> QED
    BY <2>1, <2>2, <2>3, <2>5, QuietKeeps DEF Types
<1>4. CASE Disarm
  <2>1. /\ todo # <<>> /\ Head(todo) = "disarm" /\ todo' = Tail(todo) /\ cb' = FALSE
        /\ armed' = {}
        /\ UNCHANGED <<env, stage, held, lost, refs, shared, flag, loaded>>
    BY <1>4 DEF Disarm, At, Idle
  <2>2. todo' = <<>>
    BY <2>1, Rests DEF Types
  <2>3. stage' = 0
    BY <2>1, Tasks, NotLoading DEF AtPart, Part, IInv
  <2>4. PlanInv'
    BY <2>1, <2>2, Ends DEF PlanInv
  <2> QED
    BY <2>1, <2>2, <2>3, <2>4, Ends, QuietKeeps DEF Types
<1> QED
  BY <1>1, <1>2, <1>3, <1>4

-----------------------------------------------------------------------------
(* Parts are unloaded, or loaded stage by stage.                           *)

\* Parts are unloaded and their flags are down, outside of a load.
LEMMA UnloadedKeeps ==
  ASSUME Types, IInv, NEW ps \in SUBSET Parts, Free(ps),
         UNCHANGED <<env, lost>>, stage' = 0, loaded' \in BOOLEAN, UNCHANGED cb,
         todo' \in Plans, flag' \in [Parts -> BOOLEAN],
         \A p \in Parts : flag'[p] => flag[p] /\ p \notin ps,
         PlanInv'
  PROVE  (Types /\ IInv)'
<1>1. Types'
  BY FreeTypes, FreeCounts DEF Types, IInv
<1>2. LoadInv'
  BY FreeLoads DEF IInv
<1>3. BackendCounted'
  BY FreeCounts DEF IInv
<1> QED
  BY <1>1, <1>2, <1>3 DEF IInv, LostInv

LEMMA UnloadKeeps ==
  ASSUME Types, IInv, Unload \/ UnloadEncoders PROVE (Types /\ IInv)'
<1>1. PICK ps \in SUBSET Parts :
        /\ Free(ps) /\ flag' \in [Parts -> BOOLEAN]
        /\ \A p \in Parts : flag'[p] => flag[p] /\ p \notin ps
  <2>1. CASE Unload
    <3>1. Free(Parts) /\ flag' = [p \in Parts |-> FALSE]
      BY <2>1 DEF Unload
    <3> QED
      BY <3>1
  <2>2. CASE UnloadEncoders
    <3> DEFINE ps == {p \in {"encoder", "codec"} : flag[p]}
    <3>1. /\ Free(ps) /\ ps \in SUBSET Parts
          /\ flag' = [p \in Parts |-> flag[p] /\ p \notin ps]
      BY <2>2 DEF UnloadEncoders, Parts
    <3> HIDE DEF ps
    <3>2. \A p \in Parts : flag'[p] <=> flag[p] /\ p \notin ps
      BY <3>1
    <3> QED
      BY <3>1, <3>2 DEF Types
  <2> QED
    BY <2>1, <2>2
<1>2. /\ todo = <<>> /\ UNCHANGED <<env, todo, stage, lost, cb>> /\ loaded' \in BOOLEAN
  BY DEF Unload, UnloadEncoders, Idle, Types
<1>3. ~cb /\ stage = 0
  BY <1>2, Ends, NotLoading DEF IInv, PlanInv, AtPart, Idle
<1>4. PlanInv'
  BY <1>1, <1>2, <1>3, Ends DEF IInv, PlanInv, Free
<1> QED
  BY <1>1, <1>2, <1>3, <1>4, UnloadedKeeps DEF Types

\* In low-memory mode a part is gone after its work; the rest of the
\* synthesis does not need it.
LEMMA WorksKeeps ==
  ASSUME Types, IInv, NEW task, NEW p,
         <<task, p>> \in {<<"talk", "transformer">>, <<"play", "decoder">>,
                          <<"decode", "decoder">>},
         Works(task, p)
  PROVE  (Types /\ IInv)'
<1> DEFINE ps == IF env.low /\ task # "play" THEN {p} ELSE {}
<1>1. /\ task \in {"talk", "play", "decode"} /\ p \in {"transformer", "decoder"}
      /\ task = "talk" <=> p = "transformer"
  OBVIOUS
<1>2. /\ todo # <<>> /\ Head(todo) = task /\ todo' = Tail(todo) /\ Free(ps)
      /\ flag' = IF env.low /\ task # "play" THEN [flag EXCEPT ![p] = FALSE] ELSE flag
      /\ UNCHANGED <<env, stage, lost, loaded, cb>>
  BY DEF Works, At, Idle
<1>3. ps \in SUBSET Parts
  BY <1>1 DEF Parts
<1>4. stage' = 0
  BY <1>1, <1>2, Tasks, NotLoading DEF AtPart, Part, IInv
<1>5. flag' \in [Parts -> BOOLEAN] /\ \A x \in Parts : flag'[x] <=> flag[x] /\ x \notin ps
  BY <1>1, <1>2 DEF Types, Parts
<1>6. armed' = armed \ ps
  BY <1>2 DEF Free
<1> HIDE DEF ps
<1>7. todo' \in Speaking /\ todo' \notin TalkerSeen /\ todo \in Speaking /\ todo' \in Plans
  BY <1>1, <1>2, Rests, Ends DEF Types
<1>8. todo' \in VocoderSeen => flag'["decoder"]
  <2>1. CASE task = "talk"
    <3>1. todo' \in VocoderSeen => flag["decoder"]
      BY <1>2, <2>1, Rests DEF Types, IInv, PlanInv
    <3>2. "decoder" \notin ps
      BY <1>1, <2>1 DEF ps
    <3> QED
      BY <1>5, <3>1, <3>2 DEF Parts
  <2>2. CASE task # "talk"
    BY <1>1, <1>2, <2>2, Rests, Ends DEF Types
  <2> QED
    BY <2>1, <2>2
<1>9. PlanInv'
  BY <1>2, <1>5, <1>6, <1>7, <1>8 DEF IInv, PlanInv
<1> QED
  BY <1>2, <1>3, <1>4, <1>5, <1>7, <1>9, UnloadedKeeps DEF Types

\* load_model begins with unload_model.
LEMMA StartPartKeeps ==
  ASSUME Types, IInv, StartPart PROVE (Types /\ IInv)'
<1> DEFINE p == Head(todo)
           ps == FreesFirst(p)
<1>1. /\ todo # <<>> /\ p \in Parts /\ stage = 0 /\ ~flag[p] /\ stage' = 1 /\ Free(ps)
      /\ UNCHANGED <<env, todo, lost, flag, loaded, cb>>
  BY DEF StartPart, AtPart, Part, Idle
<1>2. ps \in SUBSET Parts /\ ps \subseteq {p} /\ (p # "encoder" => ps = {p})
  BY <1>1 DEF FreesFirst
<1> HIDE DEF ps
<1>3. Types'
  BY <1>1, <1>2, FreeTypes, FreeCounts DEF Types, IInv
<1>4. PlanInv'
  BY <1>1, <1>2 DEF IInv, PlanInv, Free
<1>5. held' = [x \in Parts |-> IF x \in ps THEN {} ELSE held[x]]
  BY <1>1 DEF Free
<1>6. LoadInv'
  <2>1. AtPart' /\ Part' = p
    BY <1>1 DEF AtPart, Part, Idle
  <2>2. stage' <= Len(Stages(p)) + 1 /\ Taken(p, 1) = {}
    BY <1>1, AllTaken, StageFacts
  <2>3. \A x \in Parts : held'[x] \subseteq held[x]
    BY <1>5
  <2>4. \A x \in Parts : flag[x] => held'[x] = held[x]
    BY <1>1, <1>2, <1>5
  <2>5. p # "encoder" => held'[p] = {}
    BY <1>1, <1>2, <1>5
  <2> HIDE DEF p
  <2> QED
    BY <1>1, <2>1, <2>2, <2>3, <2>4, <2>5 DEF IInv, LoadInv
<1>7. BackendCounted'
  BY <1>1, <1>2, FreeCounts DEF IInv
<1> QED
  BY <1>1, <1>3, <1>4, <1>6, <1>7 DEF IInv, LostInv

LEMMA StageWorksKeeps ==
  ASSUME Types, IInv, StageWorks PROVE (Types /\ IInv)'
<1> DEFINE p == Head(todo)
           r == Stages(p)[stage]
<1>1. /\ todo # <<>> /\ p \in Parts /\ stage \in 1..Len(Stages(p)) /\ stage' = stage + 1
      /\ IF r = "file" THEN UNCHANGED <<held, lost, refs, shared>> ELSE Take(p, r)
      /\ UNCHANGED <<env, todo, flag, loaded, cb, armed>>
  BY DEF StageWorks, AtPart, Part, Idle
<1>2. /\ ~flag[p] /\ Taken(p, stage) \subseteq held[p]
      /\ p # "encoder" => held[p] = Taken(p, stage)
  BY <1>1 DEF IInv, LoadInv, Part
<1>3. PlanInv'
  BY <1>1 DEF IInv, PlanInv
<1>4. AtPart' /\ Part' = p
  BY <1>1 DEF AtPart, Part, Idle
<1>5. r \in AllResources /\ (r = "file" <=> stage = 1) /\ Len(Stages(p)) \in Nat
  BY <1>1, StageFacts
<1>6. stage # 1 => stage \in 2..Len(Stages(p))
  BY <1>1, <1>5
<1>7. stage # 1 => /\ Taken(p, stage + 1) = Taken(p, stage) \union {r}
                   /\ r \in Resources(p) /\ r \notin Taken(p, stage)
  BY <1>1, <1>6, AllTaken
<1>8. stage = 1 => Taken(p, stage) = {} /\ Taken(p, stage + 1) = {}
  BY <1>1, AllTaken
<1>9. stage' <= Len(Stages(p)) + 1 /\ stage' \in Nat /\ stage' # 0
  BY <1>1, <1>5
<1> HIDE DEF p, r
<1>10. CASE stage = 1
  <2>1. UNCHANGED <<held, lost, refs, shared>>
    BY <1>1, <1>5, <1>10
  <2>2. LoadInv'
    BY <1>1, <1>2, <1>4, <1>8, <1>9, <1>10, <2>1 DEF IInv, LoadInv
  <2>3. BackendCounted'
    BY <1>1, <2>1, CountStays DEF IInv
  <2>4. Types'
    BY <1>1, <1>9, <2>1 DEF Types
  <2> QED
    BY <1>3, <2>1, <2>2, <2>3, <2>4 DEF IInv, LostInv
<1>11. CASE stage # 1
  <2>1. Take(p, r) /\ (r \in held[p] => p = "encoder")
    BY <1>1, <1>2, <1>5, <1>7, <1>11
  <2>2. /\ held' = [held EXCEPT ![p] = @ \union {r}]
        /\ lost' = IF r \in held[p] THEN lost \union {<<p, r>>} ELSE lost
    BY <2>1 DEF Take
  <2>3. BackendCounted' /\ refs' \in Nat /\ shared' \in {"none", "high", "default"}
    BY <1>1, <1>5, <2>1, TakeCounts DEF IInv
  <2>4. Types'
    BY <1>1, <1>5, <1>9, <2>2, <2>3 DEF Types
  <2>5. held'[p] = held[p] \union {r} /\ \A x \in Parts \ {p} : held'[x] = held[x]
    BY <1>1, <2>2 DEF Types
  <2>6. LoadInv'
    BY <1>1, <1>2, <1>4, <1>7, <1>9, <1>11, <2>5 DEF IInv, LoadInv
  <2>7. LostInv'
    BY <2>1, <2>2 DEF IInv, LostInv
  <2> QED
    BY <1>3, <2>3, <2>4, <2>6, <2>7 DEF IInv
<1> QED
  BY <1>10, <1>11

\* A failed stage leaves less than a loaded part has, and never a share.
LEMMA StageFailsKeeps ==
  ASSUME Types, IInv, StageFails PROVE (Types /\ IInv)'
<1> DEFINE p == Head(todo)
           r == Stages(p)[stage]
<1>1. /\ todo # <<>> /\ p \in Parts /\ stage \in 1..Len(Stages(p)) /\ GiveUp
      /\ UNCHANGED <<env, lost, refs, shared, flag, loaded, cb, armed>>
  BY DEF StageFails, AtPart, Part, Idle
<1>2. PICK left \in Leaves(r) : held' = [held EXCEPT ![p] = (@ \union left) \ Dropped(p, r)]
  BY DEF StageFails, Part
<1>3. ~flag[p]
  BY <1>1 DEF IInv, LoadInv, Part
<1>4. todo' \in Plans /\ stage' = 0 /\ PlanInv'
  BY <1>1, GivenUp DEF Types
<1>5. left \subseteq {r} /\ (left # {} => r \in {"ctx", "buffer", "mask"})
  BY <1>2 DEF Leaves
<1>6. r \in {"ctx", "buffer", "mask"} => r \in Resources(p)
  <2>1. r = "file" <=> stage = 1
    BY <1>1, StageFacts
  <2>2. stage # 1 => stage \in 2..Len(Stages(p))
    BY <1>1, StageFacts
  <2> QED
    BY <1>1, <2>1, <2>2, AllTaken
<1>7. Dropped(p, r) \subseteq {"ctx", "buffer"}
  BY DEF Dropped
<1> HIDE DEF p, r
<1>8. held'[p] = (held[p] \union left) \ Dropped(p, r)
      /\ \A x \in Parts \ {p} : held'[x] = held[x]
  BY <1>1, <1>2 DEF Types
<1>9. held[p] \subseteq Resources(p) /\ Resources(p) \subseteq AllResources
  BY <1>1, AllTaken DEF IInv, LoadInv
<1>10. held'[p] \subseteq Resources(p)
  BY <1>5, <1>6, <1>8, <1>9
<1>11. held' \in [Parts -> SUBSET AllResources]
  BY <1>1, <1>2, <1>8, <1>9, <1>10 DEF Types
<1>12. Types'
  BY <1>1, <1>4, <1>11 DEF Types
<1>13. LoadInv'
  BY <1>1, <1>3, <1>4, <1>8, <1>10 DEF IInv, LoadInv
<1>14. \A x \in Parts : "backend" \in held'[x] <=> "backend" \in held[x]
  BY <1>1, <1>5, <1>7, <1>8
<1>15. BackendCounted'
  BY <1>1, <1>14, CountStays DEF IInv
<1> QED
  BY <1>1, <1>4, <1>12, <1>13, <1>15 DEF IInv, LostInv

\* Its flag goes up when a part has everything; it is given the callback.
LEMMA PartLoadedKeeps ==
  ASSUME Types, IInv, PartLoaded PROVE (Types /\ IInv)'
<1> DEFINE p == Head(todo)
<1>1. /\ todo # <<>> /\ p \in Parts /\ stage = Len(Stages(p)) + 1 /\ stage' = 0
      /\ todo' = Tail(todo) /\ flag' = [flag EXCEPT ![p] = TRUE]
      /\ armed' = IF cb /\ p # "codec" THEN armed \union {p} ELSE armed
      /\ UNCHANGED <<env, held, lost, refs, shared, loaded, cb>>
  BY DEF PartLoaded, AtPart, Part, Idle, Arms
<1>2. stage # 0
  BY <1>1, StageFacts
<1>3. Taken(p, stage) = Resources(p) /\ Taken(p, stage) \subseteq held[p]
      /\ held[p] \subseteq Resources(p)
  BY <1>1, <1>2, AllTaken DEF IInv, LoadInv, Part
<1>4. /\ todo' \in Plans /\ (todo' \in Speaking <=> todo \in Speaking)
      /\ todo' \in Preparing \union Speaking => todo \in Preparing \union Speaking
      /\ todo' \in TalkerSeen => todo \in TalkerSeen \/ p = "transformer"
      /\ todo' \in VocoderSeen => todo \in VocoderSeen \/ p = "decoder"
  BY <1>1, Rests DEF Types
<1> HIDE DEF p
<1>5. flag' \in [Parts -> BOOLEAN] /\ flag'[p] /\ \A x \in Parts \ {p} : flag'[x] = flag[x]
  BY <1>1 DEF Types
<1>6. Types'
  BY <1>1, <1>4, <1>5 DEF Types
<1>7. PlanInv'
  <2>1. todo' \in TalkerSeen => flag'["transformer"]
    BY <1>4, <1>5 DEF IInv, PlanInv, Parts
  <2>2. todo' \in VocoderSeen => flag'["decoder"]
    BY <1>4, <1>5 DEF IInv, PlanInv, Parts
  <2>3. cb' => \A x \in Parts \ {"codec"} : flag'[x] => x \in armed'
    BY <1>1, <1>5 DEF IInv, PlanInv
  <2>4. /\ todo' \in Preparing \union Speaking => loaded'
        /\ cb' <=> todo' \in Speaking
        /\ ~cb' => armed' = {}
    BY <1>1, <1>4 DEF IInv, PlanInv
  <2> QED
    BY <2>1, <2>2, <2>3, <2>4 DEF PlanInv
<1>8. LoadInv'
  <2>1. held[p] = Resources(p)
    BY <1>3
  <2>2. \A x \in Parts : held[x] \subseteq Resources(x) /\ (flag[x] => held[x] = Resources(x))
    BY DEF IInv, LoadInv
  <2>3. \A x \in Parts : flag'[x] => held[x] = Resources(x)
    BY <1>5, <2>1, <2>2
  <2> QED
    BY <1>1, <2>2, <2>3 DEF LoadInv
<1>9. BackendCounted'
  BY <1>1, CountStays DEF IInv
<1> QED
  BY <1>1, <1>6, <1>7, <1>8, <1>9 DEF IInv, LostInv

LEMMA EncoderMismatchKeeps ==
  ASSUME Types, IInv, EncoderMismatch PROVE (Types /\ IInv)'
<1>1. /\ AtPart /\ Part = "encoder" /\ stage = Len(Stages("encoder")) + 1
      /\ GiveUp /\ Free({"encoder"}) /\ UNCHANGED <<env, lost, flag, loaded, cb>>
  BY DEF EncoderMismatch
<1>2. "encoder" \in Parts
  BY DEF Parts
<1>3. ~flag["encoder"]
  <2>1. stage # 0
    BY <1>1, <1>2, StageFacts
  <2> QED
    BY <1>1, <2>1 DEF IInv, LoadInv
<1>4. armed' = armed \ {"encoder"}
  BY <1>1 DEF Free
<1>5. \A p \in Parts : flag'[p] => flag[p] /\ p \notin {"encoder"}
  BY <1>1, <1>3
<1>6. todo' \in Plans /\ stage' = 0 /\ PlanInv'
  BY <1>1, <1>4, <1>5, GivenUp
<1> QED
  BY <1>1, <1>2, <1>5, <1>6, UnloadedKeeps DEF Types

LEMMA InvHolds == Spec => [](Types /\ IInv)
<1>1. Types /\ IInv /\ [Next]_vars => (Types /\ IInv)'
  <2> SUFFICES ASSUME Types, IInv, [Next]_vars PROVE (Types /\ IInv)'
    OBVIOUS
  <2>1. CASE UNCHANGED vars
    BY <2>1 DEF vars, Types, IInv, PlanInv, LoadInv, LostInv, BackendCounted, LostRef,
       Sharers, Shares, AtPart, Part, Idle
  <2>2. CASE \E voice, ref, streamed \in BOOLEAN : Speak(voice, ref, streamed)
    BY <2>2, SpeakKeeps
  <2>3. CASE \E p \in Parts : Register(p)
    BY <2>3, RegisterKeeps
  <2>4. CASE \/ Works("talk", "transformer") \/ Works("play", "decoder")
             \/ Works("decode", "decoder")
    BY <2>4, WorksKeeps
  <2>5. CASE ComputationFails \/ TokenizerFails
    BY <2>5, ComputationFailsKeeps, TokenizerFailsKeeps
  <2>6. CASE AlreadyLoaded \/ Ready \/ Compute \/ Arm \/ Disarm
    BY <2>6, TaskKeeps
  <2>7. CASE Load \/ Unload \/ UnloadEncoders
    BY <2>7, LoadKeeps, UnloadKeeps
  <2>8. CASE StartPart \/ StageWorks \/ StageFails \/ PartLoaded \/ EncoderMismatch
    BY <2>8, StartPartKeeps, StageWorksKeeps, StageFailsKeeps, PartLoadedKeeps,
       EncoderMismatchKeeps
  <2> QED
    BY <2>1, <2>2, <2>3, <2>4, <2>5, <2>6, <2>7, <2>8 DEF Next
<1> QED
  BY <1>1, InitInv, PTL DEF Spec

-----------------------------------------------------------------------------
(* The properties.                                                         *)

\* A flag is the truth and the count of the shared backend is that of its
\* holders, through every failed load and reload.
THEOREM Accounted == Spec => []PartsAccounted
<1>1. Types /\ IInv => PartsAccounted
  <2> SUFFICES ASSUME Types, IInv PROVE PartsAccounted
    OBVIOUS
  <2>1. At("talk") => flag["transformer"]
    BY Rests DEF At, Idle, Types, IInv, PlanInv
  <2>2. At("play") \/ At("decode") => flag["decoder"]
    BY Rests DEF At, Idle, Types, IInv, PlanInv
  <2> QED
    BY <2>1, <2>2 DEF PartsAccounted, FlagsTell, IInv, LoadInv
<1> QED
  BY <1>1, InvHolds, PTL

\* A cancel reaches whatever computes, also a part that was loaded for it, and
\* no callback stays behind.
THEOREM CancelSeen == Spec => []CancelReaches
<1>1. Types /\ IInv => CancelReaches
  <2> SUFFICES ASSUME Types, IInv PROVE CancelReaches
    OBVIOUS
  <2>1. At("talk") => todo \in TalkerSeen
    BY Rests DEF At, Idle, Types
  <2>2. At("play") \/ At("decode") => todo \in VocoderSeen
    BY Rests DEF At, Idle, Types
  <2>3. Idle => armed = {}
    BY Ends DEF Idle, IInv, PlanInv
  <2> QED
    BY <2>1, <2>2, <2>3, Ends DEF CancelReaches, IInv, PlanInv, Parts
<1> QED
  BY <1>1, InvHolds, PTL

\* After unload_model no part holds anything and the shared backend is gone,
\* whatever failed before it, but for what a reload of the speaker encoder
\* lost.
THEOREM AllReleased == Spec => UnloadReleasesAll
<1>1. /\ Types /\ IInv /\ (Types /\ IInv)' /\ [Next]_vars
      => [/\ \A l \in lost' : l[1] = "encoder"
          /\ Unload => AllFree' /\ (LostRef \notin lost => shared' = "none")]_vars
  <2> SUFFICES ASSUME Types, IInv, LostInv'
               PROVE  /\ \A l \in lost' : l[1] = "encoder"
                      /\ Unload => AllFree' /\ (LostRef \notin lost => shared' = "none")
    BY DEF IInv
  <2>1. ASSUME Unload PROVE AllFree' /\ (LostRef \notin lost => shared' = "none")
    <3>1. Free(Parts) /\ UNCHANGED <<env, lost>>
      BY <2>1 DEF Unload
    <3>2. LostRef \notin lost => shared' = "none"
      BY <3>1, FreeCounts DEF IInv
    <3> QED
      BY <3>1, <3>2 DEF Free, AllFree
  <2> QED
    BY <2>1 DEF LostInv
<1> QED
  BY <1>1, InvHolds, PTL DEF Spec, UnloadReleasesAll

-----------------------------------------------------------------------------
(* Sequences. *)

LEMMA TailOf ==
  ASSUME NEW S, NEW s \in Seq(S), s # <<>>
  PROVE  /\ Head(s) \in S /\ Head(s) = s[1] /\ 1 \in 1..Len(s)
         /\ Tail(s) \in Seq(S) /\ Len(s) \in Nat \ {0} /\ Len(Tail(s)) = Len(s) - 1
         /\ \A i \in 1..Len(Tail(s)) : i + 1 \in 1..Len(s) /\ Tail(s)[i] = s[i + 1]
         /\ Len(s) = 1 => Tail(s) = <<>>
<1>1. Len(s) \in Nat \ {0}
  BY EmptySeq, LenProperties
<1>2. Head(s) \in S /\ Head(s) = s[1] /\ 1 \in 1..Len(s)
  BY <1>1, HeadTailProperties, LenProperties, ElementOfSeq
<1>3. Tail(s) \in Seq(S) /\ Len(Tail(s)) = Len(s) - 1
  BY HeadTailProperties
<1>4. \A i \in 1..Len(Tail(s)) : i + 1 \in 1..Len(s) /\ Tail(s)[i] = s[i + 1]
  BY <1>1, <1>3
<1>5. ASSUME Len(s) = 1 PROVE Tail(s) = <<>>
  <2>1. Len(Tail(s)) = 0
    BY <1>3, <1>5
  <2> QED
    BY <1>3, <2>1, EmptySeq
<1> QED
  BY <1>1, <1>2, <1>3, <1>4, <1>5

LEMMA AppendOf ==
  ASSUME NEW S, NEW s \in Seq(S), NEW f \in S
  PROVE  /\ Append(s, f) \in Seq(S) /\ Append(s, f) # <<>>
         /\ Len(s) \in Nat /\ Len(Append(s, f)) = Len(s) + 1
         /\ Append(s, f)[Len(s) + 1] = f
         /\ \A i \in 1..Len(s) : Append(s, f)[i] = s[i]
         /\ s = <<>> => Len(s) = 0
BY AppendProperties, LenProperties, EmptySeq

-----------------------------------------------------------------------------
(* Induction over the naturals, of sets: a least element comes from finite *)
(* sets being well founded.                                                *)

LEMMA LeastNat ==
  ASSUME NEW T, T \subseteq Nat, T # {}
  PROVE  \E x \in T : \A y \in T : x <= y
<1> DEFINE Below(x) == 0..x - 1
           B == {Below(x) : x \in T}
<1>1. B \subseteq FiniteSubsetsOf(Nat) /\ B # {}
  <2>1. ASSUME NEW x \in T PROVE Below(x) \subseteq Nat /\ IsFiniteSet(Below(x))
    BY FS_Interval
  <2> QED
    BY <2>1 DEF FiniteSubsetsOf
<1>2. \E b \in B : \A a \in B : ~(<<a, b>> \in StrictSubsetOrdering(Nat))
  <2> HIDE DEF B
  <2> QED
    BY <1>1, WFMin, FS_StrictSubsetOrderingWellFounded
<1>3. PICK x \in T : \A y \in T : ~(<<Below(y), Below(x)>> \in StrictSubsetOrdering(Nat))
  BY <1>2
<1>4. ASSUME NEW y \in T PROVE x <= y
  <2> SUFFICES ASSUME y < x PROVE FALSE
    OBVIOUS
  <2>1. x \in Nat /\ y \in Nat
    OBVIOUS
  <2>2. Below(y) \subseteq Below(x) /\ Below(y) # Below(x)
    <3>1. y \in Below(x) /\ y \notin Below(y)
      BY <2>1
    <3> QED
      BY <2>1, <3>1
  <2>3. Below(y) \in SUBSET Nat /\ Below(x) \in SUBSET Nat
    BY <2>1
  <2> HIDE DEF Below
  <2> QED
    BY <1>3, <2>2, <2>3 DEF StrictSubsetOrdering
<1> QED
  BY <1>4

LEMMA SetInduction ==
  ASSUME NEW S, 0 \in S, \A n \in Nat : n \in S => n + 1 \in S
  PROVE  \A n \in Nat : n \in S
<1> SUFFICES ASSUME Nat \ S # {} PROVE FALSE
  OBVIOUS
<1>1. PICK x \in Nat \ S : \A y \in Nat \ S : x <= y
  BY LeastNat
<1>2. x # 0 /\ x - 1 \in Nat /\ x - 1 \in S
  BY <1>1
<1> QED
  BY <1>1, <1>2

-----------------------------------------------------------------------------
(* LongRead: a read's chunks.                                              *)

Chunked == [first : Nat \ {0}, words : Nat \ {0}]

\* The chunks tile the words of the passage.
Tiled(k) ==
  /\ k \in Seq(Chunked)
  /\ k # <<>> => k[1].first = 1
  /\ \A c \in 1..Len(k) - 1 : k[c + 1].first = k[c].first + k[c].words

LEMMA PackTiles ==
  ASSUME NEW k, Tiled(k), NEW n \in Nat \ {0}
  PROVE  Tiled(Pack(k, n))
<1>1. CASE k = <<>>
  <2> DEFINE one == [first |-> 1, words |-> n]
  <2>1. Pack(k, n) = <<one>>
    BY <1>1 DEF Pack
  <2>2. one \in Chunked /\ one.first = 1
    BY DEF Chunked
  <2> HIDE DEF one
  <2>3. <<one>> \in Seq(Chunked) /\ Len(<<one>>) = 1 /\ <<one>>[1] = one
    BY <2>2
  <2> QED
    BY <2>1, <2>2, <2>3 DEF Tiled
<1>2. CASE k # <<>>
  <2> DEFINE L == Len(k)
             l == k[L]
             more == [first |-> l.first + l.words, words |-> n]
             merged == [l EXCEPT !.words = @ + n]
  <2>1. k \in Seq(Chunked) /\ L \in Nat \ {0} /\ L \in 1..Len(k)
    BY <1>2, EmptySeq DEF Tiled
  <2>2. l \in Chunked
    BY <2>1, ElementOfSeq
  <2>3. /\ l.first \in Nat \ {0} /\ l.words \in Nat \ {0}
        /\ more \in Chunked /\ more.first = l.first + l.words
        /\ merged \in Chunked /\ merged.first = l.first
    BY <2>2 DEF Chunked
  <2>4. Pack(k, n) = IF l.words + n > ChunkWords THEN Append(k, more)
                     ELSE [k EXCEPT ![L] = merged]
    BY <1>2 DEF Pack
  <2>5. /\ k[1].first = 1
        /\ \A c \in 1..L - 1 : k[c + 1].first = k[c].first + k[c].words
    BY <1>2 DEF Tiled
  <2> HIDE DEF L, l, more, merged
  <2>6. CASE l.words + n > ChunkWords
    <3>1. /\ Append(k, more) \in Seq(Chunked) /\ Len(Append(k, more)) = L + 1
          /\ \A i \in 1..L : Append(k, more)[i] = k[i]
          /\ Append(k, more)[L + 1] = more
      BY <2>1, <2>3, AppendProperties DEF L
    <3>2. Append(k, more)[1].first = 1
      BY <2>1, <2>5, <3>1
    <3>3. ASSUME NEW c \in 1..(L + 1) - 1
          PROVE  Append(k, more)[c + 1].first = Append(k, more)[c].first + Append(k, more)[c].words
      <4>1. CASE c = L
        BY <2>1, <2>3, <3>1, <4>1 DEF l
      <4>2. CASE c # L
        <5>1. c \in 1..L - 1 /\ c \in 1..L /\ c + 1 \in 1..L
          BY <2>1, <4>2
        <5> QED
          BY <2>5, <3>1, <5>1
      <4> QED
        BY <4>1, <4>2
    <3> QED
      BY <2>4, <2>6, <3>1, <3>2, <3>3 DEF Tiled
  <2>7. CASE ~(l.words + n > ChunkWords)
    <3> DEFINE k2 == [k EXCEPT ![L] = merged]
    <3>1. /\ k2 \in Seq(Chunked) /\ Len(k2) = L
          /\ \A i \in 1..L : k2[i] = IF i = L THEN merged ELSE k[i]
      BY <2>1, <2>3, ExceptSeq DEF L
    <3> HIDE DEF k2
    <3>2. k2[1].first = 1
      BY <2>1, <2>3, <2>5, <3>1 DEF l
    <3>3. ASSUME NEW c \in 1..L - 1
          PROVE  k2[c + 1].first = k2[c].first + k2[c].words
      <4>1. c \in 1..L /\ c + 1 \in 1..L /\ c # L
        BY <2>1
      <4> QED
        BY <2>3, <2>5, <3>1, <4>1 DEF l
    <3> QED
      BY <2>4, <2>7, <3>1, <3>2, <3>3 DEF Tiled, k2
  <2> QED
    BY <2>6, <2>7
<1> QED
  BY <1>1, <1>2

\* A recursion along a sequence has a function that satisfies it.
PackedUpto(f, p, n) ==
  f = [i \in 0..n |-> IF i = 0 THEN <<>> ELSE Pack(f[i - 1], p[i])]

LEMMA PackedExists == ASSUME NEW p PROVE \A n \in Nat : \E f : PackedUpto(f, p, n)
<1> DEFINE S == {n \in Nat : \E f : PackedUpto(f, p, n)}
<1>1. 0 \in S
  <2> DEFINE f == [i \in 0..0 |-> <<>>]
  <2>1. PackedUpto(f, p, 0)
    BY DEF PackedUpto
  <2> QED
    BY <2>1
<1>2. ASSUME NEW n \in Nat, n \in S PROVE n + 1 \in S
  <2>1. PICK f : PackedUpto(f, p, n)
    BY <1>2
  <2> DEFINE g == [i \in 0..n + 1 |-> IF i <= n THEN f[i] ELSE Pack(f[n], p[n + 1])]
  <2>2. ASSUME NEW i \in 0..n PROVE f[i] = (IF i = 0 THEN <<>> ELSE Pack(f[i - 1], p[i]))
    BY <2>1 DEF PackedUpto
  <2>3. ASSUME NEW i \in 0..n + 1
        PROVE  g[i] = (IF i = 0 THEN <<>> ELSE Pack(g[i - 1], p[i]))
    <3>1. CASE i = 0
      BY <2>2, <3>1
    <3>2. CASE i \in 1..n
      <4>1. i - 1 \in 0..n /\ i - 1 <= n /\ i - 1 \in 0..n + 1 /\ i \in 0..n /\ i # 0
        BY <3>2
      <4> QED
        BY <2>2, <4>1
    <3>3. CASE i = n + 1
      <4>1. i - 1 = n /\ n \in 0..n + 1 /\ i # 0 /\ ~(i <= n)
        BY <3>3
      <4> QED
        BY <3>3, <4>1
    <3> QED
      BY <3>1, <3>2, <3>3
  <2>4. PackedUpto(g, p, n + 1)
    <3>1. g = [i \in 0..n + 1 |-> g[i]]
      OBVIOUS
    <3> HIDE DEF g
    <3> QED
      BY <2>3, <3>1 DEF PackedUpto
  <2> QED
    BY <2>4
<1> HIDE DEF S
<1>3. \A n \in Nat : n \in S
  BY <1>1, <1>2, SetInduction
<1> QED
  BY <1>3 DEF S

LEMMA PassageTiled ==
  ASSUME NEW p \in Seq(Nat \ {0})
  PROVE  Tiled(ChunkText(p))
<1> DEFINE f == CHOOSE f : PackedUpto(f, p, Len(p))
<1>1. Len(p) \in Nat
  OBVIOUS
<1>2. PackedUpto(f, p, Len(p))
  BY <1>1, PackedExists
<1>3. ChunkText(p) = f[Len(p)]
  BY DEF ChunkText, PackedUpto
<1> HIDE DEF f
<1>4. \A i \in 0..Len(p) : f[i] = IF i = 0 THEN <<>> ELSE Pack(f[i - 1], p[i])
  BY <1>2 DEF PackedUpto
<1> DEFINE S == {n \in Nat : n <= Len(p) => Tiled(f[n])}
<1>5. 0 \in S
  <2>1. f[0] = <<>>
    BY <1>1, <1>4
  <2>2. <<>> \in Seq(Chunked) /\ Len(<<>>) = 0
    BY EmptySeq
  <2>3. Tiled(<<>>)
    BY <2>2 DEF Tiled
  <2> QED
    BY <2>1, <2>3
<1>6. ASSUME NEW n \in Nat, n \in S PROVE n + 1 \in S
  <2> SUFFICES ASSUME n + 1 <= Len(p) PROVE Tiled(f[n + 1])
    OBVIOUS
  <2>1. /\ n + 1 \in 0..Len(p) /\ n + 1 # 0 /\ (n + 1) - 1 = n /\ n <= Len(p)
        /\ n + 1 \in 1..Len(p)
    BY <1>1
  <2>2. f[n + 1] = Pack(f[n], p[n + 1])
    BY <1>4, <2>1
  <2>3. p[n + 1] \in Nat \ {0}
    BY <2>1, ElementOfSeq
  <2>4. Tiled(f[n])
    BY <1>6, <2>1
  <2> QED
    BY <2>2, <2>3, <2>4, PackTiles
<1> HIDE DEF S
<1>7. \A n \in Nat : n \in S
  BY <1>5, <1>6, SetInduction
<1> QED
  BY <1>1, <1>3, <1>7 DEF S

\* The word the first c chunks end with.
LastWord(c) == IF c = 0 THEN 0 ELSE Chunks[c].first + Chunks[c].words - 1

LEMMA LastWords ==
  ASSUME Tiled(Chunks)
  PROVE  /\ Len(Chunks) \in Nat /\ LastWord(0) = 0
         /\ \A c \in 1..Len(Chunks) :
              /\ c - 1 \in 0..Len(Chunks) /\ c - 1 < c /\ c # 0
              /\ Chunks[c].words \in Nat \ {0} /\ Chunks[c].first \in Nat \ {0}
              /\ LastWord(c - 1) = Chunks[c].first - 1
              /\ LastWord(c) = LastWord(c - 1) + Chunks[c].words
         /\ \A c \in 0..Len(Chunks) : LastWord(c) \in Nat
<1>1. Len(Chunks) \in Nat
  BY DEF Tiled
<1>2. ASSUME NEW c \in 1..Len(Chunks)
      PROVE  Chunks[c].words \in Nat \ {0} /\ Chunks[c].first \in Nat \ {0}
  <2>1. Chunks[c] \in Chunked
    BY ElementOfSeq DEF Tiled
  <2> QED
    BY <2>1 DEF Chunked
<1>3. ASSUME NEW c \in 1..Len(Chunks)
      PROVE  LastWord(c - 1) = Chunks[c].first - 1
  <2>1. CASE c = 1
    <3>1. Chunks # <<>>
      BY <1>1, EmptySeq
    <3> QED
      BY <2>1, <3>1 DEF Tiled, LastWord
  <2>2. CASE c # 1
    <3> DEFINE b == c - 1
    <3>1. b \in 1..Len(Chunks) - 1 /\ b + 1 = c /\ b # 0 /\ b \in 1..Len(Chunks)
      BY <1>1, <2>2
    <3> HIDE DEF b
    <3>2. Chunks[c].first = Chunks[b].first + Chunks[b].words
      BY <3>1 DEF Tiled
    <3>3. LastWord(b) = Chunks[b].first + Chunks[b].words - 1
      BY <3>1 DEF LastWord
    <3>4. Chunks[b].words \in Nat /\ Chunks[b].first \in Nat
      BY <1>2, <3>1
    <3> QED
      BY <3>2, <3>3, <3>4 DEF b
  <2> QED
    BY <2>1, <2>2
<1>4. ASSUME NEW c \in 1..Len(Chunks)
      PROVE  LastWord(c) = LastWord(c - 1) + Chunks[c].words /\ LastWord(c) \in Nat
  <2>1. LastWord(c) = Chunks[c].first + Chunks[c].words - 1
    BY DEF LastWord
  <2>2. LastWord(c - 1) = Chunks[c].first - 1
    BY <1>3
  <2>3. Chunks[c].words \in Nat /\ Chunks[c].first \in Nat /\ Chunks[c].first > 0
    BY <1>2
  <2> QED
    BY <2>1, <2>2, <2>3
<1>5. LastWord(0) = 0
  BY DEF LastWord
<1>6. ASSUME NEW c \in 0..Len(Chunks) PROVE LastWord(c) \in Nat
  <2>1. c = 0 \/ c \in 1..Len(Chunks)
    BY <1>1
  <2> QED
    BY <1>4, <1>5, <2>1
<1> QED
  BY <1>1, <1>2, <1>3, <1>4, <1>5, <1>6

-----------------------------------------------------------------------------
(* The engine of a read and what it carries.                               *)

\* A chunk's frames, and those of the silence behind it.
HeardOf(c) == Seq({0, c})

Messages == [kind : {"start", "audio", "done"}, chunk : Nat, frames : Seq(Nat)]
ReadVoices == [T : Nat, of : Int, text : Int]
Engines == [pc : {"loop", "start", "ar", "carry", "end", "fail", "gone", "failed"}, ci : Nat \ {0},
            T : Nat, out : Nat, next : Nat, hist : ReadVoices, used : ReadVoices]
ChunkJobs == [chunk : Nat, base : Nat, word : Nat, pcm : Seq(Nat)]
Makings == [T : Nat, cut : BOOLEAN]

ReadTypes ==
  /\ read \in [chunks : Seq(Chunked), isolated : BOOLEAN, named : BOOLEAN, max : Nat, gap : Nat]
  /\ Tiled(Chunks)
  /\ eng \in Engines /\ cancel \in BOOLEAN
  /\ made \in [1..Len(Chunks) -> Makings]
  /\ eng.ci <= Len(Chunks) + 1
  /\ eng.pc \in {"start", "ar", "carry", "fail"} => eng.ci <= Len(Chunks)

\* A transcript that comes with a voice is that of all the audio of a chunk.
Whole(v) ==
  v.text > 0 => /\ v.of = v.text /\ v.text < eng.ci /\ v.T = made[v.text].T /\ v.T <= RefMax

\* Why a chunk was cut short: by its budget, or by a cancel.
CutTold == \A c \in 1..Len(Chunks) : made[c].cut => cancel \/ made[c].T = read.max

HistoryInv ==
  /\ eng.pc = "carry" => made[eng.ci].T = eng.T
  /\ eng.pc = "loop" => Whole(eng.hist)
  /\ eng.pc \in {"start", "ar"} =>
       /\ Whole(eng.used)
       /\ eng.used.text > 0 /\ made[eng.used.text].cut => made[eng.used.text].T = read.max
  /\ eng.pc \in {"end", "gone"} => cancel \/ eng.ci > Len(Chunks)
  /\ CutTold

EngInv == ReadTypes /\ HistoryInv

LEMMA VoiceTypes ==
  ASSUME LongReadAssumption
  PROVE  NoVoice \in ReadVoices /\ Caller \in ReadVoices /\ NoVoice.text = -1
         /\ Caller.text \in {-1, 0}
BY DEF LongReadAssumption, NoVoice, Caller, ReadVoices

LEMMA EngType ==
  ASSUME ReadTypes
  PROVE  /\ eng.ci \in Nat \ {0} /\ eng.T \in Nat /\ eng.out \in Nat /\ eng.next \in Nat
         /\ eng.hist \in ReadVoices /\ eng.used \in ReadVoices /\ Len(Chunks) \in Nat
         /\ eng.pc \in {"loop", "start", "ar", "carry", "end", "fail", "gone", "failed"}
         /\ read.isolated \in BOOLEAN /\ read.named \in BOOLEAN
         /\ read.max \in Nat /\ read.gap \in Nat
BY DEF ReadTypes, Engines, Tiled

LEMMA ReadStart ==
  ASSUME LongReadAssumption, ReadInit
  PROVE  EngInv
<1>1. PICK p \in Passages : read.chunks = ChunkText(p)
  BY DEF ReadInit
<1>2. Tiled(Chunks)
  BY <1>1, PassageTiled DEF LongReadAssumption, Chunks
<1>3. Chunks \in Seq(Chunked) /\ Len(Chunks) \in Nat
  BY <1>2 DEF Tiled
<1>4. read \in [chunks : Seq(Chunked), isolated : BOOLEAN, named : BOOLEAN, max : Nat, gap : Nat]
  BY <1>3 DEF ReadInit, Chunks, LongReadAssumption
<1>5. eng = [pc |-> "loop", ci |-> 1, T |-> 0, out |-> 0, next |-> 0,
            hist |-> Caller, used |-> NoVoice]
  BY DEF ReadInit
<1>6. eng \in Engines /\ eng.ci <= Len(Chunks) + 1
  BY <1>3, <1>5, VoiceTypes DEF Engines
<1>7. made \in [1..Len(Chunks) -> Makings]
  BY DEF ReadInit, Makings
<1>8. ReadTypes
  <2>1. eng.pc = "loop"
    BY <1>5
  <2>2. cancel = FALSE
    BY DEF ReadInit
  <2> QED
    BY <1>2, <1>4, <1>6, <1>7, <2>1, <2>2 DEF ReadTypes
<1>9. ~(eng.hist.text > 0)
  BY <1>5, VoiceTypes
<1>10. CutTold
  BY DEF ReadInit, CutTold
<1> QED
  BY <1>5, <1>8, <1>9, <1>10 DEF EngInv, HistoryInv, Whole

\* What becomes of the engine's own state.
LEMMA EngEnter ==
  ASSUME LongReadAssumption, EngInv, EnterChunk
  PROVE  EngInv'
<1> USE DEF EngInv
<1>1. /\ eng.pc = "loop" /\ read' = read /\ made' = made /\ cancel' = cancel /\ Chunks' = Chunks
      /\ eng \in Engines
  BY DEF EnterChunk, Chunks, ReadTypes
<1>2. CASE cancel \/ eng.ci > Len(Chunks)
  <2>1. eng' = [eng EXCEPT !.pc = "end"]
    BY <1>2 DEF EnterChunk
  <2>2. eng' \in Engines /\ eng'.ci = eng.ci /\ eng'.pc = "end"
    BY <1>1, <2>1 DEF Engines
  <2> QED
    BY <1>1, <1>2, <2>2 DEF ReadTypes, HistoryInv, CutTold
<1>3. CASE ~(cancel \/ eng.ci > Len(Chunks))
  <2>1. eng' = [eng EXCEPT !.pc = "start", !.used = eng.hist]
    BY <1>3 DEF EnterChunk
  <2>2. /\ eng' \in Engines /\ eng'.ci = eng.ci /\ eng'.pc = "start" /\ eng'.used = eng.hist
    BY <1>1, <2>1 DEF Engines
  <2>3. eng.ci <= Len(Chunks) /\ ~cancel
    BY <1>3, EngType
  <2>4. Whole(eng.hist) /\ CutTold
    BY <1>1 DEF HistoryInv
  <2>5. eng.hist.text > 0 => eng.hist.text \in 1..Len(Chunks)
    <3>1. eng.hist.text \in Int /\ eng.ci \in Nat /\ Len(Chunks) \in Nat
      BY EngType DEF ReadVoices
    <3> QED
      BY <2>3, <2>4, <3>1 DEF Whole
  <2>6. eng.hist.text > 0 /\ made[eng.hist.text].cut => made[eng.hist.text].T = read.max
    BY <2>3, <2>4, <2>5 DEF CutTold
  <2>7. CutTold'
    BY <1>1, <2>4 DEF CutTold
  <2>8. Whole(eng.used)'
    BY <1>1, <2>2, <2>4 DEF Whole
  <2>9. ReadTypes'
    BY <1>1, <2>2, <2>3 DEF ReadTypes
  <2> QED
    BY <1>1, <2>2, <2>6, <2>7, <2>8, <2>9 DEF HistoryInv
<1> QED
  BY <1>2, <1>3

LEMMA EngBegin ==
  ASSUME LongReadAssumption, EngInv, BeginChunk
  PROVE  EngInv' /\ eng'.ci = eng.ci /\ eng'.out = 0 /\ eng'.T = 0 /\ eng'.pc \in {"ar", "fail"}
<1> USE DEF EngInv
<1>1. /\ eng.pc = "start" /\ read' = read /\ made' = made /\ cancel' = cancel /\ Chunks' = Chunks
      /\ eng \in Engines /\ Batch \in Nat
  BY DEF BeginChunk, Chunks, ReadTypes, LongReadAssumption
<1>2. PICK ok \in BOOLEAN :
        eng' = [eng EXCEPT !.pc = IF ok THEN "ar" ELSE "fail", !.T = 0, !.out = 0, !.next = Batch]
  BY DEF BeginChunk
<1>3. /\ eng' \in Engines /\ eng'.ci = eng.ci /\ eng'.pc \in {"ar", "fail"}
      /\ eng'.used = eng.used /\ eng'.out = 0 /\ eng'.T = 0
  BY <1>1, <1>2 DEF Engines
<1>4. /\ Whole(eng.used) /\ CutTold
      /\ eng.used.text > 0 /\ made[eng.used.text].cut => made[eng.used.text].T = read.max
  BY <1>1 DEF HistoryInv
<1>5. ReadTypes'
  BY <1>1, <1>3 DEF ReadTypes
<1> QED
  BY <1>1, <1>3, <1>4, <1>5 DEF HistoryInv, Whole, CutTold

LEMMA EngFrame ==
  ASSUME LongReadAssumption, EngInv, MakeFrame \/ FrameFails
  PROVE  EngInv'
<1> USE DEF EngInv
<1>1. /\ eng.pc = "ar" /\ read' = read /\ made' = made /\ cancel' = cancel /\ Chunks' = Chunks
      /\ eng \in Engines
  BY DEF MakeFrame, FrameFails, Chunks, ReadTypes
<1>2. /\ eng' \in Engines /\ eng'.ci = eng.ci /\ eng'.pc \in {"ar", "fail"}
      /\ eng'.used = eng.used
  <2>1. CASE FrameFails
    BY <1>1, <2>1 DEF FrameFails, Engines
  <2>2. CASE MakeFrame
    <3> DEFINE x == IF 2 * eng.next < MaxBatch THEN 2 * eng.next ELSE MaxBatch
               t == eng.T + 1
    <3>1. x \in Nat /\ t \in Nat
      BY EngType, SMTT(60) DEF LongReadAssumption
    <3>2. \/ eng' = [eng EXCEPT !.T = t, !.out = t, !.next = x]
          \/ eng' = [eng EXCEPT !.T = t]
      BY <2>2 DEF MakeFrame
    <3> HIDE DEF x, t
    <3> QED
      BY <1>1, <3>1, <3>2 DEF Engines
  <2> QED
    BY <2>1, <2>2
<1>3. /\ Whole(eng.used) /\ CutTold
      /\ eng.used.text > 0 /\ made[eng.used.text].cut => made[eng.used.text].T = read.max
  BY <1>1 DEF HistoryInv
<1>4. ReadTypes'
  BY <1>1, <1>2 DEF ReadTypes
<1> QED
  BY <1>1, <1>2, <1>3, <1>4 DEF HistoryInv, Whole, CutTold

LEMMA EngEnds ==
  ASSUME LongReadAssumption, EngInv, EndChunk
  PROVE  EngInv'
<1> USE DEF EngInv
<1>1. /\ eng.pc = "ar" /\ read' = read /\ cancel' = cancel /\ Chunks' = Chunks
      /\ eng \in Engines /\ eng.ci \in 1..Len(Chunks)
  BY EngType DEF EndChunk, Chunks, ReadTypes
<1>2. PICK eos \in BOOLEAN :
        /\ eos \/ cancel \/ eng.T = read.max
        /\ made' = [made EXCEPT ![eng.ci] = [T |-> eng.T, cut |-> ~eos]]
  BY DEF EndChunk
<1>3. eng' = [eng EXCEPT !.pc = "carry", !.out = eng.T]
  BY DEF EndChunk
<1>4. eng' \in Engines /\ eng'.ci = eng.ci /\ eng'.T = eng.T /\ eng'.pc = "carry"
  BY <1>1, <1>3, EngType DEF Engines
<1>5. [T |-> eng.T, cut |-> ~eos] \in Makings
  BY EngType DEF Makings
<1>6. /\ made' \in [1..Len(Chunks) -> Makings] /\ made'[eng.ci] = [T |-> eng.T, cut |-> ~eos]
      /\ \A c \in 1..Len(Chunks) : c # eng.ci => made'[c] = made[c]
  BY <1>1, <1>2, <1>5 DEF ReadTypes
<1>7. CutTold'
  <2>1. CutTold
    BY DEF HistoryInv
  <2>2. ASSUME NEW c \in 1..Len(Chunks), made'[c].cut
        PROVE  cancel \/ made'[c].T = read.max
    <3>1. CASE c = eng.ci
      BY <1>2, <1>6, <2>2, <3>1
    <3>2. CASE c # eng.ci
      BY <1>6, <2>1, <2>2, <3>2 DEF CutTold
    <3> QED
      BY <3>1, <3>2
  <2> QED
    BY <1>1, <2>2 DEF CutTold
<1>8. ReadTypes'
  BY <1>1, <1>4, <1>6 DEF ReadTypes
<1> QED
  BY <1>4, <1>6, <1>7, <1>8 DEF HistoryInv

LEMMA EngNext ==
  ASSUME LongReadAssumption, EngInv, NextChunk
  PROVE  EngInv'
<1> USE DEF EngInv
<1>1. /\ eng.pc = "carry" /\ read' = read /\ cancel' = cancel /\ made' = made /\ Chunks' = Chunks
      /\ eng \in Engines /\ eng.ci \in 1..Len(Chunks)
  BY EngType DEF NextChunk, Chunks, ReadTypes
<1>2. Carry \in ReadVoices
  <2>1. eng.T \in Nat /\ eng.ci \in Nat /\ RefMax \in Nat /\ Caller \in ReadVoices
    BY EngType, VoiceTypes DEF LongReadAssumption
  <2>2. /\ [T |-> eng.T, of |-> eng.ci, text |-> eng.ci] \in ReadVoices
        /\ [T |-> RefMax, of |-> eng.ci, text |-> -1] \in ReadVoices
    BY <2>1 DEF ReadVoices
  <2> QED
    BY <2>1, <2>2 DEF Carry
<1>3. eng' = [eng EXCEPT !.pc = "loop", !.ci = @ + 1, !.hist = Carry]
  BY DEF NextChunk
<1>4. eng' \in Engines /\ eng'.ci = eng.ci + 1 /\ eng'.pc = "loop" /\ eng'.hist = Carry
  <2> DEFINE h == Carry
             n == eng.ci + 1
  <2>1. n \in Nat \ {0} /\ h \in ReadVoices
    BY <1>1, <1>2
  <2>2. eng' = [eng EXCEPT !.pc = "loop", !.ci = n, !.hist = h]
    BY <1>3
  <2> HIDE DEF h, n
  <2>3. eng' \in Engines /\ eng'.ci = n /\ eng'.pc = "loop" /\ eng'.hist = h
    BY <1>1, <2>1, <2>2 DEF Engines
  <2> QED
    BY <2>3 DEF h, n
<1>5. ASSUME Carry.text > 0
      PROVE  /\ Carry.of = Carry.text /\ Carry.text = eng.ci /\ Carry.T = eng.T
             /\ eng.T <= RefMax
  <2>1. Carry = Caller => FALSE
    BY <1>5, VoiceTypes
  <2>2. eng.T <= RefMax
    BY <1>5, <2>1 DEF Carry
  <2>3. Carry = [T |-> eng.T, of |-> eng.ci, text |-> eng.ci]
    BY <2>2 DEF Carry
  <2> QED
    BY <2>2, <2>3, EngType
<1>6. made[eng.ci].T = eng.T /\ CutTold
  BY <1>1 DEF HistoryInv
<1>7. Whole(eng.hist)'
  <2> DEFINE h == Carry
  <2>1. h.text > 0 => /\ h.of = h.text /\ h.text = eng.ci /\ h.T = eng.T /\ eng.T <= RefMax
    BY <1>5
  <2>2. eng'.hist = h /\ eng'.ci = eng.ci + 1 /\ eng.ci \in Int
    BY <1>1, <1>4
  <2> HIDE DEF h
  <2> QED
    BY <1>1, <1>6, <2>1, <2>2 DEF Whole
<1>8. ReadTypes'
  BY <1>1, <1>4, EngType, SMTT(60) DEF ReadTypes
<1> QED
  BY <1>1, <1>4, <1>6, <1>7, <1>8 DEF HistoryInv, CutTold

LEMMA EngReturns ==
  ASSUME LongReadAssumption, EngInv, Return
  PROVE  EngInv'
<1> USE DEF EngInv
<1>1. /\ read' = read /\ cancel' = cancel /\ made' = made /\ Chunks' = Chunks
      /\ eng \in Engines /\ eng.pc \in {"end", "fail"}
      /\ eng' = [eng EXCEPT !.pc = IF eng.pc = "end" THEN "gone" ELSE "failed"]
  BY DEF Return, Chunks, ReadTypes
<1>2. /\ eng' \in Engines /\ eng'.ci = eng.ci /\ eng'.pc \in {"gone", "failed"}
      /\ eng'.pc = "gone" => eng.pc = "end"
  BY <1>1 DEF Engines
<1> QED
  BY <1>1, <1>2 DEF ReadTypes, HistoryInv, CutTold

LEMMA EngStays ==
  ASSUME EngInv, read' = read, eng' = eng, made' = made, cancel' \in BOOLEAN, cancel => cancel'
  PROVE  EngInv'
<1>1. ReadTypes'
  BY DEF EngInv, ReadTypes, Chunks
<1>2. CutTold'
  BY DEF EngInv, HistoryInv, CutTold, Chunks
<1> QED
  BY <1>1, <1>2 DEF EngInv, HistoryInv, Whole, Chunks

\* The cancel flag is never taken back.
LEMMA CancelStays ==
  ASSUME EngInv, Notice
  PROVE  cancel' \in BOOLEAN /\ (cancel => cancel') /\ read' = read /\ eng' = eng /\ made' = made
<1>1. cancel \in BOOLEAN
  BY DEF EngInv, ReadTypes
<1> QED
  BY <1>1 DEF Notice

LEMMA EngStep ==
  ASSUME LongReadAssumption, EngInv, [ReadNext]_readVars
  PROVE  EngInv'
<1>1. cancel \in BOOLEAN
  BY DEF EngInv, ReadTypes
<1>2. CASE Render
  BY <1>2, EngEnter, EngBegin, EngFrame, EngEnds, EngNext, EngReturns DEF Render
<1>3. CASE Provider
  <2>1. read' = read /\ eng' = eng /\ made' = made /\ cancel' = cancel
    BY <1>3 DEF Provider, TakeStart, TakeAudio, CloseRead, Conclude
  <2> QED
    BY <1>1, <2>1, EngStays
<1>4. CASE Thread
  <2>1. read' = read /\ eng' = eng /\ made' = made /\ cancel' = cancel
    BY <1>4 DEF Thread, TakeJob, Quit, Pass
  <2> QED
    BY <1>1, <2>1, EngStays
<1>5. CASE Watchdog
  <2>1. CASE Notice
    BY <2>1, CancelStays, EngStays
  <2>2. CASE Record
    <3>1. read' = read /\ eng' = eng /\ made' = made /\ cancel' = cancel
      BY <2>2 DEF Record
    <3> QED
      BY <1>1, <3>1, EngStays
  <2> QED
    BY <1>5, <2>1, <2>2 DEF Watchdog
<1>6. CASE ReadOver \/ UNCHANGED readVars
  <2>1. read' = read /\ eng' = eng /\ made' = made /\ cancel' = cancel
    BY <1>6 DEF ReadOver, readVars
  <2> QED
    BY <1>1, <2>1, EngStays
<1> QED
  BY <1>2, <1>3, <1>4, <1>5, <1>6 DEF ReadNext

LEMMA EngAlways == ReadSpec => []EngInv
<1>1. ReadInit => EngInv
  BY ReadStart, LongReadAssumption
<1>2. EngInv /\ [ReadNext]_readVars => EngInv'
  BY EngStep, LongReadAssumption
<1> QED
  BY <1>1, <1>2, PTL DEF ReadSpec

LEMMA HistoryFollows == ASSUME LongReadAssumption, EngInv PROVE HistoryDescribed
<1> SUFFICES ASSUME eng.pc = "ar", eng.used.T > 0, eng.used.text > 0
             PROVE  LET voice == made[eng.used.of]
                    IN /\ eng.used.of = eng.used.text
                       /\ eng.used.T = voice.T
                       /\ voice.cut => voice.T = read.max /\ read.max <= RefMax
  BY DEF HistoryDescribed
<1>1. /\ Whole(eng.used)
      /\ made[eng.used.text].cut => made[eng.used.text].T = read.max
  BY DEF EngInv, HistoryInv
<1> QED
  BY <1>1 DEF Whole

\* A transcript the model is told to continue is that of exactly the audio it
\* is told to continue.
THEOREM HistoryTrue == ReadSpec => []HistoryDescribed
<1>1. EngInv => HistoryDescribed
  BY HistoryFollows, LongReadAssumption
<1> QED
  BY EngAlways, <1>1, PTL

-----------------------------------------------------------------------------
(* What is on its way to the provider.                                     *)

\* A chunk without audio, whose start is lost in a worker without a seam; and all
\* chunks between two.
Lost(c) == read.isolated /\ read.gap = 0 /\ c < eng.ci /\ made[c].T = 0
AllLost(a, b) == \A c \in a + 1..b - 1 : Lost(c)

\* A message that follows chunk a leaves the stream at chunk b.
Link(a, m, b) ==
  /\ m.kind = "start" => a < b /\ m.chunk = b /\ AllLost(a, b)
  /\ m.kind # "start" => b = a
  /\ m.kind = "audio" => m.frames \in HeardOf(b)

\* cur[i] is the chunk the stream is at after the first i messages.
Chain(w, cur, s) ==
  /\ w \in Seq(Messages) /\ cur \in [0..Len(w) -> 0..Len(Chunks)] /\ cur[0] = s
  /\ \A i \in 1..Len(w) : Link(cur[i - 1], w[i], cur[i])

Sounds(m) == m.kind = "audio" /\ m.frames # <<>>
HasAudio(w, cur, c) == \E i \in 1..Len(w) : cur[i] = c /\ Sounds(w[i])

\* Nothing heard in the one is lost in the other.
Retains(w, cur, w2, cur2) == \A c \in Nat : HasAudio(w, cur, c) => HasAudio(w2, cur2, c)

\* What is lost stays lost.
LostKept == \A c \in 1..Len(Chunks) : Lost(c) => Lost(c)'

LEMMA LostStays ==
  ASSUME LongReadAssumption, EngInv, [ReadNext]_readVars
  PROVE  LostKept
<1> USE DEF EngInv
<1>1. eng.ci \in Nat /\ eng \in Engines /\ read' = read
  <2>1. read' = read
    BY DEF ReadNext, Render, EnterChunk, BeginChunk, MakeFrame, FrameFails, EndChunk, NextChunk,
           Return, Provider, TakeStart, TakeAudio, CloseRead, Conclude, Thread, TakeJob, Quit, Pass,
           Watchdog, Notice, Record, ReadOver, readVars
  <2> QED
    BY <2>1, EngType DEF ReadTypes
<1>2. CASE EndChunk
  <2>1. PICK m : made' = [made EXCEPT ![eng.ci] = m]
    BY <1>2 DEF EndChunk
  <2>2. eng' = [eng EXCEPT !.pc = "carry", !.out = eng.T]
    BY <1>2 DEF EndChunk
  <2>3. eng'.ci = eng.ci
    BY <1>1, <2>2 DEF Engines
  <2>4. \A c \in 1..Len(Chunks) : c # eng.ci => made'[c] = made[c]
    BY <2>1 DEF ReadTypes
  <2> QED
    BY <1>1, <2>3, <2>4 DEF LostKept, Lost
<1>3. CASE NextChunk
  <2>1. made' = made /\ eng' = [eng EXCEPT !.pc = "loop", !.ci = eng.ci + 1, !.hist = Carry]
    BY <1>3 DEF NextChunk
  <2>2. eng'.ci = eng.ci + 1
    BY <1>1, <2>1 DEF Engines
  <2> QED
    BY <1>1, <2>1, <2>2 DEF LostKept, Lost
<1>4. CASE ~(EndChunk \/ NextChunk)
  <2>1. made' = made
    BY <1>4 DEF ReadNext, Render, EnterChunk, BeginChunk, MakeFrame, FrameFails,
           Return, Provider, TakeStart, TakeAudio, CloseRead, Conclude, Thread, TakeJob, Quit, Pass,
           Watchdog, Notice, Record, ReadOver, readVars
  <2>2. eng'.ci = eng.ci
    <3>1. CASE EnterChunk
      BY <1>1, <3>1 DEF EnterChunk, Engines
    <3>2. CASE BeginChunk
      BY <1>1, <3>2 DEF BeginChunk, Engines
    <3>3. CASE MakeFrame
      <4> DEFINE x == IF 2 * eng.next < MaxBatch THEN 2 * eng.next ELSE MaxBatch
                 t == eng.T + 1
      <4>1. \/ eng' = [eng EXCEPT !.T = t, !.out = t, !.next = x]
            \/ eng' = [eng EXCEPT !.T = t]
        BY <3>3 DEF MakeFrame
      <4> HIDE DEF x, t
      <4> QED
        BY <1>1, <4>1 DEF Engines
    <3>4. CASE FrameFails \/ Return
      BY <1>1, <3>4 DEF FrameFails, Return, Engines
    <3>5. CASE ~Render
      <4>1. eng' = eng
        BY <3>5 DEF ReadNext, Provider, TakeStart, TakeAudio, CloseRead, Conclude, Thread, TakeJob,
               Quit, Pass, Watchdog, Notice, Record, ReadOver, readVars
      <4> QED
        BY <4>1
    <3> QED
      BY <1>4, <3>1, <3>2, <3>3, <3>4, <3>5 DEF Render
  <2> QED
    BY <1>1, <2>1, <2>2 DEF LostKept, Lost
<1> QED
  BY <1>2, <1>3, <1>4

LEMMA AllLostKept ==
  ASSUME LostKept, Len(Chunks) \in Nat
  PROVE  \A a \in 0..Len(Chunks), b \in 0..Len(Chunks) : AllLost(a, b) => AllLost(a, b)'
<1> SUFFICES ASSUME NEW a \in 0..Len(Chunks), NEW b \in 0..Len(Chunks), AllLost(a, b),
                    NEW c \in a + 1..b - 1
             PROVE  Lost(c)'
  BY DEF AllLost
<1>1. c \in 1..Len(Chunks) /\ Lost(c)
  BY DEF AllLost
<1> QED
  BY <1>1 DEF LostKept

LEMMA LinksKept ==
  ASSUME LostKept, Len(Chunks) \in Nat
  PROVE  \A a \in 0..Len(Chunks), b \in 0..Len(Chunks) :
            \A m : Link(a, m, b) => Link(a, m, b)'
BY AllLostKept DEF Link, HeardOf

LEMMA ChainsKept ==
  ASSUME LostKept, Len(Chunks) \in Nat, Chunks' = Chunks
  PROVE  \A w, cur, s : Chain(w, cur, s) => Chain(w, cur, s)'
<1> SUFFICES ASSUME NEW w, NEW cur, NEW s, Chain(w, cur, s) PROVE Chain(w, cur, s)'
  OBVIOUS
<1>1. /\ w \in Seq(Messages) /\ cur \in [0..Len(w) -> 0..Len(Chunks)] /\ cur[0] = s
      /\ \A i \in 1..Len(w) : Link(cur[i - 1], w[i], cur[i])
  BY DEF Chain
<1>2. Len(w) \in Nat
  BY <1>1, LenProperties
<1>3. ASSUME NEW i \in 1..Len(w) PROVE Link(cur[i - 1], w[i], cur[i])'
  <2>1. i - 1 \in 0..Len(w) /\ i \in 0..Len(w)
    BY <1>2
  <2>2. cur[i - 1] \in 0..Len(Chunks) /\ cur[i] \in 0..Len(Chunks)
    BY <1>1, <2>1
  <2> QED
    BY <1>1, <2>2, LinksKept
<1> QED
  BY <1>1, <1>3 DEF Chain

LEMMA ChainPush ==
  ASSUME NEW w, NEW cur, NEW s, Chain(w, cur, s), NEW m \in Messages,
         NEW n \in 0..Len(Chunks), Link(cur[Len(w)], m, n)
  PROVE  \E cur2 : /\ Chain(Append(w, m), cur2, s) /\ cur2[Len(Append(w, m))] = n
                   /\ Retains(w, cur, Append(w, m), cur2)
                   /\ Sounds(m) => HasAudio(Append(w, m), cur2, n)
<1> DEFINE L == Len(w)
           w2 == Append(w, m)
           cur2 == [i \in 0..L + 1 |-> IF i <= L THEN cur[i] ELSE n]
<1>1. /\ w \in Seq(Messages) /\ cur \in [0..L -> 0..Len(Chunks)] /\ cur[0] = s
      /\ \A i \in 1..L : Link(cur[i - 1], w[i], cur[i])
  BY DEF Chain
<1>2. /\ w2 \in Seq(Messages) /\ L \in Nat /\ Len(w2) = L + 1 /\ w2[L + 1] = m
      /\ \A i \in 1..L : w2[i] = w[i]
  BY <1>1, AppendOf
<1> HIDE DEF L, w2
<1>3. cur2 \in [0..L + 1 -> 0..Len(Chunks)] /\ \A i \in 0..L : cur2[i] = cur[i]
  BY <1>1, <1>2
<1>4. cur2[L + 1] = n /\ cur2[0] = s
  BY <1>1, <1>2
<1> HIDE DEF cur2
<1>5. Link(cur[L], m, n)
  BY DEF L
<1>6. ASSUME NEW i \in 1..L + 1 PROVE Link(cur2[i - 1], w2[i], cur2[i])
  <2>1. CASE i = L + 1
    <3>1. i - 1 = L /\ L \in 0..L
      BY <1>2, <2>1
    <3>2. cur2[i - 1] = cur[L] /\ w2[i] = m /\ cur2[i] = n
      BY <1>2, <1>3, <1>4, <2>1, <3>1
    <3> QED
      BY <1>5, <3>2
  <2>2. CASE i # L + 1
    <3>1. i \in 1..L /\ i \in 0..L /\ i - 1 \in 0..L
      BY <1>2, <2>2
    <3>2. cur2[i - 1] = cur[i - 1] /\ w2[i] = w[i] /\ cur2[i] = cur[i]
      BY <1>2, <1>3, <3>1
    <3> QED
      BY <1>1, <3>1, <3>2
  <2> QED
    BY <2>1, <2>2
<1>7. Chain(w2, cur2, s)
  BY <1>2, <1>3, <1>4, <1>6 DEF Chain
<1>8. Retains(w, cur, w2, cur2)
  <2> SUFFICES ASSUME NEW c \in Nat, NEW i \in 1..L, cur[i] = c, Sounds(w[i])
               PROVE  HasAudio(w2, cur2, c)
    BY DEF Retains, HasAudio, L
  <2>1. i \in 1..L + 1 /\ i \in 0..L
    BY <1>2
  <2>2. cur2[i] = c /\ w2[i] = w[i]
    BY <1>2, <1>3, <2>1
  <2> QED
    BY <1>2, <2>1, <2>2 DEF HasAudio
<1>9. Sounds(m) => HasAudio(w2, cur2, n)
  <2>1. L + 1 \in 1..L + 1
    BY <1>2
  <2> QED
    BY <1>2, <1>4, <2>1 DEF HasAudio
<1>10. cur2[Len(w2)] = n
  BY <1>2, <1>4
<1> QED
  BY <1>7, <1>8, <1>9, <1>10 DEF w2

LEMMA ChainTail ==
  ASSUME NEW w, NEW cur, NEW s, Chain(w, cur, s), w # <<>>
  PROVE  \E cur2 : /\ Chain(Tail(w), cur2, cur[1]) /\ cur2[Len(Tail(w))] = cur[Len(w)]
                   /\ cur[1] \in 0..Len(Chunks) /\ Link(s, w[1], cur[1])
                   /\ \A c \in Nat : HasAudio(w, cur, c) =>
                        HasAudio(Tail(w), cur2, c) \/ (cur[1] = c /\ Sounds(w[1]))
<1> DEFINE L == Len(w)
           t == Tail(w)
           cur2 == [i \in 0..L - 1 |-> cur[i + 1]]
<1>1. /\ w \in Seq(Messages) /\ cur \in [0..L -> 0..Len(Chunks)] /\ cur[0] = s
      /\ \A i \in 1..L : Link(cur[i - 1], w[i], cur[i])
  BY DEF Chain
<1>2. /\ t \in Seq(Messages) /\ L \in Nat \ {0} /\ Len(t) = L - 1
      /\ \A i \in 1..L - 1 : i + 1 \in 1..L /\ t[i] = w[i + 1]
  BY <1>1, TailOf
<1> HIDE DEF L, t
<1>3. /\ cur2 \in [0..L - 1 -> 0..Len(Chunks)]
      /\ \A i \in 0..L - 1 : cur2[i] = cur[i + 1]
  <2>1. \A i \in 0..L - 1 : i + 1 \in 0..L
    BY <1>2
  <2> QED
    BY <1>1, <2>1
<1> HIDE DEF cur2
<1>4. cur2[0] = cur[1] /\ cur2[L - 1] = cur[L] /\ cur[1] \in 0..Len(Chunks)
  <2>1. 0 \in 0..L - 1 /\ L - 1 \in 0..L - 1 /\ 1 \in 0..L /\ 0 + 1 = 1 /\ (L - 1) + 1 = L
    BY <1>2
  <2> QED
    BY <1>1, <1>3, <2>1
<1>5. Link(s, w[1], cur[1])
  <2>1. 1 \in 1..L /\ 1 - 1 = 0
    BY <1>2
  <2> QED
    BY <1>1, <2>1
<1>6. ASSUME NEW i \in 1..L - 1 PROVE Link(cur2[i - 1], t[i], cur2[i])
  <2>1. i \in 0..L - 1 /\ i - 1 \in 0..L - 1 /\ (i - 1) + 1 = i /\ (i + 1) - 1 = i /\ i + 1 \in 1..L
    BY <1>2
  <2>2. cur2[i - 1] = cur[(i + 1) - 1] /\ t[i] = w[i + 1] /\ cur2[i] = cur[i + 1]
    BY <1>2, <1>3, <2>1
  <2> QED
    BY <1>1, <2>1, <2>2
<1>7. Chain(t, cur2, cur[1])
  BY <1>2, <1>3, <1>4, <1>6 DEF Chain
<1>8. ASSUME NEW c \in Nat, HasAudio(w, cur, c)
      PROVE  HasAudio(t, cur2, c) \/ (cur[1] = c /\ Sounds(w[1]))
  <2>1. PICK i \in 1..L : cur[i] = c /\ Sounds(w[i])
    BY <1>8 DEF HasAudio, L
  <2>2. CASE i = 1
    BY <2>1, <2>2
  <2>3. CASE i # 1
    <3>1. i - 1 \in 1..L - 1 /\ i - 1 \in 0..L - 1 /\ (i - 1) + 1 = i
      BY <1>2, <2>3
    <3>2. cur2[i - 1] = c /\ Sounds(t[i - 1])
      BY <1>2, <1>3, <2>1, <3>1
    <3> QED
      BY <1>2, <3>1, <3>2 DEF HasAudio
  <2> QED
    BY <2>2, <2>3
<1> QED
  BY <1>2, <1>4, <1>5, <1>7, <1>8 DEF t, L

\* No message is the last.
GoesOn(w) == \A i \in 1..Len(w) : w[i].kind # "done"

LEMMA GoesOnPush ==
  ASSUME NEW w \in Seq(Messages), GoesOn(w), NEW m \in Messages, m.kind # "done"
  PROVE  GoesOn(Append(w, m)) /\ Append(w, m) \in Seq(Messages)
<1> DEFINE w2 == Append(w, m)
<1>1. /\ w2 \in Seq(Messages) /\ Len(w) \in Nat /\ Len(w2) = Len(w) + 1
      /\ w2[Len(w) + 1] = m /\ \A i \in 1..Len(w) : w2[i] = w[i]
  BY AppendOf
<1> HIDE DEF w2
<1>2. ASSUME NEW i \in 1..Len(w2) PROVE w2[i].kind # "done"
  <2>1. i = Len(w) + 1 \/ i \in 1..Len(w)
    BY <1>1
  <2> QED
    BY <1>1, <2>1 DEF GoesOn
<1> QED
  BY <1>1, <1>2 DEF GoesOn, w2

LEMMA HeardNat ==
  ASSUME NEW c \in Nat, NEW f \in HeardOf(c)
  PROVE  f \in Seq(Nat)
BY DEF HeardOf

LEMMA MessageTypes ==
  /\ \A c \in Nat : Start(c) \in Messages /\ Start(c).kind = "start" /\ Start(c).chunk = c
  /\ \A c \in Nat : \A f \in HeardOf(c) : /\ Audio(f) \in Messages /\ Audio(f).kind = "audio"
                                         /\ Audio(f).frames = f
  /\ Done \in Messages /\ Done.kind = "done"
<1>1. <<>> \in Seq(Nat)
  OBVIOUS
<1> QED
  BY <1>1, HeardNat DEF Start, Audio, Done, Messages

\* The frames that are made, and those of a seam.
LEMMA FramesHeard ==
  ASSUME NEW c \in Nat, NEW n \in Nat, NEW d \in Nat
  PROVE  /\ Frames(c, n) \in HeardOf(c) /\ Frames(0, n) \in HeardOf(d)
         /\ n > 0 => Frames(c, n) # <<>>
<1>1. Frames(c, n) \in Seq({0, c}) /\ Len(Frames(c, n)) = n
  BY DEF Frames
<1>2. Frames(0, n) \in Seq({0, d})
  BY DEF Frames
<1> QED
  BY <1>1, <1>2, EmptySeq DEF HeardOf

\* Where a chain ends that is to reach chunk b: there, or before a start that waits.
EndsAt(e, b) == IF meta = 0 THEN e = b ELSE e < b /\ AllLost(e, b)

\* The audio callback: the start that waits goes first.
LEMMA ChunkHandedOn ==
  ASSUME NEW cur, NEW s, NEW b \in 0..Len(Chunks), NEW fs \in HeardOf(b), Len(Chunks) \in Nat,
         Chain(wire, cur, s), meta \in {0, b}, GoesOn(wire),
         EndsAt(cur[Len(wire)], b), OnChunk(fs)
  PROVE  /\ meta' = 0 /\ GoesOn(wire')
         /\ \E cur2 : /\ Chain(wire', cur2, s) /\ cur2[Len(wire')] = b
                      /\ Retains(wire, cur, wire', cur2)
                      /\ fs # <<>> => HasAudio(wire', cur2, b)
<1> DEFINE mid == IF meta = 0 THEN wire ELSE Append(wire, Start(meta))
<1>1. meta' = 0 /\ wire' = Append(mid, Audio(fs))
  BY DEF OnChunk
<1>2. b \in Nat /\ wire \in Seq(Messages)
  BY DEF Chain
<1>3. /\ Audio(fs) \in Messages /\ Audio(fs).kind = "audio" /\ Audio(fs).frames = fs
      /\ Start(b) \in Messages /\ Start(b).kind = "start" /\ Start(b).chunk = b
  BY <1>2, MessageTypes
<1>4. GoesOn(mid) /\ \E cm : Chain(mid, cm, s) /\ cm[Len(mid)] = b /\ Retains(wire, cur, mid, cm)
  <2>1. CASE meta = 0
    <3>1. mid = wire /\ cur[Len(wire)] = b /\ Retains(wire, cur, mid, cur)
      BY <2>1 DEF Retains, EndsAt
    <3> QED
      BY <3>1
  <2>2. CASE meta # 0
    <3>1. /\ meta = b /\ cur[Len(wire)] < b /\ AllLost(cur[Len(wire)], b)
          /\ mid = Append(wire, Start(b))
      BY <1>2, <2>2 DEF EndsAt
    <3>2. Link(cur[Len(wire)], Start(b), b)
      BY <1>2, <1>3, <3>1 DEF Link
    <3>3. GoesOn(mid)
      BY <1>2, <1>3, <3>1, GoesOnPush
    <3> HIDE DEF mid
    <3>4. \E cm : Chain(mid, cm, s) /\ cm[Len(mid)] = b /\ Retains(wire, cur, mid, cm)
      BY <1>3, <3>1, <3>2, ChainPush
    <3> QED
      BY <3>3, <3>4
  <2> QED
    BY <2>1, <2>2
<1> HIDE DEF mid
<1>5. PICK cm : Chain(mid, cm, s) /\ cm[Len(mid)] = b /\ Retains(wire, cur, mid, cm)
  BY <1>4
<1>6. Link(cm[Len(mid)], Audio(fs), b)
  BY <1>3, <1>5 DEF Link
<1>7. PICK cur2 : /\ Chain(Append(mid, Audio(fs)), cur2, s)
                  /\ cur2[Len(Append(mid, Audio(fs)))] = b
                  /\ Retains(mid, cm, Append(mid, Audio(fs)), cur2)
                  /\ Sounds(Audio(fs)) => HasAudio(Append(mid, Audio(fs)), cur2, b)
  BY <1>3, <1>5, <1>6, ChainPush
<1>8. GoesOn(wire')
  <2>1. mid \in Seq(Messages)
    BY <1>5 DEF Chain
  <2> QED
    BY <1>1, <1>3, <1>4, <2>1, GoesOnPush
<1>9. Retains(wire, cur, wire', cur2)
  BY <1>1, <1>5, <1>7 DEF Retains
<1>10. fs # <<>> => HasAudio(wire', cur2, b)
  BY <1>1, <1>3, <1>7 DEF Sounds
<1> QED
  BY <1>1, <1>7, <1>8, <1>9, <1>10

-----------------------------------------------------------------------------
(* What has audio is aligned, or will be.                                  *)

\* The last chunk the engine has announced; its start may wait for audio.
LastBegun == IF eng.pc \in {"ar", "carry", "fail"} THEN eng.ci ELSE eng.ci - 1

WireEnds(cur) ==
  /\ ~Returned => /\ GoesOn(wire) /\ meta \in {0, LastBegun}
                  /\ EndsAt(cur[Len(wire)], LastBegun)
  /\ \A i \in 1..Len(wire) : wire[i].kind = "done" => i = Len(wire)

\* The final event may still come, or has.
Keeps == ~failed /\ con.at # "joinCancelled" /\ (con.at = "over" => final # <<>>)

IsPlaced(c) == \A n \in WordsOf(c) : \E k \in 1..Len(all) : all[k].word = n

InHand(c) ==
  \/ IsPlaced(c)
  \/ thread.at = "pass" /\ thread.job[1].chunk = c
  \/ \E i \in 1..Len(q) : q[i].chunk = c
  \/ con.open /\ con.chunk = c /\ con.pcm # <<>>

\* The chunks the final event owes.
Owed(c) == made[c].T > 0 \/ (eng.pc = "ar" /\ c = eng.ci /\ eng.out > 0)

\* What the client has heard is in hand.
Heard(c) == c \in ToSet(stream)

AllVoiced(cur) ==
  Keeps => \A c \in 1..Len(Chunks) : /\ Owed(c) => InHand(c) \/ HasAudio(wire, cur, c)
                                     /\ Heard(c) => InHand(c)

\* A start that waits is that of a chunk without audio as yet; the next overwrites
\* it only where no seam takes it along.
Waits ==
  meta # 0 => /\ read.isolated
              /\ eng.pc = "ar" => eng.out = 0
              /\ eng.pc = "carry" => eng.T = 0
              /\ eng.pc \in {"loop", "start"} => made[eng.ci - 1].T = 0
              /\ eng.pc = "start" => read.gap = 0

WireTypes ==
  /\ meta \in Nat /\ Waits
  /\ eng.pc = "ar" => eng.out <= eng.T
  /\ con.at # "recv" => wire = <<>> /\ Returned

WireInv ==
  /\ WireTypes
  /\ \E cur : Chain(wire, cur, con.chunk) /\ WireEnds(cur) /\ AllVoiced(cur)

\* What a step of the engine has to show.
LEMMA EngineVoices ==
  ASSUME con' = con, q' = q, thread' = thread, all' = all, failed' = failed, final' = final,
         stream' = stream, Chunks' = Chunks, NEW cur, NEW cur2, Len(Chunks) \in Nat, AllVoiced(cur),
         Retains(wire, cur, wire', cur2),
         \A c \in 1..Len(Chunks) : Owed(c)' => Owed(c) \/ HasAudio(wire', cur2, c)
  PROVE  AllVoiced(cur2)'
<1>1. Keeps' => Keeps
  BY DEF Keeps
<1>2. ASSUME NEW c \in 1..Len(Chunks), Keeps'
      PROVE  /\ Owed(c)' => InHand(c)' \/ HasAudio(wire', cur2, c)
             /\ Heard(c)' => InHand(c)'
  <2>1. InHand(c) => InHand(c)'
    BY DEF InHand, IsPlaced, WordsOf
  <2>2. HasAudio(wire, cur, c) => HasAudio(wire', cur2, c)
    BY DEF Retains
  <2>3. Heard(c)' => Heard(c)
    BY DEF Heard, ToSet
  <2> QED
    BY <1>1, <1>2, <2>1, <2>2, <2>3 DEF AllVoiced
<1> QED
  BY <1>2 DEF AllVoiced, HasAudio, Sounds

LEMMA RetainsSelf == \A w, cur : Retains(w, cur, w, cur)
BY DEF Retains

\* The provider's side is left alone by the engine.
EngineOnly ==
  /\ con' = con /\ q' = q /\ thread' = thread /\ all' = all /\ failed' = failed
  /\ final' = final /\ read' = read /\ stream' = stream /\ feeding' = feeding

LEMMA EngineAlone == Render => EngineOnly /\ Chunks' = Chunks
<1>1. EnterChunk => EngineOnly
  BY DEF EnterChunk, EngineOnly
<1>2. BeginChunk => EngineOnly
  BY DEF BeginChunk, EngineOnly
<1>3. MakeFrame => EngineOnly
  BY DEF MakeFrame, EngineOnly
<1>4. FrameFails => EngineOnly
  BY DEF FrameFails, EngineOnly
<1>5. EndChunk => EngineOnly
  BY DEF EndChunk, EngineOnly
<1>6. NextChunk => EngineOnly
  BY DEF NextChunk, EngineOnly
<1>7. Return => EngineOnly
  BY DEF Return, EngineOnly
<1>8. EngineOnly => Chunks' = Chunks
  BY DEF EngineOnly, Chunks
<1> QED
  BY <1>1, <1>2, <1>3, <1>4, <1>5, <1>6, <1>7, <1>8 DEF Render

\* The same with the ghost's steps put together.
LEMMA EngineWire ==
  ASSUME EngineOnly, Chunks' = Chunks, WireTypes', NEW cur, NEW cur2, Len(Chunks) \in Nat, LostKept,
         AllVoiced(cur), Retains(wire, cur, wire', cur2), Chain(wire', cur2, con.chunk),
         ~Returned' => /\ GoesOn(wire') /\ meta' \in {0, LastBegun'}
                       /\ EndsAt(cur2[Len(wire)], LastBegun)',
         \A i \in 1..Len(wire') : wire'[i].kind = "done" => i = Len(wire'),
         \A c \in 1..Len(Chunks) : Owed(c)' => Owed(c) \/ HasAudio(wire', cur2, c)
  PROVE  WireInv'
<1>1. AllVoiced(cur2)'
  BY EngineVoices DEF EngineOnly
<1>2. Chain(wire, cur2, con.chunk)'
  <2>1. \A w, f, s : Chain(w, f, s) => Chain(w, f, s)'
    BY ChainsKept
  <2>2. PICK w : w = wire'
    OBVIOUS
  <2>3. PICK s : s = con.chunk
    OBVIOUS
  <2>4. Chain(w, cur2, s)'
    BY <2>1, <2>2, <2>3
  <2>5. con'.chunk = s
    BY <2>3 DEF EngineOnly
  <2> QED
    BY <2>2, <2>4, <2>5 DEF Chain
<1>3. WireEnds(cur2)'
  BY DEF WireEnds, GoesOn
<1> QED
  BY <1>1, <1>2, <1>3 DEF WireInv

LEMMA OnGoing ==
  ASSUME NEW w, GoesOn(w) PROVE \A i \in 1..Len(w) : w[i].kind = "done" => i = Len(w)
BY DEF GoesOn

\* What the engine may rely on while it runs.
LEMMA WireFacts ==
  ASSUME EngInv, WireInv, ~Returned
  PROVE  /\ Len(Chunks) \in Nat /\ con.at = "recv" /\ LastBegun \in 0..Len(Chunks)
         /\ meta \in Nat /\ Waits /\ read.gap \in Nat
         /\ GoesOn(wire) /\ meta \in {0, LastBegun}
         /\ \E cur : /\ Chain(wire, cur, con.chunk) /\ AllVoiced(cur)
                     /\ EndsAt(cur[Len(wire)], LastBegun) /\ cur[Len(wire)] \in 0..Len(Chunks)
<1>1. PICK cur : Chain(wire, cur, con.chunk) /\ WireEnds(cur) /\ AllVoiced(cur)
  BY DEF WireInv
<1>2. LastBegun \in 0..Len(Chunks)
  <2>1. /\ eng.ci \in Nat \ {0} /\ Len(Chunks) \in Nat /\ eng.ci <= Len(Chunks) + 1
        /\ eng.pc \in {"ar", "carry", "fail"} => eng.ci <= Len(Chunks)
    BY EngType DEF EngInv, ReadTypes
  <2> QED
    BY <2>1 DEF LastBegun
<1>3. /\ Len(Chunks) \in Nat /\ con.at = "recv"
      /\ meta \in Nat /\ Waits /\ read.gap \in Nat
  BY EngType DEF EngInv, WireInv, WireTypes
<1>4. /\ GoesOn(wire) /\ meta \in {0, LastBegun}
      /\ EndsAt(cur[Len(wire)], LastBegun)
  BY <1>1 DEF WireEnds
<1>5. cur[Len(wire)] \in 0..Len(Chunks)
  <2>1. wire \in Seq(Messages) /\ cur \in [0..Len(wire) -> 0..Len(Chunks)]
    BY <1>1 DEF Chain
  <2>2. Len(wire) \in 0..Len(wire)
    BY <2>1, LenProperties
  <2> QED
    BY <2>1, <2>2
<1> QED
  BY <1>1, <1>2, <1>3, <1>4, <1>5

\* Where the engine says nothing of the place.
LEMMA EndsKept ==
  ASSUME LostKept, Len(Chunks) \in Nat, meta' = meta, LastBegun' = LastBegun,
         LastBegun \in 0..Len(Chunks)
  PROVE  \A e \in 0..Len(Chunks) : EndsAt(e, LastBegun) => EndsAt(e, LastBegun)'
<1> SUFFICES ASSUME NEW e \in 0..Len(Chunks), EndsAt(e, LastBegun) PROVE EndsAt(e, LastBegun)'
  OBVIOUS
<1>1. PICK b : b = LastBegun
  OBVIOUS
<1>2. AllLost(e, b) => AllLost(e, b)'
  BY <1>1, AllLostKept
<1> QED
  BY <1>1, <1>2 DEF EndsAt, AllLost

LEMMA WireEnter ==
  ASSUME LongReadAssumption, EngInv, WireInv, LostKept, EnterChunk
  PROVE  WireInv'
<1>1. /\ EngineOnly /\ Chunks' = Chunks /\ eng.pc = "loop" /\ eng \in Engines /\ made' = made
      /\ ~Returned
  BY EngineAlone DEF Render, EnterChunk, EngInv, ReadTypes, Returned
<1>2. /\ Len(Chunks) \in Nat /\ con.at = "recv" /\ LastBegun \in 0..Len(Chunks)
      /\ meta \in Nat /\ Waits /\ read.gap \in Nat /\ GoesOn(wire) /\ meta \in {0, LastBegun}
  BY <1>1, WireFacts
<1>3. PICK cur : /\ Chain(wire, cur, con.chunk) /\ AllVoiced(cur)
                 /\ EndsAt(cur[Len(wire)], LastBegun) /\ cur[Len(wire)] \in 0..Len(Chunks)
  BY <1>1, WireFacts
<1>4. con'.at = "recv" /\ read' = read
  BY <1>1, <1>2 DEF EngineOnly
<1>5. eng.ci \in Nat \ {0} /\ LastBegun = eng.ci - 1
  BY <1>1, EngType DEF EngInv, LastBegun
<1>6. ASSUME eng'.ci = eng.ci, eng'.pc \in {"end", "start"}
      PROVE  LastBegun' = LastBegun /\ \A c \in 1..Len(Chunks) : Owed(c)' => Owed(c)
  BY <1>1, <1>5, <1>6 DEF LastBegun, Owed
<1>7. ASSUME meta' = meta, wire' = wire, eng'.ci = eng.ci, eng'.pc \in {"end", "start"}
      PROVE  EndsAt(cur[Len(wire)], LastBegun)'
  <2>1. PICK e : e = cur[Len(wire)]
    OBVIOUS
  <2>2. EndsAt(e, LastBegun)'
    BY <1>2, <1>3, <1>6, <1>7, <2>1, EndsKept
  <2>3. cur[Len(wire')] = e
    BY <1>7, <2>1
  <2> QED
    BY <2>2, <2>3 DEF EndsAt, AllLost
<1>8. CASE cancel \/ eng.ci > Len(Chunks)
  <2>1. eng' = [eng EXCEPT !.pc = "end"] /\ meta' = meta /\ wire' = wire
    BY <1>8 DEF EnterChunk
  <2>2. eng'.ci = eng.ci /\ eng'.pc = "end"
    BY <1>1, <2>1 DEF Engines
  <2>3. WireTypes'
    BY <1>2, <1>4, <2>1, <2>2 DEF WireTypes, Waits
  <2> QED
    BY <1>1, <1>2, <1>3, <1>6, <1>7, <2>1, <2>2, <2>3, RetainsSelf, OnGoing, EngineWire
<1>9. CASE ~(cancel \/ eng.ci > Len(Chunks))
  <2>1. eng' = [eng EXCEPT !.pc = "start", !.used = eng.hist]
    BY <1>9 DEF EnterChunk
  <2>2. eng'.ci = eng.ci /\ eng'.pc = "start"
    BY <1>1, <2>1 DEF Engines
  <2>3. CASE eng.ci > 1 /\ read.gap > 0
    <3>1. OnChunk(Frames(0, read.gap))
      BY <1>9, <2>3 DEF EnterChunk
    <3>2. Frames(0, read.gap) \in HeardOf(LastBegun)
      <4>1. read.gap \in Nat /\ LastBegun \in Nat
        BY <1>2
      <4> QED
        BY <4>1, FramesHeard
    <3>3. /\ meta' = 0 /\ GoesOn(wire')
          /\ \E cur2 : /\ Chain(wire', cur2, con.chunk) /\ cur2[Len(wire')] = LastBegun
                       /\ Retains(wire, cur, wire', cur2)
      BY <1>2, <1>3, <3>1, <3>2, ChunkHandedOn
    <3>4. PICK cur2 : /\ Chain(wire', cur2, con.chunk) /\ cur2[Len(wire')] = LastBegun
                      /\ Retains(wire, cur, wire', cur2)
      BY <3>3
    <3>5. WireTypes'
      BY <1>2, <1>4, <2>2, <3>3 DEF WireTypes, Waits
    <3>6. EndsAt(cur2[Len(wire)], LastBegun)'
      BY <1>6, <2>2, <3>3, <3>4 DEF EndsAt
    <3> QED
      BY <1>1, <1>2, <1>3, <1>6, <2>2, <3>3, <3>4, <3>5, <3>6, OnGoing, EngineWire
  <2>4. CASE ~(eng.ci > 1 /\ read.gap > 0)
    <3>1. meta' = meta /\ wire' = wire
      BY <1>9, <2>4 DEF EnterChunk
    <3>2. meta = 0 \/ read.gap = 0
      BY <1>2, <1>5, <2>4
    <3>3. WireTypes'
      BY <1>1, <1>2, <1>4, <2>2, <3>1, <3>2 DEF WireTypes, Waits
    <3> QED
      BY <1>1, <1>2, <1>3, <1>6, <1>7, <2>2, <3>1, <3>3, RetainsSelf, OnGoing, EngineWire
  <2> QED
    BY <2>3, <2>4
<1> QED
  BY <1>8, <1>9

LEMMA WireBegin ==
  ASSUME LongReadAssumption, EngInv, WireInv, LostKept, BeginChunk
  PROVE  WireInv'
<1>1. /\ EngineOnly /\ Chunks' = Chunks /\ eng.pc = "start" /\ eng \in Engines /\ made' = made
      /\ eng.ci \in 1..Len(Chunks) /\ OnChunkStart(eng.ci, wire) /\ ~Returned
  <2>1. EngineOnly /\ Chunks' = Chunks
    BY EngineAlone DEF Render
  <2>2. eng.pc = "start" /\ made' = made /\ OnChunkStart(eng.ci, wire) /\ ~Returned
    BY DEF BeginChunk, Returned
  <2>3. eng \in Engines /\ eng.ci <= Len(Chunks) /\ eng.ci \in Nat \ {0} /\ Len(Chunks) \in Nat
    BY <2>2, EngType DEF EngInv, ReadTypes
  <2> QED
    BY <2>1, <2>2, <2>3
<1>2. /\ Len(Chunks) \in Nat /\ con.at = "recv" /\ Waits /\ meta \in {0, LastBegun}
      /\ GoesOn(wire) /\ read.isolated \in BOOLEAN
  BY <1>1, WireFacts, EngType DEF EngInv
<1>3. PICK cur : /\ Chain(wire, cur, con.chunk) /\ AllVoiced(cur)
                 /\ EndsAt(cur[Len(wire)], LastBegun) /\ cur[Len(wire)] \in 0..Len(Chunks)
  BY <1>1, WireFacts
<1>4. con'.at = "recv" /\ read' = read
  BY <1>1, <1>2 DEF EngineOnly
<1>5. /\ eng'.ci = eng.ci /\ eng'.out = 0 /\ eng'.T = 0 /\ eng'.pc \in {"ar", "fail"}
  BY EngBegin
<1>6. LastBegun = eng.ci - 1 /\ LastBegun' = eng.ci
  BY <1>1, <1>5 DEF LastBegun
<1>7. \A c \in 1..Len(Chunks) : Owed(c)' => Owed(c)
  BY <1>1, <1>5 DEF Owed
<1>8. CASE read.isolated
  <2>1. meta' = eng.ci /\ wire' = wire
    BY <1>1, <1>8 DEF OnChunkStart
  <2>2. WireTypes'
    BY <1>1, <1>2, <1>4, <1>5, <1>8, <2>1 DEF WireTypes, Waits
  <2>3. PICK e : e = cur[Len(wire)]
    OBVIOUS
  <2>4. e \in 0..Len(Chunks) /\ EndsAt(e, LastBegun)
    BY <1>3, <2>3
  <2>5. e < eng.ci /\ AllLost(e, eng.ci)
    <3>1. CASE meta = 0
      <4>1. e = eng.ci - 1
        BY <1>6, <2>4, <3>1 DEF EndsAt
      <4>2. e < eng.ci /\ \A c \in e + 1..eng.ci - 1 : FALSE
        BY <1>1, <4>1
      <4> QED
        BY <4>2 DEF AllLost
    <3>2. CASE meta # 0
      <4>1. e < eng.ci - 1 /\ AllLost(e, eng.ci - 1)
        BY <1>6, <2>4, <3>2 DEF EndsAt
      <4>2. Lost(eng.ci - 1)
        BY <1>1, <1>2, <3>2 DEF Waits, Lost
      <4>3. ASSUME NEW c \in e + 1..eng.ci - 1 PROVE Lost(c)
        <5>1. c = eng.ci - 1 \/ c \in e + 1..(eng.ci - 1) - 1
          BY <1>1, <2>4
        <5> QED
          BY <4>1, <4>2, <5>1 DEF AllLost
      <4>4. e < eng.ci
        BY <1>1, <2>4, <4>1
      <4> QED
        BY <4>3, <4>4 DEF AllLost
    <3> QED
      BY <3>1, <3>2
  <2>6. AllLost(e, eng.ci)'
    <3>1. PICK b : b = eng.ci
      OBVIOUS
    <3>2. b \in 0..Len(Chunks) /\ AllLost(e, b)
      BY <1>1, <1>2, <2>5, <3>1
    <3>3. AllLost(e, b)'
      BY <1>2, <2>4, <3>2, AllLostKept
    <3> QED
      BY <1>5, <3>1, <3>3 DEF AllLost
  <2>7. EndsAt(cur[Len(wire)], LastBegun)'
    <3>1. meta' # 0 /\ cur[Len(wire')] = e /\ LastBegun' = eng.ci /\ eng'.ci = eng.ci
      BY <1>1, <1>5, <1>6, <2>1, <2>3
    <3> QED
      BY <2>5, <2>6, <3>1 DEF EndsAt, AllLost
  <2>8. meta' \in {0, LastBegun'}
    BY <1>6, <2>1
  <2> QED
    BY <1>1, <1>2, <1>3, <1>7, <2>1, <2>2, <2>7, <2>8, RetainsSelf, OnGoing, EngineWire
<1>9. CASE ~read.isolated
  <2>1. meta' = 0 /\ wire' = Append(wire, Start(eng.ci))
    BY <1>1, <1>9 DEF OnChunkStart
  <2>2. WireTypes'
    BY <1>1, <1>2, <1>4, <1>5, <1>9, <2>1 DEF WireTypes, Waits
  <2>3. eng.ci \in Nat /\ eng.ci \in 0..Len(Chunks) /\ wire \in Seq(Messages)
    BY <1>1, <1>2, <1>3 DEF Chain
  <2>4. Start(eng.ci) \in Messages /\ Start(eng.ci).kind = "start" /\ Start(eng.ci).chunk = eng.ci
    BY <2>3, MessageTypes
  <2>5. Link(cur[Len(wire)], Start(eng.ci), eng.ci)
    <3>1. meta = 0
      BY <1>2, <1>9 DEF Waits
    <3>2. cur[Len(wire)] = eng.ci - 1
      BY <1>3, <1>6, <3>1 DEF EndsAt
    <3>3. \A c \in (eng.ci - 1) + 1..eng.ci - 1 : FALSE
      BY <2>3
    <3>4. cur[Len(wire)] < eng.ci /\ AllLost(cur[Len(wire)], eng.ci)
      BY <2>3, <3>2, <3>3 DEF AllLost
    <3> QED
      BY <2>4, <3>4 DEF Link
  <2>6. GoesOn(wire')
    BY <1>2, <2>1, <2>3, <2>4, GoesOnPush
  <2>7. PICK cur2 : /\ Chain(wire', cur2, con.chunk) /\ cur2[Len(wire')] = eng.ci
                    /\ Retains(wire, cur, wire', cur2)
    <3> DEFINE m == Start(eng.ci)
               w2 == Append(wire, m)
    <3>1. m \in Messages /\ Link(cur[Len(wire)], m, eng.ci) /\ wire' = w2
      BY <2>1, <2>4, <2>5
    <3>2. Chain(wire, cur, con.chunk) /\ eng.ci \in 0..Len(Chunks)
      BY <1>3, <2>3
    <3> HIDE DEF m
    <3>3. \E cur2 : /\ Chain(w2, cur2, con.chunk) /\ cur2[Len(w2)] = eng.ci
                    /\ Retains(wire, cur, w2, cur2)
      BY <3>1, <3>2, ChainPush
    <3> HIDE DEF w2
    <3> QED
      BY <3>1, <3>3
  <2>8. EndsAt(cur2[Len(wire)], LastBegun)'
    BY <1>6, <2>1, <2>7 DEF EndsAt
  <2> QED
    BY <1>1, <1>2, <1>3, <1>6, <1>7, <2>1, <2>2, <2>6, <2>7, <2>8, OnGoing, EngineWire
<1> QED
  BY <1>2, <1>8, <1>9

\* A step that hands frames of the chunk on, and what it leaves owed.
LEMMA WireSounds ==
  ASSUME LongReadAssumption, EngInv, WireInv, LostKept, eng.pc = "ar",
         Render, NEW n \in Nat \ {0}, OnChunk(Frames(eng.ci, n)),
         eng'.ci = eng.ci, eng'.pc \in {"ar", "carry"}, eng'.pc = "ar" => eng'.out <= eng'.T,
         \A c \in 1..Len(Chunks) : c # eng.ci => (Owed(c)' => Owed(c))
  PROVE  WireInv'
<1>1. EngineOnly /\ Chunks' = Chunks /\ ~Returned
  BY EngineAlone DEF Returned
<1>2. /\ Len(Chunks) \in Nat /\ con.at = "recv" /\ LastBegun \in 0..Len(Chunks)
      /\ GoesOn(wire) /\ meta \in {0, LastBegun}
  BY <1>1, WireFacts
<1>3. PICK cur : /\ Chain(wire, cur, con.chunk) /\ AllVoiced(cur)
                 /\ EndsAt(cur[Len(wire)], LastBegun)
  BY <1>1, WireFacts
<1>4. LastBegun = eng.ci /\ LastBegun' = eng.ci /\ eng.ci \in Nat
  BY EngType DEF LastBegun, EngInv
<1>5. Frames(eng.ci, n) \in HeardOf(LastBegun) /\ Frames(eng.ci, n) # <<>>
  BY <1>4, FramesHeard
<1>6. /\ meta' = 0 /\ GoesOn(wire')
      /\ \E cur2 : /\ Chain(wire', cur2, con.chunk) /\ cur2[Len(wire')] = LastBegun
                   /\ Retains(wire, cur, wire', cur2)
                   /\ Frames(eng.ci, n) # <<>> => HasAudio(wire', cur2, LastBegun)
  BY <1>2, <1>3, <1>5, ChunkHandedOn
<1>7. PICK cur2 : /\ Chain(wire', cur2, con.chunk) /\ cur2[Len(wire')] = LastBegun
                  /\ Retains(wire, cur, wire', cur2)
                  /\ HasAudio(wire', cur2, LastBegun)
  BY <1>5, <1>6
<1>8. WireTypes'
  BY <1>1, <1>2, <1>6 DEF WireTypes, Waits, EngineOnly
<1>9. \A c \in 1..Len(Chunks) : Owed(c)' => Owed(c) \/ HasAudio(wire', cur2, c)
  BY <1>4, <1>7
<1>10. EndsAt(cur2[Len(wire)], LastBegun)'
  BY <1>4, <1>6, <1>7 DEF EndsAt
<1> QED
  BY <1>1, <1>2, <1>3, <1>4, <1>6, <1>7, <1>8, <1>9, <1>10, OnGoing, EngineWire

\* A step that hands nothing on.
LEMMA WireSilent ==
  ASSUME LongReadAssumption, EngInv, WireInv, LostKept, eng.pc \in {"ar", "carry"},
         Render, meta' = meta, wire' = wire, eng'.pc \in {"ar", "carry", "fail", "loop"},
         eng'.pc = "ar" => eng'.out <= eng'.T, LastBegun' = LastBegun, Waits',
         \A c \in 1..Len(Chunks) : Owed(c)' => Owed(c)
  PROVE  WireInv'
<1>1. EngineOnly /\ Chunks' = Chunks /\ ~Returned
  BY EngineAlone DEF Returned
<1>2. /\ Len(Chunks) \in Nat /\ con.at = "recv" /\ meta \in Nat /\ LastBegun \in 0..Len(Chunks)
      /\ GoesOn(wire) /\ meta \in {0, LastBegun}
  BY <1>1, WireFacts
<1>3. PICK cur : /\ Chain(wire, cur, con.chunk) /\ AllVoiced(cur)
                 /\ EndsAt(cur[Len(wire)], LastBegun) /\ cur[Len(wire)] \in 0..Len(Chunks)
  BY <1>1, WireFacts
<1>4. WireTypes'
  BY <1>1, <1>2 DEF WireTypes, EngineOnly
<1>5. EndsAt(cur[Len(wire)], LastBegun)'
  <2>1. PICK e : e = cur[Len(wire)]
    OBVIOUS
  <2>2. EndsAt(e, LastBegun)'
    BY <1>2, <1>3, <2>1, EndsKept
  <2>3. cur[Len(wire')] = e
    BY <2>1
  <2> QED
    BY <2>2, <2>3 DEF EndsAt, AllLost
<1> QED
  BY <1>1, <1>2, <1>3, <1>4, <1>5, RetainsSelf, OnGoing, EngineWire

LEMMA WireFrame ==
  ASSUME LongReadAssumption, EngInv, WireInv, LostKept, MakeFrame
  PROVE  WireInv'
<1> DEFINE t == eng.T + 1
           x == IF 2 * eng.next < MaxBatch THEN 2 * eng.next ELSE MaxBatch
<1>1. eng.pc = "ar" /\ eng \in Engines /\ made' = made /\ read' = read /\ Render
  BY DEF MakeFrame, EngInv, ReadTypes, Render
<1>2. eng.ci \in Nat /\ eng.T \in Nat /\ eng.out \in Nat /\ eng.out <= eng.T /\ Waits
  BY <1>1, EngType DEF EngInv, WireInv, WireTypes
<1>3. t \in Nat /\ t - eng.out \in Nat \ {0} /\ eng.out <= t
  BY <1>2, SMTT(60)
<1>4. \/ /\ OnChunk(Frames(eng.ci, t - eng.out))
         /\ eng' = [eng EXCEPT !.T = t, !.out = t, !.next = x]
      \/ eng' = [eng EXCEPT !.T = t] /\ meta' = meta /\ wire' = wire
  BY DEF MakeFrame
<1> HIDE DEF t, x
<1>5. CASE /\ OnChunk(Frames(eng.ci, t - eng.out))
           /\ eng' = [eng EXCEPT !.T = t, !.out = t, !.next = x]
  <2>1. eng'.ci = eng.ci /\ eng'.pc = "ar" /\ eng'.out = t /\ eng'.T = t
    BY <1>1, <1>5 DEF Engines
  <2>2. \A c \in 1..Len(Chunks) : c # eng.ci => (Owed(c)' => Owed(c))
    BY <1>1, <2>1 DEF Owed
  <2>3. eng'.pc = "ar" => eng'.out <= eng'.T
    BY <1>3, <2>1
  <2> QED
    BY <1>1, <1>3, <1>5, <2>1, <2>2, <2>3, WireSounds
<1>6. CASE eng' = [eng EXCEPT !.T = t] /\ meta' = meta /\ wire' = wire
  <2>1. eng'.ci = eng.ci /\ eng'.pc = "ar" /\ eng'.out = eng.out /\ eng'.T = t
    BY <1>1, <1>6 DEF Engines
  <2>2. LastBegun' = LastBegun /\ \A c \in 1..Len(Chunks) : Owed(c)' => Owed(c)
    BY <1>1, <2>1 DEF Owed, LastBegun
  <2>3. Waits'
    BY <1>1, <1>2, <1>6, <2>1 DEF Waits
  <2> QED
    BY <1>1, <1>3, <1>6, <2>1, <2>2, <2>3, WireSilent
<1> QED
  BY <1>4, <1>5, <1>6

LEMMA WireFrameFails ==
  ASSUME LongReadAssumption, EngInv, WireInv, LostKept, FrameFails
  PROVE  WireInv'
<1>1. /\ eng.pc = "ar" /\ eng \in Engines /\ made' = made /\ Render /\ read' = read
      /\ meta' = meta /\ wire' = wire /\ Waits
  BY DEF FrameFails, EngInv, ReadTypes, Render, WireInv, WireTypes
<1>2. eng'.ci = eng.ci /\ eng'.pc = "fail"
  BY <1>1 DEF FrameFails, Engines
<1>3. LastBegun' = LastBegun /\ Waits' /\ \A c \in 1..Len(Chunks) : Owed(c)' => Owed(c)
  BY <1>1, <1>2 DEF Owed, LastBegun, Waits
<1> QED
  BY <1>1, <1>2, <1>3, WireSilent

LEMMA WireChunkEnds ==
  ASSUME LongReadAssumption, EngInv, WireInv, LostKept, EndChunk
  PROVE  WireInv'
<1>1. eng.pc = "ar" /\ eng \in Engines /\ Render /\ read' = read
  BY DEF EndChunk, EngInv, ReadTypes, Render
<1>2. eng.ci \in Nat /\ eng.T \in Nat /\ eng.out \in Nat /\ eng.out <= eng.T /\ Waits
  BY <1>1, EngType DEF EngInv, WireInv, WireTypes
<1>3. PICK eos \in BOOLEAN : made' = [made EXCEPT ![eng.ci] = [T |-> eng.T, cut |-> ~eos]]
  BY DEF EndChunk
<1>4. eng' = [eng EXCEPT !.pc = "carry", !.out = eng.T]
  BY DEF EndChunk
<1>5. eng'.ci = eng.ci /\ eng'.pc = "carry" /\ LastBegun' = LastBegun /\ eng'.T = eng.T
  BY <1>1, <1>4 DEF Engines, LastBegun
<1>6. ASSUME NEW c \in 1..Len(Chunks), Owed(c)'
      PROVE  (c # eng.ci => Owed(c)) /\ (c = eng.ci => eng.T > 0)
  <2>1. made \in [1..Len(Chunks) -> Makings]
    BY DEF EngInv, ReadTypes
  <2>2. made'[c].T > 0
    BY <1>5, <1>6 DEF Owed
  <2> QED
    BY <1>3, <2>1, <2>2 DEF Owed
<1>7. CASE eng.T > eng.out
  <2>1. OnChunk(Frames(eng.ci, eng.T - eng.out))
    BY <1>7 DEF EndChunk
  <2>2. eng.T - eng.out \in Nat \ {0}
    BY <1>2, <1>7
  <2> QED
    BY <1>1, <1>5, <1>6, <2>1, <2>2, WireSounds
<1>8. CASE ~(eng.T > eng.out)
  <2>1. meta' = meta /\ wire' = wire
    BY <1>8 DEF EndChunk
  <2>2. eng.T > 0 => Owed(eng.ci)
    BY <1>1, <1>2, <1>8 DEF Owed
  <2>3. \A c \in 1..Len(Chunks) : Owed(c)' => Owed(c)
    BY <1>6, <2>2
  <2>4. Waits'
    BY <1>1, <1>2, <1>5, <1>8, <2>1 DEF Waits
  <2> QED
    BY <1>1, <1>5, <2>1, <2>3, <2>4, WireSilent
<1> QED
  BY <1>7, <1>8

LEMMA WireNext ==
  ASSUME LongReadAssumption, EngInv, WireInv, LostKept, NextChunk
  PROVE  WireInv'
<1>1. /\ eng.pc = "carry" /\ eng \in Engines /\ made' = made /\ Render /\ read' = read
      /\ meta' = meta /\ wire' = wire /\ eng.ci \in Nat /\ Waits /\ made[eng.ci].T = eng.T
  BY EngType DEF NextChunk, EngInv, ReadTypes, Render, WireInv, WireTypes, HistoryInv
<1>2. eng'.ci = eng.ci + 1 /\ eng'.pc = "loop"
  BY <1>1 DEF NextChunk, Engines
<1>3. LastBegun' = LastBegun /\ \A c \in 1..Len(Chunks) : Owed(c)' => Owed(c)
  BY <1>1, <1>2 DEF Owed, LastBegun
<1>4. Waits'
  <2>1. eng'.ci - 1 = eng.ci
    BY <1>1, <1>2
  <2> QED
    BY <1>1, <1>2, <2>1 DEF Waits
<1> QED
  BY <1>1, <1>2, <1>3, <1>4, WireSilent

LEMMA WireReturns ==
  ASSUME LongReadAssumption, EngInv, WireInv, LostKept, Return
  PROVE  WireInv'
<1>1. /\ ~Returned /\ eng \in Engines /\ made' = made /\ Render /\ eng.pc \in {"end", "fail"}
      /\ meta' = meta /\ wire' = Append(wire, Done)
  BY DEF Return, EngInv, ReadTypes, Render, Returned
<1>2. EngineOnly /\ Chunks' = Chunks
  BY <1>1, EngineAlone
<1>3. /\ Len(Chunks) \in Nat /\ con.at = "recv" /\ meta \in Nat /\ LastBegun \in 0..Len(Chunks)
      /\ Waits /\ GoesOn(wire) /\ meta \in {0, LastBegun}
  BY <1>1, WireFacts
<1>4. PICK cur : /\ Chain(wire, cur, con.chunk) /\ AllVoiced(cur)
                 /\ EndsAt(cur[Len(wire)], LastBegun)
  BY <1>1, WireFacts
<1>5. eng'.pc \in {"gone", "failed"} /\ eng'.ci = eng.ci /\ Returned'
  <2>1. eng' = [eng EXCEPT !.pc = IF eng.pc = "end" THEN "gone" ELSE "failed"]
    BY DEF Return
  <2>2. eng'.pc \in {"gone", "failed"} /\ eng'.ci = eng.ci
    BY <1>1, <2>1 DEF Engines
  <2> QED
    BY <2>2 DEF Returned
<1>6. WireTypes'
  BY <1>1, <1>2, <1>3, <1>5 DEF WireTypes, Waits, EngineOnly
<1>7. wire \in Seq(Messages) /\ Len(wire) \in Nat /\ cur \in [0..Len(wire) -> 0..Len(Chunks)]
  BY <1>4, LenProperties DEF Chain
<1>8. cur[Len(wire)] \in 0..Len(Chunks) /\ Link(cur[Len(wire)], Done, cur[Len(wire)])
  BY <1>7 DEF Link, Done
<1>9. PICK cur2 : Chain(wire', cur2, con.chunk) /\ Retains(wire, cur, wire', cur2)
  BY <1>1, <1>4, <1>8, MessageTypes, ChainPush
<1>10. ASSUME NEW i \in 1..Len(wire'), wire'[i].kind = "done" PROVE i = Len(wire')
  <2>1. Len(wire') = Len(wire) + 1 /\ \A j \in 1..Len(wire) : wire'[j] = wire[j]
    BY <1>1, <1>7, MessageTypes, AppendOf
  <2>2. i = Len(wire') \/ i \in 1..Len(wire)
    BY <1>7, <1>10, <2>1
  <2>3. CASE i \in 1..Len(wire)
    <3>1. wire[i].kind # "done" /\ wire'[i] = wire[i]
      BY <1>3, <2>1, <2>3 DEF GoesOn
    <3> QED
      BY <1>10, <3>1
  <2> QED
    BY <2>2, <2>3
<1>11. \A c \in 1..Len(Chunks) : Owed(c)' => Owed(c)
  BY <1>1, <1>5 DEF Owed
<1> QED
  BY <1>2, <1>3, <1>4, <1>5, <1>6, <1>9, <1>10, <1>11, EngineWire

LEMMA WireRender ==
  ASSUME LongReadAssumption, EngInv, WireInv, LostKept, Render
  PROVE  WireInv'
BY WireEnter, WireBegin, WireFrame, WireFrameFails, WireChunkEnds, WireNext, WireReturns
   DEF Render

-----------------------------------------------------------------------------
(* The provider and the alignment thread.                                  *)

\* A stretch of audio, and the place in the stream it is from.
HeardAt(base, pcm) ==
  /\ base \in Nat /\ pcm \in Seq(Nat) /\ base + Len(pcm) <= Len(stream)
  /\ \A i \in 1..Len(pcm) : pcm[i] = stream[base + i]

\* A start before that of chunk c was lost; the words counted before chunk c are
\* those before it, but for that.
Shifted(c) == \E b \in 1..c - 1 : Lost(b)
Counted(c, w) == w = LastWord(c - 1) \/ Shifted(c)

ConInv ==
  /\ con \in [at : {"recv", "join", "joinCancelled", "over"}, anchor : Nat, open : BOOLEAN,
              chunk : 0..Len(Chunks), base : Nat, word : Nat, pcm : Seq(Nat)]
  /\ stream \in Seq(Nat)
  /\ Counted(con.chunk + 1, con.anchor)
  /\ con.open <=> con.at = "recv" /\ con.chunk > 0
  /\ con.open => /\ Counted(con.chunk, con.word) /\ con.pcm \in HeardOf(con.chunk)
                 /\ con.anchor = con.word + Chunks[con.chunk].words
                 /\ con.base + Len(con.pcm) = Len(stream) /\ HeardAt(con.base, con.pcm)

JobTypes(j) ==
  j.chunk \in 1..Len(Chunks) /\ j.pcm \in HeardOf(j.chunk) /\ j.base \in Nat /\ j.word \in Nat
JobEnd(j) == j.word + Chunks[j.chunk].words

\* A chunk that waits is whole; its words come after those that are placed and
\* before those of the open one.
JobSound(j) ==
  /\ JobTypes(j) /\ Counted(j.chunk, j.word) /\ HeardAt(j.base, j.pcm)
  /\ Len(all) <= j.word /\ JobEnd(j) <= con.anchor
JobRight(j) == JobSound(j) /\ (con.open => JobEnd(j) <= con.word)

QueueInv ==
  /\ q \in Seq(ChunkJobs) /\ \A i \in 1..Len(q) : JobRight(q[i])
  /\ \A i \in 1..Len(q), k \in 1..Len(q) : i < k => JobEnd(q[i]) <= q[k].word
  /\ thread.at = "pass" => /\ JobRight(thread.job[1])
                           /\ \A i \in 1..Len(q) : JobEnd(thread.job[1]) <= q[i].word
  /\ thread.at = "gone" => q = <<>> /\ ~feeding
  /\ feeding <=> con.at = "recv"

WordRight(k, w) ==
  /\ \E c \in 1..Len(Chunks) : /\ w.word \in WordsOf(c) /\ w.heard \in HeardOf(c)
                               /\ w.word = k \/ Shifted(c)
  /\ HeardAt(w.from, w.heard)

AlignedWords == [word : Nat, from : Nat, heard : Seq(Nat)]

AllInv ==
  /\ all \in Seq(AlignedWords) /\ Len(all) <= con.anchor
  /\ con.open => Len(all) <= con.word
  /\ \A k \in 1..Len(all) : all[k] = Blank \/ WordRight(k, all[k])

FinalInv ==
  con.at = "over" /\ final # <<>> => final = all /\ ~failed /\ thread.at = "gone"

\* A cancel the provider has no record of was sent to a worker; why a read that
\* was not cancelled, as the provider sees it, has ended.
Ended == Finished \/ eng.pc = "failed" \/ (read.isolated /\ cancel)
EndInv ==
  /\ cancel => read.isolated \/ sent
  /\ con.at = "join" \/ (con.at = "over" /\ final # <<>>) => Ended

ReadInv == EngInv /\ WireInv /\ ConInv /\ QueueInv /\ AllInv /\ FinalInv /\ EndInv

\* What does not depend on the variables a step changes.
LEMMA ShiftedKept ==
  ASSUME LostKept, Len(Chunks) \in Nat
  PROVE  \A c \in 0..Len(Chunks) + 1 : Shifted(c) => Shifted(c)'
<1> SUFFICES ASSUME NEW c \in 0..Len(Chunks) + 1, NEW b \in 1..c - 1, Lost(b) PROVE Shifted(c)'
  BY DEF Shifted
<1>1. b \in 1..Len(Chunks)
  OBVIOUS
<1>2. Lost(b)'
  BY <1>1 DEF LostKept
<1> QED
  BY <1>2 DEF Shifted

LEMMA CountedKept ==
  ASSUME LostKept, Len(Chunks) \in Nat, Chunks' = Chunks
  PROVE  \A c \in 0..Len(Chunks) + 1 : \A w : Counted(c, w) => Counted(c, w)'
BY ShiftedKept DEF Counted, LastWord

LEMMA JobTypesKept ==
  ASSUME Chunks' = Chunks
  PROVE  \A j : (JobTypes(j) => JobTypes(j)') /\ JobEnd(j)' = JobEnd(j)
BY DEF JobTypes, JobEnd, HeardOf

LEMMA JobKept ==
  ASSUME LostKept, Len(Chunks) \in Nat, Chunks' = Chunks,
         \A b, p : HeardAt(b, p) => HeardAt(b, p)', NEW j, JobSound(j),
         Len(all') <= j.word, JobEnd(j) <= con'.anchor
  PROVE  JobSound(j)'
<1>1. JobTypes(j)' /\ JobEnd(j)' = JobEnd(j) /\ j.chunk \in 0..Len(Chunks) + 1
  BY JobTypesKept DEF JobSound, JobTypes
<1>2. Counted(j.chunk, j.word)'
  BY <1>1, CountedKept DEF JobSound
<1> QED
  BY <1>1, <1>2 DEF JobSound

LEMMA WordKept ==
  ASSUME LostKept, Len(Chunks) \in Nat, Chunks' = Chunks,
         \A b, p : HeardAt(b, p) => HeardAt(b, p)'
  PROVE  \A k, w : WordRight(k, w) => WordRight(k, w)'
<1> SUFFICES ASSUME NEW k, NEW w, WordRight(k, w) PROVE WordRight(k, w)'
  OBVIOUS
<1>1. PICK c \in 1..Len(Chunks) : /\ w.word \in WordsOf(c) /\ w.heard \in HeardOf(c)
                                  /\ w.word = k \/ Shifted(c)
  BY DEF WordRight
<1>2. c \in 0..Len(Chunks) + 1
  OBVIOUS
<1>3. Shifted(c) => Shifted(c)'
  BY <1>2, ShiftedKept
<1>4. HeardAt(w.from, w.heard)'
  BY DEF WordRight
<1> QED
  BY <1>1, <1>3, <1>4 DEF WordRight, WordsOf, HeardOf

LEMMA HeardStays == stream' = stream => \A b, p : HeardAt(b, p) => HeardAt(b, p)'
BY DEF HeardAt

LEMMA ConTypes ==
  ASSUME ConInv
  PROVE  /\ con.chunk \in 0..Len(Chunks) /\ con.open \in BOOLEAN /\ con.base \in Nat
         /\ con.anchor \in Nat /\ con.word \in Nat /\ con.pcm \in Seq(Nat) /\ stream \in Seq(Nat)
BY DEF ConInv

LEMMA ConCounts ==
  ASSUME LostKept, Len(Chunks) \in Nat, Chunks' = Chunks, ConInv, con'.chunk = con.chunk,
         con'.anchor = con.anchor, con'.word = con.word
  PROVE  Counted(con.chunk + 1, con.anchor)' /\ (con.open => Counted(con.chunk, con.word)')
<1>1. PICK c : c = con.chunk
  OBVIOUS
<1>2. PICK d : d = c + 1
  OBVIOUS
<1>3. PICK a : a = con.anchor
  OBVIOUS
<1>4. PICK w : w = con.word
  OBVIOUS
<1>5. c \in 0..Len(Chunks) + 1 /\ d \in 0..Len(Chunks) + 1
  BY <1>1, <1>2, ConTypes
<1>6. Counted(d, a)'
  BY <1>1, <1>2, <1>3, <1>5, CountedKept DEF ConInv
<1>7. con.open => Counted(c, w)'
  BY <1>1, <1>4, <1>5, CountedKept DEF ConInv
<1>8. con'.chunk + 1 = d /\ con'.anchor = a /\ con'.chunk = c /\ con'.word = w
  BY <1>1, <1>2, <1>3, <1>4
<1>9. Counted(con.chunk + 1, con.anchor)'
  BY <1>6, <1>8 DEF Counted, Shifted, LastWord
<1>10. con.open => Counted(con.chunk, con.word)'
  BY <1>7, <1>8 DEF Counted, Shifted, LastWord
<1> QED
  BY <1>9, <1>10

\* A step that leaves the provider's state and the queue alone.
LEMMA ConHolds ==
  ASSUME LostKept, Len(Chunks) \in Nat, Chunks' = Chunks, con' = con, stream' = stream, ConInv
  PROVE  ConInv'
<1>1. Counted(con.chunk + 1, con.anchor)' /\ (con.open => Counted(con.chunk, con.word)')
  BY ConCounts
<1>2. con.open => (con.pcm \in HeardOf(con.chunk))' /\ HeardAt(con.base, con.pcm)'
  BY DEF ConInv, HeardOf, HeardAt
<1> QED
  BY <1>1, <1>2 DEF ConInv

LEMMA QueueHolds ==
  ASSUME LostKept, Len(Chunks) \in Nat, Chunks' = Chunks, con' = con, stream' = stream, q' = q,
         thread' = thread, feeding' = feeding, all' = all, QueueInv
  PROVE  QueueInv'
<1>1. \A j : JobRight(j) => JobRight(j)'
  <2> SUFFICES ASSUME NEW j, JobRight(j) PROVE JobRight(j)'
    OBVIOUS
  <2>1. JobSound(j)'
    BY HeardStays, JobKept DEF JobRight, JobSound
  <2> QED
    BY <2>1, JobTypesKept DEF JobRight
<1>2. \A j : JobEnd(j)' = JobEnd(j)
  BY JobTypesKept
<1>3. ASSUME NEW i \in 1..Len(q) PROVE JobRight(q[i])' /\ JobEnd(q[i])' = JobEnd(q[i])
  <2>1. PICK j : j = q[i]
    OBVIOUS
  <2>2. JobRight(j)' /\ JobEnd(j)' = JobEnd(j)
    BY <1>1, <1>2, <2>1 DEF QueueInv
  <2> QED
    BY <2>1, <2>2 DEF JobRight, JobSound, JobTypes, JobEnd
<1>4. thread.at = "pass" => /\ JobRight(thread.job[1])'
                            /\ JobEnd(thread.job[1])' = JobEnd(thread.job[1])
  <2>1. PICK j : j = thread.job[1]
    OBVIOUS
  <2>2. thread.at = "pass" => JobRight(j)' /\ JobEnd(j)' = JobEnd(j)
    BY <1>1, <1>2, <2>1 DEF QueueInv
  <2> QED
    BY <2>1, <2>2 DEF JobRight, JobSound, JobTypes, JobEnd
<1> QED
  BY <1>3, <1>4 DEF QueueInv

LEMMA AllKept ==
  ASSUME LostKept, Len(Chunks) \in Nat,
         \A b, p : HeardAt(b, p) => HeardAt(b, p)', all' = all, Chunks' = Chunks, AllInv,
         Len(all) <= con'.anchor, con'.open => Len(all) <= con'.word
  PROVE  AllInv'
<1>1. \A k, w : WordRight(k, w) => WordRight(k, w)'
  BY WordKept
<1>2. ASSUME NEW k \in 1..Len(all) PROVE all[k] = Blank \/ WordRight(k, all[k])'
  <2>1. PICK w : w = all[k]
    OBVIOUS
  <2>2. w = Blank \/ WordRight(k, w)'
    BY <1>1, <2>1 DEF AllInv
  <2> QED
    BY <2>1, <2>2 DEF WordRight
<1> QED
  BY <1>2 DEF AllInv

LEMMA EngineLeaves ==
  ASSUME LostKept, Len(Chunks) \in Nat, EngineOnly, Chunks' = Chunks,
         ConInv, QueueInv, AllInv, FinalInv
  PROVE  ConInv' /\ QueueInv' /\ AllInv' /\ FinalInv'
<1>1. ConInv'
  BY ConHolds DEF EngineOnly
<1>2. QueueInv'
  BY QueueHolds DEF EngineOnly
<1>3. AllInv'
  <2>1. /\ \A b, p : HeardAt(b, p) => HeardAt(b, p)'
        /\ all' = all /\ con' = con
    BY HeardStays DEF EngineOnly
  <2> QED
    BY <2>1, AllKept DEF AllInv
<1>4. FinalInv'
  BY DEF FinalInv, EngineOnly
<1> QED
  BY <1>1, <1>2, <1>3, <1>4

LEMMA ReadRender ==
  ASSUME LongReadAssumption, ReadInv, LostKept, Render
  PROVE  WireInv' /\ ConInv' /\ QueueInv' /\ AllInv' /\ FinalInv'
<1>1. EngineOnly /\ Chunks' = Chunks /\ Len(Chunks) \in Nat
  BY EngineAlone, EngType DEF ReadInv, EngInv
<1> QED
  BY <1>1, WireRender, EngineLeaves DEF ReadInv

\* The provider's side of a message: what is left on its way.
Handed(cur, cur2) ==
  /\ AllVoiced(cur) /\ Chain(Tail(wire), cur2, cur[1])
  /\ cur[1] \in 0..Len(Chunks) /\ Link(con.chunk, wire[1], cur[1])
  /\ ~Returned => /\ GoesOn(wire) /\ GoesOn(Tail(wire)) /\ meta \in {0, LastBegun}
                  /\ EndsAt(cur2[Len(Tail(wire))], LastBegun)
  /\ \A i \in 1..Len(Tail(wire)) : Tail(wire)[i].kind = "done" => i = Len(Tail(wire))
  /\ \A c \in Nat : HasAudio(wire, cur, c) =>
       HasAudio(Tail(wire), cur2, c) \/ (cur[1] = c /\ Sounds(wire[1]))

LEMMA WireTaken ==
  ASSUME EngInv, WireInv, wire # <<>>
  PROVE  \E cur, cur2 : Handed(cur, cur2)
<1>1. PICK cur : Chain(wire, cur, con.chunk) /\ WireEnds(cur) /\ AllVoiced(cur)
  BY DEF WireInv
<1>2. PICK cur2 : /\ Chain(Tail(wire), cur2, cur[1]) /\ cur2[Len(Tail(wire))] = cur[Len(wire)]
                  /\ cur[1] \in 0..Len(Chunks) /\ Link(con.chunk, wire[1], cur[1])
                  /\ \A c \in Nat : HasAudio(wire, cur, c) =>
                       HasAudio(Tail(wire), cur2, c) \/ (cur[1] = c /\ Sounds(wire[1]))
  BY <1>1, ChainTail
<1> DEFINE t == Tail(wire)
<1>3. /\ Len(wire) \in Nat \ {0} /\ Len(t) = Len(wire) - 1
      /\ \A i \in 1..Len(t) : i + 1 \in 1..Len(wire) /\ t[i] = wire[i + 1]
  BY <1>1, TailOf DEF Chain
<1> HIDE DEF t
<1>4. GoesOn(wire) => GoesOn(t)
  BY <1>3 DEF GoesOn
<1>5. \A i \in 1..Len(t) : t[i].kind = "done" => i = Len(t)
  <2> SUFFICES ASSUME NEW i \in 1..Len(t), t[i].kind = "done" PROVE i = Len(t)
    OBVIOUS
  <2>1. i + 1 \in 1..Len(wire) /\ wire[i + 1].kind = "done"
    BY <1>3
  <2>2. i + 1 = Len(wire)
    BY <1>1, <2>1 DEF WireEnds
  <2> QED
    BY <1>3, <2>2
<1>6. ~Returned => /\ GoesOn(wire) /\ GoesOn(t) /\ meta \in {0, LastBegun}
                   /\ EndsAt(cur2[Len(t)], LastBegun)
  BY <1>1, <1>2, <1>4 DEF WireEnds, t
<1> QED
  BY <1>1, <1>2, <1>5, <1>6 DEF t, Handed

\* What a step of the provider has to show.
LEMMA ProviderWire ==
  ASSUME read' = read, Chunks' = Chunks, eng' = eng, meta' = meta, made' = made,
         EngInv, WireInv, con.at = "recv", con'.at # "recv" => wire' = <<>> /\ Returned,
         NEW cur, NEW cur2, wire' = Tail(wire), Handed(cur, cur2), con'.chunk = cur[1],
         Keeps' => Keeps,
         \A c \in 1..Len(Chunks) : Keeps' /\ InHand(c) => InHand(c)',
         \A c \in 1..Len(Chunks) : Keeps' /\ cur[1] = c /\ Sounds(wire[1]) => InHand(c)',
         \A c \in 1..Len(Chunks) : Keeps' /\ Heard(c)' => Heard(c) \/ InHand(c)'
  PROVE  WireInv'
<1>0. Len(Chunks) \in Nat
  BY EngType DEF EngInv
<1>1. WireTypes'
  BY DEF WireInv, WireTypes, Waits, Returned
<1>2. Chain(wire, cur2, con.chunk)'
  <2>1. Chain(wire', cur2, con'.chunk)
    BY DEF Handed
  <2> QED
    BY <2>1 DEF Chain, Link, HeardOf, AllLost, Lost
<1>3. WireEnds(cur2)'
  BY DEF Handed, WireEnds, GoesOn, LastBegun, Returned, EndsAt, AllLost, Lost
<1>4. AllVoiced(cur2)'
  <2> SUFFICES ASSUME Keeps', NEW c \in 1..Len(Chunks)
               PROVE  /\ Owed(c)' => InHand(c)' \/ HasAudio(wire', cur2, c)
                      /\ Heard(c)' => InHand(c)'
    BY DEF AllVoiced, HasAudio, Sounds
  <2>1. Owed(c)' => Owed(c)
    BY DEF Owed
  <2>2. Keeps /\ c \in Nat
    BY <1>0
  <2>3. Owed(c) => InHand(c) \/ HasAudio(wire, cur, c)
    BY <2>2 DEF AllVoiced, Handed
  <2>4. Heard(c) => InHand(c)
    BY <2>2 DEF AllVoiced, Handed
  <2>5. HasAudio(wire, cur, c) => HasAudio(wire', cur2, c) \/ (cur[1] = c /\ Sounds(wire[1]))
    BY <2>2 DEF Handed
  <2> QED
    BY <2>1, <2>3, <2>4, <2>5
<1> QED
  BY <1>1, <1>2, <1>3, <1>4 DEF WireInv

\* The open chunk's job.
OpenJob == [chunk |-> con.chunk, base |-> con.base, word |-> con.word, pcm |-> con.pcm]

LEMMA OpenSound ==
  ASSUME EngInv, ConInv, AllInv, con.open
  PROVE  /\ JobSound(OpenJob) /\ OpenJob \in ChunkJobs /\ OpenJob.chunk = con.chunk
         /\ OpenJob.word = con.word /\ JobEnd(OpenJob) = con.anchor
<1>1. con.chunk \in 1..Len(Chunks) /\ con.anchor \in Nat
  BY ConTypes DEF ConInv
<1>2. /\ Counted(con.chunk, con.word) /\ con.pcm \in HeardOf(con.chunk)
      /\ con.anchor = con.word + Chunks[con.chunk].words
      /\ HeardAt(con.base, con.pcm) /\ Len(all) <= con.word
  BY DEF ConInv, AllInv
<1>3. /\ OpenJob.chunk = con.chunk /\ OpenJob.base = con.base /\ OpenJob.word = con.word
      /\ OpenJob.pcm = con.pcm
  BY DEF OpenJob
<1>4. OpenJob \in ChunkJobs
  BY <1>1, ConTypes DEF OpenJob, ChunkJobs
<1>5. JobEnd(OpenJob) = con.anchor
  BY <1>2, <1>3 DEF JobEnd
<1>6. JobEnd(OpenJob) <= con.anchor
  BY <1>1, <1>5
<1> QED
  BY <1>1, <1>2, <1>3, <1>4, <1>5, <1>6, ConTypes DEF JobSound, JobTypes

LEMMA QueueSound ==
  ASSUME QueueInv
  PROVE  /\ \A i \in 1..Len(q) : JobSound(q[i])
         /\ con.open => \A i \in 1..Len(q) : JobEnd(q[i]) <= con.word
BY DEF QueueInv, JobRight

\* close_chunk: what is in the queue after it.
LEMMA ChunkClosed ==
  ASSUME EngInv, ConInv, QueueInv, AllInv, CloseChunk
  PROVE  /\ q' \in Seq(ChunkJobs) /\ \A i \in 1..Len(q') : JobSound(q'[i])
         /\ \A i \in 1..Len(q'), k \in 1..Len(q') : i < k => JobEnd(q'[i]) <= q'[k].word
         /\ thread.at = "pass" => \A i \in 1..Len(q') : JobEnd(thread.job[1]) <= q'[i].word
         /\ thread.at = "gone" => q' = q \/ con.open
         /\ \A c \in Nat : (\E i \in 1..Len(q) : q[i].chunk = c)
                           \/ (con.open /\ con.chunk = c /\ con.pcm # <<>>) =>
                             \E i \in 1..Len(q') : q'[i].chunk = c
<1>1. CASE con.open /\ con.pcm # <<>>
  <2> DEFINE j == OpenJob
             q2 == Append(q, j)
  <2>1. q' = q2
    BY <1>1 DEF CloseChunk, OpenJob
  <2>2. JobSound(j) /\ j \in ChunkJobs /\ j.chunk = con.chunk /\ j.word = con.word
    BY <1>1, OpenSound
  <2>3. q \in Seq(ChunkJobs)
    BY DEF QueueInv
  <2>4. /\ q2 \in Seq(ChunkJobs) /\ Len(q) \in Nat /\ Len(q2) = Len(q) + 1 /\ q2[Len(q) + 1] = j
        /\ \A i \in 1..Len(q) : q2[i] = q[i]
    BY <2>2, <2>3, AppendOf
  <2> HIDE DEF q2, j
  <2>5. \A i \in 1..Len(q2) : i \in 1..Len(q) \/ i = Len(q) + 1
    BY <2>4
  <2>6. \A i \in 1..Len(q) : JobEnd(q[i]) <= con.word /\ JobSound(q[i])
    BY <1>1, QueueSound
  <2>7. \A i \in 1..Len(q2) : JobSound(q2[i])
    BY <2>2, <2>4, <2>5, <2>6
  <2>8. ASSUME NEW i \in 1..Len(q2), NEW k \in 1..Len(q2), i < k
        PROVE  JobEnd(q2[i]) <= q2[k].word
    <3>1. i \in 1..Len(q)
      BY <2>4, <2>8
    <3>2. CASE k \in 1..Len(q)
      BY <2>4, <2>8, <3>1, <3>2 DEF QueueInv
    <3>3. CASE k = Len(q) + 1
      BY <2>2, <2>4, <2>6, <3>1, <3>3
    <3> QED
      BY <2>5, <3>2, <3>3
  <2>9. ASSUME thread.at = "pass", NEW i \in 1..Len(q2)
        PROVE  JobEnd(thread.job[1]) <= q2[i].word
    <3>1. JobRight(thread.job[1]) /\ \A k \in 1..Len(q) : JobEnd(thread.job[1]) <= q[k].word
      BY <2>9 DEF QueueInv
    <3>2. JobEnd(thread.job[1]) <= con.word
      BY <1>1, <3>1 DEF JobRight
    <3> QED
      BY <2>2, <2>4, <2>5, <3>1, <3>2
  <2>10. ASSUME NEW c \in Nat, (\E i \in 1..Len(q) : q[i].chunk = c) \/ con.chunk = c
         PROVE  \E i \in 1..Len(q2) : q2[i].chunk = c
    <3>1. Len(q) + 1 \in 1..Len(q2) /\ \A i \in 1..Len(q) : i \in 1..Len(q2)
      BY <2>4
    <3>2. CASE con.chunk = c
      BY <2>2, <2>4, <3>1, <3>2
    <3>3. CASE \E i \in 1..Len(q) : q[i].chunk = c
      BY <2>4, <3>1, <3>3
    <3> QED
      BY <2>10, <3>2, <3>3
  <2> QED
    BY <1>1, <2>1, <2>4, <2>7, <2>8, <2>9, <2>10
<1>2. CASE ~(con.open /\ con.pcm # <<>>)
  <2>1. q' = q
    BY <1>2 DEF CloseChunk
  <2> QED
    BY <1>2, <2>1, QueueSound DEF QueueInv
<1> QED
  BY <1>1, <1>2

\* The provider's side of QueueInv, once the open chunk's place is known.
LEMMA QueueKept ==
  ASSUME LostKept, \A b, p : HeardAt(b, p) => HeardAt(b, p)', all' = all, con.anchor \in Nat,
         Chunks' = Chunks, Tiled(Chunks), thread' = thread, thread.at # "gone",
         q' \in Seq(ChunkJobs), \A i \in 1..Len(q') : JobSound(q'[i]),
         \A i \in 1..Len(q'), k \in 1..Len(q') : i < k => JobEnd(q'[i]) <= q'[k].word,
         thread.at = "pass" => \A i \in 1..Len(q') : JobEnd(thread.job[1]) <= q'[i].word,
         con'.anchor \in Nat, con.anchor <= con'.anchor, con'.open => con'.word = con.anchor,
         feeding' <=> con'.at = "recv", Len(Chunks) \in Nat, QueueInv
  PROVE  QueueInv'
<1>1. ASSUME NEW j, JobSound(j) PROVE JobRight(j)' /\ JobEnd(j)' = JobEnd(j)
  <2>1. JobEnd(j) \in Nat /\ JobEnd(j) <= con.anchor
    <3>1. j.word \in Nat /\ j.chunk \in 1..Len(Chunks) /\ JobEnd(j) <= con.anchor
      BY <1>1 DEF JobSound, JobTypes
    <3>2. Chunks[j.chunk].words \in Nat
      BY <3>1, LastWords
    <3> QED
      BY <3>1, <3>2 DEF JobEnd
  <2>2. JobEnd(j) <= con'.anchor
    BY <2>1
  <2>3. JobSound(j)'
    BY <1>1, <2>2, JobKept DEF JobSound
  <2>4. JobEnd(j)' = JobEnd(j)
    BY JobTypesKept
  <2> QED
    BY <2>1, <2>3, <2>4 DEF JobRight
<1>2. ASSUME NEW i \in 1..Len(q') PROVE JobRight(q[i])' /\ JobEnd(q[i])' = JobEnd(q'[i])
  <2>1. PICK j : j = q'[i]
    OBVIOUS
  <2>2. JobRight(j)' /\ JobEnd(j)' = JobEnd(j)
    BY <1>1, <2>1
  <2> QED
    BY <2>1, <2>2 DEF JobRight, JobSound, JobTypes, JobEnd
<1>3. ASSUME thread.at = "pass"
      PROVE  /\ JobRight(thread.job[1])'
             /\ \A i \in 1..Len(q') : JobEnd(thread.job[1])' <= q'[i].word
  <2>1. PICK j : j = thread.job[1]
    OBVIOUS
  <2>2. JobRight(j)' /\ JobEnd(j)' = JobEnd(j)
    BY <1>1, <1>3, <2>1 DEF QueueInv, JobRight
  <2>3. JobRight(thread.job[1])' /\ JobEnd(thread.job[1])' = JobEnd(j)
    BY <2>1, <2>2 DEF JobRight, JobSound, JobTypes, JobEnd
  <2> QED
    BY <1>3, <2>1, <2>3
<1> QED
  BY <1>2, <1>3 DEF QueueInv

LEMMA InHandKept ==
  ASSUME all' = all, thread' = thread, Chunks' = Chunks, NEW c \in Nat, InHand(c),
         (\E i \in 1..Len(q) : q[i].chunk = c) \/ (con.open /\ con.chunk = c /\ con.pcm # <<>>)
           => (\E i \in 1..Len(q') : q'[i].chunk = c)
              \/ (con'.open /\ con'.chunk = c /\ con'.pcm # <<>>)
  PROVE  InHand(c)'
BY DEF InHand, IsPlaced, WordsOf

LEMMA ReadStarts ==
  ASSUME LongReadAssumption, ReadInv, LostKept, TakeStart
  PROVE  WireInv' /\ ConInv' /\ QueueInv' /\ AllInv' /\ FinalInv'
<1> USE DEF ReadInv
<1> DEFINE c == wire[1].chunk
<1>1. /\ con.at = "recv" /\ wire # <<>> /\ wire[1].kind = "start" /\ CloseChunk
      /\ wire' = Tail(wire) /\ read' = read /\ eng' = eng /\ meta' = meta /\ made' = made
      /\ feeding' = feeding /\ failed' = failed /\ thread' = thread /\ all' = all
      /\ final' = final /\ stream' = stream /\ Chunks' = Chunks
  BY DEF TakeStart, Chunks
<1>2. con' = [con EXCEPT !.open = TRUE, !.chunk = c, !.base = Len(stream),
                         !.word = con.anchor, !.pcm = <<>>, !.anchor = @ + Chunks[c].words]
  BY DEF TakeStart
<1>3. PICK cur, cur2 : Handed(cur, cur2)
  BY <1>1, WireTaken
<1>4. Tiled(Chunks) /\ Len(Chunks) \in Nat
  BY EngType DEF EngInv, ReadTypes
<1>5. /\ c = cur[1] /\ con.chunk < c /\ c \in 1..Len(Chunks) /\ ~Sounds(wire[1])
      /\ AllLost(con.chunk, c) /\ con.chunk \in Nat
  <2>1. c = cur[1] /\ con.chunk < c /\ ~Sounds(wire[1]) /\ AllLost(con.chunk, c)
    BY <1>1, <1>3 DEF Link, Sounds, Handed
  <2>2. cur[1] \in 0..Len(Chunks) /\ con.chunk \in 0..Len(Chunks)
    BY <1>3, ConTypes DEF Handed
  <2> QED
    BY <1>4, <2>1, <2>2
<1> HIDE DEF c
<1>6. /\ LastWord(c) = LastWord(c - 1) + Chunks[c].words /\ Chunks[c].words \in Nat
      /\ con.anchor \in Nat
  BY <1>4, <1>5, LastWords, ConTypes
<1>7. /\ con'.at = "recv" /\ con'.open /\ con'.chunk = c /\ con'.base = Len(stream)
      /\ con'.word = con.anchor /\ con'.pcm = <<>> /\ con'.anchor = con.anchor + Chunks[c].words
      /\ con' \in [at : {"recv", "join", "joinCancelled", "over"}, anchor : Nat, open : BOOLEAN,
                   chunk : 0..Len(Chunks), base : Nat, word : Nat, pcm : Seq(Nat)]
  <2> DEFINE a2 == con.anchor + Chunks[c].words
             b2 == Len(stream)
  <2>1. a2 \in Nat /\ b2 \in Nat /\ c \in 0..Len(Chunks) /\ con.anchor \in Nat
    <3>1. stream \in Seq(Nat)
      BY ConTypes
    <3>2. Len(stream) \in Nat
      BY <3>1, LenProperties
    <3>3. c \in 0..Len(Chunks)
      BY <1>4, <1>5
    <3>4. a2 \in Nat
      BY <1>6
    <3> QED
      BY <1>6, <3>2, <3>3, <3>4
  <2>2. con' = [con EXCEPT !.open = TRUE, !.chunk = c, !.base = b2,
                           !.word = con.anchor, !.pcm = <<>>, !.anchor = a2]
    BY <1>2
  <2>3. con \in [at : {"recv", "join", "joinCancelled", "over"}, anchor : Nat, open : BOOLEAN,
                 chunk : 0..Len(Chunks), base : Nat, word : Nat, pcm : Seq(Nat)]
    BY DEF ConInv
  <2>4. <<>> \in Seq(Nat)
    OBVIOUS
  <2> HIDE DEF a2, b2
  <2>5. /\ con'.at = con.at /\ con'.open = TRUE /\ con'.chunk = c /\ con'.base = b2
        /\ con'.word = con.anchor /\ con'.pcm = <<>> /\ con'.anchor = a2
        /\ con' \in [at : {"recv", "join", "joinCancelled", "over"}, anchor : Nat, open : BOOLEAN,
                     chunk : 0..Len(Chunks), base : Nat, word : Nat, pcm : Seq(Nat)]
    BY <2>1, <2>2, <2>3, <2>4
  <2> QED
    BY <1>1, <2>5 DEF a2, b2
<1>8. Counted(c, con.anchor) /\ Counted(c + 1, con.anchor + Chunks[c].words)
  <2>1. Counted(c, con.anchor)
    <3>1. CASE c = con.chunk + 1
      BY <3>1 DEF ConInv
    <3>2. CASE c # con.chunk + 1
      <4>1. con.chunk + 1 \in con.chunk + 1..c - 1 /\ con.chunk + 1 \in 1..c - 1
        BY <1>4, <1>5, <3>2
      <4> QED
        BY <1>5, <4>1 DEF AllLost, Counted, Shifted
    <3> QED
      BY <3>1, <3>2
  <2>2. ASSUME NEW d, d = c + 1
        PROVE  Counted(d, con.anchor + Chunks[c].words)
    <3>1. d - 1 = c /\ c \in Nat
      BY <1>4, <1>5, <2>2
    <3>2. CASE con.anchor = LastWord(c - 1)
      BY <1>6, <3>1, <3>2 DEF Counted
    <3>3. ASSUME NEW b \in 1..c - 1, Lost(b) PROVE Shifted(d)
      <4>1. b \in 1..d - 1
        BY <3>1
      <4> QED
        BY <3>3, <4>1 DEF Shifted
    <3> QED
      BY <2>1, <3>2, <3>3 DEF Counted, Shifted
  <2> QED
    BY <2>1, <2>2
<1>9. ConInv'
  <2>1. HeardAt(Len(stream), <<>>) /\ Len(stream) + Len(<<>>) = Len(stream) /\ <<>> \in HeardOf(c)
    BY ConTypes, LenProperties DEF HeardAt, HeardOf
  <2>2. HeardAt(con.base, con.pcm)'
    BY <1>1, <1>7, <2>1 DEF HeardAt
  <2>3. Counted(con.chunk + 1, con.anchor)' /\ Counted(con.chunk, con.word)'
    <3>1. PICK d : d = c + 1
      OBVIOUS
    <3>2. PICK a : a = con.anchor + Chunks[c].words
      OBVIOUS
    <3>3. PICK e : e = c
      OBVIOUS
    <3>4. PICK w : w = con.anchor
      OBVIOUS
    <3>5. d \in 0..Len(Chunks) + 1 /\ e \in 0..Len(Chunks) + 1
      BY <1>4, <1>5, <3>1, <3>3
    <3>6. Counted(d, a)' /\ Counted(e, w)'
      BY <1>1, <1>4, <1>8, <3>1, <3>2, <3>3, <3>4, <3>5, CountedKept
    <3>7. con'.chunk + 1 = d /\ con'.anchor = a /\ con'.chunk = e /\ con'.word = w
      BY <1>7, <3>1, <3>2, <3>3, <3>4
    <3>8. Counted(con.chunk + 1, con.anchor)'
      BY <3>6, <3>7 DEF Counted, Shifted, LastWord
    <3>9. Counted(con.chunk, con.word)'
      BY <3>6, <3>7 DEF Counted, Shifted, LastWord
    <3> QED
      BY <3>8, <3>9
  <2>4. stream' \in Seq(Nat) /\ con'.chunk > 0
    BY <1>1, <1>5, <1>7, ConTypes
  <2>5. (con.pcm \in HeardOf(con.chunk))' /\ con'.base + Len(con'.pcm) = Len(stream')
    BY <1>1, <1>7, <2>1 DEF HeardOf
  <2>6. con'.anchor = con'.word + Chunks'[con'.chunk].words
    <3>1. PICK k : k = Chunks
      OBVIOUS
    <3>2. Chunks' = k /\ con'.chunk = c /\ con'.word = con.anchor
      BY <1>1, <1>7, <3>1
    <3>3. con'.anchor = con.anchor + k[c].words
      BY <1>7, <3>1
    <3> QED
      BY <3>2, <3>3
  <2> QED
    BY <1>1, <1>7, <2>2, <2>3, <2>4, <2>5, <2>6 DEF ConInv
<1>10. WireInv'
  <2>1. Keeps' => Keeps
    BY <1>1, <1>7 DEF Keeps
  <2>2. ASSUME NEW d \in 1..Len(Chunks), InHand(d) PROVE InHand(d)'
    <3>1. d \in Nat
      BY <1>4
    <3>2. (\E i \in 1..Len(q) : q[i].chunk = d) \/ (con.open /\ con.chunk = d /\ con.pcm # <<>>)
            => \E i \in 1..Len(q') : q'[i].chunk = d
      BY <1>1, <3>1, ChunkClosed
    <3> QED
      BY <1>1, <2>2, <3>1, <3>2, InHandKept
  <2>3. \A d : Heard(d)' => Heard(d)
    BY <1>1 DEF Heard, ToSet
  <2> QED
    BY <1>1, <1>3, <1>5, <1>7, <2>1, <2>2, <2>3, ProviderWire
<1>11. con.anchor <= con'.anchor /\ con'.anchor \in Nat
  BY <1>6, <1>7
<1>12. \A b, p : HeardAt(b, p) => HeardAt(b, p)'
  BY <1>1, HeardStays
<1>13. AllInv'
  <2>1. Len(all) <= con.anchor /\ Len(all) \in Nat
    BY LenProperties DEF AllInv
  <2>2. Len(all) <= con'.anchor /\ Len(all) <= con'.word
    BY <1>6, <1>7, <1>11, <2>1
  <2> QED
    BY <1>1, <1>4, <1>12, <2>2, AllKept
<1>14. QueueInv'
  <2>1. thread.at # "gone" /\ (feeding' <=> con'.at = "recv")
    BY <1>1, <1>7 DEF QueueInv
  <2> QED
    BY <1>1, <1>4, <1>6, <1>7, <1>11, <1>12, <2>1, ChunkClosed, QueueKept
<1>15. FinalInv'
  BY <1>7 DEF FinalInv
<1> QED
  BY <1>9, <1>10, <1>13, <1>14, <1>15

\* More audio: what was heard stays where it was, and the open chunk's audio
\* goes on at the end of the stream.
LEMMA HeardGrows ==
  ASSUME stream \in Seq(Nat), NEW fs \in Seq(Nat), stream' = stream \o fs
  PROVE  /\ stream' \in Seq(Nat) /\ Len(stream') = Len(stream) + Len(fs)
         /\ \A b, p : HeardAt(b, p) => HeardAt(b, p)'
         /\ \A b, p : HeardAt(b, p) /\ b + Len(p) = Len(stream) =>
              HeardAt(b, p \o fs)' /\ b + Len(p \o fs) = Len(stream')
<1>1. /\ stream' \in Seq(Nat) /\ Len(stream') = Len(stream) + Len(fs)
      /\ Len(stream) \in Nat /\ Len(fs) \in Nat
      /\ \A i \in 1..Len(stream) : stream'[i] = stream[i]
      /\ \A i \in 1..Len(fs) : stream'[Len(stream) + i] = fs[i]
  BY ConcatProperties, LenProperties
<1>2. ASSUME NEW b, NEW p, HeardAt(b, p) PROVE HeardAt(b, p)'
  <2>1. /\ b \in Nat /\ p \in Seq(Nat) /\ Len(p) \in Nat /\ b + Len(p) <= Len(stream)
        /\ \A i \in 1..Len(p) : p[i] = stream[b + i]
    BY <1>2, LenProperties DEF HeardAt
  <2>2. b + Len(p) <= Len(stream')
    BY <1>1, <2>1
  <2>3. \A i \in 1..Len(p) : b + i \in 1..Len(stream)
    BY <1>1, <2>1
  <2> QED
    BY <1>1, <2>1, <2>2, <2>3 DEF HeardAt
<1>3. ASSUME NEW b, NEW p, HeardAt(b, p), b + Len(p) = Len(stream)
      PROVE  HeardAt(b, p \o fs)' /\ b + Len(p \o fs) = Len(stream')
  <2> DEFINE r == p \o fs
  <2>1. /\ b \in Nat /\ p \in Seq(Nat) /\ Len(p) \in Nat
        /\ \A i \in 1..Len(p) : p[i] = stream[b + i]
    BY <1>3, LenProperties DEF HeardAt
  <2>2. /\ r \in Seq(Nat) /\ Len(r) = Len(p) + Len(fs)
        /\ \A i \in 1..Len(p) : r[i] = p[i]
        /\ \A i \in 1..Len(fs) : r[Len(p) + i] = fs[i]
    BY <2>1, ConcatProperties
  <2> HIDE DEF r
  <2>3. /\ b + Len(r) = Len(stream') /\ b \in Nat /\ Len(p) \in Nat /\ Len(fs) \in Nat
        /\ Len(r) = Len(p) + Len(fs) /\ Len(stream) = b + Len(p)
    <3>1. b \in Nat /\ Len(p) \in Nat /\ Len(fs) \in Nat /\ Len(r) = Len(p) + Len(fs)
      BY <1>1, <2>1, <2>2
    <3>2. Len(stream') = Len(stream) + Len(fs) /\ Len(stream) = b + Len(p)
      BY <1>1, <1>3
    <3> QED
      BY <3>1, <3>2
  <2>4. ASSUME NEW i \in 1..Len(r) PROVE r[i] = stream'[b + i]
    <3>1. CASE i <= Len(p)
      <4>1. i \in 1..Len(p) /\ b + i \in 1..Len(stream)
        BY <1>1, <1>3, <2>1, <2>2, <2>4, <3>1
      <4> QED
        BY <1>1, <2>1, <2>2, <4>1
    <3>2. CASE ~(i <= Len(p))
      <4> DEFINE k == i - Len(p)
      <4>1. k \in 1..Len(fs) /\ i = Len(p) + k /\ b + i = Len(stream) + k
        BY <2>3, <3>2
      <4> HIDE DEF k
      <4>2. r[Len(p) + k] = fs[k] /\ stream'[Len(stream) + k] = fs[k]
        BY <1>1, <2>2, <4>1
      <4> QED
        BY <4>1, <4>2
    <3> QED
      BY <3>1, <3>2
  <2>5. HeardAt(b, r)'
    <3>1. b + Len(r) <= Len(stream')
      BY <1>1, <2>3
    <3> QED
      BY <2>2, <2>3, <2>4, <3>1 DEF HeardAt
  <2> QED
    BY <2>3, <2>5 DEF r
<1> QED
  BY <1>1, <1>2, <1>3

LEMMA HeardJoined ==
  ASSUME NEW c, NEW p \in HeardOf(c), NEW f \in HeardOf(c)
  PROVE  p \o f \in HeardOf(c) /\ (p # <<>> \/ f # <<>> => p \o f # <<>>)
<1>1. p \o f \in Seq({0, c}) /\ Len(p \o f) = Len(p) + Len(f) /\ Len(p) \in Nat /\ Len(f) \in Nat
  BY ConcatProperties, LenProperties DEF HeardOf
<1>2. ASSUME p \o f = <<>> PROVE p = <<>> /\ f = <<>>
  <2>1. Len(p \o f) = 0
    BY <1>2
  <2>2. Len(p) = 0 /\ Len(f) = 0
    BY <1>1, <2>1
  <2> QED
    BY <2>2, EmptySeq DEF HeardOf
<1> QED
  BY <1>1, <1>2 DEF HeardOf

\* What is heard that was not: audio of the chunk it belongs to.
LEMMA HeardNew ==
  ASSUME stream \in Seq(Nat), NEW d \in Nat, NEW fs \in HeardOf(d), stream' = stream \o fs,
         NEW c \in Nat \ {0}, Heard(c)'
  PROVE  Heard(c) \/ (c = d /\ fs # <<>>)
<1>1. /\ stream' \in Seq(Nat) /\ Len(stream') = Len(stream) + Len(fs)
      /\ Len(stream) \in Nat /\ Len(fs) \in Nat
      /\ \A i \in 1..Len(stream) : stream'[i] = stream[i]
      /\ \A i \in 1..Len(fs) : stream'[Len(stream) + i] = fs[i]
  <2>1. fs \in Seq(Nat)
    BY HeardNat
  <2> QED
    BY <2>1, ConcatProperties, LenProperties
<1>2. DOMAIN stream = 1..Len(stream) /\ DOMAIN stream' = 1..Len(stream')
  BY <1>1, LenProperties
<1>3. PICK i \in 1..Len(stream') : stream'[i] = c
  BY <1>2 DEF Heard, ToSet
<1>4. CASE i <= Len(stream)
  <2>1. i \in 1..Len(stream) /\ stream[i] = c
    BY <1>1, <1>3, <1>4
  <2> QED
    BY <1>2, <2>1 DEF Heard, ToSet
<1>5. CASE ~(i <= Len(stream))
  <2> DEFINE k == i - Len(stream)
  <2>1. k \in 1..Len(fs) /\ i = Len(stream) + k
    BY <1>1, <1>5
  <2> HIDE DEF k
  <2>2. fs[k] = c
    BY <1>1, <1>3, <2>1
  <2>3. fs[k] \in {0, d}
    BY <2>1, ElementOfSeq DEF HeardOf
  <2>4. fs # <<>>
    BY <1>1, <2>1
  <2> QED
    BY <2>2, <2>3, <2>4
<1> QED
  BY <1>4, <1>5

LEMMA ReadHears ==
  ASSUME LongReadAssumption, ReadInv, LostKept, TakeAudio
  PROVE  WireInv' /\ ConInv' /\ QueueInv' /\ AllInv' /\ FinalInv'
<1> USE DEF ReadInv
<1>a. PICK fs : fs = wire[1].frames
  OBVIOUS
<1>b. PICK p2 : p2 = IF con.open THEN con.pcm \o fs ELSE con.pcm
  OBVIOUS
<1>1. /\ con.at = "recv" /\ wire # <<>> /\ wire[1].kind = "audio" /\ stream' = stream \o fs
      /\ wire' = Tail(wire) /\ read' = read /\ eng' = eng /\ meta' = meta /\ made' = made
      /\ feeding' = feeding /\ failed' = failed /\ thread' = thread /\ all' = all
      /\ final' = final /\ q' = q /\ Chunks' = Chunks
  BY <1>a DEF TakeAudio, Chunks
<1>2. con' = [con EXCEPT !.pcm = p2]
  BY <1>a, <1>b DEF TakeAudio
<1>3. PICK cur, cur2 : Handed(cur, cur2)
  BY <1>1, WireTaken
<1>4. /\ cur[1] = con.chunk /\ fs \in HeardOf(con.chunk) /\ con.chunk \in Nat
      /\ Len(Chunks) \in Nat /\ fs \in Seq(Nat)
  <2>1. cur[1] = con.chunk /\ fs \in HeardOf(con.chunk) /\ Len(Chunks) \in Nat
    BY <1>a, <1>1, <1>3, EngType DEF Link, EngInv, Handed
  <2>2. con.chunk \in Nat
    BY <2>1, ConTypes
  <2> QED
    BY <2>1, <2>2, HeardNat
<1>5. stream \in Seq(Nat) /\ con.pcm \in Seq(Nat)
  BY ConTypes
<1>6. /\ stream' \in Seq(Nat) /\ Len(stream') = Len(stream) + Len(fs)
      /\ \A b, p : HeardAt(b, p) => HeardAt(b, p)'
      /\ \A b, p : HeardAt(b, p) /\ b + Len(p) = Len(stream) =>
           HeardAt(b, p \o fs)' /\ b + Len(p \o fs) = Len(stream')
  BY <1>1, <1>4, <1>5, HeardGrows
<1>7. con.open => p2 = con.pcm \o fs /\ p2 \in HeardOf(con.chunk) /\ p2 \in Seq(Nat)
                  /\ (con.pcm # <<>> \/ fs # <<>> => p2 # <<>>)
  <2> SUFFICES ASSUME con.open PROVE /\ con.pcm \o fs \in HeardOf(con.chunk)
                                     /\ (con.pcm # <<>> \/ fs # <<>> => con.pcm \o fs # <<>>)
    BY <1>4, <1>b, HeardNat
  <2>1. con.pcm \in HeardOf(con.chunk)
    BY DEF ConInv
  <2> QED
    BY <1>4, <2>1, HeardJoined
<1>8. p2 \in Seq(Nat) /\ (~con.open => p2 = con.pcm)
  BY <1>b, <1>5, <1>7
<1>9. /\ con'.at = "recv" /\ con'.open = con.open /\ con'.chunk = con.chunk /\ con'.base = con.base
      /\ con'.word = con.word /\ con'.pcm = p2 /\ con'.anchor = con.anchor
      /\ con' \in [at : {"recv", "join", "joinCancelled", "over"}, anchor : Nat, open : BOOLEAN,
                   chunk : 0..Len(Chunks), base : Nat, word : Nat, pcm : Seq(Nat)]
  BY <1>1, <1>2, <1>8 DEF ConInv
<1>10. ConInv'
  <2>1. Counted(con.chunk + 1, con.anchor)' /\ (con.open => Counted(con.chunk, con.word)')
    BY <1>1, <1>4, <1>9, ConCounts
  <2>2. con.open => con'.anchor = con'.word + Chunks'[con'.chunk].words
    <3>1. PICK n : n = Chunks[con.chunk].words
      OBVIOUS
    <3>2. con.open => con.anchor = con.word + n
      BY <3>1 DEF ConInv
    <3>3. Chunks'[con'.chunk].words = n
      BY <1>1, <1>9, <3>1
    <3> QED
      BY <1>9, <3>2, <3>3
  <2>3. con.open => HeardAt(con.base, p2)' /\ con.base + Len(p2) = Len(stream')
    <3> SUFFICES ASSUME con.open
                 PROVE  HeardAt(con.base, p2)' /\ con.base + Len(p2) = Len(stream')
      OBVIOUS
    <3>1. PICK b : b = con.base
      OBVIOUS
    <3>2. PICK p : p = con.pcm
      OBVIOUS
    <3>3. HeardAt(b, p) /\ b + Len(p) = Len(stream)
      BY <3>1, <3>2 DEF ConInv
    <3>4. HeardAt(b, p \o fs)' /\ b + Len(p \o fs) = Len(stream')
      BY <1>6, <3>3
    <3>5. p \o fs = p2 /\ con'.base = b
      BY <1>7, <1>9, <3>1, <3>2
    <3>6. HeardAt(b, p2)'
      BY <3>4, <3>5
    <3> QED
      BY <3>1, <3>4, <3>5, <3>6 DEF HeardAt
  <2>4. HeardAt(con.base, p2)' => HeardAt(con.base, con.pcm)'
    BY <1>9 DEF HeardAt
  <2>5. con'.open => (con.pcm \in HeardOf(con.chunk))'
    BY <1>7, <1>9 DEF HeardOf
  <2>6. con'.open <=> con'.at = "recv" /\ con'.chunk > 0
    BY <1>1, <1>9 DEF ConInv
  <2> QED
    BY <1>1, <1>6, <1>9, <2>1, <2>2, <2>3, <2>4, <2>5, <2>6 DEF ConInv
<1>11. WireInv'
  <2>1. Keeps' => Keeps
    BY <1>1, <1>9 DEF Keeps
  <2>2. ASSUME NEW d \in 1..Len(Chunks), InHand(d) PROVE InHand(d)'
    <3>1. d \in Nat /\ (con.open /\ con.pcm # <<>> => con'.open /\ con'.pcm # <<>>)
      BY <1>4, <1>7, <1>9
    <3>2. con'.chunk = con.chunk /\ q' = q
      BY <1>1, <1>9
    <3> QED
      BY <1>1, <2>2, <3>1, <3>2, InHandKept
  <2>3. ASSUME NEW d \in 1..Len(Chunks), con.chunk = d, fs # <<>> PROVE InHand(d)'
    <3>1. con.open
      BY <1>1, <1>4, <2>3 DEF ConInv
    <3> QED
      BY <1>7, <1>9, <2>3, <3>1 DEF InHand
  <2>4. ASSUME NEW d \in 1..Len(Chunks), Heard(d)' PROVE Heard(d) \/ InHand(d)'
    <3>1. d \in Nat \ {0}
      BY <1>4
    <3>2. Heard(d) \/ (d = con.chunk /\ fs # <<>>)
      BY <1>1, <1>4, <1>5, <2>4, <3>1, HeardNew
    <3> QED
      BY <2>3, <3>2
  <2>5. \A d \in 1..Len(Chunks) : cur[1] = d /\ Sounds(wire[1]) => InHand(d)'
    BY <1>a, <1>4, <2>3 DEF Sounds
  <2> QED
    BY <1>1, <1>3, <1>4, <1>9, <2>1, <2>2, <2>4, <2>5, ProviderWire
<1>12. AllInv'
  <2>1. Len(all) <= con'.anchor /\ (con'.open => Len(all) <= con'.word)
    BY <1>9 DEF AllInv
  <2> QED
    BY <1>1, <1>4, <1>6, <2>1, AllKept
<1>13. QueueInv'
  <2>1. thread.at # "gone" /\ (feeding' <=> con'.at = "recv")
    BY <1>1, <1>9 DEF QueueInv
  <2>2. \A j : JobRight(j) => JobRight(j)'
    <3> SUFFICES ASSUME NEW j, JobRight(j) PROVE JobRight(j)'
      OBVIOUS
    <3>1. JobSound(j)'
      BY <1>1, <1>4, <1>6, <1>9, JobKept DEF JobRight, JobSound
    <3> QED
      BY <1>1, <1>9, <3>1, JobTypesKept DEF JobRight
  <2>3. \A j : JobEnd(j)' = JobEnd(j)
    BY <1>1, JobTypesKept
  <2>4. ASSUME NEW i \in 1..Len(q) PROVE JobRight(q[i])' /\ JobEnd(q[i])' = JobEnd(q[i])
    <3>1. PICK j : j = q[i]
      OBVIOUS
    <3>2. JobRight(j)' /\ JobEnd(j)' = JobEnd(j)
      BY <2>2, <2>3, <3>1 DEF QueueInv
    <3> QED
      BY <1>1, <3>1, <3>2 DEF JobRight, JobSound, JobTypes, JobEnd
  <2>5. thread.at = "pass" => /\ JobRight(thread.job[1])'
                              /\ JobEnd(thread.job[1])' = JobEnd(thread.job[1])
    <3>1. PICK j : j = thread.job[1]
      OBVIOUS
    <3>2. thread.at = "pass" => JobRight(j)' /\ JobEnd(j)' = JobEnd(j)
      BY <2>2, <2>3, <3>1 DEF QueueInv
    <3> QED
      BY <1>1, <3>1, <3>2 DEF JobRight, JobSound, JobTypes, JobEnd
  <2> QED
    BY <1>1, <2>1, <2>4, <2>5 DEF QueueInv
<1>14. FinalInv'
  BY <1>9 DEF FinalInv
<1> QED
  BY <1>10, <1>11, <1>12, <1>13, <1>14

LEMMA ReadCloses ==
  ASSUME LongReadAssumption, ReadInv, LostKept, CloseRead
  PROVE  WireInv' /\ ConInv' /\ QueueInv' /\ AllInv' /\ FinalInv'
<1> USE DEF ReadInv
<1>1. /\ con.at = "recv" /\ wire # <<>> /\ wire[1].kind = "done" /\ feeding' = FALSE
      /\ wire' = Tail(wire) /\ read' = read /\ eng' = eng /\ meta' = meta /\ made' = made
      /\ failed' = failed /\ thread' = thread /\ all' = all /\ sent' = sent
      /\ final' = final /\ stream' = stream /\ Chunks' = Chunks
      /\ (q' = q \/ CloseChunk) /\ (~sent => CloseChunk)
  BY DEF CloseRead, Chunks
<1>2. PICK cur, cur2 : Handed(cur, cur2)
  BY <1>1, WireTaken
<1>3. /\ cur[1] = con.chunk /\ Len(Chunks) \in Nat /\ con.chunk \in Nat /\ ~Sounds(wire[1])
      /\ Tiled(Chunks) /\ con.anchor \in Nat
  <2>1. cur[1] = con.chunk /\ Len(Chunks) \in Nat /\ ~Sounds(wire[1]) /\ Tiled(Chunks)
    BY <1>1, <1>2, EngType DEF Link, EngInv, ReadTypes, Sounds, Handed
  <2> QED
    BY <2>1, ConTypes
<1>4. wire' = <<>> /\ Returned
  <2>1. wire \in Seq(Messages)
    BY DEF WireInv, Chain
  <2>2. 1 \in 1..Len(wire) /\ Len(wire) \in Nat \ {0}
    BY <1>1, <2>1, TailOf
  <2>3. 1 = Len(wire)
    BY <1>1, <2>2 DEF WireInv, WireEnds
  <2>4. wire' = <<>>
    BY <1>1, <2>1, <2>3, TailOf
  <2>5. ~GoesOn(wire)
    BY <1>1, <2>2 DEF GoesOn
  <2> QED
    BY <1>2, <2>4, <2>5 DEF Handed
<1>5. PICK at : at = IF sent THEN "joinCancelled" ELSE "join"
  OBVIOUS
<1>6. /\ con'.at = at /\ con'.open = FALSE /\ con'.chunk = con.chunk /\ con'.base = con.base
      /\ con'.word = con.word /\ con'.anchor = con.anchor
      /\ con' \in [at : {"recv", "join", "joinCancelled", "over"}, anchor : Nat, open : BOOLEAN,
                   chunk : 0..Len(Chunks), base : Nat, word : Nat, pcm : Seq(Nat)]
  <2>1. con' = [con EXCEPT !.at = at, !.open = FALSE, !.pcm = <<>>]
    BY <1>5 DEF CloseRead
  <2>2. at \in {"joinCancelled", "join"} /\ <<>> \in Seq(Nat)
    BY <1>5
  <2>3. con \in [at : {"recv", "join", "joinCancelled", "over"}, anchor : Nat, open : BOOLEAN,
                 chunk : 0..Len(Chunks), base : Nat, word : Nat, pcm : Seq(Nat)]
    BY DEF ConInv
  <2> QED
    BY <2>1, <2>2, <2>3
<1>7. at # "recv" /\ at # "over" /\ (at # "joinCancelled" => ~sent)
  BY <1>5
<1>8. ConInv'
  <2>1. Counted(con.chunk + 1, con.anchor)'
    BY <1>1, <1>3, <1>6, ConCounts
  <2>2. stream' \in Seq(Nat)
    BY <1>1, ConTypes
  <2> QED
    BY <1>1, <1>6, <1>7, <2>1, <2>2 DEF ConInv
<1>9. WireInv'
  <2>1. Keeps' => Keeps /\ ~sent
    BY <1>1, <1>6, <1>7 DEF Keeps
  <2>2. ASSUME NEW d \in 1..Len(Chunks), Keeps', InHand(d) PROVE InHand(d)'
    <3>1. d \in Nat
      BY <1>3
    <3>2. CloseChunk
      BY <1>1, <2>1, <2>2
    <3>3. (\E i \in 1..Len(q) : q[i].chunk = d) \/ (con.open /\ con.chunk = d /\ con.pcm # <<>>)
            => \E i \in 1..Len(q') : q'[i].chunk = d
      BY <3>1, <3>2, ChunkClosed
    <3> QED
      BY <1>1, <2>2, <3>1, <3>3, InHandKept
  <2>3. \A d : Heard(d)' => Heard(d)
    BY <1>1 DEF Heard, ToSet
  <2> QED
    BY <1>1, <1>2, <1>3, <1>4, <1>6, <2>1, <2>2, <2>3, ProviderWire
<1>10. \A b, p : HeardAt(b, p) => HeardAt(b, p)'
  BY <1>1, HeardStays
<1>11. AllInv'
  <2>1. Len(all) <= con'.anchor /\ ~con'.open
    BY <1>6 DEF AllInv
  <2> QED
    BY <1>1, <1>3, <1>10, <2>1, AllKept
<1>12. QueueInv'
  <2>1. thread.at # "gone" /\ (feeding' <=> con'.at = "recv")
    BY <1>1, <1>6, <1>7 DEF QueueInv
  <2>2. con'.anchor \in Nat /\ con.anchor <= con'.anchor /\ ~con'.open
    BY <1>3, <1>6
  <2>3. CASE CloseChunk
    BY <1>1, <1>3, <1>10, <2>1, <2>2, <2>3, ChunkClosed, QueueKept
  <2>4. CASE q' = q
    <3>1. /\ q' \in Seq(ChunkJobs) /\ \A i \in 1..Len(q') : JobSound(q'[i])
          /\ \A i \in 1..Len(q'), k \in 1..Len(q') : i < k => JobEnd(q'[i]) <= q'[k].word
          /\ thread.at = "pass" => \A i \in 1..Len(q') : JobEnd(thread.job[1]) <= q'[i].word
      BY <2>4 DEF QueueInv, JobRight
    <3> QED
      BY <1>1, <1>3, <1>10, <2>1, <2>2, <3>1, QueueKept
  <2> QED
    BY <1>1, <2>3, <2>4
<1>13. FinalInv'
  BY <1>6, <1>7 DEF FinalInv
<1> QED
  BY <1>8, <1>9, <1>11, <1>12, <1>13

\* A step that leaves the wire alone.
LEMMA WireHeld ==
  ASSUME wire' = wire, read' = read, eng' = eng, meta' = meta, made' = made, Chunks' = Chunks,
         stream' = stream,
         con'.chunk = con.chunk, con'.at # "recv" => con.at # "recv", WireInv, Keeps' => Keeps,
         \A c \in 1..Len(Chunks) : Keeps' /\ InHand(c) => InHand(c)'
  PROVE  WireInv'
<1>1. PICK cur : Chain(wire, cur, con.chunk) /\ WireEnds(cur) /\ AllVoiced(cur)
  BY DEF WireInv
<1>2. WireTypes'
  BY DEF WireInv, WireTypes, Waits, Returned
<1>3. Chain(wire, cur, con.chunk)'
  BY <1>1 DEF Chain, Link, HeardOf, AllLost, Lost
<1>4. WireEnds(cur)'
  BY <1>1 DEF WireEnds, GoesOn, LastBegun, Returned, EndsAt, AllLost, Lost
<1>5. AllVoiced(cur)'
  <2> SUFFICES ASSUME Keeps', NEW c \in 1..Len(Chunks)
               PROVE  /\ Owed(c)' => InHand(c)' \/ HasAudio(wire, cur, c)
                      /\ Heard(c)' => InHand(c)'
    BY DEF AllVoiced, HasAudio, Sounds
  <2>1. Owed(c)' => Owed(c)
    BY DEF Owed
  <2>2. Heard(c)' => Heard(c)
    BY DEF Heard, ToSet
  <2>3. /\ Owed(c) => InHand(c) \/ HasAudio(wire, cur, c)
        /\ Heard(c) => InHand(c)
    BY <1>1 DEF AllVoiced
  <2> QED
    BY <2>1, <2>2, <2>3
<1> QED
  BY <1>2, <1>3, <1>4, <1>5 DEF WireInv

LEMMA ReadConcludes ==
  ASSUME LongReadAssumption, ReadInv, LostKept, Conclude
  PROVE  WireInv' /\ ConInv' /\ QueueInv' /\ AllInv' /\ FinalInv'
<1> USE DEF ReadInv
<1>1. /\ con.at \in {"join", "joinCancelled"} /\ thread.at = "gone"
      /\ final' = (IF con.at = "join" /\ ~failed THEN all ELSE <<>>)
      /\ con' = [con EXCEPT !.at = "over"] /\ wire' = wire
      /\ read' = read /\ eng' = eng /\ meta' = meta /\ made' = made
      /\ feeding' = feeding /\ failed' = failed /\ thread' = thread /\ all' = all
      /\ q' = q /\ stream' = stream /\ Chunks' = Chunks
  BY DEF Conclude, Chunks
<1>2. /\ con'.at = "over" /\ con'.open = con.open /\ con'.chunk = con.chunk
      /\ con'.base = con.base /\ con'.word = con.word /\ con'.anchor = con.anchor
      /\ con'.pcm = con.pcm /\ ~con.open
      /\ con' \in [at : {"recv", "join", "joinCancelled", "over"}, anchor : Nat, open : BOOLEAN,
                   chunk : 0..Len(Chunks), base : Nat, word : Nat, pcm : Seq(Nat)]
  BY <1>1 DEF ConInv
<1>3. Len(Chunks) \in Nat
  BY EngType DEF EngInv
<1>4. ConInv'
  <2>1. Counted(con.chunk + 1, con.anchor)'
    BY <1>1, <1>2, <1>3, ConCounts
  <2> QED
    BY <1>1, <1>2, <2>1, ConTypes DEF ConInv
<1>5. WireInv'
  <2>1. Keeps' => Keeps
    BY <1>1, <1>2 DEF Keeps
  <2>2. \A c : InHand(c) => InHand(c)'
    BY <1>1, <1>2 DEF InHand, IsPlaced, WordsOf
  <2> QED
    BY <1>1, <1>2, <2>1, <2>2, WireHeld
<1>6. \A b, p : HeardAt(b, p) => HeardAt(b, p)'
  BY <1>1, HeardStays
<1>7. AllInv'
  <2>1. Len(all) <= con'.anchor /\ ~con'.open
    BY <1>2 DEF AllInv
  <2> QED
    BY <1>1, <1>3, <1>6, <2>1, AllKept
<1>8. QueueInv'
  <2>1. thread.at # "pass" /\ q = <<>>
    BY <1>1 DEF QueueInv
  <2>2. <<>> \in Seq(ChunkJobs) /\ Len(<<>>) = 0
    OBVIOUS
  <2> QED
    BY <1>1, <1>2, <2>1, <2>2 DEF QueueInv
<1>9. FinalInv'
  BY <1>1 DEF FinalInv
<1> QED
  BY <1>4, <1>5, <1>7, <1>8, <1>9

\* The provider's own state is left alone.
ThreadOnly ==
  /\ con' = con /\ wire' = wire /\ read' = read /\ eng' = eng /\ meta' = meta /\ made' = made
  /\ feeding' = feeding /\ final' = final /\ stream' = stream /\ Chunks' = Chunks

LEMMA ThreadAlone ==
  ASSUME LostKept, Len(Chunks) \in Nat, ThreadOnly
  PROVE  /\ ConInv => ConInv'
         /\ \A j : JobEnd(j)' = JobEnd(j)
         /\ \A j : JobSound(j) /\ Len(all') <= j.word => JobSound(j)'
         /\ \A j : JobRight(j) /\ Len(all') <= j.word => JobRight(j)'
         /\ \A k, w : WordRight(k, w) => WordRight(k, w)'
<1>1. ConInv => ConInv'
  BY ConHolds DEF ThreadOnly
<1>2. \A b, p : HeardAt(b, p) => HeardAt(b, p)'
  BY HeardStays DEF ThreadOnly
<1>3. Chunks' = Chunks /\ con' = con
  BY DEF ThreadOnly
<1>4. \A j : JobEnd(j)' = JobEnd(j)
  BY <1>3, JobTypesKept
<1>5. \A j : JobSound(j) /\ Len(all') <= j.word => JobSound(j)'
  <2> SUFFICES ASSUME NEW j, JobSound(j), Len(all') <= j.word PROVE JobSound(j)'
    OBVIOUS
  <2>1. JobEnd(j) <= con'.anchor
    BY <1>3 DEF JobSound
  <2> QED
    BY <1>2, <1>3, <2>1, JobKept
<1>6. \A j : JobRight(j) /\ Len(all') <= j.word => JobRight(j)'
  BY <1>3, <1>4, <1>5 DEF JobRight
<1>7. \A k, w : WordRight(k, w) => WordRight(k, w)'
  BY <1>2, <1>3, WordKept
<1> QED
  BY <1>1, <1>4, <1>5, <1>6, <1>7

LEMMA AllHolds ==
  ASSUME LostKept, Len(Chunks) \in Nat, ThreadOnly, all' = all, AllInv
  PROVE  AllInv'
<1>1. \A b, p : HeardAt(b, p) => HeardAt(b, p)'
  BY HeardStays DEF ThreadOnly
<1> QED
  BY <1>1, AllKept DEF ThreadOnly, AllInv

LEMMA ReadTakesJob ==
  ASSUME LongReadAssumption, ReadInv, LostKept, TakeJob
  PROVE  WireInv' /\ ConInv' /\ QueueInv' /\ AllInv' /\ FinalInv'
<1> USE DEF ReadInv
<1>0. Len(Chunks) \in Nat
  BY EngType DEF EngInv
<1>1. /\ ThreadOnly /\ thread.at = "wait" /\ q # <<>> /\ q' = Tail(q) /\ all' = all
      /\ failed' = failed
      /\ thread' = IF failed THEN thread ELSE [at |-> "pass", job |-> <<q[1]>>]
  BY DEF TakeJob, ThreadOnly, Chunks
<1>2. /\ q \in Seq(ChunkJobs) /\ \A i \in 1..Len(q) : JobRight(q[i])
      /\ \A i \in 1..Len(q), k \in 1..Len(q) : i < k => JobEnd(q[i]) <= q[k].word
  BY DEF QueueInv
<1>3. /\ q' \in Seq(ChunkJobs) /\ Len(q) \in Nat \ {0} /\ Len(q') = Len(q) - 1 /\ 1 \in 1..Len(q)
      /\ \A i \in 1..Len(q') : i + 1 \in 1..Len(q) /\ q'[i] = q[i + 1]
  BY <1>1, <1>2, TailOf
<1>4. ASSUME NEW i \in 1..Len(q), NEW j, j = q[i] PROVE JobRight(j)' /\ JobEnd(j)' = JobEnd(j)
  <2>1. JobRight(j)
    BY <1>2, <1>4
  <2>2. Len(all') <= j.word
    BY <1>1, <2>1 DEF JobRight, JobSound
  <2> QED
    BY <1>0, <1>1, <2>1, <2>2, ThreadAlone
<1>5. thread'.at = "pass" => thread'.job[1] = q[1]
  BY <1>1
<1>6. QueueInv'
  <2>1. ASSUME NEW i \in 1..Len(q') PROVE JobRight(q[i])' /\ JobEnd(q[i])' = JobEnd(q'[i])
    <3>1. PICK j : j = q[i + 1]
      OBVIOUS
    <3>2. JobRight(j)' /\ JobEnd(j)' = JobEnd(j)
      BY <1>3, <1>4, <3>1
    <3>3. q'[i] = j
      BY <1>3, <3>1
    <3> QED
      BY <3>2, <3>3 DEF JobRight, JobSound, JobTypes, JobEnd
  <2>2. ASSUME NEW i \in 1..Len(q'), NEW k \in 1..Len(q'), i < k
        PROVE  JobEnd(q'[i]) <= q'[k].word
    <3>1. i + 1 \in 1..Len(q) /\ k + 1 \in 1..Len(q) /\ i + 1 < k + 1
      BY <1>3, <2>2
    <3> QED
      BY <1>2, <1>3, <3>1
  <2>3. \A i \in 1..Len(q') : JobEnd(q[1]) <= q'[i].word
    <3> SUFFICES ASSUME NEW i \in 1..Len(q') PROVE JobEnd(q[1]) <= q'[i].word
      OBVIOUS
    <3>1. i + 1 \in 1..Len(q) /\ 1 < i + 1
      BY <1>3
    <3> QED
      BY <1>2, <1>3, <3>1
  <2>5. thread'.at # "gone" /\ (feeding' <=> con'.at = "recv")
    BY <1>1 DEF ThreadOnly, QueueInv
  <2>6. thread'.at = "pass" => JobRight(thread.job[1])' /\ JobEnd(thread.job[1])' = JobEnd(q[1])
    <3>1. PICK j : j = q[1]
      OBVIOUS
    <3>2. JobRight(j)' /\ JobEnd(j)' = JobEnd(j)
      BY <1>3, <1>4, <3>1
    <3> QED
      BY <1>5, <3>1, <3>2 DEF JobRight, JobSound, JobTypes, JobEnd
  <2> QED
    BY <1>3, <2>1, <2>2, <2>3, <2>5, <2>6 DEF QueueInv
<1>7. WireInv'
  <2>1. Keeps' => Keeps /\ ~failed
    BY <1>1 DEF Keeps, ThreadOnly
  <2>2. ASSUME NEW c \in 1..Len(Chunks), Keeps', InHand(c) PROVE InHand(c)'
    <3>1. thread' = [at |-> "pass", job |-> <<q[1]>>]
      BY <1>1, <2>1, <2>2
    <3>2. thread'.at = "pass" /\ thread'.job[1] = q[1]
      BY <3>1
    <3>3. ASSUME NEW i \in 1..Len(q), q[i].chunk = c
          PROVE  q[1].chunk = c \/ \E k \in 1..Len(q') : q'[k].chunk = c
      <4>1. CASE i = 1
        BY <3>3, <4>1
      <4>2. CASE i # 1
        <5>1. i - 1 \in 1..Len(q') /\ (i - 1) + 1 = i
          BY <1>3, <4>2
        <5>2. q'[i - 1].chunk = c
          BY <1>3, <3>3, <5>1
        <5> QED
          BY <5>1, <5>2
      <4> QED
        BY <4>1, <4>2
    <3> QED
      BY <1>1, <2>2, <3>2, <3>3 DEF InHand, IsPlaced, WordsOf, ThreadOnly
  <2> QED
    BY <1>1, <2>1, <2>2, WireHeld DEF ThreadOnly
<1>8. AllInv'
  BY <1>0, <1>1, AllHolds
<1>9. FinalInv'
  BY <1>1 DEF FinalInv, ThreadOnly
<1> QED
  BY <1>0, <1>1, <1>6, <1>7, <1>8, <1>9, ThreadAlone

LEMMA ReadQuits ==
  ASSUME LongReadAssumption, ReadInv, LostKept, Quit
  PROVE  WireInv' /\ ConInv' /\ QueueInv' /\ AllInv' /\ FinalInv'
<1> USE DEF ReadInv
<1>0. Len(Chunks) \in Nat
  BY EngType DEF EngInv
<1>1. /\ ThreadOnly /\ thread.at = "wait" /\ q = <<>> /\ q' = q /\ all' = all
      /\ failed' = failed /\ ~feeding /\ thread' = [thread EXCEPT !.at = "gone"]
  BY DEF Quit, ThreadOnly, Chunks
<1>2. thread'.at # "pass"
  BY <1>1
<1>3. QueueInv'
  <2>1. <<>> \in Seq(ChunkJobs) /\ Len(<<>>) = 0
    OBVIOUS
  <2> QED
    BY <1>1, <1>2, <2>1 DEF QueueInv, ThreadOnly
<1>4. WireInv'
  <2>1. Keeps' => Keeps
    BY <1>1 DEF Keeps, ThreadOnly
  <2>2. \A c : InHand(c) => InHand(c)'
    BY <1>1 DEF InHand, IsPlaced, WordsOf, ThreadOnly
  <2> QED
    BY <1>1, <2>1, <2>2, WireHeld DEF ThreadOnly
<1>5. AllInv'
  BY <1>0, <1>1, AllHolds
<1>6. FinalInv'
  BY <1>1 DEF FinalInv, ThreadOnly
<1> QED
  BY <1>0, <1>1, <1>3, <1>4, <1>5, <1>6, ThreadAlone

\* The words of a pass over a chunk, each at its place.
LEMMA WordsPlaced ==
  ASSUME EngInv, ConInv, AllInv, NEW job, JobSound(job), all' = Place(job, Aligned(job)),
         \A k, w : WordRight(k, w) => WordRight(k, w)'
  PROVE  /\ all' \in Seq(AlignedWords) /\ Len(all') = JobEnd(job)
         /\ \A k \in 1..Len(all') : all'[k] = Blank \/ WordRight(k, all[k])'
         /\ \A k \in 1..Len(all) : k \in 1..Len(all') /\ all'[k] = all[k]
         /\ \A m \in WordsOf(job.chunk) : \E k \in 1..Len(all') : all'[k].word = m
<1> DEFINE c == job.chunk
           n == Chunks[c].words
           f == Chunks[c].first
           ws == Aligned(job)
<1>1. /\ c \in 1..Len(Chunks) /\ job.pcm \in HeardOf(c) /\ job.base \in Nat /\ job.word \in Nat
      /\ Counted(c, job.word) /\ HeardAt(job.base, job.pcm) /\ Len(all) <= job.word
  BY DEF JobSound, JobTypes
<1>2. Tiled(Chunks)
  BY DEF EngInv, ReadTypes
<1>3. /\ n \in Nat \ {0} /\ f \in Nat \ {0} /\ WordsOf(c) = f..f + n - 1
      /\ LastWord(c - 1) = f - 1
  BY <1>1, <1>2, LastWords DEF WordsOf
<1>4. ws = [i \in 1..n |-> [word |-> f + i - 1, from |-> job.base, heard |-> job.pcm]]
  BY DEF Aligned
<1>5. job.pcm \in Seq(Nat) /\ <<>> \in Seq(Nat) /\ Blank \in AlignedWords
  BY <1>1 DEF HeardAt, Blank, AlignedWords
<1> HIDE DEF ws, n, f, c
<1>6. ASSUME NEW i \in 1..n
      PROVE  /\ ws[i] \in AlignedWords /\ ws[i].word = f + i - 1 /\ ws[i].from = job.base
             /\ ws[i].heard = job.pcm
  <2> DEFINE a == f + i - 1
  <2>1. a \in Nat
    BY <1>3
  <2>2. ws[i] = [word |-> a, from |-> job.base, heard |-> job.pcm]
    BY <1>4
  <2>3. ws[i] \in AlignedWords /\ ws[i].word = a /\ ws[i].from = job.base /\ ws[i].heard = job.pcm
    <3> HIDE DEF a
    <3> QED
      BY <1>1, <1>5, <2>1, <2>2 DEF AlignedWords
  <2> QED
    BY <2>3
<1>7. Len(ws) = n
  BY <1>3, <1>4
<1> DEFINE L == job.word + n
<1>8. L \in Nat /\ L = JobEnd(job)
  BY <1>1, <1>3 DEF JobEnd, n, c
<1>9. all' = [k \in 1..L |-> IF k > job.word THEN ws[k - job.word]
                             ELSE IF k <= Len(all) THEN all[k] ELSE Blank]
  BY <1>7 DEF Place, ws
<1>10. all \in Seq(AlignedWords) /\ Len(all) \in Nat
  BY LenProperties DEF AllInv
<1> HIDE DEF L
<1>11. ASSUME NEW k \in 1..L, k > job.word
       PROVE  /\ all'[k] \in AlignedWords /\ all'[k].word = f + (k - job.word) - 1
              /\ all'[k].from = job.base /\ all'[k].heard = job.pcm /\ k - job.word \in 1..n
  <2> DEFINE i == k - job.word
  <2>1. i \in 1..n
    BY <1>1, <1>3, <1>11 DEF L
  <2>2. all'[k] = ws[i]
    BY <1>9, <1>11
  <2>3. /\ ws[i] \in AlignedWords /\ ws[i].word = f + i - 1 /\ ws[i].from = job.base
        /\ ws[i].heard = job.pcm
    <3> HIDE DEF i
    <3> QED
      BY <1>6, <2>1
  <2> QED
    BY <2>1, <2>2, <2>3
<1>12. ASSUME NEW k \in 1..L, ~(k > job.word)
       PROVE  all'[k] = IF k <= Len(all) THEN all[k] ELSE Blank
  BY <1>9, <1>12
<1>13. all' \in Seq(AlignedWords) /\ Len(all') = L
  <2>1. \A k \in 1..L : all'[k] \in AlignedWords
    <3> SUFFICES ASSUME NEW k \in 1..L PROVE all'[k] \in AlignedWords
      OBVIOUS
    <3>1. CASE k > job.word
      BY <1>11, <3>1
    <3>2. CASE ~(k > job.word)
      <4>1. CASE k <= Len(all)
        <5>1. k \in 1..Len(all)
          BY <1>8, <4>1
        <5>2. all[k] \in AlignedWords
          BY <1>10, <5>1, ElementOfSeq
        <5> QED
          BY <1>12, <3>2, <4>1, <5>2
      <4>2. CASE ~(k <= Len(all))
        BY <1>5, <1>12, <3>2, <4>2
      <4> QED
        BY <4>1, <4>2
    <3> QED
      BY <3>1, <3>2
  <2>2. DOMAIN all' = 1..L
    BY <1>9
  <2>3. all' = [k \in 1..L |-> all'[k]]
    BY <1>9, <2>2
  <2> QED
    BY <1>8, <2>1, <2>3
<1>14. ASSUME NEW k \in 1..L, k > job.word
       PROVE  WordRight(k, all[k])'
  <2>1. PICK w : w = all'[k]
    OBVIOUS
  <2>2. /\ w.word = f + (k - job.word) - 1 /\ w.from = job.base /\ w.heard = job.pcm
        /\ k - job.word \in 1..n
    BY <1>11, <1>14, <2>1
  <2>3. w.word \in WordsOf(c)
    BY <1>3, <2>2
  <2>4. w.word = k \/ Shifted(c)
    <3>1. CASE job.word = LastWord(c - 1)
      <4>1. job.word = f - 1 /\ k \in Int /\ f \in Int
        BY <1>3, <1>8, <3>1
      <4>2. f + (k - job.word) - 1 = k
        BY <4>1
      <4> QED
        BY <2>2, <4>2
    <3> QED
      BY <1>1, <3>1 DEF Counted
  <2>5. WordRight(k, w)
    BY <1>1, <2>2, <2>3, <2>4 DEF WordRight, c
  <2>6. WordRight(k, w)'
    BY <2>5
  <2> QED
    BY <2>1, <2>6 DEF WordRight
<1>15. ASSUME NEW k \in 1..L, ~(k > job.word)
       PROVE  all'[k] = Blank \/ WordRight(k, all[k])'
  <2>1. CASE k <= Len(all)
    <3>1. k \in 1..Len(all) /\ all'[k] = all[k]
      BY <1>8, <1>12, <1>15, <2>1
    <3>2. PICK w : w = all[k]
      OBVIOUS
    <3>3. w = Blank \/ WordRight(k, w)
      BY <3>1, <3>2 DEF AllInv
    <3>4. w = Blank \/ WordRight(k, w)'
      BY <3>3
    <3> QED
      BY <3>1, <3>2, <3>4 DEF WordRight
  <2>2. CASE ~(k <= Len(all))
    BY <1>12, <1>15, <2>2
  <2> QED
    BY <2>1, <2>2
<1>16. ASSUME NEW k \in 1..Len(all)
       PROVE  k \in 1..L /\ all'[k] = all[k]
  <2>1. k \in 1..L /\ ~(k > job.word) /\ k <= Len(all)
    BY <1>1, <1>3, <1>10 DEF L
  <2> QED
    BY <1>12, <2>1
<1>17. ASSUME NEW m \in WordsOf(c)
       PROVE  \E k \in 1..L : all'[k].word = m
  <2> DEFINE k == job.word + (m - f) + 1
  <2>1. m \in f..f + n - 1 /\ job.word \in Nat /\ f \in Nat /\ n \in Nat
    BY <1>1, <1>3
  <2>2. m \in Int /\ f <= m /\ m <= f + n - 1
    BY <2>1
  <2>3. k \in Int /\ job.word < k /\ k <= job.word + n
    BY <2>1, <2>2
  <2>4. k \in 1..L /\ k > job.word /\ f + (k - job.word) - 1 = m
    BY <2>1, <2>2, <2>3 DEF L
  <2> HIDE DEF k
  <2>5. all'[k].word = m
    BY <1>11, <2>4
  <2> QED
    BY <2>4, <2>5
<1> QED
  BY <1>8, <1>13, <1>14, <1>15, <1>16, <1>17 DEF c

LEMMA ReadPasses ==
  ASSUME LongReadAssumption, ReadInv, LostKept, Pass
  PROVE  WireInv' /\ ConInv' /\ QueueInv' /\ AllInv' /\ FinalInv'
<1> USE DEF ReadInv
<1>0. PICK job : job = thread.job[1]
  OBVIOUS
<1>a. Len(Chunks) \in Nat
  BY EngType DEF EngInv
<1>1. /\ ThreadOnly /\ thread.at = "pass" /\ q' = q
      /\ thread' = [at |-> "wait", job |-> <<>>]
      /\ \/ all' = Place(job, Aligned(job)) /\ failed' = failed
         \/ failed' = TRUE /\ all' = all
  BY <1>0 DEF Pass, ThreadOnly, Chunks
<1>2. thread'.at = "wait" /\ con' = con
  BY <1>1 DEF ThreadOnly
<1>3. JobRight(job) /\ \A i \in 1..Len(q) : JobEnd(job) <= q[i].word
  BY <1>0, <1>1 DEF QueueInv
<1>4. ConInv'
  BY <1>a, <1>1, ThreadAlone
<1>5. FinalInv'
  BY <1>1 DEF FinalInv, ThreadOnly
<1>6. ASSUME NEW i \in 1..Len(q), Len(all') <= q[i].word
      PROVE  JobRight(q[i])' /\ JobEnd(q[i])' = JobEnd(q[i])
  <2>1. PICK j : j = q[i]
    OBVIOUS
  <2>2. JobRight(j) /\ Len(all') <= j.word
    BY <1>6, <2>1 DEF QueueInv
  <2>3. JobRight(j)' /\ JobEnd(j)' = JobEnd(j)
    BY <1>a, <1>1, <2>2, ThreadAlone
  <2> QED
    BY <1>1, <2>1, <2>3 DEF JobRight, JobSound, JobTypes, JobEnd
<1>7. (\A i \in 1..Len(q) : Len(all') <= q[i].word) => QueueInv'
  BY <1>1, <1>2, <1>6 DEF QueueInv, ThreadOnly
<1>8. CASE all' = Place(job, Aligned(job)) /\ failed' = failed
  <2>1. /\ all' \in Seq(AlignedWords) /\ Len(all') = JobEnd(job)
        /\ \A k \in 1..Len(all') : all'[k] = Blank \/ WordRight(k, all[k])'
        /\ \A k \in 1..Len(all) : k \in 1..Len(all') /\ all'[k] = all[k]
        /\ \A m \in WordsOf(job.chunk) : \E k \in 1..Len(all') : all'[k].word = m
    <3>1. JobSound(job) /\ \A k, w : WordRight(k, w) => WordRight(k, w)'
      BY <1>a, <1>1, <1>3, ThreadAlone DEF JobRight
    <3> QED
      BY <1>8, <3>1, WordsPlaced
  <2>2. AllInv'
    <3>1. Len(all') <= con'.anchor
      BY <1>2, <1>3, <2>1 DEF JobRight, JobSound
    <3>2. con'.open => Len(all') <= con'.word
      BY <1>2, <1>3, <2>1 DEF JobRight
    <3> QED
      BY <2>1, <3>1, <3>2 DEF AllInv
  <2>3. QueueInv'
    BY <1>3, <1>7, <2>1
  <2>4. WireInv'
    <3>1. Keeps' => Keeps
      BY <1>1, <1>8 DEF Keeps, ThreadOnly
    <3>2. ASSUME NEW c \in 1..Len(Chunks), InHand(c) PROVE InHand(c)'
      <4>1. CASE IsPlaced(c)
        <5>1. ASSUME NEW m \in WordsOf(c) PROVE \E k \in 1..Len(all') : all'[k].word = m
          <6>1. PICK k \in 1..Len(all) : all[k].word = m
            BY <4>1 DEF IsPlaced
          <6>2. k \in 1..Len(all') /\ all'[k].word = m
            BY <2>1, <6>1
          <6> QED
            BY <6>2
        <5> QED
          BY <1>1, <5>1 DEF InHand, IsPlaced, WordsOf, ThreadOnly
      <4>2. CASE c = job.chunk
        <5>1. \A m \in WordsOf(c) : \E k \in 1..Len(all') : all'[k].word = m
          BY <2>1, <4>2
        <5> QED
          BY <1>1, <5>1 DEF InHand, IsPlaced, WordsOf, ThreadOnly
      <4>3. CASE ~(IsPlaced(c) \/ c = job.chunk)
        BY <1>0, <1>1, <3>2, <4>3 DEF InHand, ThreadOnly
      <4> QED
        BY <4>1, <4>2, <4>3
    <3> QED
      BY <1>1, <3>1, <3>2, WireHeld DEF ThreadOnly
  <2> QED
    BY <1>4, <1>5, <2>2, <2>3, <2>4
<1>9. CASE failed' = TRUE /\ all' = all
  <2>1. WireInv'
    <3>1. ~Keeps'
      BY <1>9 DEF Keeps
    <3> QED
      BY <1>1, <3>1, WireHeld DEF ThreadOnly
  <2>2. AllInv'
    BY <1>a, <1>1, <1>9, AllHolds
  <2>3. QueueInv'
    <3>1. \A i \in 1..Len(q) : Len(all') <= q[i].word
      BY <1>9 DEF QueueInv, JobRight, JobSound
    <3> QED
      BY <1>7, <3>1
  <2> QED
    BY <1>4, <1>5, <2>1, <2>2, <2>3
<1> QED
  BY <1>1, <1>8, <1>9

LEMMA ReadHolds ==
  ASSUME ThreadOnly, LostKept, q' = q, failed' = failed, thread' = thread, all' = all, ReadInv
  PROVE  WireInv' /\ ConInv' /\ QueueInv' /\ AllInv' /\ FinalInv'
<1> USE DEF ReadInv
<1>0. Len(Chunks) \in Nat
  BY EngType DEF EngInv
<1>1. WireInv'
  <2>1. Keeps' => Keeps
    BY DEF Keeps, ThreadOnly
  <2>2. \A c : InHand(c) => InHand(c)'
    BY DEF InHand, IsPlaced, WordsOf, ThreadOnly
  <2> QED
    BY <2>1, <2>2, WireHeld DEF ThreadOnly
<1>2. QueueInv'
  BY <1>0, QueueHolds DEF ThreadOnly
<1>3. AllInv'
  BY <1>0, AllHolds
<1>4. FinalInv'
  BY DEF FinalInv, ThreadOnly
<1> QED
  BY <1>0, <1>1, <1>2, <1>3, <1>4, ThreadAlone

\* Why a read ends: looked at when the provider leaves the stream, and then nothing
\* of it changes any more.
LEMMA EndKept ==
  ASSUME LongReadAssumption, ReadInv, [ReadNext]_readVars
  PROVE  EndInv'
<1> USE DEF ReadInv
<1>1. /\ read.isolated \in BOOLEAN /\ Chunks' = Chunks /\ read' = read
  <2>1. read' = read
    BY DEF ReadNext, Render, EnterChunk, BeginChunk, MakeFrame, FrameFails, EndChunk, NextChunk,
           Return, Provider, TakeStart, TakeAudio, CloseRead, Conclude, Thread, TakeJob, Quit, Pass,
           Watchdog, Notice, Record, ReadOver, readVars
  <2> QED
    BY <2>1, EngType DEF EngInv, Chunks
<1>2. eng' = eng /\ made' = made /\ cancel' = cancel => (Ended => Ended')
  BY <1>1 DEF Ended, Finished
<1>3. CASE Render
  <2>1. ~Returned
    BY <1>3 DEF Render, EnterChunk, BeginChunk, MakeFrame, FrameFails, EndChunk, NextChunk, Return,
           Returned
  <2>2. con.at = "recv"
    BY <2>1 DEF WireInv, WireTypes
  <2>3. con' = con /\ cancel' = cancel /\ sent' = sent
    BY <1>3 DEF Render, EnterChunk, BeginChunk, MakeFrame, FrameFails, EndChunk, NextChunk, Return
  <2> QED
    BY <1>1, <2>2, <2>3 DEF EndInv
<1>4. CASE TakeStart \/ TakeAudio
  <2>1. con.at = "recv" /\ cancel' = cancel /\ sent' = sent
    BY <1>4 DEF TakeStart, TakeAudio
  <2>2. con'.at = con.at
    <3>1. CASE TakeStart
      <4>1. PICK c, b, a : con' = [con EXCEPT !.open = TRUE, !.chunk = c, !.base = b,
                                              !.word = con.anchor, !.pcm = <<>>, !.anchor = a]
        BY <3>1 DEF TakeStart
      <4> QED
        BY <4>1 DEF ConInv
    <3>2. CASE TakeAudio
      <4>1. PICK x : con' = [con EXCEPT !.pcm = x]
        BY <3>2 DEF TakeAudio
      <4> QED
        BY <4>1 DEF ConInv
    <3> QED
      BY <1>4, <3>1, <3>2
  <2> QED
    BY <1>1, <2>1, <2>2 DEF EndInv
<1>5. CASE CloseRead
  <2>1. /\ con.at = "recv" /\ wire # <<>> /\ wire[1].kind = "done" /\ cancel' = cancel
        /\ sent' = sent /\ eng' = eng /\ made' = made
        /\ con' = [con EXCEPT !.at = IF sent THEN "joinCancelled" ELSE "join",
                              !.open = FALSE, !.pcm = <<>>]
    BY <1>5 DEF CloseRead
  <2>2. con'.at = IF sent THEN "joinCancelled" ELSE "join"
    BY <2>1 DEF ConInv
  <2>3. Returned
    <3>1. PICK cur : Chain(wire, cur, con.chunk) /\ WireEnds(cur)
      BY DEF WireInv
    <3>2. wire \in Seq(Messages)
      BY <3>1 DEF Chain
    <3>3. 1 \in 1..Len(wire)
      BY <2>1, <3>2, TailOf
    <3> QED
      BY <2>1, <3>1, <3>3 DEF WireEnds, GoesOn
  <2>4. ~sent => Ended
    <3> SUFFICES ASSUME ~sent, eng.pc = "gone", ~cancel PROVE Finished
      BY <2>3 DEF EndInv, Returned, Ended
    <3>1. eng.ci > Len(Chunks) /\ CutTold
      BY DEF EngInv, HistoryInv
    <3>2. DOMAIN Chunks = 1..Len(Chunks)
      BY LenProperties DEF EngInv, ReadTypes
    <3> QED
      BY <3>1, <3>2 DEF Finished, CutTold
  <2> QED
    BY <1>1, <1>2, <2>1, <2>2, <2>4 DEF EndInv
<1>6. CASE Conclude
  <2>1. /\ con.at \in {"join", "joinCancelled"} /\ con' = [con EXCEPT !.at = "over"]
        /\ final' = (IF con.at = "join" /\ ~failed THEN all ELSE <<>>)
        /\ eng' = eng /\ made' = made /\ cancel' = cancel /\ sent' = sent
    BY <1>6 DEF Conclude
  <2>2. con'.at = "over"
    BY <2>1 DEF ConInv
  <2>3. final' # <<>> => con.at = "join"
    BY <2>1
  <2> QED
    BY <1>1, <1>2, <2>1, <2>2, <2>3 DEF EndInv
<1>7. CASE Thread \/ ReadOver \/ UNCHANGED readVars
  <2>1. /\ con' = con /\ final' = final /\ eng' = eng /\ made' = made /\ cancel' = cancel
        /\ sent' = sent
    BY <1>7 DEF Thread, TakeJob, Quit, Pass, ReadOver, readVars
  <2> QED
    BY <1>1, <1>2, <2>1 DEF EndInv
<1>8. CASE Watchdog
  <2>1. /\ con' = con /\ final' = final /\ eng' = eng /\ made' = made
    BY <1>8 DEF Watchdog, Notice, Record
  <2>a. /\ cancel => cancel'
        /\ cancel' => cancel \/ read.isolated \/ sent'
        /\ sent => sent'
    <3>1. CASE Record
      BY <3>1, Zenon DEF Record
    <3>2. CASE Notice /\ read.isolated
      <4>1. cancel' = (cancel \/ ~Returned) /\ sent' = sent
        BY <3>2, Zenon DEF Notice
      <4> QED
        BY <3>2, <4>1, Zenon
    <3>3. CASE Notice /\ ~read.isolated
      <4>1. cancel' = TRUE /\ sent' = TRUE
        BY <3>3, Zenon DEF Notice
      <4> QED
        BY <4>1, Zenon
    <3> QED
      BY <1>8, <3>1, <3>2, <3>3 DEF Watchdog
  <2>2. Finished \/ eng.pc = "failed" => (Finished \/ eng.pc = "failed")'
    BY <1>1, <2>1 DEF Finished
  <2>3. Ended => Ended'
    BY <1>1, <2>a, <2>2, Zenon DEF Ended
  <2> QED
    BY <1>1, <2>1, <2>a, <2>3, Zenon DEF EndInv
<1> QED
  BY <1>3, <1>4, <1>5, <1>6, <1>7, <1>8 DEF ReadNext, Provider

LEMMA ReadStep ==
  ASSUME LongReadAssumption, ReadInv, [ReadNext]_readVars
  PROVE  ReadInv'
<1>1. EngInv' /\ LostKept /\ EndInv'
  BY EngStep, LostStays, EndKept DEF ReadInv
<1>2. CASE Render
  BY <1>1, <1>2, ReadRender DEF ReadInv
<1>3. CASE Provider
  BY <1>1, <1>3, ReadStarts, ReadHears, ReadCloses, ReadConcludes DEF Provider, ReadInv
<1>4. CASE Thread
  BY <1>1, <1>4, ReadTakesJob, ReadQuits, ReadPasses DEF Thread, ReadInv
<1>5. CASE Watchdog \/ ReadOver \/ UNCHANGED readVars
  <2>1. ThreadOnly /\ q' = q /\ failed' = failed /\ thread' = thread /\ all' = all
    <3>1. CASE Notice
      BY <3>1 DEF Notice, ThreadOnly, Chunks
    <3>2. CASE Record
      BY <3>2 DEF Record, ThreadOnly, Chunks
    <3>3. CASE ReadOver \/ UNCHANGED readVars
      BY <3>3 DEF ReadOver, readVars, ThreadOnly, Chunks
    <3> QED
      BY <1>5, <3>1, <3>2, <3>3 DEF Watchdog
  <2> QED
    BY <1>1, <2>1, ReadHolds DEF ReadInv
<1> QED
  BY <1>2, <1>3, <1>4, <1>5 DEF ReadNext

LEMMA ReadBegins ==
  ASSUME LongReadAssumption, ReadInit
  PROVE  ReadInv
<1>1. EngInv
  BY ReadStart
<1>2. Len(Chunks) \in Nat /\ read.isolated \in BOOLEAN
  BY <1>1, EngType DEF EngInv
<1>3. /\ eng = [pc |-> "loop", ci |-> 1, T |-> 0, out |-> 0, next |-> 0,
                hist |-> Caller, used |-> NoVoice]
      /\ meta = 0 /\ wire = <<>> /\ q = <<>> /\ feeding = TRUE /\ failed = FALSE
      /\ con = [at |-> "recv", anchor |-> 0, open |-> FALSE, chunk |-> 0,
                base |-> 0, word |-> 0, pcm |-> <<>>]
      /\ thread = [at |-> "wait", job |-> <<>>] /\ all = <<>>
      /\ final = <<>> /\ stream = <<>> /\ cancel = FALSE
      /\ made = [c \in 1..Len(Chunks) |-> [T |-> 0, cut |-> FALSE]]
  BY DEF ReadInit
<1>4. eng.pc = "loop" /\ eng.ci = 1 /\ con.at = "recv" /\ con.chunk = 0 /\ ~con.open
  BY <1>3
<1>5. <<>> \in Seq(Messages) /\ <<>> \in Seq(Nat) /\ <<>> \in Seq(ChunkJobs)
      /\ <<>> \in Seq(AlignedWords) /\ Len(<<>>) = 0 /\ DOMAIN <<>> = 1..0
  OBVIOUS
<1>6. WireInv
  <2> DEFINE cur == [i \in 0..0 |-> 0]
  <2>1. cur \in [0..Len(wire) -> 0..Len(Chunks)] /\ cur[0] = 0 /\ Len(wire) = 0
    BY <1>2, <1>3, <1>5
  <2> HIDE DEF cur
  <2>2. Chain(wire, cur, con.chunk)
    BY <1>3, <1>4, <1>5, <2>1 DEF Chain
  <2>3. GoesOn(wire) /\ WireEnds(cur)
    BY <1>3, <1>4, <2>1 DEF WireEnds, GoesOn, LastBegun, EndsAt
  <2>4. AllVoiced(cur)
    <3>1. \A c : ~Heard(c)
      BY <1>3, <1>5 DEF Heard, ToSet
    <3>2. \A c \in 1..Len(Chunks) : ~Owed(c)
      BY <1>3, <1>4 DEF Owed
    <3> QED
      BY <3>1, <3>2 DEF AllVoiced
  <2>5. WireTypes
    BY <1>3, <1>4 DEF WireTypes, Waits
  <2> QED
    BY <2>2, <2>3, <2>4, <2>5 DEF WireInv
<1>7. ConInv
  <2>1. con \in [at : {"recv", "join", "joinCancelled", "over"}, anchor : Nat, open : BOOLEAN,
                 chunk : 0..Len(Chunks), base : Nat, word : Nat, pcm : Seq(Nat)]
    BY <1>2, <1>3, <1>5
  <2>2. Counted(con.chunk + 1, con.anchor)
    <3>1. con.chunk + 1 = 1 /\ con.anchor = 0
      BY <1>3
    <3>2. Counted(1, 0)
      BY DEF Counted, LastWord
    <3> QED
      BY <3>1, <3>2
  <2> QED
    BY <1>3, <1>4, <1>5, <2>1, <2>2 DEF ConInv
<1>8. QueueInv
  BY <1>3, <1>4, <1>5 DEF QueueInv
<1>9. AllInv
  BY <1>3, <1>4, <1>5 DEF AllInv
<1>10. FinalInv /\ EndInv
  BY <1>3, <1>4 DEF FinalInv, EndInv
<1> QED
  BY <1>1, <1>6, <1>7, <1>8, <1>9, <1>10 DEF ReadInv

\* A stretch of the stream, as the stream's subsequence.
LEMMA HeardIsSub ==
  ASSUME NEW b, NEW p, HeardAt(b, p), stream \in Seq(Nat)
  PROVE  b + Len(p) <= Len(stream) /\ p = SubSeq(stream, b + 1, b + Len(p))
<1>1. /\ b \in Nat /\ p \in Seq(Nat) /\ Len(p) \in Nat /\ b + Len(p) <= Len(stream)
      /\ \A i \in 1..Len(p) : p[i] = stream[b + i]
  BY LenProperties DEF HeardAt
<1> DEFINE m == b + 1
           n == b + Len(p)
           s == SubSeq(stream, m, n)
<1>2. m \in Int /\ n \in Int /\ n - m + 1 = Len(p) /\ (~(m <= n) => Len(p) = 0)
  BY <1>1
<1>3. \A i \in m..n : stream[i] \in Nat
  <2> SUFFICES ASSUME NEW i \in m..n PROVE stream[i] \in Nat
    OBVIOUS
  <2>1. i \in 1..Len(stream)
    BY <1>1, LenProperties
  <2> QED
    BY <2>1, ElementOfSeq
<1> HIDE DEF m, n
<1>4. /\ s \in Seq(Nat) /\ Len(s) = (IF m <= n THEN n - m + 1 ELSE 0)
      /\ \A i \in 1..n - m + 1 : s[i] = stream[m + i - 1]
  BY <1>2, <1>3, SubSeqProperties
<1>5. Len(s) = Len(p)
  BY <1>2, <1>4
<1>6. ASSUME NEW i \in 1..Len(p) PROVE s[i] = p[i]
  <2>1. i \in 1..n - m + 1 /\ m + i - 1 = b + i
    BY <1>1, <1>2 DEF m
  <2>2. s[i] = stream[b + i]
    BY <1>4, <2>1
  <2> QED
    BY <1>1, <2>2
<1> HIDE DEF s
<1>7. s = p
  BY <1>1, <1>4, <1>5, <1>6, SeqEqual
<1> QED
  BY <1>1, <1>7 DEF s, m, n

LEMMA WordsRight == ASSUME ReadInv PROVE WordsInPlace
<1> USE DEF ReadInv
<1> SUFFICES ASSUME NEW k \in DOMAIN all, all[k] # Blank
             PROVE  LET w == all[k]
                    IN \E c \in DOMAIN Chunks :
                         /\ w.word \in WordsOf(c)
                         /\ ToSet(w.heard) \subseteq {0, c}
                         /\ w.from + Len(w.heard) <= Len(stream)
                         /\ w.heard = SubSeq(stream, w.from + 1, w.from + Len(w.heard))
                         /\ w.word = k \/ StartsLost(c)
  BY DEF WordsInPlace
<1> DEFINE w == all[k]
<1>1. all \in Seq(AlignedWords) /\ stream \in Seq(Nat) /\ Tiled(Chunks)
  BY ConTypes DEF AllInv, EngInv, ReadTypes
<1>2. k \in 1..Len(all) /\ DOMAIN Chunks = 1..Len(Chunks)
  BY <1>1, LenProperties DEF Tiled
<1>3. WordRight(k, w)
  BY <1>2 DEF AllInv
<1>4. PICK c \in 1..Len(Chunks) : /\ w.word \in WordsOf(c) /\ w.heard \in HeardOf(c)
                                  /\ w.word = k \/ Shifted(c)
  BY <1>3 DEF WordRight
<1>5. Shifted(c) => StartsLost(c)
  BY DEF Shifted, StartsLost, Lost
<1>6. ToSet(w.heard) \subseteq {0, c}
  <2>1. \A i \in DOMAIN w.heard : w.heard[i] \in {0, c}
    BY <1>4, LenProperties, ElementOfSeq DEF HeardOf
  <2> QED
    BY <2>1 DEF ToSet
<1>7. /\ w.from + Len(w.heard) <= Len(stream)
      /\ w.heard = SubSeq(stream, w.from + 1, w.from + Len(w.heard))
  BY <1>1, <1>3, HeardIsSub DEF WordRight
<1> QED
  BY <1>2, <1>4, <1>5, <1>6, <1>7

LEMMA FinalRight == ASSUME ReadInv PROVE FinalComplete
<1> USE DEF ReadInv
<1> SUFFICES ASSUME con.at = "over", final # <<>> PROVE FinalComplete
  BY DEF FinalComplete
<1>1. final = all /\ ~failed /\ thread.at = "gone"
  BY DEF FinalInv
<1>2. wire = <<>> /\ q = <<>> /\ ~con.open /\ Keeps
  BY <1>1 DEF WireInv, WireTypes, QueueInv, ConInv, Keeps
<1>3. PICK cur : AllVoiced(cur)
  BY DEF WireInv
<1>4. DOMAIN Chunks = 1..Len(Chunks) /\ DOMAIN final = 1..Len(all)
  BY <1>1, LenProperties DEF EngInv, ReadTypes, Tiled, AllInv
<1>5. ASSUME NEW c \in 1..Len(Chunks), made[c].T > 0 \/ c \in ToSet(stream) PROVE IsPlaced(c)
  <2>1. InHand(c) \/ HasAudio(wire, cur, c)
    BY <1>2, <1>3, <1>5 DEF AllVoiced, Owed, Heard
  <2> QED
    BY <1>1, <1>2, <2>1 DEF InHand, HasAudio
<1>6. Finished \/ eng.pc = "failed" \/ (read.isolated /\ cancel)
  BY DEF EndInv, Ended
<1> QED
  BY <1>1, <1>4, <1>5, <1>6 DEF IsPlaced, FinalComplete

\* Each timing the client gets is that of its word, in the audio of its own
\* chunk, where the client hears it, and at its index of the passage unless a
\* start before it was lost; and the final event leaves out no chunk that was
\* heard and says that the passage is finished, but for the two cases that
\* FinalComplete names.
THEOREM TimingsRight == ReadSpec => []TimingsComplete
<1>1. ReadInit => ReadInv
  BY ReadBegins, LongReadAssumption
<1>2. ReadInv /\ [ReadNext]_readVars => ReadInv'
  BY ReadStep, LongReadAssumption
<1>3. ReadInv => TimingsComplete
  BY WordsRight, FinalRight DEF TimingsComplete
<1> QED
  BY <1>1, <1>2, <1>3, PTL DEF ReadSpec

=============================================================================
