------------------------ MODULE SiblingServer_proofs ------------------------
(***************************************************************************)
(* Theorems about SiblingServer, for any number of requests, of any routes *)
(* and wishes, and any number of crashes.                                  *)
(*                                                                         *)
(* The session sends one request and takes whatever comes as its reply:    *)
(* that this is its own reply rests on there being at most one unfinished  *)
(* job between session and worker, and none while io_mutex_ is free        *)
(* (JobInv). How many syntheses cancels cut rests on an account of them    *)
(* (Counted): a watchdog sends at most one cancel, a cancel raises the     *)
(* flag at most once, and a raised flag cuts at most the synthesis that    *)
(* runs, as the next one begins by clearing it.                            *)
(*                                                                         *)
(* Behind them, what the engines of the siblings rest on: their K/V caches *)
(* (SiblingLm) and the codes, streams and parts of Higgs (HiggsSpeech), for*)
(* any sizes.                                                              *)
(***************************************************************************)
EXTENDS SiblingServer, SiblingLm, HiggsSpeech, SequenceTheorems, FiniteSetTheorems, TLAPS

-----------------------------------------------------------------------------
(* The inductive invariant.                                                *)

States == {"arrive", "ensure", "provide", "lock", "call", "sent", "recv", "after", "done"}
Calls  == {"LOAD", "ENCODE", "TRIAL", "SPEECH"}
Asks   == [type : Calls \union {"CANCEL"}, id : Nat, of : Requests]
Tells  == [type : {"AUDIO", "ok", "error"}, id : Nat]
Answers == {"nothing", "503", "not ready", "ok", "error", "another's", "worker gone"}
NoJob  == [type |-> "none", id |-> 0]
Workers == [main : {"wait", "activate", "synth", "encode", "rest"},
            reader : {"recv", "set"}, q : Seq(Asks), active : Nat, flag : BOOLEAN,
            cur : Asks \union {NoJob}, frames : Nat]

Types ==
  /\ env \in Scenarios
  /\ pc \in [Requests -> States] /\ client \in [Requests -> BOOLEAN]
  /\ wd \in [Requests -> [at : {"none", "watch", "send", "ended"}, id : Nat]]
  /\ io \in Requests \union {"free"} /\ next \in Wishes
  /\ session \in [ready : BOOLEAN, gpu : Wishes \union {"default"}, synth : Nat,
                  seq : Nat \ {0}]
  /\ proc \in BOOLEAN /\ toW \in Seq(Asks) /\ toP \in Seq(Tells)
  /\ w \in Workers /\ told \in [Requests -> Answers]
  /\ cut \in SUBSET Requests /\ slain \in SUBSET Requests

\* io_mutex_ is held by the request whose call the session is in.
IoHeld == \A r \in Requests : pc[r] \in {"sent", "recv"} <=> io = r

\* The job between session and worker: asked for, queued, worked on, or told.
IsJob(i) == toW[i].type # "CANCEL"
Asked    == \E i \in 1..Len(toW) : IsJob(i)
Queued   == w.q # <<>>
Working  == w.main \in {"activate", "synth", "encode"}
Newest   == session.seq - 1

JobInv ==
  /\ toP # <<>> => io # "free"
  /\ \A i \in 1..Len(toP) :
       toP[i].type # "AUDIO" => i = Len(toP) /\ toP[i].id = Newest
  /\ proc =>
       /\ \A i, j \in 1..Len(toW) : IsJob(i) /\ IsJob(j) => i = j
       /\ \A i \in 1..Len(toW) : IsJob(i) => toW[i].id = Newest
       /\ Asked => ~Queued /\ ~Working /\ toP = <<>> /\ io # "free"
       /\ Queued => /\ Len(w.q) = 1 /\ w.q[1].id = Newest
                    /\ ~Working /\ toP = <<>> /\ io # "free"
       /\ Working => /\ w.cur \in Asks /\ w.cur.id = Newest /\ io # "free"
                     /\ \A i \in 1..Len(toP) : toP[i].type = "AUDIO"

\* A watchdog starts with its response and sends one cancel at most.
Cancels == {i \in 1..Len(toW) : ~IsJob(i)}
CancelOnce ==
  /\ \A r \in Requests : pc[r] \in {"arrive", "ensure", "provide"} => wd[r].at = "none"
  /\ \A i \in Cancels : wd[toW[i].of].at = "ended"
  /\ \A i, j \in Cancels : toW[i].of = toW[j].of => i = j

\* The account of cancels: synthesis cut, flags that can cut one, a match the
\* reader has made, cancels to be sent or on their way, against the clients
\* whose leaving has been noticed.
One(b) == IF b THEN 1 ELSE 0
Raised == w.flag /\ w.main \in {"activate", "synth"}
Sending == {r \in Requests : wd[r].at = "send"} \union {toW[i].of : i \in Cancels}
Noticed == {r \in Requests : ~client[r] /\ wd[r].at \in {"send", "ended"}}
Counted ==
  Cardinality(cut) + One(Raised) + One(w.reader = "set") + Cardinality(Sending)
    <= Cardinality(Noticed)

IInv == IoHeld /\ JobInv /\ CancelOnce /\ Counted /\ CallServed

-----------------------------------------------------------------------------
(* Types.                                                                  *)

LEMMA RouteOf ==
  ASSUME Types, NEW r \in Requests
  PROVE  Is(r).call \in Calls /\ env.wish[r] \in Wishes
<1>1. env \in AllScenarios
  BY ServerAssumption DEF Types, ServerAssumption
<1>2. PICK p \in {"higgs", "breeze"} :
        env \in [route : [Requests -> Routes(p)], wish : [Requests -> Wishes], crashes : {0, 1}]
  BY <1>1 DEF AllScenarios
<1>3. Is(r) \in Routes(p)
  BY <1>2 DEF Is
<1>4. \A x \in Routes(p) : x.call \in Calls
  BY DEF Routes, AdminLoad, HiggsUpload, HiggsTrial, HiggsSse, HiggsSpeech, BreezeUpload,
     BreezeSse, BreezeAudio, BreezeWhole, Route, Calls
<1> QED
  BY <1>2, <1>3, <1>4

LEMMA NoWorkerType == NoWorker \in Workers
BY EmptySeq DEF NoWorker, Workers, NoJob

LEMMA SessionType ==
  ASSUME Types
  PROVE  /\ session.ready \in BOOLEAN /\ session.gpu \in Wishes \union {"default"}
         /\ session.synth \in Nat /\ session.seq \in Nat \ {0} /\ Newest \in Nat
BY DEF Types, Newest

LEMMA WorkerType ==
  ASSUME Types
  PROVE  /\ w.main \in {"wait", "activate", "synth", "encode", "rest"}
         /\ w.reader \in {"recv", "set"} /\ w.q \in Seq(Asks) /\ w.active \in Nat
         /\ w.flag \in BOOLEAN /\ w.cur \in Asks \union {NoJob} /\ w.frames \in Nat
BY DEF Types, Workers

\* Taking the first frame of a channel leaves the others in order.
LEMMA TailOf ==
  ASSUME NEW S, NEW s \in Seq(S), s # <<>>
  PROVE  /\ Head(s) \in S /\ Head(s) = s[1] /\ 1 \in 1..Len(s)
         /\ Tail(s) \in Seq(S) /\ Len(s) \in Nat \ {0} /\ Len(Tail(s)) = Len(s) - 1
         /\ \A i \in 1..Len(Tail(s)) : i + 1 \in 1..Len(s) /\ Tail(s)[i] = s[i + 1]
         /\ Len(s) = 1 => Tail(s) = <<>>
<1>1. Len(s) \in Nat \ {0}
  BY EmptySeq, LenProperties
<1>2. Head(s) \in S /\ Head(s) = s[1] /\ 1 \in 1..Len(s)
  BY <1>1, HeadTailProperties, LenProperties, ElementOfSeq
<1>3. Tail(s) \in Seq(S) /\ Len(Tail(s)) = Len(s) - 1
  BY HeadTailProperties
<1>4. \A i \in 1..Len(Tail(s)) : i + 1 \in 1..Len(s) /\ Tail(s)[i] = s[i + 1]
  BY <1>1, <1>3
<1>5. ASSUME Len(s) = 1 PROVE Tail(s) = <<>>
  <2>1. Len(Tail(s)) = 0
    BY <1>3, <1>5
  <2> QED
    BY <1>3, <2>1, EmptySeq
<1> QED
  BY <1>1, <1>2, <1>3, <1>4, <1>5

\* Sending puts the frame behind what is in the channel.
LEMMA AppendOf ==
  ASSUME NEW S, NEW s \in Seq(S), NEW f \in S
  PROVE  /\ Append(s, f) \in Seq(S) /\ Append(s, f) # <<>>
         /\ Len(s) \in Nat /\ Len(Append(s, f)) = Len(s) + 1
         /\ Append(s, f)[Len(s) + 1] = f
         /\ \A i \in 1..Len(s) : Append(s, f)[i] = s[i]
         /\ s = <<>> => Len(s) = 0
BY AppendProperties, LenProperties, EmptySeq

LEMMA Named == \A r \in Requests : r # "free" /\ r # "idle"
BY ServerAssumption DEF ServerAssumption

LEMMA InitInv == Init => Types /\ IInv
<1> SUFFICES ASSUME Init PROVE Types /\ IInv
  OBVIOUS
<1>0. Len(toW) = 0 /\ Len(toP) = 0 /\ toW \in Seq(Asks) /\ toP \in Seq(Tells)
  BY EmptySeq DEF Init
<1>1. Types
  <2>1. w \in Workers
    BY NoWorkerType DEF Init
  <2>2. io \in Requests \union {"free"} /\ env \in Scenarios /\ proc \in BOOLEAN
        /\ cut \in SUBSET Requests /\ slain \in SUBSET Requests
    BY DEF Init
  <2>3. next \in Wishes
    BY ServerAssumption DEF Init, ServerAssumption
  <2>4. session \in [ready : BOOLEAN, gpu : Wishes \union {"default"}, synth : Nat,
                     seq : Nat \ {0}]
    <3>1. "" \in Wishes
      BY ServerAssumption DEF ServerAssumption
    <3>2. session = [ready |-> FALSE, gpu |-> "", synth |-> 0, seq |-> 1]
      BY DEF Init
    <3> DEFINE gpus == Wishes \union {"default"}
               ids == Nat \ {0}
    <3>3. "" \in gpus
      BY <3>1, Zenon
    <3>5. 1 \in ids /\ 0 \in Nat /\ FALSE \in BOOLEAN
      OBVIOUS
    <3> HIDE DEF gpus, ids
    <3>4. session \in [ready : BOOLEAN, gpu : gpus, synth : Nat, seq : ids]
      BY <3>2, <3>3, <3>5, Zenon
    <3> QED
      BY <3>4 DEF gpus, ids
  <2>5. pc \in [Requests -> States] /\ client \in [Requests -> BOOLEAN]
        /\ told \in [Requests -> Answers]
    BY DEF Init, States, Answers
  <2>6. wd \in [Requests -> [at : {"none", "watch", "send", "ended"}, id : Nat]]
    BY DEF Init
  <2> QED
    BY <1>0, <2>1, <2>2, <2>3, <2>4, <2>5, <2>6 DEF Types
<1>3. IoHeld
  <2>1. \A r \in Requests : pc[r] = "arrive" /\ io = "free"
    BY DEF Init
  <2> QED
    BY <2>1, Named DEF IoHeld
<1>4. JobInv
  <2>1. proc = FALSE /\ toP = <<>>
    BY DEF Init
  <2> QED
    BY <1>0, <2>1 DEF JobInv
<1>5. Cancels = {} /\ Sending = {} /\ Noticed = {} /\ cut = {}
  <2>1. Cancels = {}
    BY <1>0 DEF Cancels
  <2>2. \A r \in Requests : wd[r].at = "none"
    BY DEF Init
  <2>3. cut = {}
    BY DEF Init
  <2> QED
    BY <2>1, <2>2, <2>3 DEF Sending, Noticed
<1>6. CancelOnce
  BY <1>5 DEF Init, CancelOnce
<1>7. Counted
  <2>1. Raised = FALSE /\ w.reader = "recv"
    BY DEF Init, NoWorker, Raised
  <2>2. One(Raised) = 0 /\ One(w.reader = "set") = 0
    BY <2>1 DEF One
  <2> QED
    BY <1>5, <2>2, FS_EmptySet DEF Counted
<1>8. CallServed
  BY DEF Init, CallServed, ReplyIsOwn, CallUndisturbed
<1> QED
  BY <1>1, <1>3, <1>4, <1>6, <1>7, <1>8 DEF IInv

-----------------------------------------------------------------------------
(* What several actions have in common.                                    *)

LEMMA IoFree ==
  ASSUME Types, IoHeld, io = "free" PROVE InCall = {}
BY Named DEF IoHeld, InCall

LEMMA Counts ==
  ASSUME NEW S \in SUBSET Requests
  PROVE  /\ IsFiniteSet(S) /\ Cardinality(S) \in Nat
         /\ \A T \in SUBSET S : Cardinality(T) <= Cardinality(S) /\ Cardinality(T) \in Nat
         /\ \A x \in Requests :
              /\ Cardinality(S \union {x}) = IF x \in S THEN Cardinality(S) ELSE Cardinality(S) + 1
              /\ Cardinality(S \ {x}) = IF x \in S THEN Cardinality(S) - 1 ELSE Cardinality(S)
<1>1. IsFiniteSet(S)
  BY ServerAssumption, FS_Subset DEF ServerAssumption
<1> QED
  BY <1>1, FS_Subset, FS_CardinalityType, FS_AddElement, FS_RemoveElement

LEMMA AccountSets ==
  ASSUME Types PROVE Sending \in SUBSET Requests /\ Noticed \in SUBSET Requests
<1>1. \A i \in Cancels : toW[i].of \in Requests
  <2>1. \A i \in 1..Len(toW) : toW[i] \in Asks
    BY ElementOfSeq DEF Types
  <2> QED
    BY <2>1 DEF Cancels, Asks
<1> QED
  BY <1>1 DEF Sending, Noticed

\* The account when nothing is cut and no cancel is added.
LEMMA AccountKept ==
  ASSUME Types, Counted, UNCHANGED cut, Sending' \subseteq Sending,
         Noticed \subseteq Noticed', Noticed' \subseteq Requests,
         One(Raised)' + One(w.reader = "set")' <= One(Raised) + One(w.reader = "set")
  PROVE  Counted'
<1>1. Cardinality(Sending') <= Cardinality(Sending) /\ Cardinality(Sending') \in Nat
      /\ Cardinality(Sending) \in Nat
  BY AccountSets, Counts
<1>2. Cardinality(Noticed) <= Cardinality(Noticed') /\ Cardinality(Noticed') \in Nat
      /\ Cardinality(Noticed) \in Nat
  BY AccountSets, Counts
<1>3. Cardinality(cut) \in Nat
  BY Counts DEF Types
<1>4. /\ One(Raised) \in Nat /\ One(w.reader = "set") \in Nat
      /\ One(Raised)' \in Nat /\ One(w.reader = "set")' \in Nat
  BY DEF One
<1> DEFINE a == One(Raised)
           b == One(w.reader = "set")
<1>5. Cardinality(cut) + a' + b' + Cardinality(Sending') <= Cardinality(Noticed')
  <2>1. Cardinality(cut) + a + b + Cardinality(Sending) <= Cardinality(Noticed)
    BY DEF Counted
  <2> HIDE DEF a, b
  <2> QED
    BY <1>1, <1>2, <1>3, <1>4, <2>1 DEF a, b
<1> QED
  BY <1>5 DEF Counted

\* What the watchdogs, clients and requests may do without touching the account:
\* to give up sending, to leave, to go on.
LeavesCancels ==
  \A r \in Requests :
    /\ pc'[r] \in {"arrive", "ensure", "provide"} => wd'[r].at = "none"
    /\ wd[r].at = "ended" => wd'[r].at = "ended"
    /\ wd[r].at = "send" => wd'[r].at \in {"send", "ended"}
    /\ wd'[r].at = "send" => wd[r].at = "send"
    /\ client'[r] => client[r]

LEMMA CancelOf ==
  ASSUME Types PROVE \A i \in Cancels : toW[i] \in Asks /\ toW[i].of \in Requests
<1>1. \A i \in 1..Len(toW) : toW[i] \in Asks
  BY ElementOfSeq DEF Types
<1> QED
  BY <1>1 DEF Cancels, Asks

LEMMA CancelsKept ==
  ASSUME Types, CancelOnce, Counted, UNCHANGED <<toW, cut>>, LeavesCancels,
         One(Raised)' + One(w.reader = "set")' <= One(Raised) + One(w.reader = "set")
  PROVE  CancelOnce' /\ Counted'
<1>1. Cancels' = Cancels
  BY DEF Cancels, IsJob
<1>2. CancelOnce'
  BY <1>1, CancelOf DEF CancelOnce, LeavesCancels
<1>3. Sending' \subseteq Sending /\ Noticed \subseteq Noticed' /\ Noticed' \subseteq Requests
  BY <1>1 DEF Sending, Noticed, LeavesCancels
<1> QED
  BY <1>2, <1>3, AccountKept

LEMMA FlagKept ==
  ASSUME Raised' => Raised, w'.reader = "set" => w.reader = "set"
  PROVE  One(Raised)' + One(w.reader = "set")' <= One(Raised) + One(w.reader = "set")
<1>1. One(Raised)' <= One(Raised) /\ One(Raised)' \in Nat /\ One(Raised) \in Nat
  BY DEF One
<1>2. One(w.reader = "set")' <= One(w.reader = "set")
      /\ One(w.reader = "set")' \in Nat /\ One(w.reader = "set") \in Nat
  BY DEF One
<1> QED
  BY <1>1, <1>2

\* An action of requests, clients and watchdogs that leaves session and worker
\* alone.
LEMMA QuietKeeps ==
  ASSUME Types, IInv, UNCHANGED <<toW, toP, w, proc, io, cut, slain>>,
         session'.seq = session.seq, LeavesCancels,
         \A r \in Requests :
           /\ pc'[r] \in {"sent", "recv"} <=> pc[r] \in {"sent", "recv"}
           /\ told'[r] # "another's"
  PROVE  IInv'
<1>1. IoHeld'
  BY DEF IInv, IoHeld
<1>2. Newest' = Newest
  BY DEF Newest
<1>3. JobInv'
  BY <1>2 DEF IInv, JobInv, Asked, Queued, Working, IsJob
<1>4. (Raised' => Raised) /\ (w'.reader = "set" => w.reader = "set")
  BY DEF Raised
<1>5. CancelOnce' /\ Counted'
  BY <1>4, FlagKept, CancelsKept DEF IInv
<1>6. CallServed'
  BY DEF IInv, CallServed, ReplyIsOwn, CallUndisturbed
<1> QED
  BY <1>1, <1>3, <1>5, <1>6 DEF IInv

\* The worker is killed, replaced or found dead: nothing is between it and the
\* session any more.
LEMMA ResetKeeps ==
  ASSUME Types, IInv, toW' = <<>>, toP' = <<>>, w' = NoWorker,
         UNCHANGED <<cut, client, slain>>, IoHeld',
         \A r \in Requests :
           /\ pc'[r] \in {"arrive", "ensure", "provide"} => wd'[r].at = "none"
           /\ UNCHANGED wd
           /\ told'[r] # "another's"
  PROVE  IInv'
<1>1. Len(toW') = 0 /\ Len(toP') = 0
  BY EmptySeq
<1>2. JobInv'
  BY <1>1 DEF JobInv, Asked, Queued, Working, NoWorker
<1>3. Cancels' = {}
  BY <1>1 DEF Cancels
<1>4. CancelOnce'
  BY <1>3 DEF CancelOnce
<1>5. Sending' \subseteq Sending /\ Noticed \subseteq Noticed' /\ Noticed' \subseteq Requests
  BY <1>3 DEF Sending, Noticed
<1>6. One(Raised)' + One(w.reader = "set")' <= One(Raised) + One(w.reader = "set")
  <2>1. One(Raised)' = 0 /\ One(w.reader = "set")' = 0
    BY DEF One, Raised, NoWorker
  <2>2. One(Raised) \in Nat /\ One(w.reader = "set") \in Nat
    BY DEF One
  <2> QED
    BY <2>1, <2>2
<1>7. Counted'
  BY <1>5, <1>6, AccountKept DEF IInv
<1>8. CallServed'
  BY DEF IInv, CallServed, ReplyIsOwn, CallUndisturbed
<1> QED
  BY <1>2, <1>4, <1>7, <1>8 DEF IInv

-----------------------------------------------------------------------------
(* Every step keeps the types.                                             *)

LEMMA RequestTypes ==
  ASSUME Types, NEW r \in Requests,
         UNCHANGED <<env, toW, toP, w, cut, slain, proc>>,
         io' \in Requests \union {"free"}, next' \in Wishes,
         session' \in [ready : BOOLEAN, gpu : Wishes \union {"default"}, synth : Nat,
                       seq : Nat \ {0}],
         \E to \in States : pc' = [pc EXCEPT ![r] = to],
         client' \in [Requests -> BOOLEAN],
         wd' \in [Requests -> [at : {"none", "watch", "send", "ended"}, id : Nat]],
         \E what \in Answers : told' = told \/ told' = [told EXCEPT ![r] = what]
  PROVE  Types'
<1>1. pc' \in [Requests -> States]
  BY DEF Types
<1>2. told' \in [Requests -> Answers]
  BY DEF Types
<1> QED
  BY <1>1, <1>2 DEF Types

LEMMA EnsureTypes ==
  ASSUME Types, NEW ok \in BOOLEAN, EnsureLoaded(ok)
  PROVE  /\ session' \in [ready : BOOLEAN, gpu : Wishes \union {"default"}, synth : Nat,
                          seq : Nat \ {0}]
         /\ proc' \in BOOLEAN /\ toW' \in Seq(Asks) /\ toP' \in Seq(Tells)
         /\ w' \in Workers /\ slain' \in SUBSET Requests
         /\ io' \in Requests \union {"free"} /\ next' \in Wishes
<1>1. WantGpu \in Wishes \union {"default"}
  BY DEF WantGpu, Types
<1>2. CASE session.ready /\ session.gpu = WantGpu
  BY <1>2 DEF EnsureLoaded, Types, InCall
<1>3. CASE ~(session.ready /\ session.gpu = WantGpu)
  <2>1. /\ proc' = ok /\ toW' = <<>> /\ toP' = <<>> /\ w' = NoWorker
        /\ session' = [session EXCEPT !.ready = ok, !.gpu = WantGpu]
        /\ io' = io /\ next' = next
        /\ slain' \subseteq slain \union InCall
    BY <1>3 DEF EnsureLoaded
  <2>2. InCall \subseteq Requests
    BY DEF InCall
  <2>3. session' \in [ready : BOOLEAN, gpu : Wishes \union {"default"}, synth : Nat,
                      seq : Nat \ {0}]
    BY <1>1, <2>1 DEF Types
  <2> QED
    BY <2>1, <2>2, <2>3, NoWorkerType, EmptySeq DEF Types
<1> QED
  BY <1>2, <1>3

LEMMA KillTypes ==
  ASSUME Types, Kill
  PROVE  /\ session' \in [ready : BOOLEAN, gpu : Wishes \union {"default"}, synth : Nat,
                          seq : Nat \ {0}]
         /\ proc' \in BOOLEAN /\ toW' \in Seq(Asks) /\ toP' \in Seq(Tells)
         /\ w' \in Workers /\ slain' \in SUBSET Requests
<1>1. InCall \subseteq Requests
  BY DEF InCall
<1>2. session' \in [ready : BOOLEAN, gpu : Wishes \union {"default"}, synth : Nat,
                    seq : Nat \ {0}]
  BY DEF Kill, Types
<1>3. slain' \in SUBSET Requests
  BY <1>1 DEF Kill, Types
<1> QED
  BY <1>2, <1>3, NoWorkerType, EmptySeq DEF Kill

\* What the session asks for is a frame, and so is what the worker tells.
LEMMA AskType ==
  ASSUME Types, NEW r \in Requests
  PROVE  /\ [type |-> Is(r).call, id |-> session.seq, of |-> r] \in Asks
         /\ [type |-> "CANCEL", id |-> wd[r].id, of |-> r] \in Asks
<1>1. session.seq \in Nat /\ wd[r].id \in Nat
  BY SessionType DEF Types
<1>2. Is(r).call \in Calls
  BY RouteOf
<1> QED
  BY <1>1, <1>2 DEF Asks

LEMMA TellType ==
  ASSUME w.cur \in Asks, NEW t \in {"AUDIO", "ok", "error"}
  PROVE  [type |-> t, id |-> w.cur.id] \in Tells
<1>1. w.cur.id \in Nat
  BY DEF Asks
<1> QED
  BY <1>1 DEF Tells

LEMMA HandlerTypes ==
  ASSUME Types, NEW r \in Requests, Handler(r)
  PROVE  Types'
<1> USE DEF Goes
<1>0. /\ session \in [ready : BOOLEAN, gpu : Wishes \union {"default"}, synth : Nat,
                      seq : Nat \ {0}]
      /\ session.seq \in Nat \ {0} /\ Newest \in Nat
      /\ io \in Requests \union {"free"} /\ next \in Wishes
      /\ client \in [Requests -> BOOLEAN]
      /\ wd \in [Requests -> [at : {"none", "watch", "send", "ended"}, id : Nat]]
  BY SessionType DEF Types
<1>1. CASE Arrive(r)
  <2>1. next' \in Wishes
    BY <1>0, <1>1, RouteOf DEF Arrive
  <2>2. UNCHANGED <<env, toW, toP, w, cut, slain, proc, io, session, client, wd, told>>
        /\ pc' = [pc EXCEPT ![r] = "ensure"]
    BY <1>1 DEF Arrive
  <2> QED
    BY <1>0, <2>1, <2>2, RequestTypes DEF States, Answers
<1>2. CASE Ensured(r)
  <2>1. EnsureLoaded(TRUE)
    BY <1>2 DEF Ensured
  <2>2. UNCHANGED <<env, cut, client, wd, told>>
    BY <1>2 DEF Ensured
  <2>3. pc' \in [Requests -> States]
    BY <1>2 DEF Ensured, Types, States
  <2> QED
    BY <2>1, <2>2, <2>3, EnsureTypes DEF Types
<1>3. CASE EnsureFails(r)
  <2>1. EnsureLoaded(FALSE)
    BY <1>3 DEF EnsureFails
  <2>2. UNCHANGED <<env, cut, client, wd>>
    BY <1>3 DEF EnsureFails
  <2>3. pc' \in [Requests -> States] /\ told' \in [Requests -> Answers]
    BY <1>3 DEF EnsureFails, Types, States, Answers
  <2> QED
    BY <2>1, <2>2, <2>3, EnsureTypes DEF Types
<1>4. CASE Provide(r)
  <2>1. wd' \in [Requests -> [at : {"none", "watch", "send", "ended"}, id : Nat]]
    BY <1>0, <1>4 DEF Provide
  <2>2. UNCHANGED <<env, toW, toP, w, cut, slain, proc, io, next, session, client, told>>
        /\ pc' = [pc EXCEPT ![r] = "lock"]
    BY <1>4 DEF Provide
  <2> QED
    BY <1>0, <2>1, <2>2, RequestTypes DEF States, Answers
<1>5. CASE Lock(r)
  BY <1>0, <1>5, RequestTypes DEF Lock, States, Answers
<1>6. CASE Call(r)
  <2>1. session' \in [ready : BOOLEAN, gpu : Wishes \union {"default"}, synth : Nat,
                      seq : Nat \ {0}]
    <3>1. session.seq + 1 \in Nat \ {0}
      BY <1>0
    <3>2. session' = [session EXCEPT !.seq = session.seq + 1]
      BY <1>6 DEF Call
    <3> QED
      BY <1>0, <3>1, <3>2, Zenon
  <2>2. toW' \in Seq(Asks)
    BY <1>6, AskType, AppendOf DEF Call, Types
  <2>3. pc' \in [Requests -> States] /\ io' \in Requests \union {"free"}
    BY <1>6 DEF Call, Types, States
  <2>4. UNCHANGED <<env, cut, slain, client, wd, next, proc, toP, w, told>>
    BY <1>6 DEF Call
  <2> QED
    BY <2>1, <2>2, <2>3, <2>4 DEF Types
<1>7. CASE NotReady(r)
  BY <1>0, <1>7, RequestTypes DEF NotReady, States, Answers
<1>8. CASE Publish(r)
  <2>1. session' \in [ready : BOOLEAN, gpu : Wishes \union {"default"}, synth : Nat,
                      seq : Nat \ {0}]
    BY <1>0, <1>8 DEF Publish
  <2>2. UNCHANGED <<env, toW, toP, w, cut, slain, proc, io, next, wd, client, told>>
        /\ pc' = [pc EXCEPT ![r] = "recv"]
    BY <1>8 DEF Publish
  <2> QED
    BY <1>0, <2>1, <2>2, RequestTypes DEF States, Answers
<1>9. CASE ReceiveAudio(r)
  <2>1. toP' \in Seq(Tells)
    BY <1>9, TailOf DEF ReceiveAudio, Types
  <2> QED
    BY <1>9, <2>1 DEF ReceiveAudio, Types
<1>10. CASE ReceiveReply(r)
  <2>1. toP' \in Seq(Tells)
    BY <1>10, TailOf DEF ReceiveReply, Types
  <2>2. session' \in [ready : BOOLEAN, gpu : Wishes \union {"default"}, synth : Nat,
                      seq : Nat \ {0}]
    BY <1>0, <1>10 DEF ReceiveReply
  <2>3. pc' \in [Requests -> States] /\ told' \in [Requests -> Answers] /\ io' = "free"
    BY <1>10 DEF ReceiveReply, Returns, Types, States, Answers
  <2>4. UNCHANGED <<env, cut, slain, client, wd, next, proc, toW, w>>
    BY <1>10 DEF ReceiveReply
  <2> QED
    BY <2>1, <2>2, <2>3, <2>4 DEF Types
<1>11. CASE ReceiveEof(r)
  <2>2. session' \in [ready : BOOLEAN, gpu : Wishes \union {"default"}, synth : Nat,
                      seq : Nat \ {0}]
    BY <1>0, <1>11 DEF ReceiveEof
  <2>3. pc' \in [Requests -> States] /\ told' \in [Requests -> Answers] /\ io' = "free"
    BY <1>11 DEF ReceiveEof, Returns, Types, States, Answers
  <2>4. UNCHANGED <<env, cut, slain, client, wd, next>>
        /\ toW' = <<>> /\ toP' = <<>> /\ w' = NoWorker /\ proc' = FALSE
    BY <1>11 DEF ReceiveEof
  <2> QED
    BY <2>2, <2>3, <2>4, NoWorkerType, EmptySeq DEF Types
<1>12. CASE Finish(r)
  <2>1. wd' \in [Requests -> [at : {"none", "watch", "send", "ended"}, id : Nat]]
    BY <1>0, <1>12 DEF Finish
  <2>2. UNCHANGED <<env, toW, toP, w, cut, slain, proc, io, next, session, client, told>>
        /\ pc' = [pc EXCEPT ![r] = "done"]
    BY <1>12 DEF Finish
  <2> QED
    BY <1>0, <2>1, <2>2, RequestTypes DEF States, Answers
<1> QED
  BY <1>1, <1>2, <1>3, <1>4, <1>5, <1>6, <1>7, <1>8, <1>9, <1>10, <1>11, <1>12 DEF Handler

LEMMA WatchdogTypes ==
  ASSUME Types, NEW r \in Requests, Watchdog(r) \/ Disconnect(r)
  PROVE  Types'
<1>0. session.synth \in Nat /\ client \in [Requests -> BOOLEAN]
      /\ wd \in [Requests -> [at : {"none", "watch", "send", "ended"}, id : Nat]]
  BY SessionType DEF Types
<1>1. CASE Notice(r)
  <2>1. wd' \in [Requests -> [at : {"none", "watch", "send", "ended"}, id : Nat]]
    BY <1>0, <1>1 DEF Notice
  <2> QED
    BY <1>1, <2>1 DEF Notice, Types
<1>2. CASE SendCancel(r)
  <2>1. wd' \in [Requests -> [at : {"none", "watch", "send", "ended"}, id : Nat]]
    BY <1>0, <1>2 DEF SendCancel
  <2>2. toW' \in Seq(Asks)
    BY <1>2, AskType, AppendOf DEF SendCancel, Types
  <2> QED
    BY <1>2, <2>1, <2>2 DEF SendCancel, Types
<1>3. CASE Disconnect(r)
  <2>1. client' \in [Requests -> BOOLEAN]
    BY <1>0, <1>3 DEF Disconnect
  <2> QED
    BY <1>3, <2>1 DEF Disconnect, Types
<1> QED
  BY <1>1, <1>2, <1>3 DEF Watchdog

LEMMA WorkerTypes ==
  ASSUME Types, proc /\ w.main \in {"activate", "synth", "encode"} => w.cur \in Asks,
         WorkerMain \/ Reader \/ Crash
  PROVE  Types'
<1> USE DEF srv, sess
<1>1. CASE WorkerTakes
  <2>1. w.q \in Seq(Asks) /\ w.q # <<>>
    BY <1>1, WorkerType DEF WorkerTakes
  <2>2. Head(w.q) \in Asks /\ Tail(w.q) \in Seq(Asks)
    BY <2>1, TailOf
  <2>3. w' \in Workers
    BY <1>1, <2>2 DEF WorkerTakes, Types, Workers
  <2> QED
    BY <1>1, <2>3 DEF WorkerTakes, Types
<1>2. CASE Activate
  <2>1. w.cur.id \in Nat
    BY <1>2 DEF Activate, Asks
  <2>2. w' \in Workers
    BY <1>2, <2>1 DEF Activate, Types, Workers
  <2> QED
    BY <1>2, <2>2 DEF Activate, Types
<1>3. CASE SendAudio
  <2>1. toP' \in Seq(Tells)
    BY <1>3, TellType, AppendOf DEF SendAudio, Types
  <2>2. w' \in Workers
    <3>1. w.frames + 1 \in Nat
      BY WorkerType
    <3>2. w' = [w EXCEPT !.frames = w.frames + 1] /\ w \in Workers
      BY <1>3 DEF SendAudio, Types
    <3> QED
      BY <3>1, <3>2, Zenon DEF Workers
  <2> QED
    BY <1>3, <2>1, <2>2 DEF SendAudio, Types
<1>4. ASSUME NEW what \in {"ok", "error"}, Reply(what) PROVE Types'
  <2>1. toP' \in Seq(Tells)
    BY <1>4, TellType, AppendOf DEF Reply, Types
  <2>2. w' \in Workers
    BY <1>4 DEF Reply, Types, Workers
  <2>3. cut' \in SUBSET Requests
    BY <1>4 DEF Reply, Types, Asks
  <2> QED
    BY <1>4, <2>1, <2>2, <2>3 DEF Reply, Types
<1>5. CASE Rest
  <2>1. w' \in Workers
    BY <1>5 DEF Rest, Types, Workers
  <2> QED
    BY <1>5, <2>1 DEF Rest, Types
<1>6. CASE ReaderStep
  <2>1. Head(toW) \in Asks /\ Tail(toW) \in Seq(Asks)
    BY <1>6, TailOf DEF ReaderStep, Types
  <2>2. Append(w.q, Head(toW)) \in Seq(Asks)
    BY <2>1, WorkerType, AppendOf
  <2>3. w' \in Workers
    BY <1>6, <2>2 DEF ReaderStep, Types, Workers
  <2> QED
    BY <1>6, <2>1, <2>3 DEF ReaderStep, Types
<1>7. CASE ReaderSets
  <2>1. w' \in Workers
    BY <1>7 DEF ReaderSets, Types, Workers
  <2> QED
    BY <1>7, <2>1 DEF ReaderSets, Types
<1>8. CASE Crash
  BY <1>8 DEF Crash, Types
<1> QED
  BY <1>1, <1>2, <1>3, <1>4, <1>5, <1>6, <1>7, <1>8 DEF WorkerMain, Reader

LEMMA IdleTypes ==
  ASSUME Types, Idle \/ AdminUnload
  PROVE  Types'
<1> USE DEF srv, sess, wrk
<1>1. CASE IdleLooks
  BY <1>1 DEF IdleLooks, Types
<1>2. CASE IdleLocks
  BY <1>2 DEF IdleLocks, Types
<1>3. CASE IdleKills
  BY <1>3, KillTypes DEF IdleKills, Shutdown, Types
<1>4. CASE AdminUnload
  BY <1>4, KillTypes DEF AdminUnload, Shutdown, Types
<1> QED
  BY <1>1, <1>2, <1>3, <1>4 DEF Idle

-----------------------------------------------------------------------------
(* The request's steps that leave the worker and its socket alone.         *)

LEMMA QuietHandler ==
  ASSUME Types, IInv, NEW r \in Requests,
         Arrive(r) \/ Provide(r) \/ Lock(r) \/ NotReady(r) \/ Publish(r) \/ Finish(r)
  PROVE  IInv'
<1> USE DEF Goes
<1>0. /\ UNCHANGED <<toW, toP, w, proc, io, cut, slain, client>>
      /\ session'.seq = session.seq
  <2>1. UNCHANGED <<toW, toP, w, proc, io, cut, slain, client>>
    BY DEF Arrive, Provide, Lock, NotReady, Publish, Finish
  <2>2. session'.seq = session.seq
    BY DEF Arrive, Provide, Lock, NotReady, Publish, Finish, Types
  <2> QED
    BY <2>1, <2>2
<1>1. \A q \in Requests :
        /\ pc[q] \in {"arrive", "ensure", "provide"} => wd[q].at = "none"
        /\ wd[q].at \in {"none", "watch", "send", "ended"}
        /\ told[q] # "another's"
  BY DEF IInv, CancelOnce, Types, CallServed, ReplyIsOwn
<1>2. CASE Arrive(r)
  <2>1. UNCHANGED <<wd, told>> /\ pc[r] = "arrive" /\ pc' = [pc EXCEPT ![r] = "ensure"]
    BY <1>2 DEF Arrive
  <2>2. LeavesCancels
    BY <1>0, <1>1, <2>1 DEF LeavesCancels, Types
  <2> QED
    BY <1>0, <1>1, <2>1, <2>2, QuietKeeps DEF Types
<1>3. CASE Provide(r)
  <2>1. /\ UNCHANGED told /\ pc[r] = "provide" /\ pc' = [pc EXCEPT ![r] = "lock"]
        /\ wd' = [wd EXCEPT ![r].at = "watch"]
    BY <1>3 DEF Provide
  <2>2. LeavesCancels
    BY <1>0, <1>1, <2>1 DEF LeavesCancels, Types
  <2> QED
    BY <1>0, <1>1, <2>1, <2>2, QuietKeeps DEF Types
<1>4. CASE Lock(r)
  <2>1. UNCHANGED <<wd, told>> /\ pc[r] = "lock" /\ pc' = [pc EXCEPT ![r] = "call"]
    BY <1>4 DEF Lock
  <2>2. LeavesCancels
    BY <1>0, <1>1, <2>1 DEF LeavesCancels, Types
  <2> QED
    BY <1>0, <1>1, <2>1, <2>2, QuietKeeps DEF Types
<1>5. CASE NotReady(r)
  <2>1. /\ UNCHANGED wd /\ pc[r] = "call" /\ pc' = [pc EXCEPT ![r] = "after"]
        /\ told' = [told EXCEPT ![r] = "not ready"]
    BY <1>5 DEF NotReady
  <2>2. LeavesCancels
    BY <1>0, <1>1, <2>1 DEF LeavesCancels, Types
  <2> QED
    BY <1>0, <1>1, <2>1, <2>2, QuietKeeps DEF Types
<1>6. CASE Publish(r)
  <2>1. UNCHANGED <<wd, told>> /\ pc[r] = "sent" /\ pc' = [pc EXCEPT ![r] = "recv"]
    BY <1>6 DEF Publish
  <2>2. LeavesCancels
    BY <1>0, <1>1, <2>1 DEF LeavesCancels, Types
  <2> QED
    BY <1>0, <1>1, <2>1, <2>2, QuietKeeps DEF Types
<1>7. CASE Finish(r)
  <2>1. /\ UNCHANGED told /\ pc[r] = "after" /\ pc' = [pc EXCEPT ![r] = "done"]
        /\ wd[r].at \in {"none", "watch", "ended"} /\ wd' = [wd EXCEPT ![r].at = "ended"]
    BY <1>7 DEF Finish
  <2>2. LeavesCancels
    BY <1>0, <1>1, <2>1 DEF LeavesCancels, Types
  <2> QED
    BY <1>0, <1>1, <2>1, <2>2, QuietKeeps DEF Types
<1> QED
  BY <1>2, <1>3, <1>4, <1>5, <1>6, <1>7

LEMMA DisconnectKeeps ==
  ASSUME Types, IInv, NEW r \in Requests, Disconnect(r)
  PROVE  IInv'
<1>1. /\ UNCHANGED <<toW, toP, w, proc, io, cut, slain, session, pc, wd, told>>
      /\ client' = [client EXCEPT ![r] = FALSE]
  BY DEF Disconnect
<1>2. LeavesCancels
  BY <1>1 DEF LeavesCancels, IInv, CancelOnce, Types
<1> QED
  BY <1>1, <1>2, QuietKeeps DEF IInv, CallServed, ReplyIsOwn

LEMMA IdleQuiet ==
  ASSUME Types, IInv, IdleLooks \/ IdleLocks
  PROVE  IInv'
<1>1. UNCHANGED <<toW, toP, w, proc, io, cut, slain, session, pc, wd, told, client>>
  BY DEF IdleLooks, IdleLocks, srv, sess, wrk
<1>2. LeavesCancels
  BY <1>1 DEF LeavesCancels, IInv, CancelOnce
<1> QED
  BY <1>1, <1>2, QuietKeeps DEF IInv, CallServed, ReplyIsOwn

LEMMA CrashKeeps ==
  ASSUME Types, IInv, Crash
  PROVE  IInv'
<1>1. UNCHANGED <<toW, toP, w, io, cut, slain, session, pc, wd, told, client>> /\ proc' = FALSE
  BY DEF Crash, srv
<1>2. LeavesCancels /\ (Raised' => Raised) /\ (w'.reader = "set" => w.reader = "set")
  BY <1>1 DEF LeavesCancels, IInv, CancelOnce, Raised
<1>3. CancelOnce' /\ Counted'
  BY <1>1, <1>2, FlagKept, CancelsKept DEF IInv
<1>4. IoHeld' /\ CallServed'
  BY <1>1 DEF IInv, IoHeld, CallServed, ReplyIsOwn, CallUndisturbed
<1>5. JobInv'
  BY <1>1 DEF IInv, JobInv, Newest
<1> QED
  BY <1>3, <1>4, <1>5 DEF IInv

-----------------------------------------------------------------------------
(* Loading, killing and finding the worker dead.                           *)

\* A kill needs io_mutex_, and so meets no call.
LEMMA KillSpares ==
  ASSUME Types, IInv, SessionFree, Kill
  PROVE  slain' = slain
<1>1. InCall = {}
  BY IoFree DEF IInv, SessionFree
<1> QED
  BY <1>1 DEF Kill

LEMMA KillKeeps ==
  ASSUME Types, IInv, SessionFree, Kill, UNCHANGED <<io, cut, client, pc, wd, told>>
  PROVE  IInv'
<1>1. toW' = <<>> /\ toP' = <<>> /\ w' = NoWorker /\ slain' = slain
  BY KillSpares DEF Kill
<1>2. IoHeld'
  BY DEF IInv, IoHeld
<1> QED
  BY <1>1, <1>2, ResetKeeps DEF IInv, CancelOnce, CallServed, ReplyIsOwn

LEMMA EnsureKeeps ==
  ASSUME Types, IInv, NEW r \in Requests, Ensured(r) \/ EnsureFails(r)
  PROVE  IInv'
<1>0. PICK ok \in BOOLEAN, to \in {"done", "provide", "lock"} :
        /\ EnsureLoaded(ok) /\ pc[r] = "ensure" /\ pc' = [pc EXCEPT ![r] = to]
  BY DEF Ensured, EnsureFails, Goes
<1>1. UNCHANGED <<client, wd, cut, io>>
  BY DEF Ensured, EnsureFails, EnsureLoaded
<1>2. \A q \in Requests : told'[q] # "another's"
  <2>1. \A q \in Requests : told[q] # "another's"
    BY DEF IInv, CallServed, ReplyIsOwn
  <2> QED
    BY <2>1 DEF Ensured, EnsureFails, Types
<1>3. \A q \in Requests : pc'[q] \in {"sent", "recv"} <=> pc[q] \in {"sent", "recv"}
  BY <1>0 DEF Types
<1>4. \A q \in Requests : pc'[q] \in {"arrive", "ensure", "provide"} => wd'[q].at = "none"
  BY <1>0, <1>1 DEF IInv, CancelOnce, Types
<1>5. slain' = slain
  <2>1. InCall = {}
    BY IoFree, <1>0 DEF IInv, EnsureLoaded, SessionFree
  <2> QED
    BY <1>0, <2>1 DEF EnsureLoaded
<1>6. CASE session.ready /\ session.gpu = WantGpu
  <2>1. UNCHANGED <<session, proc, toW, toP, w>>
    BY <1>0, <1>6 DEF EnsureLoaded
  <2>2. LeavesCancels
    BY <1>1, <1>4 DEF LeavesCancels
  <2> QED
    BY <1>1, <1>2, <1>3, <1>5, <2>1, <2>2, QuietKeeps
<1>7. CASE ~(session.ready /\ session.gpu = WantGpu)
  <2>1. toW' = <<>> /\ toP' = <<>> /\ w' = NoWorker
    BY <1>0, <1>7 DEF EnsureLoaded
  <2>2. IoHeld'
    BY <1>1, <1>3 DEF IInv, IoHeld
  <2> QED
    BY <1>1, <1>2, <1>4, <1>5, <2>1, <2>2, ResetKeeps
<1> QED
  BY <1>6, <1>7

LEMMA EofKeeps ==
  ASSUME Types, IInv, NEW r \in Requests, ReceiveEof(r)
  PROVE  IInv'
<1>1. /\ toW' = <<>> /\ toP' = <<>> /\ w' = NoWorker /\ io' = "free"
      /\ UNCHANGED <<cut, slain, client, wd>>
      /\ pc[r] \in {"sent", "recv"} /\ pc' = [pc EXCEPT ![r] = "after"]
      /\ told' = [told EXCEPT ![r] = "worker gone"]
  BY DEF ReceiveEof, Returns, Goes
<1>2. IoHeld'
  BY <1>1, Named DEF IInv, IoHeld, Types
<1>3. \A q \in Requests :
        /\ pc'[q] \in {"arrive", "ensure", "provide"} => wd'[q].at = "none"
        /\ told'[q] # "another's"
  BY <1>1 DEF IInv, CancelOnce, CallServed, ReplyIsOwn, Types
<1> QED
  BY <1>1, <1>2, <1>3, ResetKeeps

-----------------------------------------------------------------------------
(* The socket: sending on it and receiving from it.                        *)

LEMMA WireSent ==
  ASSUME Types, NEW f \in Asks, toW' = Append(toW, f)
  PROVE  /\ Len(toW) \in Nat /\ Len(toW') = Len(toW) + 1 /\ toW'[Len(toW) + 1] = f
         /\ \A i \in 1..Len(toW) : toW'[i] = toW[i]
         /\ \A i \in 1..Len(toW') : i \in 1..Len(toW) \/ i = Len(toW) + 1
         /\ f.type # "CANCEL" => Cancels' = Cancels
         /\ f.type = "CANCEL" => Cancels' = Cancels \union {Len(toW) + 1}
<1>1. /\ Len(toW) \in Nat /\ Len(toW') = Len(toW) + 1 /\ toW'[Len(toW) + 1] = f
      /\ \A i \in 1..Len(toW) : toW'[i] = toW[i]
  BY AppendOf DEF Types
<1>2. \A i \in 1..Len(toW') : i \in 1..Len(toW) \/ i = Len(toW) + 1
  BY <1>1
<1>3. 1..Len(toW') = (1..Len(toW)) \union {Len(toW) + 1}
  BY <1>1
<1> QED
  BY <1>1, <1>2, <1>3 DEF Cancels, IsJob

LEMMA WireRead ==
  ASSUME Types, toW # <<>>, toW' = Tail(toW)
  PROVE  /\ Head(toW) \in Asks /\ Head(toW) = toW[1] /\ 1 \in 1..Len(toW)
         /\ \A i \in 1..Len(toW') : i + 1 \in 1..Len(toW) /\ toW'[i] = toW[i + 1]
                                    /\ i + 1 # 1
         /\ \A i \in Cancels' : i + 1 \in Cancels /\ toW'[i] = toW[i + 1] /\ i + 1 # 1
         /\ \A i, j \in Cancels' : i + 1 = j + 1 => i = j
<1>1. /\ Head(toW) \in Asks /\ Head(toW) = toW[1] /\ 1 \in 1..Len(toW)
      /\ \A i \in 1..Len(toW') : i + 1 \in 1..Len(toW) /\ toW'[i] = toW[i + 1]
  BY TailOf DEF Types
<1>2. \A i \in 1..Len(toW') : i + 1 # 1
  OBVIOUS
<1>3. \A i \in Cancels' : i + 1 \in Cancels /\ toW'[i] = toW[i + 1] /\ i + 1 # 1
  BY <1>1, <1>2 DEF Cancels, IsJob
<1>4. \A i, j \in Cancels' : i + 1 = j + 1 => i = j
  BY DEF Cancels
<1> QED
  BY <1>1, <1>2, <1>3, <1>4

\* What the session finds when io_mutex_ is free: no job anywhere.
LEMMA NoJobLeft ==
  ASSUME JobInv, io = "free"
  PROVE  toP = <<>> /\ (proc => ~Asked /\ ~Queued /\ ~Working)
BY DEF JobInv

LEMMA CallKeeps ==
  ASSUME Types, IInv, NEW r \in Requests, Call(r)
  PROVE  IInv'
<1> DEFINE f == [type |-> Is(r).call, id |-> session.seq, of |-> r]
<1>1. /\ io = "free" /\ io' = r /\ toW' = Append(toW, f)
      /\ pc[r] = "call" /\ pc' = [pc EXCEPT ![r] = "sent"]
      /\ UNCHANGED <<toP, w, proc, cut, slain, client, wd, told>>
  BY DEF Call, SessionFree, Goes
<1>2. session.seq \in Nat /\ session'.seq = session.seq + 1
  BY SessionType DEF Call, Types
<1>3. f \in Asks /\ f.type \in Calls /\ f.type # "CANCEL" /\ f.id = session.seq
  <2>1. Is(r).call \in Calls
    BY RouteOf
  <2> QED
    BY <2>1, AskType DEF Calls
<1> HIDE DEF f
<1>4. /\ Len(toW) \in Nat /\ Len(toW') = Len(toW) + 1 /\ toW'[Len(toW) + 1] = f
      /\ \A i \in 1..Len(toW) : toW'[i] = toW[i]
      /\ \A i \in 1..Len(toW') : i \in 1..Len(toW) \/ i = Len(toW) + 1
      /\ Cancels' = Cancels
  BY <1>1, <1>3, WireSent
<1>5. IoHeld'
  BY <1>1, Named DEF IInv, IoHeld, Types
<1>6. JobInv'
  <2>1. toP = <<>> /\ (proc => ~Asked /\ ~Queued /\ ~Working)
    BY <1>1, NoJobLeft DEF IInv
  <2>2. Newest' = session.seq
    BY <1>2 DEF Newest
  <2>3. Len(toP') = 0 /\ toP' = <<>> /\ io' # "free"
    BY <1>1, <2>1, Named, EmptySeq
  <2>4. CASE ~proc
    BY <1>1, <2>3, <2>4 DEF JobInv
  <2>5. CASE proc
    <3>1. \A i \in 1..Len(toW') : IsJob(i)' => i = Len(toW) + 1
      BY <1>4, <2>1, <2>5 DEF Asked, IsJob
    <3>2. ~Queued' /\ ~Working'
      BY <1>1, <2>1, <2>5 DEF Queued, Working
    <3>3. \A i \in 1..Len(toW') : IsJob(i)' => toW'[i].id = Newest'
      BY <1>3, <1>4, <2>2, <3>1
    <3> QED
      BY <2>3, <3>1, <3>2, <3>3 DEF JobInv
  <2> QED
    BY <2>4, <2>5
<1>7. \A i \in Cancels : toW'[i].of = toW[i].of /\ toW[i].of \in Requests
  BY <1>4, CancelOf DEF Cancels
<1>8. CancelOnce'
  <2>1. \A q \in Requests : pc'[q] \in {"arrive", "ensure", "provide"} => wd'[q].at = "none"
    BY <1>1 DEF IInv, CancelOnce, Types
  <2>2. \A i \in Cancels' : wd'[toW'[i].of].at = "ended"
    BY <1>1, <1>4, <1>7 DEF IInv, CancelOnce
  <2>3. \A i, j \in Cancels' : toW'[i].of = toW'[j].of => i = j
    BY <1>4, <1>7 DEF IInv, CancelOnce
  <2> QED
    BY <2>1, <2>2, <2>3 DEF CancelOnce
<1>9. Counted'
  <2>1. Sending' \subseteq Sending /\ Noticed \subseteq Noticed' /\ Noticed' \subseteq Requests
    BY <1>1, <1>4, <1>7 DEF Sending, Noticed
  <2>2. One(Raised)' + One(w.reader = "set")' <= One(Raised) + One(w.reader = "set")
    BY <1>1, FlagKept DEF Raised
  <2> QED
    BY <1>1, <2>1, <2>2, AccountKept DEF IInv
<1>10. CallServed'
  BY <1>1 DEF IInv, CallServed, ReplyIsOwn, CallUndisturbed
<1> QED
  BY <1>5, <1>6, <1>8, <1>9, <1>10 DEF IInv

LEMMA ReceiveAudioKeeps ==
  ASSUME Types, IInv, NEW r \in Requests, ReceiveAudio(r)
  PROVE  IInv'
<1>1. /\ toP # <<>> /\ toP' = Tail(toP)
      /\ UNCHANGED <<toW, w, proc, cut, slain, client, wd, told, io, pc, session>>
  BY DEF ReceiveAudio
<1>2. /\ Len(toP) \in Nat \ {0} /\ Len(toP') = Len(toP) - 1
      /\ \A i \in 1..Len(toP') : i + 1 \in 1..Len(toP) /\ toP'[i] = toP[i + 1]
  BY <1>1, TailOf DEF Types
<1>3. LeavesCancels /\ (Raised' => Raised) /\ (w'.reader = "set" => w.reader = "set")
  BY <1>1 DEF LeavesCancels, IInv, CancelOnce, Raised
<1>4. CancelOnce' /\ Counted'
  BY <1>1, <1>3, FlagKept, CancelsKept DEF IInv
<1>5. IoHeld' /\ CallServed'
  BY <1>1 DEF IInv, IoHeld, CallServed, ReplyIsOwn, CallUndisturbed
<1>6. JobInv'
  <2>1. Newest' = Newest
    BY <1>1 DEF Newest
  <2>2. io # "free" /\ (proc => ~Asked /\ ~Queued)
    BY <1>1 DEF IInv, JobInv
  <2>3. \A i \in 1..Len(toP') :
          toP'[i].type # "AUDIO" => i = Len(toP') /\ toP'[i].id = Newest'
    BY <1>2, <2>1 DEF IInv, JobInv
  <2>4. Working' = Working /\ Queued' = Queued /\ Asked' = Asked
    BY <1>1 DEF Working, Queued, Asked, IsJob
  <2>5. proc /\ Working => \A i \in 1..Len(toP') : toP'[i].type = "AUDIO"
    BY <1>2 DEF IInv, JobInv
  <2>6. proc => /\ \A i, j \in 1..Len(toW) : IsJob(i) /\ IsJob(j) => i = j
                /\ \A i \in 1..Len(toW) : IsJob(i) => toW[i].id = Newest
                /\ Working => w.cur \in Asks /\ w.cur.id = Newest
    BY DEF IInv, JobInv
  <2> QED
    BY <1>1, <2>1, <2>2, <2>3, <2>4, <2>5, <2>6 DEF JobInv, IsJob
<1> QED
  BY <1>4, <1>5, <1>6 DEF IInv

\* Its own reply is the only frame left that is not audio: what the session
\* reads as the reply to its call is that reply.
LEMMA ReceiveReplyKeeps ==
  ASSUME Types, IInv, NEW r \in Requests, ReceiveReply(r)
  PROVE  IInv'
<1>1. /\ toP # <<>> /\ toP' = Tail(toP) /\ Head(toP).type \in {"ok", "error"}
      /\ UNCHANGED <<toW, w, proc, cut, slain, client, wd>> /\ io' = "free"
      /\ pc[r] = "recv" /\ pc' = [pc EXCEPT ![r] = "after"]
      /\ told' = [told EXCEPT ![r] = IF Head(toP).id = session.seq - 1 THEN Head(toP).type
                                     ELSE "another's"]
  BY DEF ReceiveReply, Returns, Goes
<1>2. Head(toP) = toP[1] /\ 1 \in 1..Len(toP) /\ (Len(toP) = 1 => toP' = <<>>)
  BY <1>1, TailOf DEF Types
<1>3. toP[1].type # "AUDIO" /\ Len(toP) = 1 /\ toP[1].id = Newest
  BY <1>1, <1>2 DEF IInv, JobInv
<1>4. toP' = <<>> /\ Len(toP') = 0
  BY <1>2, <1>3, EmptySeq
<1>5. LeavesCancels /\ (Raised' => Raised) /\ (w'.reader = "set" => w.reader = "set")
  BY <1>1 DEF LeavesCancels, IInv, CancelOnce, Raised, Types
<1>6. CancelOnce' /\ Counted'
  BY <1>1, <1>5, FlagKept, CancelsKept DEF IInv
<1>7. IoHeld'
  BY <1>1, Named DEF IInv, IoHeld, Types
<1>8. JobInv'
  <2>1. proc => ~Asked /\ ~Queued /\ ~Working
    BY <1>1, <1>2, <1>3 DEF IInv, JobInv
  <2>2. Working' = Working /\ Queued' = Queued /\ Asked' = Asked
    BY <1>1 DEF Working, Queued, Asked, IsJob
  <2>3. proc' => ~Asked' /\ ~Queued' /\ ~Working'
    BY <1>1, <2>1, <2>2
  <2> QED
    BY <1>4, <2>3 DEF JobInv, Asked
<1>9. CallServed'
  <2>1. told'[r] # "another's"
    BY <1>1, <1>2, <1>3 DEF Newest, Types
  <2> QED
    BY <1>1, <2>1 DEF IInv, CallServed, ReplyIsOwn, CallUndisturbed, Types
<1> QED
  BY <1>6, <1>7, <1>8, <1>9 DEF IInv

\* Session and worker are left alone but for a cancel on its way.
LEMMA JobStays ==
  ASSUME JobInv, UNCHANGED <<toW, toP, w, proc, io, session>>
  PROVE  JobInv'
<1>1. Newest' = Newest
  BY DEF Newest
<1> QED
  BY <1>1 DEF JobInv, Asked, Queued, Working, IsJob

LEMMA NoticeKeeps ==
  ASSUME Types, IInv, NEW r \in Requests, Notice(r)
  PROVE  IInv'
<1>1. /\ wd[r].at = "watch" /\ ~client[r]
      /\ UNCHANGED <<toW, toP, w, proc, io, session, cut, slain, client, pc, told>>
  BY DEF Notice
<1>2. /\ \A q \in Requests \ {r} : wd'[q] = wd[q]
      /\ wd'[r].at \in {"send", "ended"}
  BY DEF Notice, Types
<1>3. IoHeld' /\ JobInv' /\ CallServed'
  BY <1>1, JobStays DEF IInv, IoHeld, CallServed, ReplyIsOwn, CallUndisturbed
<1>4. Cancels' = Cancels
  BY <1>1 DEF Cancels, IsJob
<1>5. \A i \in Cancels : toW[i].of \in Requests \ {r} /\ toW'[i] = toW[i]
  BY <1>1, CancelOf DEF IInv, CancelOnce
<1>6. CancelOnce'
  BY <1>1, <1>2, <1>4, <1>5 DEF IInv, CancelOnce
<1>7. Counted'
  <2>1. Sending' \subseteq Sending \union {r}
    BY <1>1, <1>2, <1>4, <1>5 DEF Sending
  <2>2. r \notin Noticed /\ Noticed \union {r} \subseteq Noticed' /\ Noticed' \subseteq Requests
    BY <1>1, <1>2 DEF Noticed
  <2>3. /\ Cardinality(Sending') \in Nat /\ Cardinality(Sending) \in Nat
        /\ Cardinality(Sending') <= Cardinality(Sending) + 1
    <3>1. /\ Cardinality(Sending \union {r}) \in Nat /\ Cardinality(Sending) \in Nat
          /\ Cardinality(Sending \union {r}) <= Cardinality(Sending) + 1
      BY AccountSets, Counts
    <3>2. Sending \union {r} \in SUBSET Requests
      BY AccountSets
    <3>3. /\ Cardinality(Sending') \in Nat
          /\ Cardinality(Sending') <= Cardinality(Sending \union {r})
      BY <2>1, <3>2, Counts
    <3> QED
      BY <3>1, <3>3
  <2>4. /\ Cardinality(Noticed') \in Nat /\ Cardinality(Noticed) \in Nat
        /\ Cardinality(Noticed) + 1 <= Cardinality(Noticed')
    <3>1. /\ Cardinality(Noticed) \in Nat
          /\ Cardinality(Noticed \union {r}) = Cardinality(Noticed) + 1
      BY <2>2, AccountSets, Counts
    <3>2. Noticed' \in SUBSET Requests
      BY <2>2
    <3>3. /\ Cardinality(Noticed') \in Nat
          /\ Cardinality(Noticed \union {r}) <= Cardinality(Noticed')
      BY <2>2, <3>2, Counts
    <3> QED
      BY <3>1, <3>3
  <2>5. Cardinality(cut) \in Nat /\ cut' = cut
    BY <1>1, Counts DEF Types
  <2>6. /\ One(Raised)' = One(Raised) /\ One(w.reader = "set")' = One(w.reader = "set")
        /\ One(Raised) \in Nat /\ One(w.reader = "set") \in Nat
    BY <1>1 DEF One, Raised
  <2>7. Cardinality(cut) + One(Raised) + One(w.reader = "set") + Cardinality(Sending)
          <= Cardinality(Noticed)
    BY DEF IInv, Counted
  <2>8. Cardinality(cut) + One(Raised) + One(w.reader = "set") + Cardinality(Sending')
          <= Cardinality(Noticed')
    BY <2>3, <2>4, <2>5, <2>6, <2>7
  <2> QED
    BY <2>5, <2>6, <2>8 DEF Counted
<1> QED
  BY <1>3, <1>6, <1>7 DEF IInv

\* A frame that is no job goes to the worker or is read by it: the jobs that
\* remain are those that were there.
LEMMA SendCancelKeeps ==
  ASSUME Types, IInv, NEW r \in Requests, SendCancel(r)
  PROVE  IInv'
<1>1. /\ wd[r].at = "send" /\ wd' = [wd EXCEPT ![r].at = "ended"]
      /\ UNCHANGED <<toP, w, proc, io, session, cut, slain, client, pc, told>>
  BY DEF SendCancel
<1>2. CASE ~proc
  <2>1. toW' = toW
    BY <1>2 DEF SendCancel
  <2>2. LeavesCancels
    BY <1>1 DEF LeavesCancels, IInv, CancelOnce, Types
  <2> QED
    BY <1>1, <2>1, <2>2, QuietKeeps DEF IInv, CallServed, ReplyIsOwn
<1>3. CASE proc
  <2> DEFINE f == [type |-> "CANCEL", id |-> wd[r].id, of |-> r]
  <2>1. toW' = Append(toW, f) /\ f \in Asks /\ f.type = "CANCEL" /\ f.of = r
    BY <1>3, AskType DEF SendCancel
  <2> HIDE DEF f
  <2>2. /\ Len(toW) \in Nat /\ Len(toW') = Len(toW) + 1 /\ toW'[Len(toW) + 1] = f
        /\ \A i \in 1..Len(toW) : toW'[i] = toW[i]
        /\ \A i \in 1..Len(toW') : i \in 1..Len(toW) \/ i = Len(toW) + 1
        /\ Cancels' = Cancels \union {Len(toW) + 1}
    BY <2>1, WireSent
  <2>3. IoHeld' /\ CallServed'
    BY <1>1 DEF IInv, IoHeld, CallServed, ReplyIsOwn, CallUndisturbed
  <2>4. JobInv'
    <3>1. Newest' = Newest
      BY <1>1 DEF Newest
    <3>2. \A i \in 1..Len(toW') : IsJob(i)' => i \in 1..Len(toW) /\ IsJob(i) /\ toW'[i] = toW[i]
      BY <2>1, <2>2 DEF IsJob
    <3>3. Asked' => Asked
      BY <3>2 DEF Asked
    <3>4. Queued' = Queued /\ Working' = Working
      BY <1>1 DEF Queued, Working
    <3> QED
      BY <1>1, <3>1, <3>2, <3>3, <3>4 DEF IInv, JobInv
  <2>5. \A i \in Cancels : toW'[i] = toW[i] /\ toW[i].of \in Requests \ {r}
    BY <1>1, <2>2, CancelOf DEF IInv, CancelOnce, Cancels
  <2>9. \A i \in Cancels' : i \in Cancels \/ (i = Len(toW) + 1 /\ toW'[i].of = r)
    BY <2>1, <2>2
  <2>6. \A q \in Requests : wd[q].at = "ended" \/ q = r <=> wd'[q].at = "ended"
    BY <1>1 DEF Types
  <2>7. CancelOnce'
    <3>1. \A i \in Cancels' : wd'[toW'[i].of].at = "ended"
      <4>1. \A i \in Cancels : wd[toW[i].of].at = "ended" /\ toW'[i].of = toW[i].of
                                /\ toW[i].of \in Requests
        BY <2>5 DEF IInv, CancelOnce
      <4> QED
        BY <2>6, <2>9, <4>1
    <3>2. \A i, j \in Cancels' : toW'[i].of = toW'[j].of => i = j
      <4>1. \A i, j \in Cancels : toW'[i].of = toW'[j].of => i = j
        BY <2>5 DEF IInv, CancelOnce
      <4>2. \A i \in Cancels : toW'[i].of # r
        BY <2>5
      <4> QED
        BY <2>9, <4>1, <4>2
    <3>3. \A q \in Requests : pc'[q] \in {"arrive", "ensure", "provide"} => wd'[q].at = "none"
      BY <1>1 DEF IInv, CancelOnce, Types
    <3> QED
      BY <3>1, <3>2, <3>3 DEF CancelOnce
  <2>8. Counted'
    <3>1. Sending' \subseteq Sending
      <4>1. \A q \in Requests : wd'[q].at = "send" => wd[q].at = "send"
        BY <1>1 DEF Types
      <4>2. \A i \in Cancels' : toW'[i].of = r \/ toW'[i].of \in {toW[j].of : j \in Cancels}
        <5>1. \A i \in Cancels : toW'[i].of = toW[i].of
          BY <2>5
        <5> QED
          BY <2>9, <5>1
      <4> QED
        BY <1>1, <4>1, <4>2 DEF Sending
    <3>2. Noticed \subseteq Noticed' /\ Noticed' \subseteq Requests
      BY <1>1 DEF Noticed, Types
    <3>3. One(Raised)' + One(w.reader = "set")' <= One(Raised) + One(w.reader = "set")
      BY <1>1, FlagKept DEF Raised
    <3> QED
      BY <1>1, <3>1, <3>2, <3>3, AccountKept DEF IInv
  <2> QED
    BY <2>3, <2>4, <2>7, <2>8 DEF IInv
<1> QED
  BY <1>2, <1>3

-----------------------------------------------------------------------------
(* The worker and its reader.                                              *)

\* A worker's step that leaves the frames to it alone.
LEMMA WorkerKeeps ==
  ASSUME Types, IInv, UNCHANGED <<toW, io, cut, slain, client, wd, pc, told, session>>,
         One(Raised)' + One(w.reader = "set")' <= One(Raised) + One(w.reader = "set")
  PROVE  IoHeld' /\ CancelOnce' /\ Counted' /\ CallServed' /\ Newest' = Newest
<1>1. LeavesCancels
  BY DEF LeavesCancels, IInv, CancelOnce
<1>2. CancelOnce' /\ Counted'
  BY <1>1, CancelsKept DEF IInv
<1> QED
  BY <1>2 DEF IInv, IoHeld, CallServed, ReplyIsOwn, CallUndisturbed, Newest

LEMMA TakesKeeps ==
  ASSUME Types, IInv, WorkerTakes
  PROVE  IInv'
<1>1. /\ proc /\ w.main = "wait" /\ w.q # <<>> /\ proc' = proc
      /\ UNCHANGED <<toW, toP, io, cut, slain, client, wd, pc, told, session>>
  BY DEF WorkerTakes, srv, sess
<1>2. /\ w'.q = Tail(w.q) /\ w'.cur = Head(w.q) /\ w'.reader = w.reader
      /\ w'.flag = (w.flag /\ Head(w.q).type = "ENCODE")
      /\ w'.main = (IF Head(w.q).type = "SPEECH" THEN "activate"
                    ELSE IF Head(w.q).type = "TRIAL" THEN "synth" ELSE "encode")
  BY DEF WorkerTakes, Types, Workers
<1>3. ~(w'.flag /\ w'.main \in {"activate", "synth"})
  BY <1>2
<1>4. IoHeld' /\ CancelOnce' /\ Counted' /\ CallServed' /\ Newest' = Newest
  BY <1>1, <1>2, <1>3, FlagKept, WorkerKeeps DEF Raised
<1>5. /\ Len(w.q) = 1 /\ w.q[1].id = Newest /\ toP = <<>> /\ io # "free" /\ ~Asked
  BY <1>1 DEF IInv, JobInv, Queued
<1>6. Head(w.q) = w.q[1] /\ Head(w.q) \in Asks /\ Tail(w.q) = <<>>
  BY <1>1, <1>5, TailOf, WorkerType
<1>7. JobInv'
  <2>1. ~Asked'
    BY <1>1, <1>5 DEF Asked, IsJob
  <2>2. ~Queued'
    BY <1>2, <1>6 DEF Queued
  <2>3. w'.cur \in Asks /\ w'.cur.id = Newest'
    BY <1>2, <1>4, <1>5, <1>6
  <2>4. Len(toP') = 0 /\ toP' = <<>> /\ io' # "free"
    BY <1>1, <1>5, EmptySeq
  <2> QED
    BY <2>1, <2>2, <2>3, <2>4 DEF JobInv, Asked
<1> QED
  BY <1>4, <1>7 DEF IInv

LEMMA ActivateKeeps ==
  ASSUME Types, IInv, Activate
  PROVE  IInv'
<1>1. /\ proc /\ w.main = "activate" /\ proc' = proc
      /\ UNCHANGED <<toW, toP, io, cut, slain, client, wd, pc, told, session>>
  BY DEF Activate, srv, sess
<1>2. /\ w'.q = w.q /\ w'.cur = w.cur /\ w'.reader = w.reader /\ w'.flag = w.flag
      /\ w'.main = "synth"
  BY DEF Activate, Types, Workers
<1>3. IoHeld' /\ CancelOnce' /\ Counted' /\ CallServed' /\ Newest' = Newest
  BY <1>1, <1>2, FlagKept, WorkerKeeps DEF Raised
<1>4. Working /\ Working' /\ Queued' = Queued /\ Asked' = Asked
  BY <1>1, <1>2 DEF Working, Queued, Asked, IsJob
<1>5. JobInv'
  BY <1>1, <1>2, <1>3, <1>4 DEF IInv, JobInv, IsJob
<1> QED
  BY <1>3, <1>5 DEF IInv

LEMMA SendAudioKeeps ==
  ASSUME Types, IInv, SendAudio
  PROVE  IInv'
<1> DEFINE f == [type |-> "AUDIO", id |-> w.cur.id]
<1>1. /\ proc /\ w.main = "synth" /\ proc' = proc /\ toP' = Append(toP, f)
      /\ UNCHANGED <<toW, io, cut, slain, client, wd, pc, told, session>>
  BY DEF SendAudio, srv
<1>2. /\ w'.q = w.q /\ w'.cur = w.cur /\ w'.reader = w.reader /\ w'.flag = w.flag
      /\ w'.main = w.main
  BY DEF SendAudio, Types, Workers
<1>3. IoHeld' /\ CancelOnce' /\ Counted' /\ CallServed' /\ Newest' = Newest
  BY <1>1, <1>2, FlagKept, WorkerKeeps DEF Raised
<1>4. Working /\ Working' /\ Queued' = Queued /\ Asked' = Asked
  BY <1>1, <1>2 DEF Working, Queued, Asked, IsJob
<1>5. /\ w.cur \in Asks /\ w.cur.id = Newest /\ io # "free" /\ ~Asked /\ ~Queued
      /\ \A i \in 1..Len(toP) : toP[i].type = "AUDIO"
  BY <1>1, <1>4 DEF IInv, JobInv
<1>6. f \in Tells /\ f.type = "AUDIO"
  BY <1>1, <1>5, TellType
<1> HIDE DEF f
<1>7. \A i \in 1..Len(toP') : toP'[i].type = "AUDIO"
  <2>1. /\ Len(toP) \in Nat /\ Len(toP') = Len(toP) + 1 /\ toP'[Len(toP) + 1] = f
        /\ \A i \in 1..Len(toP) : toP'[i] = toP[i]
    BY <1>1, <1>6, AppendOf DEF Types
  <2>2. \A i \in 1..Len(toP') : i \in 1..Len(toP) \/ i = Len(toP) + 1
    BY <2>1
  <2> QED
    BY <1>5, <1>6, <2>1, <2>2
<1>8. JobInv'
  BY <1>1, <1>2, <1>3, <1>4, <1>5, <1>7 DEF JobInv, Asked
<1> QED
  BY <1>3, <1>8 DEF IInv

\* The reply ends the job; a flag that stopped the synthesis is used up by it.
LEMMA ReplyKeeps ==
  ASSUME Types, IInv, NEW what \in {"ok", "error"}, Reply(what)
  PROVE  IInv'
<1> DEFINE f == [type |-> what, id |-> w.cur.id]
<1>1. /\ proc /\ w.main \in {"synth", "encode"} /\ proc' = proc /\ toP' = Append(toP, f)
      /\ cut' = IF w.flag /\ w.main = "synth" THEN cut \union {w.cur.of} ELSE cut
      /\ UNCHANGED <<toW, io, slain, client, wd, pc, told, session>>
  BY DEF Reply, srv
<1>2. /\ w'.q = w.q /\ w'.cur = w.cur /\ w'.reader = w.reader /\ w'.flag = w.flag
      /\ w'.main = "rest"
  BY DEF Reply, Types, Workers
<1>3. Working /\ ~Working' /\ Queued' = Queued /\ Asked' = Asked /\ Newest' = Newest
  BY <1>1, <1>2 DEF Working, Queued, Asked, IsJob, Newest
<1>4. /\ w.cur \in Asks /\ w.cur.id = Newest /\ io # "free" /\ ~Asked /\ ~Queued
      /\ \A i \in 1..Len(toP) : toP[i].type = "AUDIO"
  BY <1>1, <1>3 DEF IInv, JobInv
<1>5. f \in Tells /\ f.id = Newest
  BY <1>1, <1>4, TellType
<1>6. LeavesCancels
  BY <1>1 DEF LeavesCancels, IInv, CancelOnce
<1>7. ~Raised' /\ (w.reader = "set")' = (w.reader = "set")
  BY <1>2 DEF Raised
<1> HIDE DEF f
<1>8. JobInv'
  <2>1. /\ Len(toP) \in Nat /\ Len(toP') = Len(toP) + 1 /\ toP'[Len(toP) + 1] = f
        /\ \A i \in 1..Len(toP) : toP'[i] = toP[i]
    BY <1>1, <1>5, AppendOf DEF Types
  <2>2. \A i \in 1..Len(toP') : i \in 1..Len(toP) \/ i = Len(toP) + 1
    BY <2>1
  <2>3. \A i \in 1..Len(toP') :
          toP'[i].type # "AUDIO" => i = Len(toP') /\ toP'[i].id = Newest'
    BY <1>3, <1>4, <1>5, <2>1, <2>2
  <2> QED
    BY <1>1, <1>3, <1>4, <2>3 DEF JobInv, Asked
<1>9. CancelOnce' /\ Counted'
  <2>1. CASE w.flag /\ w.main = "synth"
    <3>1. CancelOnce'
      <4>1. Cancels' = Cancels
        BY <1>1 DEF Cancels, IsJob
      <4> QED
        BY <1>1, <4>1 DEF IInv, CancelOnce
    <3>2. One(Raised) = 1 /\ One(Raised)' = 0
      BY <1>7, <2>1 DEF One, Raised
    <3>3. One(w.reader = "set")' = One(w.reader = "set") /\ One(w.reader = "set") \in Nat
      BY <1>7 DEF One
    <3>4. Sending' = Sending /\ Noticed' = Noticed
      BY <1>1 DEF Sending, Noticed, Cancels, IsJob
    <3>5. Cardinality(Sending) \in Nat /\ Cardinality(Noticed) \in Nat
      BY AccountSets, Counts
    <3>6. cut' = cut \union {w.cur.of} /\ w.cur.of \in Requests /\ cut \in SUBSET Requests
      BY <1>1, <1>4, <2>1 DEF Asks, Types
    <3>7. /\ Cardinality(cut) \in Nat /\ Cardinality(cut') \in Nat
          /\ Cardinality(cut') <= Cardinality(cut) + 1
      BY <3>6, Counts
    <3>8. Cardinality(cut) + One(Raised) + One(w.reader = "set") + Cardinality(Sending)
            <= Cardinality(Noticed)
      BY DEF IInv, Counted
    <3>9. Cardinality(cut') + 0 + One(w.reader = "set") + Cardinality(Sending)
            <= Cardinality(Noticed)
      BY <3>2, <3>3, <3>5, <3>7, <3>8
    <3> QED
      BY <3>1, <3>2, <3>3, <3>4, <3>9 DEF Counted
  <2>2. CASE ~(w.flag /\ w.main = "synth")
    <3>1. cut' = cut
      BY <1>1, <2>2
    <3> QED
      BY <1>1, <1>6, <1>7, <3>1, FlagKept, CancelsKept DEF IInv
  <2> QED
    BY <2>1, <2>2
<1>10. IoHeld' /\ CallServed'
  BY <1>1 DEF IInv, IoHeld, CallServed, ReplyIsOwn, CallUndisturbed
<1> QED
  BY <1>8, <1>9, <1>10 DEF IInv

LEMMA RestKeeps ==
  ASSUME Types, IInv, Rest
  PROVE  IInv'
<1>1. /\ proc /\ w.main = "rest" /\ proc' = proc
      /\ UNCHANGED <<toW, toP, io, cut, slain, client, wd, pc, told, session>>
  BY DEF Rest, srv, sess
<1>2. w'.q = w.q /\ w'.reader = w.reader /\ w'.main = "wait"
  BY DEF Rest, Types, Workers
<1>3. IoHeld' /\ CancelOnce' /\ Counted' /\ CallServed' /\ Newest' = Newest
  BY <1>1, <1>2, FlagKept, WorkerKeeps DEF Raised
<1>4. ~Working /\ ~Working' /\ Queued' = Queued /\ Asked' = Asked
  BY <1>1, <1>2 DEF Working, Queued, Asked, IsJob
<1>5. JobInv'
  BY <1>1, <1>2, <1>3, <1>4 DEF IInv, JobInv, IsJob
<1> QED
  BY <1>3, <1>5 DEF IInv

LEMMA ReaderSetsKeeps ==
  ASSUME Types, IInv, ReaderSets
  PROVE  IInv'
<1>1. /\ w.reader = "set" /\ proc' = proc
      /\ UNCHANGED <<toW, toP, io, cut, slain, client, wd, pc, told, session>>
  BY DEF ReaderSets, srv, sess
<1>2. w'.q = w.q /\ w'.cur = w.cur /\ w'.reader = "recv" /\ w'.main = w.main
  BY DEF ReaderSets, Types, Workers
<1>3. One(Raised)' + One(w.reader = "set")' <= One(Raised) + One(w.reader = "set")
  <2>1. One(w.reader = "set") = 1 /\ One(w.reader = "set")' = 0
    BY <1>1, <1>2 DEF One
  <2>2. One(Raised) \in {0, 1} /\ One(Raised)' \in {0, 1}
    BY DEF One
  <2> QED
    BY <2>1, <2>2
<1>4. IoHeld' /\ CancelOnce' /\ Counted' /\ CallServed' /\ Newest' = Newest
  BY <1>1, <1>3, WorkerKeeps
<1>5. Working' = Working /\ Queued' = Queued /\ Asked' = Asked
  BY <1>1, <1>2 DEF Working, Queued, Asked, IsJob
<1>6. JobInv'
  BY <1>1, <1>2, <1>4, <1>5 DEF IInv, JobInv, IsJob
<1> QED
  BY <1>4, <1>6 DEF IInv

\* The reader takes a job, which goes into the queue, or a cancel, which it
\* accepts or drops; an accepted one is no longer on its way.
LEMMA ReaderKeeps ==
  ASSUME Types, IInv, ReaderStep
  PROVE  IInv'
<1> DEFINE f == Head(toW)
<1>1. /\ proc /\ proc' = proc /\ w.reader = "recv" /\ toW # <<>> /\ toW' = Tail(toW)
      /\ UNCHANGED <<toP, io, cut, slain, client, wd, pc, told, session>>
  BY DEF ReaderStep, srv
<1>2. /\ f \in Asks /\ f = toW[1] /\ 1 \in 1..Len(toW)
      /\ \A i \in 1..Len(toW') : i + 1 \in 1..Len(toW) /\ toW'[i] = toW[i + 1] /\ i + 1 # 1
      /\ \A i \in Cancels' : i + 1 \in Cancels /\ toW'[i] = toW[i + 1] /\ i + 1 # 1
      /\ \A i, j \in Cancels' : i + 1 = j + 1 => i = j
  BY <1>1, WireRead
<1>3. w'.main = w.main /\ w'.cur = w.cur /\ w'.flag = w.flag
  BY DEF ReaderStep, Types, Workers
<1>4. /\ f.type # "CANCEL" => w'.q = Append(w.q, f) /\ w'.reader = w.reader
      /\ f.type = "CANCEL" => w'.q = w.q
      /\ w'.reader = w.reader \/ (f.type = "CANCEL" /\ w'.reader = "set")
  BY DEF ReaderStep, Types, Workers
<1> HIDE DEF f
<1>5. Newest' = Newest /\ Working' = Working /\ (Raised' <=> Raised)
  BY <1>1, <1>3 DEF Newest, Working, Raised
<1>6. IoHeld' /\ CallServed'
  BY <1>1 DEF IInv, IoHeld, CallServed, ReplyIsOwn, CallUndisturbed
<1>7. CancelOnce'
  <2>1. \A q \in Requests : pc'[q] \in {"arrive", "ensure", "provide"} => wd'[q].at = "none"
    BY <1>1 DEF IInv, CancelOnce
  <2>2. \A i \in Cancels' : wd'[toW'[i].of].at = "ended"
    BY <1>1, <1>2 DEF IInv, CancelOnce
  <2>3. \A i, j \in Cancels' : toW'[i].of = toW'[j].of => i = j
    BY <1>2 DEF IInv, CancelOnce
  <2> QED
    BY <2>1, <2>2, <2>3 DEF CancelOnce
<1>8. Sending' \subseteq Sending /\ Noticed' = Noticed
  <2>1. \A i \in Cancels' : toW'[i].of \in {toW[j].of : j \in Cancels}
    BY <1>2
  <2>2. {r \in Requests : wd[r].at = "send"}' = {r \in Requests : wd[r].at = "send"}
        /\ Noticed' = Noticed
    BY <1>1 DEF Noticed
  <2> QED
    BY <2>1, <2>2 DEF Sending
<1>9. Counted'
  <2>1. CASE w'.reader = w.reader
    <3>1. One(Raised)' + One(w.reader = "set")' <= One(Raised) + One(w.reader = "set")
      BY <1>5, <2>1, FlagKept
    <3>2. Noticed \subseteq Noticed' /\ Noticed' \subseteq Requests
      BY <1>8, AccountSets
    <3> QED
      BY <1>1, <1>8, <3>1, <3>2, AccountKept DEF IInv
  <2>2. CASE f.type = "CANCEL" /\ w'.reader = "set"
    <3>1. 1 \in Cancels
      BY <1>2, <2>2 DEF Cancels, IsJob
    <3>2. f.of \in Requests /\ f.of \in Sending
      BY <1>2, <3>1 DEF Sending, Asks
    <3>3. f.of \notin Sending'
      <4>1. wd'[f.of].at = "ended"
        BY <1>1, <1>2, <3>1 DEF IInv, CancelOnce
      <4>2. \A i \in Cancels' : toW'[i].of # f.of
        BY <1>2, <3>1 DEF IInv, CancelOnce
      <4> QED
        BY <4>1, <4>2 DEF Sending
    <3>4. /\ Cardinality(Sending) \in Nat /\ Cardinality(Sending') \in Nat
          /\ Cardinality(Sending') + 1 <= Cardinality(Sending)
      <4>1. Sending \ {f.of} \in SUBSET Requests /\ Sending' \in SUBSET (Sending \ {f.of})
        BY <1>8, <3>3, AccountSets
      <4>2. Cardinality(Sending \ {f.of}) = Cardinality(Sending) - 1
            /\ Cardinality(Sending) \in Nat
        BY <3>2, AccountSets, Counts
      <4>3. /\ Cardinality(Sending') <= Cardinality(Sending \ {f.of})
            /\ Cardinality(Sending') \in Nat
        BY <4>1, Counts
      <4> QED
        BY <4>2, <4>3
    <3>5. One(w.reader = "set") = 0 /\ One(w.reader = "set")' = 1
      BY <1>1, <2>2 DEF One
    <3>6. One(Raised)' = One(Raised) /\ One(Raised) \in Nat
      BY <1>5 DEF One
    <3>7. Cardinality(cut) \in Nat /\ Cardinality(Noticed) \in Nat
      BY AccountSets, Counts DEF Types
    <3>8. Cardinality(cut) + One(Raised) + One(w.reader = "set") + Cardinality(Sending)
            <= Cardinality(Noticed)
      BY DEF IInv, Counted
    <3>9. Cardinality(cut) + One(Raised) + 1 + Cardinality(Sending') <= Cardinality(Noticed)
      BY <3>4, <3>5, <3>6, <3>7, <3>8
    <3> QED
      BY <1>1, <1>8, <3>5, <3>6, <3>9 DEF Counted
  <2> QED
    BY <1>4, <2>1, <2>2
<1>10. JobInv'
  <2>1. \A i \in 1..Len(toW') : IsJob(i)' => i + 1 \in 1..Len(toW) /\ IsJob(i + 1)
                                             /\ toW'[i] = toW[i + 1] /\ i + 1 # 1
    BY <1>2 DEF IsJob
  <2>2. Asked' => Asked
    BY <2>1 DEF Asked
  <2>3. CASE f.type = "CANCEL"
    <3>1. Queued' = Queued /\ w'.q = w.q
      BY <1>4, <2>3 DEF Queued
    <3>2. \A i, j \in 1..Len(toW') : IsJob(i)' /\ IsJob(j)' => i = j
      BY <1>1, <2>1 DEF IInv, JobInv
    <3>3. \A i \in 1..Len(toW') : IsJob(i)' => toW'[i].id = Newest'
      BY <1>1, <1>5, <2>1 DEF IInv, JobInv
    <3> QED
      BY <1>1, <1>3, <1>5, <2>2, <3>1, <3>2, <3>3 DEF IInv, JobInv
  <2>4. CASE f.type # "CANCEL"
    <3>1. IsJob(1) /\ Asked
      BY <1>2, <2>4 DEF IsJob, Asked
    <3>2. ~Queued /\ ~Working /\ toP = <<>> /\ io # "free" /\ f.id = Newest
      BY <1>1, <1>2, <3>1 DEF IInv, JobInv
    <3>3. \A i \in 1..Len(toW') : ~IsJob(i)'
      BY <1>1, <1>2, <2>1, <3>1 DEF IInv, JobInv
    <3>4. ~Asked'
      BY <3>3 DEF Asked
    <3>5. Len(w'.q) = 1 /\ w'.q[1] = f
      <4>1. w.q = <<>> /\ w.q \in Seq(Asks)
        BY <3>2, WorkerType DEF Queued
      <4>2. Len(w.q) = 0 /\ Len(Append(w.q, f)) = Len(w.q) + 1
            /\ Append(w.q, f)[Len(w.q) + 1] = f
        BY <1>2, <4>1, AppendOf
      <4> QED
        BY <1>4, <2>4, <4>1, <4>2
    <3>6. toP' = <<>> /\ Len(toP') = 0 /\ io' # "free" /\ ~Working'
      BY <1>1, <1>5, <3>2, EmptySeq
    <3> QED
      BY <1>5, <3>2, <3>3, <3>4, <3>5, <3>6 DEF JobInv
  <2> QED
    BY <2>3, <2>4
<1> QED
  BY <1>6, <1>7, <1>9, <1>10 DEF IInv

-----------------------------------------------------------------------------
(* The theorems.                                                           *)

LEMMA NextInv == Types /\ IInv /\ [Next]_vars => Types' /\ IInv'
<1> SUFFICES ASSUME Types, IInv, [Next]_vars PROVE Types' /\ IInv'
  OBVIOUS
<1>0. w.main \in {"activate", "synth", "encode"} /\ proc => w.cur \in Asks
  BY DEF IInv, JobInv, Working
<1>1. ASSUME NEW r \in Requests, Handler(r) PROVE Types' /\ IInv'
  BY <1>1, HandlerTypes, QuietHandler, EnsureKeeps, CallKeeps, ReceiveAudioKeeps,
     ReceiveReplyKeeps, EofKeeps DEF Handler
<1>2. ASSUME NEW r \in Requests, Watchdog(r) \/ Disconnect(r) PROVE Types' /\ IInv'
  BY <1>2, WatchdogTypes, NoticeKeeps, SendCancelKeeps, DisconnectKeeps DEF Watchdog
<1>3. CASE WorkerMain \/ Reader \/ Crash
  <2>1. Types'
    BY <1>0, <1>3, WorkerTypes
  <2>2. IInv'
    BY <1>3, TakesKeeps, ActivateKeeps, SendAudioKeeps, ReplyKeeps, RestKeeps, ReaderKeeps,
       ReaderSetsKeeps, CrashKeeps DEF WorkerMain, Reader
  <2> QED
    BY <2>1, <2>2
<1>4. CASE Idle \/ AdminUnload
  <2>1. Types'
    BY <1>4, IdleTypes
  <2>2. CASE IdleLooks \/ IdleLocks
    BY <2>1, <2>2, IdleQuiet
  <2>3. CASE IdleKills \/ AdminUnload
    <3>1. SessionFree /\ Kill /\ UNCHANGED <<io, cut, client, pc, wd, told>>
      BY <2>3 DEF IdleKills, AdminUnload, Shutdown, srv
    <3> QED
      BY <2>1, <3>1, KillKeeps
  <2> QED
    BY <1>4, <2>2, <2>3 DEF Idle
<1>5. CASE UNCHANGED vars
  <2>1. Types'
    BY <1>5 DEF vars, Types
  <2>2. UNCHANGED <<toW, toP, w, proc, io, cut, slain, session, pc, wd, told, client>>
    BY <1>5 DEF vars
  <2>3. LeavesCancels
    BY <2>2 DEF LeavesCancels, IInv, CancelOnce
  <2> QED
    BY <2>1, <2>2, <2>3, QuietKeeps DEF IInv, CallServed, ReplyIsOwn
<1> QED
  BY <1>1, <1>2, <1>3, <1>4, <1>5 DEF Next, Terminated

LEMMA InvHolds == Spec => [](Types /\ IInv)
BY InitInv, NextInv, PTL DEF Spec

\* Whatever the routes, the clients that leave, the crashes, the kills and the
\* wishes for other GPUs: a call gets its own reply, from a worker nobody
\* killed under it (Higgs and Breeze sessions).
THEOREM Served == Spec => []CallServed
<1>1. Types /\ IInv => CallServed
  BY DEF IInv
<1> QED
  BY <1>1, InvHolds, PTL

\* No more syntheses are cut short than clients have left, though a cancel may
\* cut a later one than the one it was meant for.
THEOREM CutOnce == Spec => []OneCutEach
<1>1. ASSUME Types, IInv PROVE OneCutEach
  <2> DEFINE gone == {r \in Requests : ~client[r]}
  <2>1. Noticed \in SUBSET gone /\ gone \in SUBSET Requests
    BY DEF Noticed
  <2>2. /\ Cardinality(Noticed) <= Cardinality(gone) /\ Cardinality(gone) \in Nat
        /\ Cardinality(Noticed) \in Nat
    BY <2>1, Counts
  <2>3. Cardinality(cut) \in Nat /\ Cardinality(Sending) \in Nat
    <3>1. cut \in SUBSET Requests /\ Sending \in SUBSET Requests
      BY <1>1, AccountSets DEF Types
    <3> QED
      BY <3>1, Counts
  <2>4. One(Raised) \in Nat /\ One(w.reader = "set") \in Nat
    BY DEF One
  <2>5. Cardinality(cut) + One(Raised) + One(w.reader = "set") + Cardinality(Sending)
          <= Cardinality(Noticed)
    BY <1>1 DEF IInv, Counted
  <2>6. Cardinality(cut) <= Cardinality(gone)
    BY <2>2, <2>3, <2>4, <2>5
  <2> QED
    BY <2>6 DEF OneCutEach
<1> QED
  BY <1>1, InvHolds, PTL

-----------------------------------------------------------------------------
(* SiblingLm: the K/V caches.                                              *)

\* A cache that holds rows of generations at positions, and what a run sees.
Cached == {Zero} \union [gen : Nat, pos : Nat]
Slabs  == UNION {[0..n - 1 -> Cached] : n \in Nat}
Views  == UNION {[1..n -> Slabs] : n \in Nat}

LmJobs ==
  [kind : {"lm"}, at : {"run", "failed", "end"}, model : {"breeze", "higgs"}, gen : Nat,
   past : Nat, alloc : Nat, slab : Nat, rows : Slabs,
   slot : [slab : Nat, kv : Nat, alloc : Nat], from : Nat, seen : Views]

\* What token i of a run that starts at row lo attends, in generation g.
PastRows(g, lo, i) == [p \in 0..lo + i - 1 |-> Row(g, p)]

SeesPast(seen, g, lo) == \A i \in DOMAIN seen : seen[i] = PastRows(g, lo, i)

OwnPast(j) == SeesPast(j.seen, j.gen, j.from)

\* The first m rows are generation g's own.
FillsUpto(rows, g, m) == \A p \in 0..m - 1 : rows[p] = Row(g, p)

\* The rows before past are the generation's own, each in its place; the slot's
\* graph is on the slab there is.
RowsOwn(j) ==
  /\ DOMAIN j.rows = 0..j.alloc - 1 /\ j.past <= j.alloc
  /\ \A p \in 0..j.past - 1 : j.rows[p] = Row(j.gen, p)
  /\ j.slot # NoSlot => j.slot.slab = j.slab

LmInv(j) == j \in LmJobs /\ RowsOwn(j) /\ OwnPast(j)

LEMMA DivBounds ==
  ASSUME NEW a \in Nat, NEW s \in Nat \ {0}
  PROVE  /\ a \div s \in Nat
         /\ (a \div s) * s <= a
         /\ a < (a \div s) * s + s
BY SMT

LEMMA RoundUpBounds ==
  ASSUME SiblingLmAssumption, NEW n \in Nat
  PROVE  RoundUpStride(n) \in Nat /\ n <= RoundUpStride(n)
<1>1. LmStride \in Nat \ {0} /\ n + LmStride - 1 \in Nat
  BY DEF SiblingLmAssumption
<1> DEFINE q == (n + LmStride - 1) \div LmStride
<1>2. q \in Nat /\ n + LmStride - 1 < q * LmStride + LmStride
  BY <1>1, DivBounds
<1>3. q * LmStride \in Nat
  BY <1>1, <1>2
<1> HIDE DEF q
<1> QED
  BY <1>1, <1>2, <1>3 DEF RoundUpStride, q

LEMMA SlabSizes ==
  ASSUME SiblingLmAssumption
  PROVE  Ceiling \in Nat /\ IdleSlab \in Nat
<1>1. LmContext \in Nat /\ LmInitial \in Nat
  BY DEF SiblingLmAssumption
<1> QED
  BY <1>1, RoundUpBounds DEF Ceiling, IdleSlab, LmMin

LEMMA SlabType ==
  ASSUME NEW n \in Nat, NEW f, f \in [0..n - 1 -> Cached]
  PROVE  f \in Slabs
BY DEF Slabs

LEMMA ViewType ==
  ASSUME NEW n \in Nat, NEW f, f \in [1..n -> Slabs]
  PROVE  f \in Views
BY DEF Views

LEMMA NothingSeen == <<>> \in Views /\ DOMAIN <<>> = {}
<1>1. <<>> \in [1..0 -> Slabs] /\ DOMAIN <<>> = {}
  OBVIOUS
<1> QED
  BY <1>1, ViewType

LEMMA RowType ==
  ASSUME NEW g \in Nat, NEW p \in Nat PROVE Row(g, p) \in Cached /\ Zero \in Cached
BY DEF Row, Cached, Zero

\* A new slab keeps the rows it is given and forgets the graph of the old one.
LEMMA AllocKeeps ==
  ASSUME NEW j \in LmJobs, NEW n \in Nat, NEW copy \in BOOLEAN, RowsOwn(j),
         copy => j.past <= n, ~copy => j.past = 0
  PROVE  /\ AllocKv(j, n, copy) \in LmJobs /\ RowsOwn(AllocKv(j, n, copy))
         /\ AllocKv(j, n, copy).alloc = n
         /\ \A k \in {"kind", "at", "model", "gen", "past", "from", "seen"} :
              AllocKv(j, n, copy)[k] = j[k]
<1> DEFINE k == AllocKv(j, n, copy)
<1>1. CASE n = j.alloc
  BY <1>1 DEF AllocKv
<1>2. CASE n # j.alloc
  <2> DEFINE kept == IF copy THEN LmMin(j.past, LmMin(j.alloc, n)) ELSE 0
             rows == [p \in 0..n - 1 |-> IF p < kept THEN j.rows[p] ELSE Zero]
  <2>1. k = [j EXCEPT !.alloc = n, !.slab = @ + 1, !.slot = NoSlot, !.rows = rows]
    BY <1>2 DEF AllocKv
  <2>2. /\ j.past \in Nat /\ j.alloc \in Nat /\ j.slab + 1 \in Nat /\ j.past <= j.alloc
        /\ DOMAIN j.rows = 0..j.alloc - 1
    BY DEF LmJobs, RowsOwn
  <2>3. kept = j.past /\ kept <= n
    BY <2>2 DEF LmMin
  <2>4. \A p \in 0..n - 1 : p < j.past => p \in 0..j.past - 1 /\ p \in 0..j.alloc - 1
    BY <2>2
  <2>5. \A p \in 0..j.alloc - 1 : j.rows[p] \in Cached
    BY <2>2 DEF LmJobs, Slabs
  <2> HIDE DEF kept
  <2>6. rows \in [0..n - 1 -> Cached]
    BY <2>3, <2>4, <2>5, RowType
  <2>7. rows \in Slabs /\ DOMAIN rows = 0..n - 1
    BY <2>6, SlabType
  <2>8. \A p \in 0..j.past - 1 : p \in 0..n - 1 /\ rows[p] = Row(j.gen, p)
    BY <2>2, <2>3 DEF RowsOwn
  <2> HIDE DEF rows
  <2>9. NoSlot \in [slab : Nat, kv : Nat, alloc : Nat]
    BY DEF NoSlot
  <2>10. k \in LmJobs
    BY <2>1, <2>2, <2>7, <2>9, Zenon DEF LmJobs
  <2>11. /\ k.alloc = n /\ k.slot = NoSlot /\ k.rows = rows
         /\ \A x \in {"kind", "at", "model", "gen", "past", "from", "seen"} : k[x] = j[x]
    BY <2>1 DEF LmJobs
  <2>12. RowsOwn(k)
    BY <2>2, <2>3, <2>7, <2>8, <2>11 DEF RowsOwn
  <2> QED
    BY <2>10, <2>11, <2>12
<1> QED
  BY <1>1, <1>2

\* ensure_kv makes room for the run that asked for it.
LEMMA EnsureRoom ==
  ASSUME SiblingLmAssumption, NEW j \in LmJobs, RowsOwn(j), NEW n \in Nat \ {0},
         ~Overflows(j, j.past + n)
  PROVE  LET k == EnsureKv(j, j.past + n)
         IN /\ k \in LmJobs /\ RowsOwn(k) /\ k.past + n <= k.alloc
            /\ \A x \in {"kind", "at", "model", "gen", "past", "from", "seen"} : k[x] = j[x]
<1> DEFINE need == j.past + n
           target == RoundUpStride(need)
<1>1. /\ j.past \in Nat /\ j.alloc \in Nat /\ need \in Nat /\ j.past <= need
      /\ j.past <= j.alloc
  BY DEF LmJobs, RowsOwn
<1>2. target \in Nat /\ need <= target
  BY <1>1, RoundUpBounds
<1>3. Ceiling \in Nat
  BY SlabSizes
<1>4. ~(target > LmMax(j.alloc, Ceiling))
  BY DEF Overflows
<1>5. EnsureKv(j, need) = IF target <= j.alloc THEN j
                          ELSE AllocKv(j, LmMin(LmMax(target, 2 * j.alloc), Ceiling), TRUE)
  BY DEF EnsureKv
<1> HIDE DEF target
<1>6. CASE target <= j.alloc
  BY <1>1, <1>2, <1>5, <1>6
<1>7. CASE ~(target <= j.alloc)
  <2> DEFINE size == LmMin(LmMax(target, 2 * j.alloc), Ceiling)
  <2>1. size \in Nat /\ target <= size
    BY <1>1, <1>2, <1>3, <1>4, <1>7 DEF LmMin, LmMax
  <2> HIDE DEF size
  <2>2. j.past <= size /\ need <= size
    BY <1>1, <1>2, <2>1
  <2>3. EnsureKv(j, need) = AllocKv(j, size, TRUE)
    BY <1>5, <1>7 DEF size
  <2>4. LET k == AllocKv(j, size, TRUE)
        IN /\ k \in LmJobs /\ RowsOwn(k) /\ k.alloc = size /\ k.past = j.past
           /\ \A x \in {"kind", "at", "model", "gen", "past", "from", "seen"} : k[x] = j[x]
    BY <2>1, <2>2, AllocKeeps
  <2> QED
    BY <2>2, <2>3, <2>4
<1> QED
  BY <1>6, <1>7

LEMMA WrittenRows ==
  ASSUME NEW j \in LmJobs, RowsOwn(j), NEW n \in Nat \ {0}, j.past + n <= j.alloc
  PROVE  /\ Written(j, n) \in Slabs /\ DOMAIN Written(j, n) = 0..j.alloc - 1
         /\ FillsUpto(Written(j, n), j.gen, j.past + n)
<1>1. /\ j.past \in Nat /\ j.alloc \in Nat /\ j.gen \in Nat
      /\ DOMAIN j.rows = 0..j.alloc - 1 /\ \A p \in 0..j.past - 1 : j.rows[p] = Row(j.gen, p)
  BY DEF LmJobs, RowsOwn
<1>2. \A p \in 0..j.alloc - 1 : j.rows[p] \in Cached
  BY <1>1 DEF LmJobs, Slabs
<1>3. Written(j, n) \in [0..j.alloc - 1 -> Cached]
  BY <1>1, <1>2, RowType DEF Written
<1>4. ASSUME NEW p \in 0..j.past + n - 1 PROVE Written(j, n)[p] = Row(j.gen, p)
  <2>1. p \in 0..j.alloc - 1 /\ (p \in j.past..j.past + n - 1 \/ p \in 0..j.past - 1)
    BY <1>1
  <2> QED
    BY <1>1, <2>1 DEF Written
<1>5. FillsUpto(Written(j, n), j.gen, j.past + n)
  <2>1. j.past + n - 1 = (j.past + n) - 1
    BY <1>1
  <2> QED
    BY <1>4, <2>1, Zenon DEF FillsUpto
<1> QED
  BY <1>1, <1>3, <1>5, SlabType

\* A run sees, of each of its tokens, the rows up to that token's.
LEMMA SeenIsPast ==
  ASSUME NEW g, NEW lo, NEW n \in Nat, NEW kv, g \in Nat, lo \in Nat, kv \in Nat, lo + n <= kv,
         NEW rows \in Slabs, FillsUpto(rows, g, lo + n),
         NEW seen, seen = Seen(rows, lo, n, kv)
  PROVE  /\ seen \in Views
         /\ SeesPast(seen, g, lo)
<1>1. ASSUME NEW i \in 1..n
      PROVE  seen[i] = PastRows(g, lo, i)
  <2>1. {p \in 0..kv - 1 : p <= lo + i - 1} = 0..lo + i - 1
    OBVIOUS
  <2>2. \A p \in 0..lo + i - 1 : p \in 0..lo + n - 1
    OBVIOUS
  <2>3. seen[i] = [p \in 0..lo + i - 1 |-> rows[p]]
    BY <2>1 DEF Seen
  <2> QED
    BY <2>2, <2>3 DEF PastRows, FillsUpto
<1>2. ASSUME NEW i \in 1..n PROVE PastRows(g, lo, i) \in Slabs
  <2>1. lo + i \in Nat /\ \A p \in 0..(lo + i) - 1 : Row(g, p) \in Cached
    BY RowType
  <2>2. [p \in 0..(lo + i) - 1 |-> Row(g, p)] \in [0..(lo + i) - 1 -> Cached]
    BY <2>1
  <2> QED
    BY <2>1, <2>2, SlabType DEF PastRows
<1>3. DOMAIN seen = 1..n
  BY DEF Seen
<1>4. seen = [i \in 1..n |-> seen[i]]
  BY DEF Seen
<1>5. seen \in [1..n -> Slabs]
  BY <1>1, <1>2, <1>4
<1> QED
  BY <1>1, <1>3, <1>5, ViewType DEF SeesPast

LEMMA RunKeeps ==
  ASSUME SiblingLmAssumption, NEW j0 \in LmJobs, RowsOwn(j0), NEW n \in Nat \ {0},
         ~Overflows(j0, j0.past + n), NEW cached \in BOOLEAN
  PROVE  LmInv(RunLm(j0, n, cached))
<1> DEFINE j == EnsureKv(j0, j0.past + n)
           slot == SlotFor(j, n, cached)
           kv == RoundUpStride(j.past + n)
           k == RunLm(j0, n, cached)
<1>1. /\ j \in LmJobs /\ RowsOwn(j) /\ j.past + n <= j.alloc
  BY EnsureRoom
<1> HIDE DEF j
<1>2. j.past \in Nat /\ j.gen \in Nat /\ j.past + n \in Nat /\ j.alloc \in Nat /\ j.slab \in Nat
  BY <1>1 DEF LmJobs
<1>3. kv \in Nat /\ j.past + n <= kv
  BY <1>2, RoundUpBounds
<1>4. slot \in [slab : Nat, kv : Nat, alloc : Nat]
  BY <1>1, <1>2, <1>3 DEF SlotFor, LmJobs
<1>5. (cached \/ slot # NoSlot) => slot.slab = j.slab
  BY <1>1 DEF SlotFor, RowsOwn
<1> DEFINE rows == Written(j, n)
           seen == Seen(rows, j.past, n, kv)
<1>6. k = [j EXCEPT !.slot = slot, !.rows = rows, !.from = j.past, !.seen = seen,
                    !.past = j.past + n]
  BY <1>5 DEF RunLm, j
<1>7. /\ rows \in Slabs /\ DOMAIN rows = 0..j.alloc - 1
      /\ FillsUpto(rows, j.gen, j.past + n)
  BY <1>1, WrittenRows
<1> HIDE DEF rows
<1>8. /\ seen \in Views
      /\ SeesPast(seen, j.gen, j.past)
  <2> HIDE DEF kv, k, slot
  <2>1. j.gen \in Nat /\ j.past \in Nat /\ kv \in Nat /\ j.past + n <= kv
    BY <1>2, <1>3
  <2>2. rows \in Slabs /\ FillsUpto(rows, j.gen, j.past + n)
    BY <1>7
  <2>3. n \in Nat
    OBVIOUS
  <2>4. seen = Seen(rows, j.past, n, kv)
    OBVIOUS
  <2> HIDE DEF seen
  <2> QED
    BY <2>1, <2>2, <2>3, <2>4, SeenIsPast
<1> HIDE DEF seen, slot, kv, k
<1>9. /\ k \in LmJobs /\ k.gen = j.gen /\ k.from = j.past /\ k.seen = seen /\ k.slab = j.slab
      /\ k.rows = rows /\ k.past = j.past + n /\ k.alloc = j.alloc /\ k.slot = slot
  BY <1>1, <1>2, <1>4, <1>6, <1>7, <1>8 DEF LmJobs
<1>10. RowsOwn(k)
  <2>1. k.past <= k.alloc /\ DOMAIN k.rows = 0..k.alloc - 1
    BY <1>1, <1>7, <1>9
  <2>2. k.slot # NoSlot => k.slot.slab = k.slab
    BY <1>5, <1>9
  <2>3. \A p \in 0..k.past - 1 : k.rows[p] = Row(k.gen, p)
    <3>1. k.past - 1 = j.past + n - 1
      BY <1>2, <1>9
    <3> QED
      BY <1>7, <1>9, <3>1 DEF FillsUpto
  <2> QED
    BY <2>1, <2>2, <2>3 DEF RowsOwn
<1>11. OwnPast(k)
  BY <1>8, <1>9 DEF OwnPast
<1> QED
  BY <1>9, <1>10, <1>11 DEF LmInv, k

LEMMA LmResetKeeps ==
  ASSUME SiblingLmAssumption, LmInv(job), LmReset
  PROVE  LmInv(job')
<1> DEFINE j == [job EXCEPT !.at = "run", !.past = 0, !.gen = @ + 1, !.seen = <<>>, !.from = 0]
<1>1. /\ j \in LmJobs /\ j.past = 0 /\ j.seen = <<>> /\ j.alloc = job.alloc /\ j.rows = job.rows
      /\ j.slot = job.slot /\ j.slab = job.slab
  <2>1. job \in LmJobs /\ job.gen + 1 \in Nat
    BY DEF LmInv, LmJobs
  <2> QED
    BY <2>1, NothingSeen DEF LmJobs
<1>2. job' = IF job.alloc > IdleSlab THEN AllocKv(j, IdleSlab, FALSE) ELSE j
  BY DEF LmReset
<1> HIDE DEF j
<1>3. RowsOwn(j)
  <2>1. DOMAIN j.rows = 0..j.alloc - 1 /\ j.alloc \in Nat /\ (j.slot # NoSlot => j.slot.slab = j.slab)
    BY <1>1 DEF LmInv, RowsOwn, LmJobs
  <2> QED
    BY <1>1, <2>1 DEF RowsOwn
<1>4. CASE job.alloc > IdleSlab
  <2>1. LET k == AllocKv(j, IdleSlab, FALSE)
        IN k \in LmJobs /\ RowsOwn(k) /\ k.seen = j.seen
    <3>1. IdleSlab \in Nat /\ FALSE \in BOOLEAN
      BY SlabSizes
    <3> QED
      BY <1>1, <1>3, <3>1, AllocKeeps
  <2> QED
    BY <1>1, <1>2, <1>4, <2>1, NothingSeen DEF LmInv, OwnPast, SeesPast
<1>5. CASE ~(job.alloc > IdleSlab)
  BY <1>1, <1>2, <1>3, <1>5, NothingSeen DEF LmInv, OwnPast, SeesPast
<1> QED
  BY <1>4, <1>5

LEMMA LmKeeps ==
  ASSUME SiblingLmAssumption, LmInv(job), LmReset \/ LmPrefill \/ LmDecode \/ LmOverflow
  PROVE  LmInv(job')
<1>0. job \in LmJobs /\ RowsOwn(job)
  BY DEF LmInv
<1>1. CASE LmReset
  BY <1>1, LmResetKeeps
<1>2. CASE LmPrefill
  <2>1. PICK n \in LmPrompts : ~Overflows(job, job.past + n) /\ job' = RunLm(job, n, FALSE)
    BY <1>2 DEF LmPrefill
  <2>2. n \in Nat \ {0} /\ FALSE \in BOOLEAN
    BY DEF SiblingLmAssumption
  <2> QED
    BY <1>0, <2>1, <2>2, RunKeeps
<1>3. CASE LmDecode
  <2>1. ~Overflows(job, job.past + 1) /\ job' = RunLm(job, 1, job.model = "breeze")
    BY <1>3 DEF LmDecode
  <2>2. 1 \in Nat \ {0} /\ (job.model = "breeze") \in BOOLEAN
    OBVIOUS
  <2> QED
    BY <1>0, <2>1, <2>2, RunKeeps
<1>4. CASE LmOverflow
  <2>1. job' = [job EXCEPT !.at = IF job.gen = LmGens THEN "end" ELSE "failed", !.seen = <<>>]
    BY <1>4 DEF LmOverflow
  <2>2. /\ job' \in LmJobs /\ job'.seen = <<>> /\ job'.rows = job.rows /\ job'.alloc = job.alloc
        /\ job'.past = job.past /\ job'.gen = job.gen /\ job'.slot = job.slot
        /\ job'.slab = job.slab
    BY <1>0, <2>1, NothingSeen DEF LmJobs
  <2>3. RowsOwn(job')
    BY <1>0, <2>2 DEF RowsOwn
  <2> QED
    BY <2>2, <2>3, NothingSeen DEF LmInv, OwnPast, SeesPast
<1> QED
  BY <1>1, <1>2, <1>3, <1>4

\* The depth decoder: the rows before the next codebook's are the frame's own.
DepthJobs ==
  [kind : {"depth"}, at : {"run", "end"}, gen : Nat, cb : Nat, rows : [0..KvSlots - 1 -> Cached],
   from : Nat, seen : Views]

DepthInv(j) ==
  /\ j \in DepthJobs /\ OwnPast(j) /\ j.cb <= Codebooks - 1
  /\ j.cb > 0 => \A p \in 0..j.cb : j.rows[p] = Row(j.gen, p)

LEMMA DepthStepKeeps ==
  ASSUME SiblingLmAssumption, DepthInv(job), NEW n \in Nat \ {0}, NEW past,
         past \in Nat, past + n = job.cb + 2, job.cb < Codebooks - 1,
         past = 0 \/ (job.cb > 0 /\ past = job.cb + 1), DepthStep(n, past)
  PROVE  DepthInv(job')
<1> DEFINE rows == [p \in 0..KvSlots - 1 |->
                      IF p \in past..past + n - 1 THEN Row(job.gen, p) ELSE job.rows[p]]
           seen == Seen(rows, past, n, KvSlots)
<1>1. /\ job.gen \in Nat /\ job.cb \in Nat /\ job \in DepthJobs
      /\ \A p \in 0..KvSlots - 1 : job.rows[p] \in Cached
  BY DEF DepthInv, DepthJobs
<1>2. Codebooks \in Nat /\ KvSlots = Codebooks + 1 /\ KvSlots \in Nat
  BY DEF SiblingLmAssumption, KvSlots
<1>3. job' = [job EXCEPT !.rows = rows, !.from = past, !.seen = seen, !.cb = @ + 1]
  BY DEF DepthStep
<1>4. rows \in [0..KvSlots - 1 -> Cached]
  BY <1>1, <1>2, RowType
<1>5. ASSUME NEW p \in 0..past + n - 1 PROVE rows[p] = Row(job.gen, p)
  <2>1. p \in 0..KvSlots - 1 /\ (p \in past..past + n - 1 \/ (job.cb > 0 /\ p \in 0..job.cb))
    BY <1>1, <1>2
  <2> QED
    BY <2>1 DEF DepthInv
<1> HIDE DEF rows
<1>6. /\ seen \in Views
      /\ SeesPast(seen, job.gen, past)
  <2>1. past + n <= KvSlots /\ job.gen \in Nat
    BY <1>1, <1>2
  <2>2. n \in Nat /\ FillsUpto(rows, job.gen, past + n)
    BY <1>5 DEF FillsUpto
  <2>3. rows \in Slabs /\ KvSlots \in Nat
    BY <1>2, <1>4, SlabType
  <2>4. seen = Seen(rows, past, n, KvSlots)
    OBVIOUS
  <2> HIDE DEF seen
  <2> QED
    BY <2>1, <2>2, <2>3, <2>4, SeenIsPast
<1> HIDE DEF seen
<1>7. /\ job' \in DepthJobs /\ job'.gen = job.gen /\ job'.cb = job.cb + 1 /\ job'.rows = rows
      /\ job'.from = past /\ job'.seen = seen
  <2>1. job.cb + 1 \in Nat
    BY <1>1
  <2>2. job' \in DepthJobs
    BY <1>1, <1>3, <1>4, <1>6, <2>1, Zenon DEF DepthJobs
  <2> QED
    BY <1>1, <1>3, <2>2 DEF DepthJobs
<1>8. OwnPast(job')
  BY <1>6, <1>7 DEF OwnPast
<1>9. \A p \in 0..job.cb + 1 : rows[p] = Row(job.gen, p)
  <2>1. past + n - 1 = job.cb + 1
    BY <1>1
  <2> QED
    BY <1>5, <2>1
<1> QED
  BY <1>1, <1>2, <1>7, <1>8, <1>9 DEF DepthInv

LEMMA DepthKeeps ==
  ASSUME SiblingLmAssumption, DepthInv(job), DepthPrefill \/ DepthNext \/ DepthFrame
  PROVE  DepthInv(job')
<1>0. job \in DepthJobs /\ job.cb \in Nat /\ job.gen \in Nat /\ Codebooks \in Nat /\ Codebooks > 2
  BY DEF DepthInv, DepthJobs, SiblingLmAssumption
<1>1. CASE DepthPrefill
  <2>1. DepthStep(2, 0) /\ job.cb = 0
    BY <1>1 DEF DepthPrefill
  <2> QED
    BY <1>0, <2>1, DepthStepKeeps
<1>2. CASE DepthNext
  <2>1. DepthStep(1, job.cb + 1) /\ job.cb \in 1..Codebooks - 2
    BY <1>2 DEF DepthNext
  <2>2. job.cb + 1 \in Nat /\ (job.cb + 1) + 1 = job.cb + 2 /\ job.cb < Codebooks - 1 /\ job.cb > 0
    BY <1>0, <2>1
  <2> QED
    BY <2>1, <2>2, DepthStepKeeps
<1>3. CASE DepthFrame
  <2>1. /\ job' = [job EXCEPT !.at = IF job.gen = LmGens THEN "end" ELSE "run", !.seen = <<>>,
                        !.cb = IF job.gen = LmGens THEN @ ELSE 0,
                        !.gen = IF @ = LmGens THEN @ ELSE @ + 1]
    BY <1>3 DEF DepthFrame
  <2> DEFINE last == job.gen = LmGens
  <2>2. /\ (IF last THEN "end" ELSE "run") \in {"run", "end"}
        /\ (IF last THEN job.cb ELSE 0) \in Nat
        /\ (IF last THEN job.gen ELSE job.gen + 1) \in Nat
        /\ <<>> \in Views
    BY <1>0, NothingSeen
  <2>3. job' = [job EXCEPT !.at = IF last THEN "end" ELSE "run", !.seen = <<>>,
                           !.cb = IF last THEN job.cb ELSE 0,
                           !.gen = IF last THEN job.gen ELSE job.gen + 1]
    BY <2>1
  <2> HIDE DEF last
  <2>4. job' \in DepthJobs
    BY <1>0, <2>2, <2>3, Zenon DEF DepthJobs
  <2>5. /\ job'.seen = <<>> /\ job'.rows = job.rows
        /\ \/ job'.cb = 0
           \/ job'.cb = job.cb /\ job'.gen = job.gen
    BY <1>0, <2>3 DEF DepthJobs
  <2> QED
    BY <1>0, <2>4, <2>5, NothingSeen DEF DepthInv, OwnPast, SeesPast
<1> QED
  BY <1>1, <1>2, <1>3

LEMMA LmStart ==
  ASSUME SiblingLmAssumption, LmInit \/ DepthInit
  PROVE  LmInv(job) \/ DepthInv(job)
<1>0. \A n \in Nat : [p \in 0..n - 1 |-> Zero] \in [0..n - 1 -> Cached]
  BY RowType
<1>1. CASE LmInit
  <2> DEFINE rows == [p \in 0..IdleSlab - 1 |-> Zero]
  <2>1. rows \in Slabs /\ DOMAIN rows = 0..IdleSlab - 1 /\ IdleSlab \in Nat
    BY <1>0, SlabSizes, SlabType
  <2> HIDE DEF rows
  <2>2. PICK m \in {"breeze", "higgs"} :
          job = [kind |-> "lm", at |-> "run", model |-> m, gen |-> 1, past |-> 0,
                 alloc |-> IdleSlab, slab |-> 1, rows |-> rows,
                 slot |-> NoSlot, from |-> 0, seen |-> <<>>]
    BY <1>1 DEF LmInit, rows
  <2>3. job \in LmJobs
    BY <2>1, <2>2, NothingSeen DEF LmJobs, NoSlot
  <2>4. RowsOwn(job)
    BY <2>1, <2>2 DEF RowsOwn
  <2> QED
    BY <2>2, <2>3, <2>4, NothingSeen DEF LmInv, OwnPast, SeesPast
<1>2. CASE DepthInit
  <2> DEFINE rows == [p \in 0..KvSlots - 1 |-> Zero]
  <2>1. KvSlots \in Nat /\ Codebooks \in Nat /\ Codebooks > 2
    BY DEF KvSlots, SiblingLmAssumption
  <2>2. rows \in [0..KvSlots - 1 -> Cached]
    BY <1>0, <2>1
  <2> HIDE DEF rows
  <2>3. job = [kind |-> "depth", at |-> "run", gen |-> 1, cb |-> 0, rows |-> rows,
               from |-> 0, seen |-> <<>>]
    BY <1>2 DEF DepthInit, rows
  <2>4. job \in DepthJobs
    BY <2>2, <2>3, NothingSeen DEF DepthJobs
  <2> QED
    BY <2>1, <2>3, <2>4, NothingSeen DEF DepthInv, OwnPast, SeesPast
<1> QED
  BY <1>1, <1>2

\* Whatever is generated, with however large a cache and context: a token attends
\* its own generation's rows up to its own, and no other (Breeze's and Higgs's
\* backbones, Breeze's depth decoder).
THEOREM OwnPastSeen == LmSpec => []AttendsOwnPast
<1> DEFINE Inv == LmInv(job) \/ DepthInv(job)
<1>1. LmInit \/ DepthInit => Inv
  BY LmStart, SiblingLmAssumption
<1>2. Inv /\ [LmNext]_job => Inv'
  <2>1. ASSUME LmInv(job), LmNext PROVE LmInv(job')
    <3>1. job.kind = "lm"
      BY <2>1 DEF LmInv, LmJobs
    <3> QED
      BY <2>1, <3>1, LmKeeps, SiblingLmAssumption
         DEF LmNext, DepthPrefill, DepthNext, DepthFrame, Kind
  <2>2. ASSUME DepthInv(job), LmNext PROVE DepthInv(job')
    <3>1. job.kind = "depth"
      BY <2>2 DEF DepthInv, DepthJobs
    <3> QED
      BY <2>2, <3>1, DepthKeeps, SiblingLmAssumption
         DEF LmNext, LmReset, LmPrefill, LmDecode, LmOverflow, Kind
  <2>3. ASSUME UNCHANGED job PROVE LmInv(job)' = LmInv(job) /\ DepthInv(job)' = DepthInv(job)
    BY <2>3
  <2> QED
    BY <2>1, <2>2, <2>3
<1>3. Inv => AttendsOwnPast
  BY DEF LmInv, DepthInv, OwnPast, SeesPast, PastRows, AttendsOwnPast
<1> QED
  BY <1>1, <1>2, <1>3, PTL DEF LmSpec

-----------------------------------------------------------------------------
(* HiggsSpeech: the drawn codes.                                           *)

DrawnCode == [book : Nat, step : Nat, boc : BOOLEAN, eoc : BOOLEAN]
Draws     == UNION {[0..n - 1 -> DrawnCode] : n \in Nat}
Pieces    == [from : Nat, upto : Nat, context : Nat, final : BOOLEAN]

HgJobs ==
  [kind : {"higgs"}, at : {"draw", "finish", "end"}, n : Nat \ {0}, block : Nat \ {0},
   window : Nat, stream : BOOLEAN, delay : Nat, left : Int, done : BOOLEAN, eoc : Int,
   delayed : Seq(Draws), pieces : Seq(Pieces), emitted : Nat, last : Int, frames : Int,
   ok : BOOLEAN]

\* Each code is its codebook's, of its step, a filler until its codebook has
\* started; an end drawn once all have started is the one heeded or after it.
CellsRight(j) ==
  \A l \in 1..Len(j.delayed), c \in 0..j.n - 1 :
    /\ j.delayed[l][c].book = c /\ j.delayed[l][c].step = l - 1
    /\ j.delayed[l][c].boc => c > l - 1
    /\ j.delayed[l][c].eoc => c = 0 /\ (l - 1 >= j.n => j.eoc >= 0 /\ j.eoc <= l - 1)

\* Steps from the end of codebook 0 to the end of the last one.
StepsAfterEnd(n) == IF n = 1 THEN 0 ELSE n - 2

Paced(j) ==
  /\ j.at = "draw" =>
       /\ ~j.done /\ j.delay = (IF Len(j.delayed) < j.n THEN Len(j.delayed) ELSE j.n)
       /\ \/ j.eoc = -1 /\ j.left = -1
          \/ /\ j.eoc >= 0 /\ j.n > 2 /\ j.left \in 1..j.n - 2 /\ j.delay = j.n
             /\ Len(j.delayed) = j.eoc + j.n - 1 - j.left
  /\ j.eoc >= 0 => Len(j.delayed) <= j.eoc + StepsAfterEnd(j.n)
  /\ j.done => j.eoc >= 0 /\ Len(j.delayed) = j.eoc + StepsAfterEnd(j.n)
  /\ j.ok => j.at = "end" /\ j.frames = FramesOf(j.delayed, j.n) /\ j.frames > 0

\* The pieces tile what was emitted; while codes are drawn, what is not yet
\* emitted is less than a block behind, and what is held back.
UptoOf(p, i) == IF i = 0 THEN 0 ELSE p[i].upto

PieceRight(j, i) ==
  /\ j.pieces[i].from = UptoOf(j.pieces, i - 1) /\ j.pieces[i].upto > j.pieces[i].from
  /\ j.pieces[i].context = (IF j.window = 0 \/ j.pieces[i].from < j.window
                            THEN j.pieces[i].from ELSE j.window)
  /\ j.pieces[i].upto - j.pieces[i].from <= j.block + HoldFrames

Tiling(j) ==
  /\ j.emitted = UptoOf(j.pieces, Len(j.pieces))
  /\ \A i \in 1..Len(j.pieces) : PieceRight(j, i)
  /\ \A i \in 1..Len(j.pieces) : j.pieces[i].final => j.at = "end" /\ i = Len(j.pieces)

Behind(j) ==
  LET now == FramesOf(j.delayed, j.n)
  IN /\ \/ j.last = 0 /\ j.emitted = 0
        \/ j.last > HoldFrames /\ j.emitted = j.last - HoldFrames
     /\ j.last <= now \/ j.last = 0
     /\ now - j.last < j.block \/ (j.emitted = 0 /\ j.last = 0 /\ now <= HoldFrames)

TiledWell(j) ==
  /\ Tiling(j)
  /\ j.at \in {"draw", "finish"} => Behind(j)
  /\ j.ok => j.pieces # <<>> /\ j.emitted = j.frames /\ j.pieces[Len(j.pieces)].final

HgInv(j) == j \in HgJobs /\ CellsRight(j) /\ Paced(j) /\ (j.stream => TiledWell(j))

LEMMA HgStart == ASSUME HiggsSpeechAssumption, HiggsInit PROVE HgInv(job)
<1>1. PICK n \in HiggsBooks, block \in BlockFrames, win \in WindowFrames, stream \in BOOLEAN :
        job = [kind |-> "higgs", at |-> "draw", n |-> n, block |-> block, window |-> win,
           stream |-> stream, delay |-> 0, left |-> -1, done |-> FALSE, eoc |-> -1,
           delayed |-> <<>>, pieces |-> <<>>, emitted |-> 0, last |-> 0, frames |-> 0,
           ok |-> FALSE]
  BY DEF HiggsInit
<1>2. /\ n \in Nat \ {0} /\ block \in Nat \ {0} /\ win \in Nat /\ HoldFrames \in Nat \ {0}
      /\ <<>> \in Seq(Draws) /\ <<>> \in Seq(Pieces) /\ -1 \in Int /\ Len(<<>>) = 0
  BY DEF HiggsSpeechAssumption
<1>3. job \in HgJobs
  BY <1>1, <1>2 DEF HgJobs
<1>4. CellsRight(job)
  BY <1>1, <1>2 DEF CellsRight
<1>5. Paced(job)
  BY <1>1, <1>2 DEF Paced
<1>6. TiledWell(job)
  <2>1. FramesOf(job.delayed, job.n) <= 0 /\ FramesOf(job.delayed, job.n) \in Int
    BY <1>1, <1>2 DEF FramesOf
  <2>2. Tiling(job)
    BY <1>1, <1>2 DEF Tiling, UptoOf
  <2>3. Behind(job)
    BY <1>1, <1>2, <2>1 DEF Behind
  <2> QED
    BY <1>1, <2>2, <2>3 DEF TiledWell
<1> QED
  BY <1>3, <1>4, <1>5, <1>6 DEF HgInv

\* emit_upto adds the piece that follows those there are.
NoneFinal(p) == \A i \in 1..Len(p) : ~p[i].final

LEMMA PieceAdded ==
  ASSUME NEW p \in Seq(Pieces), NEW e \in Pieces
  PROVE  /\ Append(p, e) \in Seq(Pieces) /\ Len(Append(p, e)) = Len(p) + 1
         /\ Append(p, e)[Len(p) + 1] = e
         /\ \A i \in 0..Len(p) : UptoOf(Append(p, e), i) = UptoOf(p, i)
         /\ \A i \in 1..Len(p) : Append(p, e)[i] = p[i]
         /\ UptoOf(Append(p, e), Len(p) + 1) = e.upto
<1>1. Len(p) \in Nat
  OBVIOUS
<1> QED
  BY <1>1 DEF UptoOf

LEMMA EmitKeeps ==
  ASSUME HiggsSpeechAssumption, NEW j \in HgJobs, Tiling(j), NEW upto, upto \in Nat, NEW final \in BOOLEAN,
         NoneFinal(j.pieces), final => j.at = "end",
         upto > j.emitted, upto - j.emitted <= j.block + HoldFrames
  PROVE  LET k == EmitUpto(j, upto, final)
         IN /\ k \in HgJobs /\ Tiling(k)
            /\ k = [j EXCEPT !.emitted = upto, !.pieces = k.pieces]
            /\ k.pieces # <<>> /\ k.pieces[Len(k.pieces)].final = final
<1> DEFINE k == EmitUpto(j, upto, final)
           w0 == IF j.window > 0 THEN HgMax(0, j.emitted - j.window) ELSE 0
           from == w0 + Skip(j, w0)
           piece == [from |-> from, upto |-> upto, context |-> from - w0, final |-> final]
<1>1. /\ j.emitted \in Nat /\ j.window \in Nat /\ j.pieces \in Seq(Pieces) /\ Len(j.pieces) \in Nat
      /\ HoldFrames \in Nat /\ j.block \in Nat
  BY DEF HgJobs, HiggsSpeechAssumption
<1>2. from = j.emitted
  BY <1>1 DEF Skip, HgMax
<1>3. from - w0 = (IF j.window = 0 \/ from < j.window THEN from ELSE j.window)
  BY <1>1, <1>2 DEF HgMax
<1>4. from - w0 \in Nat
  BY <1>1, <1>2, <1>3
<1>5. k = [j EXCEPT !.emitted = upto, !.pieces = IF upto > from THEN Append(@, piece) ELSE @]
  BY <1>1 DEF EmitUpto
<1> DEFINE context == from - w0
<1> HIDE DEF context
<1>6. piece = [from |-> j.emitted, upto |-> upto, context |-> context, final |-> final]
  BY <1>2 DEF context
<1>7. /\ context \in Nat
      /\ context = (IF j.window = 0 \/ j.emitted < j.window THEN j.emitted ELSE j.window)
  BY <1>2, <1>3, <1>4 DEF context
<1>8. upto > from
  BY <1>1, <1>2
<1> HIDE DEF piece, from, w0
<1>9. piece \in Pieces
  BY <1>1, <1>6, <1>7 DEF Pieces
<1> DEFINE p == Append(j.pieces, piece)
<1>10. /\ p \in Seq(Pieces) /\ Len(p) = Len(j.pieces) + 1 /\ p[Len(j.pieces) + 1] = piece
       /\ \A i \in 0..Len(j.pieces) : UptoOf(p, i) = UptoOf(j.pieces, i)
       /\ \A i \in 1..Len(j.pieces) : p[i] = j.pieces[i]
       /\ UptoOf(p, Len(j.pieces) + 1) = upto
  <2>1. j.pieces \in Seq(Pieces) /\ piece \in Pieces
    BY <1>1, <1>9
  <2>2. piece.upto = upto
    BY <1>6
  <2> QED
    BY <2>1, <2>2, PieceAdded
<1> HIDE DEF p
<1>11. k = [j EXCEPT !.emitted = upto, !.pieces = p]
  BY <1>5, <1>8 DEF p
<1> HIDE DEF k
<1>12. k \in HgJobs
  BY <1>10, <1>11, Zenon DEF HgJobs
<1>13. k.emitted = upto /\ k.pieces = p /\ k = [j EXCEPT !.emitted = upto, !.pieces = k.pieces]
  BY <1>11 DEF HgJobs
<1>14. /\ k.window = j.window /\ k.block = j.block /\ k.at = j.at
  BY <1>11 DEF HgJobs
<1>15. ASSUME NEW i \in 1..Len(j.pieces) + 1 PROVE PieceRight(k, i)
  <2>1. CASE i \in 1..Len(j.pieces)
    <3>1. PieceRight(j, i) /\ i - 1 \in 0..Len(j.pieces)
      BY <2>1 DEF Tiling
    <3>2. p[i] = j.pieces[i] /\ UptoOf(p, i - 1) = UptoOf(j.pieces, i - 1)
      BY <1>10, <2>1, <3>1
    <3> QED
      BY <1>13, <1>14, <3>1, <3>2 DEF PieceRight
  <2>2. CASE i = Len(j.pieces) + 1
    <3>1. p[i] = piece /\ UptoOf(p, i - 1) = j.emitted
      <4>1. i - 1 = Len(j.pieces) /\ Len(j.pieces) \in 0..Len(j.pieces)
        BY <1>1, <2>2
      <4> QED
        BY <1>10, <2>2, <4>1 DEF Tiling
    <3>2. piece.from = j.emitted /\ piece.upto = upto /\ piece.context = context
      BY <1>6
    <3> QED
      BY <1>1, <1>7, <1>13, <1>14, <3>1, <3>2 DEF PieceRight
  <2>3. Len(j.pieces) \in Nat
    BY <1>1
  <2>4. i \in 1..Len(j.pieces) \/ i = Len(j.pieces) + 1
    BY <2>3
  <2> QED
    BY <2>1, <2>2, <2>4
<1>16. /\ p # <<>> /\ p[Len(p)].final = final
       /\ \A i \in 1..Len(p) : p[i].final => final /\ i = Len(p)
  <2>1. p[Len(p)] = piece /\ piece.final = final
    BY <1>6, <1>10
  <2>2. ASSUME NEW i \in 1..Len(p) PROVE i = Len(p) \/ ~p[i].final
    <3>1. i = Len(p) \/ i \in 1..Len(j.pieces)
      BY <1>1, <1>10
    <3> QED
      BY <1>10, <3>1 DEF NoneFinal
  <2>3. Len(p) \in Nat /\ Len(p) # 0
    <3>1. Len(p) = Len(j.pieces) + 1 /\ Len(j.pieces) \in Nat
      BY <1>1, <1>10
    <3> QED
      BY <3>1
  <2>4. p # <<>>
    BY <2>3
  <2>5. ASSUME NEW i \in 1..Len(p), p[i].final PROVE final /\ i = Len(p)
    <3>1. i = Len(p)
      BY <2>2, <2>5
    <3> QED
      BY <2>1, <2>5, <3>1
  <2> QED
    BY <2>1, <2>4, <2>5
<1>17. Tiling(k)
  <2>1. k.emitted = UptoOf(k.pieces, Len(k.pieces))
    BY <1>10, <1>13
  <2>2. \A i \in 1..Len(k.pieces) : PieceRight(k, i)
    BY <1>10, <1>13, <1>15
  <2>3. \A i \in 1..Len(k.pieces) : k.pieces[i].final => k.at = "end" /\ i = Len(k.pieces)
    BY <1>13, <1>14, <1>16
  <2> QED
    BY <2>1, <2>2, <2>3 DEF Tiling
<1> QED
  BY <1>12, <1>13, <1>16, <1>17 DEF k

\* The block that a step of the model fills is put out with that step.
LEMMA StreamedKeeps ==
  ASSUME HiggsSpeechAssumption, NEW j \in HgJobs, j.at = "draw", ~j.ok,
         j.stream => Tiling(j),
         j.stream =>
           LET now == FramesOf(j.delayed, j.n)
           IN /\ \/ j.last = 0 /\ j.emitted = 0
                 \/ j.last > HoldFrames /\ j.emitted = j.last - HoldFrames
              /\ j.last <= now \/ j.last = 0
              /\ now - j.last <= j.block \/ (j.emitted = 0 /\ j.last = 0 /\ now <= HoldFrames + 1)
  PROVE  LET k == Streamed(j)
         IN /\ k \in HgJobs
            /\ k = [j EXCEPT !.emitted = k.emitted, !.pieces = k.pieces, !.last = k.last]
            /\ j.stream => TiledWell(k)
<1> DEFINE now == FramesOf(j.delayed, j.n)
           out == j.stream /\ now - j.last >= j.block /\ now - HoldFrames > j.emitted
<1>1. /\ now \in Int /\ j.emitted \in Nat /\ HoldFrames \in Nat \ {0} /\ j.last \in Int
      /\ j.block \in Nat \ {0} /\ Len(j.pieces) \in Nat
  BY DEF HgJobs, HiggsSpeechAssumption, FramesOf
<1>2. Streamed(j) = IF out THEN [EmitUpto(j, now - HoldFrames, FALSE) EXCEPT !.last = now] ELSE j
  BY DEF Streamed
<1> HIDE DEF now
<1>3. CASE out
  <2> DEFINE upto == now - HoldFrames
             m == EmitUpto(j, upto, FALSE)
             k == [m EXCEPT !.last = now]
  <2>1. Tiling(j) /\ NoneFinal(j.pieces)
    BY <1>3 DEF Tiling, NoneFinal
  <2>0. /\ \/ j.last = 0 /\ j.emitted = 0
           \/ j.last > HoldFrames /\ j.emitted = j.last - HoldFrames
        /\ now - j.last <= j.block \/ (j.emitted = 0 /\ j.last = 0 /\ now <= HoldFrames + 1)
        /\ now - HoldFrames > j.emitted
    BY <1>3 DEF now
  <2>2. /\ upto \in Nat /\ upto > j.emitted
        /\ upto - j.emitted <= j.block + HoldFrames
    <3>1. CASE j.last = 0 /\ j.emitted = 0
      <4>1. now <= j.block \/ now <= HoldFrames + 1
        BY <1>1, <2>0, <3>1
      <4> QED
        BY <1>1, <2>0, <3>1, <4>1
    <3>2. CASE j.last > HoldFrames /\ j.emitted = j.last - HoldFrames
      <4>1. now - j.last <= j.block
        BY <1>1, <2>0, <3>2
      <4> QED
        BY <1>1, <2>0, <3>2, <4>1
    <3> QED
      BY <2>0, <3>1, <3>2
  <2>3. /\ m \in HgJobs /\ Tiling(m)
        /\ m = [j EXCEPT !.emitted = upto, !.pieces = m.pieces]
    <3> HIDE DEF upto
    <3>1. FALSE \in BOOLEAN /\ (FALSE => j.at = "end")
      OBVIOUS
    <3> QED
      BY <2>1, <2>2, <3>1, EmitKeeps
  <2> HIDE DEF m
  <2>4. /\ k \in HgJobs /\ k.emitted = upto /\ k.pieces = m.pieces /\ k.last = now
        /\ m.emitted = upto
        /\ k = [j EXCEPT !.emitted = k.emitted, !.pieces = k.pieces, !.last = k.last]
    BY <1>1, <2>3 DEF HgJobs
  <2>5. /\ k.at = "draw" /\ k.window = m.window /\ k.block = m.block /\ k.at = m.at /\ ~k.ok
        /\ k.n = j.n /\ k.delayed = j.delayed /\ k.block = j.block
    BY <2>3, <2>4 DEF HgJobs
  <2> HIDE DEF k
  <2>6. Tiling(k)
    BY <2>3, <2>4, <2>5 DEF Tiling, PieceRight
  <2>7. Behind(k)
    <3>1. FramesOf(k.delayed, k.n) = now
      BY <2>5 DEF now
    <3>2. k.last > HoldFrames /\ k.emitted = k.last - HoldFrames /\ k.last = now
      BY <1>1, <2>2, <2>4
    <3> QED
      BY <1>1, <2>5, <3>1, <3>2 DEF Behind
  <2>8. Streamed(j) = k
    BY <1>2, <1>3 DEF k, m
  <2> QED
    BY <2>3, <2>4, <2>5, <2>6, <2>7, <2>8 DEF TiledWell
<1>4. CASE ~out
  <2>1. Streamed(j) = j
    BY <1>2, <1>4
  <2>2. ASSUME j.stream PROVE Behind(j)
    <3>1. /\ \/ j.last = 0 /\ j.emitted = 0
             \/ j.last > HoldFrames /\ j.emitted = j.last - HoldFrames
          /\ j.last <= now \/ j.last = 0
          /\ now - j.last <= j.block \/ (j.emitted = 0 /\ j.last = 0 /\ now <= HoldFrames + 1)
      BY <2>2 DEF now
    <3>2. ~(now - j.last >= j.block) \/ ~(now - HoldFrames > j.emitted)
      BY <1>4, <2>2 DEF now
    <3>3. now - j.last < j.block \/ (j.emitted = 0 /\ j.last = 0 /\ now <= HoldFrames)
      <4>1. CASE j.last = 0 /\ j.emitted = 0
        BY <1>1, <3>2, <4>1
      <4>2. CASE j.last > HoldFrames /\ j.emitted = j.last - HoldFrames
        BY <1>1, <3>2, <4>2
      <4> QED
        BY <3>1, <4>1, <4>2
    <3> QED
      BY <3>1, <3>3 DEF Behind, now
  <2> QED
    BY <2>1, <2>2 DEF TiledWell, HgJobs
<1> QED
  BY <1>3, <1>4

\* The step at which the end is heeded, if this draw is its.
HeededAt(eoc) ==
  IF eoc /\ job.eoc < 0 /\ job.delay = job.n THEN Len(job.delayed) ELSE job.eoc

LEMMA DrawSet ==
  ASSUME NEW j \in HgJobs, NEW d, d \in Nat, NEW l, l \in Int, NEW f, f \in BOOLEAN
  PROVE  [j EXCEPT !.delay = d, !.left = l, !.done = f] \in HgJobs
BY Zenon DEF HgJobs

LEMMA SampledKeeps ==
  ASSUME job \in HgJobs, Paced(job), job.at = "draw", NEW eoc \in BOOLEAN
  PROVE  LET j == Sampled(eoc)
             e == HeededAt(eoc)
             s == Len(job.delayed)
         IN /\ j \in HgJobs /\ e \in Int
            /\ j = [job EXCEPT !.delay = j.delay, !.left = j.left, !.done = j.done]
            /\ j.done => e >= 0 /\ s = e + StepsAfterEnd(job.n)
            /\ ~j.done =>
                 /\ j.delay = (IF s + 1 < job.n THEN s + 1 ELSE job.n)
                 /\ \/ e = -1 /\ j.left = -1
                    \/ /\ e >= 0 /\ job.n > 2 /\ j.left \in 1..job.n - 2 /\ j.delay = job.n
                       /\ s + 1 = e + job.n - 1 - j.left
<1> DEFINE j == Sampled(eoc)
           e == HeededAt(eoc)
           s == Len(job.delayed)
<1>1. /\ job.n \in Nat \ {0} /\ s \in Nat /\ job.left \in Int /\ job.eoc \in Int /\ job.delay \in Nat
      /\ ~job.done /\ job.done \in BOOLEAN
  BY DEF HgJobs, Paced
<1>2. job.delay = (IF s < job.n THEN s ELSE job.n)
  BY DEF Paced
<1>3. \/ job.eoc = -1 /\ job.left = -1
      \/ /\ job.eoc >= 0 /\ job.n > 2 /\ job.left \in 1..job.n - 2 /\ job.delay = job.n
         /\ s = job.eoc + job.n - 1 - job.left
  BY DEF Paced
<1>4. e \in Int
  BY <1>1 DEF HeededAt
<1> DEFINE d == IF job.delay < job.n THEN job.delay + 1 ELSE job.delay
           l == IF job.delay < job.n THEN job.left
                ELSE IF job.left >= 0 THEN job.left - 1
                ELSE IF eoc /\ job.n > 2 THEN job.n - 2 ELSE job.left
           f == /\ ~(job.delay < job.n)
                /\ \/ job.left >= 0 /\ job.left - 1 <= 0
                   \/ ~(job.left >= 0) /\ eoc /\ job.n <= 2
<1>5. d \in Nat /\ l \in Int
  BY <1>1
<1>6. f \in BOOLEAN
  BY Zenon
<1>7. j = [job EXCEPT !.delay = d, !.left = l, !.done = f]
  <2>1. job = [job EXCEPT !.delay = job.delay, !.left = job.left, !.done = job.done]
    BY DEF HgJobs
  <2>2. job.done = FALSE
    BY <1>1
  <2>3. CASE job.delay < job.n
    <3>1. d = job.delay + 1 /\ l = job.left /\ f = FALSE
      BY <2>3
    <3>2. j = [job EXCEPT !.delay = job.delay + 1]
      BY <2>3 DEF Sampled
    <3> HIDE DEF d, l, f
    <3>3. j = [job EXCEPT !.delay = d, !.left = job.left, !.done = job.done]
      BY <3>1, <3>2 DEF HgJobs
    <3> QED
      BY <2>2, <3>1, <3>3
  <2>4. CASE ~(job.delay < job.n) /\ job.left >= 0
    <3>0. d = job.delay /\ l = job.left - 1 /\ (f <=> job.left - 1 <= 0)
      BY <2>4
    <3>1. d = job.delay /\ l = job.left - 1 /\ f = (job.left - 1 <= 0)
      <4>1. (job.left - 1 <= 0) \in BOOLEAN
        BY <1>1, SMT
      <4> HIDE DEF f
      <4> QED
        BY <1>6, <3>0, <4>1, Zenon
    <3>2. j = [job EXCEPT !.left = job.left - 1, !.done = job.left - 1 <= 0]
      BY <2>4 DEF Sampled, Countdown
    <3> HIDE DEF d, l, f
    <3>3. j = [job EXCEPT !.left = l, !.done = f]
      BY <3>1, <3>2
    <3> QED
      BY <3>1, <3>3 DEF HgJobs
  <2>5. CASE ~(job.delay < job.n) /\ ~(job.left >= 0) /\ eoc
    <3>0. d = job.delay /\ l = (IF job.n > 2 THEN job.n - 2 ELSE job.left) /\ (f <=> job.n <= 2)
      BY <2>5
    <3>1. d = job.delay /\ l = (IF job.n > 2 THEN job.n - 2 ELSE job.left) /\ f = (job.n <= 2)
      <4>1. (job.n <= 2) \in BOOLEAN
        BY <1>1, SMT
      <4> HIDE DEF f
      <4> QED
        BY <1>6, <3>0, <4>1, Zenon
    <3>2. j = [job EXCEPT !.left = IF job.n > 2 THEN job.n - 2 ELSE job.left,
                          !.done = job.n <= 2]
      BY <2>5 DEF Sampled
    <3> HIDE DEF d, l, f
    <3>3. j = [job EXCEPT !.left = l, !.done = f]
      BY <3>1, <3>2
    <3> QED
      BY <3>1, <3>3 DEF HgJobs
  <2>6. CASE ~(job.delay < job.n) /\ ~(job.left >= 0) /\ ~eoc
    <3>1. d = job.delay /\ l = job.left /\ f = FALSE
      BY <2>6
    <3>2. j = job
      BY <2>6 DEF Sampled
    <3> QED
      BY <2>1, <2>2, <3>1, <3>2
  <2> QED
    BY <2>3, <2>4, <2>5, <2>6
<1>8. /\ f => e >= 0 /\ s = e + StepsAfterEnd(job.n)
      /\ ~f => /\ d = (IF s + 1 < job.n THEN s + 1 ELSE job.n)
               /\ \/ e = -1 /\ l = -1
                  \/ /\ e >= 0 /\ job.n > 2 /\ l \in 1..job.n - 2 /\ d = job.n
                     /\ s + 1 = e + job.n - 1 - l
  <2>1. CASE job.delay < job.n
    <3>1. e = job.eoc /\ ~f /\ job.eoc = -1 /\ job.left = -1
      BY <1>1, <1>3, <2>1 DEF HeededAt
    <3> QED
      BY <1>1, <1>2, <2>1, <3>1
  <2>2. CASE ~(job.delay < job.n) /\ job.left >= 0
    <3>1. e = job.eoc /\ job.eoc >= 0 /\ job.n > 2 /\ job.left \in 1..job.n - 2
      BY <1>1, <1>3, <2>2 DEF HeededAt
    <3>2. f <=> job.left <= 1
      BY <1>1, <2>2
    <3>3. l = job.left - 1 /\ d = job.delay /\ s = job.eoc + job.n - 1 - job.left
      BY <1>1, <1>3, <2>2
    <3>4. s >= job.n /\ d = job.n
      BY <1>1, <1>2, <1>3, <2>2, <3>1, <3>3
    <3>5. StepsAfterEnd(job.n) = job.n - 2
      BY <3>1 DEF StepsAfterEnd
    <3> HIDE DEF f, d, l, e
    <3>6. ASSUME f PROVE e >= 0 /\ s = e + StepsAfterEnd(job.n)
      <4>1. job.left = 1
        BY <1>1, <3>1, <3>2, <3>6
      <4> QED
        BY <1>1, <3>1, <3>3, <3>5, <4>1
    <3>7. ASSUME ~f
          PROVE  /\ d = (IF s + 1 < job.n THEN s + 1 ELSE job.n)
                 /\ e >= 0 /\ job.n > 2 /\ l \in 1..job.n - 2 /\ d = job.n
                 /\ s + 1 = e + job.n - 1 - l
      <4>1. job.left > 1
        BY <1>1, <3>1, <3>2, <3>7
      <4>2. l \in 1..job.n - 2 /\ s + 1 = e + job.n - 1 - l
        <5>1. l \in 1..job.n - 2
          <6>1. job.left \in Int /\ job.left <= job.n - 2 /\ job.n \in Int /\ l = job.left - 1
            BY <1>1, <3>1, <3>3
          <6> QED
            BY <4>1, <6>1
        <5>2. s + 1 = job.eoc + job.n - job.left
          <6>1. job.left \in Int /\ job.n \in Int /\ job.eoc \in Int /\ s \in Int
            BY <1>1
          <6>2. s = job.eoc + job.n - 1 - job.left
            BY <3>3
          <6> QED
            BY <6>1, <6>2, SMTT(30)
        <5>3. e + job.n - 1 - l = job.eoc + job.n - job.left
          BY <1>1, <3>1, <3>3
        <5> QED
          BY <5>1, <5>2, <5>3
      <4>3. ~(s + 1 < job.n)
        BY <1>1, <3>4
      <4> QED
        BY <3>1, <3>4, <4>2, <4>3
    <3> QED
      BY <3>6, <3>7
  <2>3. CASE ~(job.delay < job.n) /\ ~(job.left >= 0) /\ eoc
    <3>1. job.delay = job.n /\ job.eoc < 0 /\ s >= job.n
      BY <1>1, <1>2, <1>3, <2>3
    <3>2. e = s
      BY <2>3, <3>1 DEF HeededAt
    <3>3. f <=> job.n <= 2
      BY <1>1, <2>3
    <3>4. job.n > 2 => l = job.n - 2
      BY <1>1, <2>3
    <3>5. d = job.n
      BY <2>3, <3>1
    <3>6. ~(s + 1 < job.n) /\ s \in Nat /\ job.n \in Nat \ {0}
      BY <1>1, <3>1
    <3> HIDE DEF f, d, l, e
    <3>7. ASSUME f PROVE e >= 0 /\ s = e + StepsAfterEnd(job.n)
      BY <3>2, <3>3, <3>6, <3>7 DEF StepsAfterEnd
    <3>8. ASSUME ~f
          PROVE  /\ d = (IF s + 1 < job.n THEN s + 1 ELSE job.n)
                 /\ e >= 0 /\ job.n > 2 /\ l \in 1..job.n - 2 /\ d = job.n
                 /\ s + 1 = e + job.n - 1 - l
      BY <3>2, <3>3, <3>4, <3>5, <3>6, <3>8
    <3> QED
      BY <3>7, <3>8
  <2>4. CASE ~(job.delay < job.n) /\ ~(job.left >= 0) /\ ~eoc
    <3>1. e = job.eoc /\ ~f /\ job.eoc = -1 /\ l = -1
      BY <1>1, <1>3, <2>4 DEF HeededAt
    <3> QED
      BY <1>1, <1>2, <2>4, <3>1
  <2> QED
    BY <2>1, <2>2, <2>3, <2>4
<1> HIDE DEF d, l, f, j, e
<1>9. j \in HgJobs /\ j.delay = d /\ j.left = l /\ j.done = f
  <2>1. j \in HgJobs
    BY <1>5, <1>6, <1>7, DrawSet, Zenon
  <2>2. j.delay = d /\ j.left = l
    BY <1>7 DEF HgJobs
  <2>3. "done" \in DOMAIN job
    BY DEF HgJobs
  <2>4. j.done = f
    BY <1>7, <2>3, Zenon
  <2> QED
    BY <2>1, <2>2, <2>4
<1> QED
  BY <1>4, <1>7, <1>8, <1>9 DEF j, e

\* The codes a step draws are right whichever end is heeded with them.
LEMMA SampledRight ==
  ASSUME job \in HgJobs, Paced(job), CellsRight(job), job.at = "draw", NEW eoc \in BOOLEAN
  PROVE  /\ SampledAt(Len(job.delayed), eoc) \in Draws
         /\ \A j \in HgJobs :
              /\ j.n = job.n /\ j.eoc = HeededAt(eoc)
              /\ j.delayed = job.delayed
                   \/ j.delayed = Append(job.delayed, SampledAt(Len(job.delayed), eoc))
              => CellsRight(j)
<1> DEFINE s == Len(job.delayed)
           new == SampledAt(s, eoc)
<1>1. /\ job.n \in Nat \ {0} /\ s \in Nat /\ job.eoc \in Int /\ job.delay \in Nat
      /\ job.delayed \in Seq(Draws)
  BY DEF HgJobs
<1>2. /\ job.delay = (IF s < job.n THEN s ELSE job.n)
      /\ job.eoc = -1 \/ job.eoc >= 0
  BY DEF Paced
<1>3. /\ new \in [0..job.n - 1 -> DrawnCode]
      /\ \A c \in 0..job.n - 1 : new[c].book = c /\ new[c].step = s
      /\ \A c \in 0..job.n - 1 : new[c].boc => c > s
      /\ \A c \in 0..job.n - 1 : new[c].eoc => c = 0 /\ eoc
  <2> DEFINE b(c) == job.delay < job.n /\ Waits(c, job.delay)
             x(c) == c = 0 /\ eoc
             code(c) == [book |-> c, step |-> s, boc |-> b(c), eoc |-> x(c)]
  <2>1. new = [c \in 0..job.n - 1 |-> code(c)]
    BY DEF SampledAt
  <2>2. \A c \in 0..job.n - 1 : b(c) \in BOOLEAN /\ x(c) \in BOOLEAN
    BY Zenon
  <2>3. \A c \in 0..job.n - 1 : b(c) => c > s
    BY <1>1, <1>2 DEF Waits
  <2>4. \A c \in 0..job.n - 1 : x(c) => c = 0 /\ eoc
    OBVIOUS
  <2> HIDE DEF b, x
  <2>5. \A c \in 0..job.n - 1 : c \in Nat
    BY <1>1
  <2>6. \A c \in 0..job.n - 1 :
          /\ code(c) \in DrawnCode /\ code(c).book = c /\ code(c).step = s
          /\ code(c).boc = b(c) /\ code(c).eoc = x(c)
    BY <1>1, <2>2, <2>5, Zenon DEF DrawnCode
  <2> HIDE DEF code, new
  <2>7. new \in [0..job.n - 1 -> DrawnCode]
    BY <2>1, <2>6
  <2>8. \A c \in 0..job.n - 1 : new[c] = code(c)
    BY <2>1
  <2> QED
    BY <2>3, <2>4, <2>6, <2>7, <2>8
<1>4. new \in Draws
  BY <1>1, <1>3 DEF Draws
<1>5. \A j \in HgJobs :
              /\ j.n = job.n /\ j.eoc = HeededAt(eoc)
              /\ j.delayed = job.delayed \/ j.delayed = Append(job.delayed, new)
              => CellsRight(j)
  <2> SUFFICES ASSUME NEW j \in HgJobs, j.n = job.n, j.eoc = HeededAt(eoc),
                      j.delayed = job.delayed \/ j.delayed = Append(job.delayed, new)
               PROVE  CellsRight(j)
    OBVIOUS
  <2>1. job.eoc >= 0 => j.eoc = job.eoc
    BY <1>1 DEF HeededAt
  <2>2. ASSUME NEW l \in 1..s, NEW c \in 0..job.n - 1
        PROVE  /\ job.delayed[l][c].book = c /\ job.delayed[l][c].step = l - 1
               /\ job.delayed[l][c].boc => c > l - 1
               /\ job.delayed[l][c].eoc => c = 0 /\ (l - 1 >= job.n => j.eoc >= 0 /\ j.eoc <= l - 1)
    BY <1>1, <2>1 DEF CellsRight
  <2>3. \A c \in 0..job.n - 1 :
          /\ new[c].book = c /\ new[c].step = s
          /\ new[c].boc => c > s
          /\ new[c].eoc => c = 0 /\ (s >= job.n => j.eoc >= 0 /\ j.eoc <= s)
    <3>1. ASSUME eoc, s >= job.n PROVE j.eoc >= 0 /\ j.eoc <= s
      <4>1. job.delay = job.n
        BY <1>1, <1>2, <3>1
      <4>2. CASE job.eoc < 0
        <5>1. j.eoc = s
          BY <3>1, <4>1, <4>2 DEF HeededAt
        <5> QED
          BY <1>1, <5>1
      <4>3. CASE job.eoc >= 0
        <5>1. job.eoc <= s
          BY <1>1, <1>2, <4>3, <4>1 DEF Paced
        <5> QED
          BY <2>1, <4>3, <5>1
      <4> QED
        BY <1>1, <4>2, <4>3
    <3> HIDE DEF new
    <3> TAKE c \in 0..job.n - 1
    <3>2. new[c].book = c /\ new[c].step = s
      BY <1>3
    <3>3. new[c].boc => c > s
      BY <1>3, Zenon
    <3>4. new[c].eoc => c = 0 /\ eoc
      BY <1>3, Zenon
    <3> QED
      BY <3>1, <3>2, <3>3, <3>4, Zenon
  <2>4. CASE j.delayed = job.delayed
    BY <2>2, <2>4 DEF CellsRight
  <2>5. CASE j.delayed = Append(job.delayed, new)
    <3>1. /\ Len(j.delayed) = s + 1 /\ j.delayed[s + 1] = new
          /\ \A l \in 1..s : j.delayed[l] = job.delayed[l]
      BY <1>1, <1>4, <2>5
    <3>2. ASSUME NEW l \in 1..Len(j.delayed), NEW c \in 0..j.n - 1
          PROVE  /\ j.delayed[l][c].book = c /\ j.delayed[l][c].step = l - 1
                 /\ j.delayed[l][c].boc => c > l - 1
                 /\ j.delayed[l][c].eoc => c = 0 /\ (l - 1 >= j.n => j.eoc >= 0 /\ j.eoc <= l - 1)
      <4>1. CASE l \in 1..s
        <5>1. j.delayed[l] = job.delayed[l]
          BY <3>1, <4>1
        <5>2. j.n = job.n
          OBVIOUS
        <5> QED
          BY <2>2, <4>1, <5>1, <5>2
      <4>2. CASE l = s + 1
        <5>1. l - 1 = s /\ j.delayed[l] = new
          BY <1>1, <3>1, <4>2
        <5> QED
          BY <2>3, <5>1
      <4> QED
        BY <1>1, <3>1, <4>1, <4>2
    <3> QED
      BY <3>2 DEF CellsRight
  <2> QED
    BY <2>4, <2>5
<1> QED
  BY <1>4, <1>5

LEMMA HgDrawKeeps ==
  ASSUME HiggsSpeechAssumption, HgInv(job), HiggsDraw
  PROVE  HgInv(job')
<1> DEFINE s == Len(job.delayed)
<1>1. PICK eoc \in BOOLEAN :
        LET j == Sampled(eoc)
            e == IF eoc /\ job.eoc < 0 /\ job.delay = job.n THEN s ELSE job.eoc
        IN job' = IF j.done THEN [j EXCEPT !.at = "finish", !.eoc = e]
                  ELSE Streamed([j EXCEPT !.delayed = Append(@, SampledAt(s, eoc)), !.eoc = e])
  BY DEF HiggsDraw
<1>2. job.at = "draw" /\ job \in HgJobs /\ CellsRight(job) /\ Paced(job)
  BY DEF HgInv, HiggsDraw
<1> DEFINE j == Sampled(eoc)
           e == HeededAt(eoc)
           new == SampledAt(s, eoc)
<1>3. /\ j \in HgJobs /\ e \in Int
      /\ j = [job EXCEPT !.delay = j.delay, !.left = j.left, !.done = j.done]
      /\ j.done => e >= 0 /\ s = e + StepsAfterEnd(job.n)
      /\ ~j.done =>
           /\ j.delay = (IF s + 1 < job.n THEN s + 1 ELSE job.n)
           /\ \/ e = -1 /\ j.left = -1
              \/ /\ e >= 0 /\ job.n > 2 /\ j.left \in 1..job.n - 2 /\ j.delay = job.n
                 /\ s + 1 = e + job.n - 1 - j.left
  BY <1>2, SampledKeeps
<1>4. job' = IF j.done THEN [j EXCEPT !.at = "finish", !.eoc = e]
             ELSE Streamed([j EXCEPT !.delayed = Append(@, new), !.eoc = e])
  BY <1>1 DEF HeededAt
<1>5. /\ new \in Draws
      /\ \A k \in HgJobs :
           /\ k.n = job.n /\ k.eoc = e
           /\ k.delayed = job.delayed \/ k.delayed = Append(job.delayed, new)
           => CellsRight(k)
  BY <1>2, SampledRight
<1> HIDE DEF j, e, new
<1>6. /\ job.n \in Nat \ {0} /\ job.delayed \in Seq(Draws) /\ s \in Nat
      /\ j.done \in BOOLEAN /\ ~job.ok
  BY <1>2, <1>3 DEF HgJobs, Paced
<1>7. /\ j.n = job.n /\ j.delayed = job.delayed /\ j.at = "draw" /\ j.stream = job.stream
      /\ j.pieces = job.pieces /\ j.emitted = job.emitted /\ j.last = job.last /\ j.block = job.block
      /\ j.window = job.window /\ j.ok = job.ok
  BY <1>2, <1>3 DEF HgJobs
<1>8. CASE j.done
  <2> DEFINE k == [j EXCEPT !.at = "finish", !.eoc = e]
  <2>1. job' = k
    BY <1>4, <1>8
  <2>2. k \in HgJobs
    BY <1>3, Zenon DEF HgJobs
  <2>3. /\ k.at = "finish" /\ k.eoc = e /\ k.n = job.n /\ k.delayed = job.delayed
        /\ k.stream = job.stream /\ k.pieces = job.pieces /\ k.emitted = job.emitted
        /\ k.last = job.last /\ k.block = job.block /\ k.window = job.window
    BY <1>3, <1>7 DEF HgJobs
  <2>4. k.ok = job.ok
    BY <1>3, <1>7 DEF HgJobs
  <2> HIDE DEF k
  <2>5. CellsRight(k)
    BY <1>5, <2>2, <2>3
  <2>6. Paced(k)
    BY <1>3, <1>6, <1>8, <2>3, <2>4 DEF Paced, StepsAfterEnd
  <2>7. k.stream => TiledWell(k)
    <3>1. SUFFICES ASSUME k.stream PROVE TiledWell(k)
      OBVIOUS
    <3>2. TiledWell(job)
      BY <2>3, <3>1 DEF HgInv
    <3>3. Tiling(k)
      BY <1>2, <2>3, <3>2 DEF TiledWell, Tiling, PieceRight
    <3>4. Behind(k)
      BY <1>2, <2>3, <3>2 DEF TiledWell, Behind
    <3> QED
      BY <1>6, <2>3, <2>4, <3>3, <3>4 DEF TiledWell
  <2> QED
    BY <2>1, <2>2, <2>5, <2>6, <2>7 DEF HgInv
<1>9. CASE ~j.done
  <2> DEFINE m == [j EXCEPT !.delayed = Append(@, new), !.eoc = e]
             k == Streamed(m)
             more == Append(job.delayed, new)
  <2>1. job' = k
    BY <1>4, <1>9
  <2>2. more \in Seq(Draws) /\ Len(more) = s + 1
    BY <1>5, <1>6
  <2> HIDE DEF more
  <2>3. m = [j EXCEPT !.delayed = more, !.eoc = e]
    BY <1>3, <1>7 DEF more, HgJobs
  <2>4. m \in HgJobs
    BY <1>3, <2>2, <2>3, Zenon DEF HgJobs
  <2>5. /\ m.at = "draw" /\ m.eoc = e /\ m.n = job.n /\ m.delayed = more /\ m.left = j.left
        /\ m.delay = j.delay /\ m.stream = job.stream /\ m.pieces = job.pieces
        /\ m.emitted = job.emitted /\ m.last = job.last /\ m.block = job.block
        /\ m.window = job.window
    BY <1>3, <1>7, <2>3 DEF HgJobs
  <2>6. m.ok = job.ok /\ m.done = j.done
    BY <1>3, <1>7, <2>3 DEF HgJobs
  <2> HIDE DEF m
  <2>7. CellsRight(m)
    BY <1>5, <2>4, <2>5 DEF more
  <2>8. m.stream => Tiling(m)
    BY <1>2, <2>5 DEF HgInv, TiledWell, Tiling, PieceRight
  <2>9. m.stream =>
           LET now == FramesOf(m.delayed, m.n)
           IN /\ \/ m.last = 0 /\ m.emitted = 0
                 \/ m.last > HoldFrames /\ m.emitted = m.last - HoldFrames
              /\ m.last <= now \/ m.last = 0
              /\ now - m.last <= m.block \/ (m.emitted = 0 /\ m.last = 0 /\ now <= HoldFrames + 1)
    <3> SUFFICES ASSUME m.stream
                 PROVE  LET now == FramesOf(m.delayed, m.n)
           IN /\ \/ m.last = 0 /\ m.emitted = 0
                 \/ m.last > HoldFrames /\ m.emitted = m.last - HoldFrames
              /\ m.last <= now \/ m.last = 0
              /\ now - m.last <= m.block \/ (m.emitted = 0 /\ m.last = 0 /\ now <= HoldFrames + 1)
      OBVIOUS
    <3> DEFINE old == FramesOf(job.delayed, job.n)
               now == FramesOf(m.delayed, m.n)
    <3>1. Behind(job)
      BY <1>2, <2>5 DEF HgInv, TiledWell
    <3>2. now = old + 1 /\ old \in Int
      <4>1. now = Len(more) - (job.n - 1) /\ old = s - (job.n - 1)
        BY <2>5 DEF FramesOf
      <4>2. s \in Nat /\ job.n \in Nat /\ Len(more) = s + 1
        BY <1>6, <2>2
      <4> HIDE DEF now, old, s
      <4> QED
        BY <4>1, <4>2, SMTT(30)
    <3>3. job.last \in Int /\ job.block \in Nat /\ job.emitted \in Nat /\ HoldFrames \in Nat
      BY <1>2 DEF HgJobs, HiggsSpeechAssumption
    <3>4. /\ \/ job.last = 0 /\ job.emitted = 0
             \/ job.last > HoldFrames /\ job.emitted = job.last - HoldFrames
          /\ job.last <= old \/ job.last = 0
          /\ old - job.last < job.block \/ (job.emitted = 0 /\ job.last = 0 /\ old <= HoldFrames)
      BY <3>1 DEF Behind
    <3> HIDE DEF old, now
    <3>5. /\ \/ m.last = 0 /\ m.emitted = 0
             \/ m.last > HoldFrames /\ m.emitted = m.last - HoldFrames
          /\ m.last <= now \/ m.last = 0
          /\ now - m.last <= m.block \/ (m.emitted = 0 /\ m.last = 0 /\ now <= HoldFrames + 1)
      BY <2>5, <3>2, <3>3, <3>4
    <3> QED
      BY <3>5 DEF now
  <2>10. /\ k \in HgJobs /\ (m.stream => TiledWell(k))
         /\ k = [m EXCEPT !.emitted = k.emitted, !.pieces = k.pieces, !.last = k.last]
    BY <1>6, <2>4, <2>5, <2>6, <2>8, <2>9, StreamedKeeps
  <2> HIDE DEF k
  <2>11. /\ k.at = m.at /\ k.eoc = m.eoc /\ k.n = m.n /\ k.delayed = m.delayed /\ k.left = m.left
         /\ k.delay = m.delay
    BY <2>4, <2>10 DEF HgJobs
  <2>12. k.ok = m.ok /\ k.done = m.done /\ k.stream = m.stream
    BY <2>4, <2>10 DEF HgJobs
  <2>13. CellsRight(k)
    BY <2>7, <2>11 DEF CellsRight
  <2>14. Paced(k)
    <3>1. /\ k.at = "draw" /\ ~k.done /\ ~k.ok /\ Len(k.delayed) = s + 1 /\ k.n = job.n
          /\ k.eoc = e /\ k.left = j.left /\ k.delay = j.delay
      BY <1>6, <1>9, <2>2, <2>5, <2>6, <2>11, <2>12
    <3>2. /\ j.delay = (IF s + 1 < job.n THEN s + 1 ELSE job.n)
          /\ \/ e = -1 /\ j.left = -1
             \/ /\ e >= 0 /\ job.n > 2 /\ j.left \in 1..job.n - 2 /\ j.delay = job.n
                /\ s + 1 = e + job.n - 1 - j.left
      BY <1>3, <1>9
    <3>3. ASSUME e >= 0 PROVE s + 1 <= e + StepsAfterEnd(job.n)
      <4>1. /\ job.n > 2 /\ j.left \in 1..job.n - 2 /\ s + 1 = e + job.n - 1 - j.left
            /\ job.n \in Nat /\ e \in Int
        BY <1>3, <1>6, <3>2, <3>3
      <4>2. StepsAfterEnd(job.n) = job.n - 2
        BY <4>1 DEF StepsAfterEnd
      <4> HIDE DEF s
      <4> QED
        BY <4>1, <4>2
    <3> QED
      BY <3>1, <3>2, <3>3 DEF Paced
  <2> QED
    BY <2>1, <2>5, <2>10, <2>12, <2>13, <2>14 DEF HgInv
<1> QED
  BY <1>6, <1>8, <1>9

\* A run that stops, or fails, leaves what was drawn and put out.
LEMMA HgStopKeeps ==
  ASSUME HiggsSpeechAssumption, HgInv(job), HiggsStop \/ HiggsFails
  PROVE  HgInv(job')
<1>1. /\ job.at = "draw" /\ job \in HgJobs /\ CellsRight(job) /\ Paced(job) /\ ~job.ok
      /\ job.stream => TiledWell(job)
  BY DEF HgInv, HiggsStop, HiggsFails, Paced
<1>2. PICK a \in {"finish", "end"} : job' = [job EXCEPT !.at = a]
  BY DEF HiggsStop, HiggsFails
<1>3. job' \in HgJobs
  BY <1>1, <1>2, Zenon DEF HgJobs
<1>4. /\ job'.at = a /\ job'.eoc = job.eoc /\ job'.n = job.n /\ job'.delayed = job.delayed
      /\ job'.pieces = job.pieces /\ job'.emitted = job.emitted /\ job'.last = job.last
      /\ job'.block = job.block /\ job'.window = job.window
  BY <1>1, <1>2 DEF HgJobs
<1>5. job'.ok = job.ok /\ job'.done = job.done /\ job'.stream = job.stream
  BY <1>1, <1>2 DEF HgJobs
<1>6. CellsRight(job')
  BY <1>1, <1>4 DEF CellsRight
<1>7. Paced(job')
  BY <1>1, <1>4, <1>5 DEF Paced
<1>8. ASSUME job'.stream PROVE TiledWell(job')
  <2>1. TiledWell(job)
    BY <1>1, <1>5, <1>8
  <2>2. Tiling(job')
    BY <1>1, <1>4, <2>1 DEF TiledWell, Tiling, PieceRight
  <2>3. Behind(job')
    BY <1>1, <1>4, <2>1 DEF TiledWell, Behind
  <2> QED
    BY <1>1, <1>5, <2>2, <2>3 DEF TiledWell
<1> QED
  BY <1>3, <1>6, <1>7, <1>8 DEF HgInv

\* The end puts out what was held back, as the final piece.
LEMMA HgFinishKeeps ==
  ASSUME HiggsSpeechAssumption, HgInv(job), HiggsFinish
  PROVE  HgInv(job')
<1> DEFINE t == FramesOf(job.delayed, job.n)
           j == [job EXCEPT !.at = "end", !.frames = t, !.ok = TRUE]
<1>1. /\ job.at = "finish" /\ job \in HgJobs /\ CellsRight(job) /\ Paced(job) /\ ~job.ok
      /\ job.stream => TiledWell(job)
  BY DEF HgInv, HiggsFinish, Paced
<1>2. job' = IF t <= 0 THEN [job EXCEPT !.at = "end"]
             ELSE IF job.stream THEN EmitUpto(j, t, TRUE) ELSE j
  BY DEF HiggsFinish
<1>3. /\ t \in Int /\ job.emitted \in Nat /\ job.block \in Nat \ {0} /\ job.last \in Int
      /\ HoldFrames \in Nat \ {0}
  BY <1>1 DEF HgJobs, FramesOf, HiggsSpeechAssumption
<1>4. CASE t <= 0
  <2>1. job' = [job EXCEPT !.at = "end"]
    BY <1>2, <1>4
  <2>2. job' \in HgJobs
    BY <1>1, <2>1, Zenon DEF HgJobs
  <2>3. /\ job'.at = "end" /\ job'.eoc = job.eoc /\ job'.n = job.n /\ job'.delayed = job.delayed
        /\ job'.pieces = job.pieces /\ job'.emitted = job.emitted /\ job'.last = job.last
        /\ job'.block = job.block /\ job'.window = job.window
    BY <1>1, <2>1 DEF HgJobs
  <2>4. job'.ok = job.ok /\ job'.done = job.done /\ job'.stream = job.stream
    BY <1>1, <2>1 DEF HgJobs
  <2>5. CellsRight(job')
    BY <1>1, <2>3 DEF CellsRight
  <2>6. Paced(job')
    BY <1>1, <2>3, <2>4 DEF Paced
  <2>7. ASSUME job'.stream PROVE TiledWell(job')
    <3>1. TiledWell(job)
      BY <1>1, <2>4, <2>7
    <3>2. Tiling(job')
      BY <1>1, <2>3, <3>1 DEF TiledWell, Tiling, PieceRight
    <3> QED
      BY <1>1, <2>3, <2>4, <3>2 DEF TiledWell
  <2> QED
    BY <2>2, <2>5, <2>6, <2>7 DEF HgInv
<1>5. CASE ~(t <= 0)
  <2> HIDE DEF t
  <2>1. j \in HgJobs
    BY <1>1, <1>3, Zenon DEF HgJobs
  <2>2. /\ j.at = "end" /\ j.eoc = job.eoc /\ j.n = job.n /\ j.delayed = job.delayed
        /\ j.pieces = job.pieces /\ j.emitted = job.emitted /\ j.last = job.last
        /\ j.block = job.block /\ j.window = job.window /\ j.frames = t
    BY <1>1 DEF HgJobs
  <2>3. j.ok = TRUE /\ j.done = job.done /\ j.stream = job.stream
    BY <1>1 DEF HgJobs
  <2> HIDE DEF j
  <2>4. CellsRight(j)
    BY <1>1, <2>2 DEF CellsRight
  <2>5. Paced(j)
    BY <1>1, <1>3, <1>5, <2>2, <2>3 DEF Paced, t
  <2>6. CASE ~job.stream
    <3>1. job' = j
      BY <1>2, <1>5, <2>6
    <3> QED
      BY <2>1, <2>3, <2>4, <2>5, <2>6, <3>1 DEF HgInv
  <2>7. CASE job.stream
    <3> DEFINE k == EmitUpto(j, t, TRUE)
    <3>1. job' = k
      BY <1>2, <1>5, <2>7
    <3>2. Tiling(job) /\ Behind(job)
      BY <1>1, <2>7 DEF TiledWell
    <3>3. Tiling(j) /\ NoneFinal(j.pieces)
      BY <1>1, <2>2, <3>2 DEF Tiling, PieceRight, NoneFinal
    <3>4. t \in Nat /\ t > j.emitted /\ t - j.emitted <= j.block + HoldFrames
      <4>1. /\ \/ job.last = 0 /\ job.emitted = 0
               \/ job.last > HoldFrames /\ job.emitted = job.last - HoldFrames
            /\ job.last <= t \/ job.last = 0
            /\ t - job.last < job.block \/ (job.emitted = 0 /\ job.last = 0 /\ t <= HoldFrames)
        BY <3>2 DEF Behind, t
      <4> QED
        BY <1>3, <1>5, <2>2, <4>1
    <3>5. TRUE \in BOOLEAN /\ (TRUE => j.at = "end")
      BY <2>2
    <3>6. /\ k \in HgJobs /\ Tiling(k)
          /\ k = [j EXCEPT !.emitted = t, !.pieces = k.pieces]
          /\ k.pieces # <<>> /\ k.pieces[Len(k.pieces)].final = TRUE
      BY <2>1, <3>3, <3>4, <3>5, EmitKeeps
    <3> HIDE DEF k
    <3>7. /\ k.at = "end" /\ k.eoc = j.eoc /\ k.n = j.n /\ k.delayed = j.delayed
          /\ k.emitted = t /\ k.frames = j.frames
      BY <2>1, <2>2, <3>6 DEF HgJobs
    <3>8. k.ok = j.ok /\ k.done = j.done
      BY <2>1, <3>6 DEF HgJobs
    <3>9. CellsRight(k)
      BY <2>4, <3>7 DEF CellsRight
    <3>10. Paced(k)
      BY <2>2, <2>5, <3>7, <3>8 DEF Paced
    <3>11. TiledWell(k)
      BY <2>2, <3>6, <3>7 DEF TiledWell
    <3> QED
      BY <3>1, <3>6, <3>9, <3>10, <3>11 DEF HgInv
  <2> QED
    BY <2>6, <2>7
<1> QED
  BY <1>4, <1>5

LEMMA DelayUndone ==
  ASSUME NEW t \in Nat, NEW n \in Nat \ {0}
  PROVE  Undelayed(DelayPattern(t, n), n, 0, t)
           = [i \in 0..t - 1 |-> [c \in 0..n - 1 |-> <<i, c>>]]
<1>1. ASSUME NEW i \in 0..t - 1, NEW c \in 0..n - 1
      PROVE  DelayPattern(t, n)[i + c + 1][c] = <<i, c>>
  <2>1. i + c + 1 \in 1..t + n - 1 /\ (i + c + 1) - 1 - c = i
    OBVIOUS
  <2>2. ~(i < 0) /\ ~(i >= t)
    OBVIOUS
  <2> QED
    BY <2>1, <2>2 DEF DelayPattern
<1> DEFINE D == DelayPattern(t, n)
<1> HIDE DEF D
<1>2. \A i \in 0..t - 1, c \in 0..n - 1 : D[i + c + 1][c] = <<i, c>>
  BY <1>1 DEF D
<1>3. \A i \in 0..t - 1 :
        [c \in 0..n - 1 |-> D[i + c + 1][c]] = [c \in 0..n - 1 |-> <<i, c>>]
  BY <1>2
<1>4. Undelayed(D, n, 0, t) = [i \in 0..t - 1 |-> [c \in 0..n - 1 |-> D[i + c + 1][c]]]
  BY DEF Undelayed
<1> QED
  BY <1>3, <1>4 DEF D

LEMMA HgAligned == ASSUME HgInv(job) PROVE KeptCodesAligned
<1> SUFFICES ASSUME job.at = "end", job.ok PROVE KeptCodesAligned
  BY DEF KeptCodesAligned
<1> DEFINE t == job.frames
           kept == Undelayed(job.delayed, job.n, 0, t)
<1>1. /\ job \in HgJobs /\ CellsRight(job) /\ Paced(job)
  BY DEF HgInv
<1>2. /\ job.n \in Nat \ {0} /\ Len(job.delayed) \in Nat /\ t = Len(job.delayed) - (job.n - 1)
      /\ t > 0 /\ t \in Nat /\ job.eoc \in Int
  BY <1>1 DEF HgJobs, Paced, FramesOf
<1>3. job.eoc >= 0 => t <= job.eoc - (IF job.n > 1 THEN 1 ELSE 0)
  BY <1>1, <1>2 DEF Paced, StepsAfterEnd
<1>4. job.done => t = job.eoc - (IF job.n > 1 THEN 1 ELSE 0)
  BY <1>1, <1>2 DEF Paced, StepsAfterEnd
<1>5. ASSUME NEW i \in 0..t - 1, NEW c \in 0..job.n - 1
      PROVE  /\ kept[i][c].book = c /\ kept[i][c].step = i + c /\ ~kept[i][c].boc
             /\ i >= job.n => ~kept[i][c].eoc
  <2> DEFINE l == i + c + 1
  <2>1. kept[i][c] = job.delayed[l][c]
    BY DEF Undelayed
  <2>2. l \in 1..Len(job.delayed) /\ l - 1 = i + c /\ ~(c > l - 1) /\ l \in Int
    BY <1>2
  <2> HIDE DEF l, kept
  <2>3. /\ job.delayed[l][c].book = c /\ job.delayed[l][c].step = l - 1
        /\ job.delayed[l][c].boc => c > l - 1
        /\ job.delayed[l][c].eoc => c = 0 /\ (l - 1 >= job.n => job.eoc >= 0 /\ job.eoc <= l - 1)
    BY <1>1, <2>2 DEF CellsRight
  <2>4. ASSUME i >= job.n, job.delayed[l][c].eoc PROVE FALSE
    <3>1. c = 0 /\ l - 1 = i /\ job.eoc >= 0 /\ job.eoc <= i
      BY <1>2, <2>2, <2>3, <2>4
    <3> QED
      BY <1>2, <1>3, <3>1
  <2> QED
    BY <2>1, <2>2, <2>3, <2>4
<1>6. Undelayed(DelayPattern(t, job.n), job.n, 0, t)
        = [i \in 0..t - 1 |-> [c \in 0..job.n - 1 |-> <<i, c>>]]
  BY <1>2, DelayUndone
<1> QED
  BY <1>4, <1>5, <1>6 DEF KeptCodesAligned

LEMMA HgTiled == ASSUME HgInv(job) PROVE StreamTiled
<1> SUFFICES ASSUME job.stream PROVE StreamTiled
  BY DEF StreamTiled
<1>1. job \in HgJobs /\ TiledWell(job) /\ Tiling(job)
  BY DEF HgInv, TiledWell
<1>2. job.pieces \in Seq(Pieces) /\ DOMAIN job.pieces = 1..Len(job.pieces) /\ Len(job.pieces) \in Nat
  BY <1>1 DEF HgJobs
<1>3. \A i \in 1..Len(job.pieces) :
        /\ PieceRight(job, i)
        /\ job.pieces[i].final => i = Len(job.pieces)
  BY <1>1 DEF Tiling
<1>4. ASSUME job.ok
      PROVE  /\ UptoOf(job.pieces, Len(job.pieces)) = job.frames
             /\ Last(job.pieces).final
  BY <1>1, <1>2, <1>4 DEF TiledWell, Tiling, Last
<1> QED
  BY <1>2, <1>3, <1>4 DEF StreamTiled, PieceRight, UptoOf

-----------------------------------------------------------------------------
(* HiggsSpeech: the parts of a reading.                                    *)

Given == Voices2 \union {NoVoice2} \union Nat
DoneParts == [part : Nat, ref : Seq(Given)]

PtJobs ==
  [kind : {"parts"}, at : {"part", "end"}, mode : {"long", "dialogue"}, rolling : BOOLEAN,
   buffer : Nat, turns : Seq(Voices2 \union {NoVoice2}), part : Nat \ {0}, buf : Seq(Given),
   prev : [Voices2 -> Nat], done : Seq(DoneParts), gaps : Nat, ok : BOOLEAN]

\* The chunks kept after l parts.
KeptParts(done, l, size) ==
  [k \in 1..(IF l < size THEN l ELSE size) |-> done[HgMax(0, l - size) + k].part]

\* The latest turn of a voice among the first l parts, none as 0.
LatestTurn(j, l, v, b) ==
  /\ b \in Nat
  /\ \A i \in 1..l : j.turns[j.done[i].part] = v => j.done[i].part <= b
  /\ b # 0 => \E i \in 1..l : j.done[i].part = b /\ j.turns[b] = v

RefRight(j, i) ==
  /\ j.mode = "long" => j.done[i].ref = KeptParts(j.done, i - 1, j.buffer)
  /\ j.mode = "dialogue" =>
       \E b : /\ j.rolling => LatestTurn(j, i - 1, j.turns[j.done[i].part], b)
              /\ j.done[i].ref = <<j.turns[j.done[i].part]>>
                                   \o (IF j.rolling /\ b # 0 THEN <<b>> ELSE <<>>)

InOrder(j) ==
  /\ \A i \in 1..Len(j.done) : j.done[i].part \in 1..Len(j.turns) /\ j.done[i].part < j.part
  /\ \A i \in 1..Len(j.done), k \in 1..Len(j.done) : i < k => j.done[i].part < j.done[k].part

Continued(j) ==
  /\ j.mode = "long" => j.buf = KeptParts(j.done, Len(j.done), j.buffer)
  /\ j.mode = "dialogue" /\ j.rolling =>
       \A v \in Voices2 : LatestTurn(j, Len(j.done), v, j.prev[v])
  /\ j.mode = "dialogue" => j.gaps = HgMax(0, Len(j.done) - 1)
  /\ \A i \in 1..Len(j.done) : RefRight(j, i)

PtInv(j) == j \in PtJobs /\ InOrder(j) /\ Continued(j)

LEMMA KeptIndex ==
  ASSUME NEW l \in Nat, NEW size \in Nat, NEW k \in 1..(IF l < size THEN l ELSE size)
  PROVE  HgMax(0, l - size) + k \in 1..l
BY DEF HgMax

SameUpto(e, d, l) == \A i \in 1..l : e[i] = d[i]

LEMMA KeptSame ==
  ASSUME NEW l, l \in Nat, NEW size, size \in Nat, NEW d, NEW e, SameUpto(e, d, l)
  PROVE  KeptParts(e, l, size) = KeptParts(d, l, size)
<1>1. \A k \in 1..(IF l < size THEN l ELSE size) :
        e[HgMax(0, l - size) + k].part = d[HgMax(0, l - size) + k].part
  BY KeptIndex DEF SameUpto
<1> QED
  BY <1>1 DEF KeptParts

LEMMA KeptIsSeq ==
  ASSUME NEW l \in Nat, NEW size \in Nat, NEW d, \A i \in 1..l : d[i].part \in Given
  PROVE  /\ KeptParts(d, l, size) \in Seq(Given)
         /\ Len(KeptParts(d, l, size)) = (IF l < size THEN l ELSE size)
<1> DEFINE m == IF l < size THEN l ELSE size
<1>1. m \in Nat
  OBVIOUS
<1>2. \A k \in 1..m : d[HgMax(0, l - size) + k].part \in Given
  BY KeptIndex
<1> HIDE DEF m
<1>3. [k \in 1..m |-> d[HgMax(0, l - size) + k].part] \in [1..m -> Given]
  BY <1>2
<1>4. \A f \in [1..m -> Given] : f \in Seq(Given) /\ Len(f) = m
  BY <1>1
<1> QED
  BY <1>3, <1>4 DEF KeptParts, m

\* A chunk is added to the kept ones, and the oldest makes room.
LEMMA KeptGrows ==
  ASSUME NEW l \in Nat, NEW size \in Nat, NEW d, \A i \in 1..l + 1 : d[i].part \in Given
  PROVE  AddThenKeep(KeptParts(d, l, size), d[l + 1].part, size) = KeptParts(d, l + 1, size)
<1> DEFINE buf == KeptParts(d, l, size)
           m == IF l < size THEN l ELSE size
           more == Append(buf, d[l + 1].part)
           lo == HgMax(1, m + 1 - size + 1)
           new == KeptParts(d, l + 1, size)
           m2 == IF l + 1 < size THEN l + 1 ELSE size
<1>1. m \in Nat /\ l + 1 \in Nat /\ \A i \in 1..l : d[i].part \in Given
  OBVIOUS
<1>2. buf \in Seq(Given) /\ Len(buf) = m
  BY <1>1, KeptIsSeq
<1>3. new \in Seq(Given) /\ Len(new) = m2
  BY <1>1, KeptIsSeq
<1>4. \A k \in 1..m : buf[k] = d[HgMax(0, l - size) + k].part
  BY DEF KeptParts
<1>5. \A k \in 1..m2 : new[k] = d[HgMax(0, l + 1 - size) + k].part
  BY DEF KeptParts
<1> HIDE DEF buf, new
<1>6. /\ more \in Seq(Given) /\ Len(more) = m + 1 /\ more[m + 1] = d[l + 1].part
      /\ \A k \in 1..m : more[k] = buf[k]
  BY <1>1, <1>2, AppendProperties
<1> HIDE DEF more
<1>7. lo \in Int /\ m + 1 - lo + 1 = m2 /\ lo >= 1 /\ m + 1 \in Int
  BY DEF HgMax
<1>8. \A k \in 1..m2 : more[lo + k - 1] = d[HgMax(0, l + 1 - size) + k].part
  <2> SUFFICES ASSUME NEW k \in 1..m2
               PROVE  more[lo + k - 1] = d[HgMax(0, l + 1 - size) + k].part
    OBVIOUS
  <2>1. CASE lo + k - 1 \in 1..m
    <3>1. HgMax(0, l - size) + (lo + k - 1) = HgMax(0, l + 1 - size) + k
      BY <2>1 DEF HgMax
    <3> QED
      BY <1>4, <1>6, <2>1, <3>1
  <2>2. CASE ~(lo + k - 1 \in 1..m)
    <3>1. lo + k - 1 = m + 1
      BY <1>7, <2>2
    <3>2. HgMax(0, l + 1 - size) + k = l + 1
      BY <3>1 DEF HgMax
    <3> QED
      BY <1>6, <3>1, <3>2
  <2> QED
    BY <2>1, <2>2
<1> HIDE DEF lo, m, m2
<1> DEFINE hi == Len(more)
<1>9. hi = m + 1 /\ hi \in Int /\ hi - lo + 1 = m2
  <2>1. hi = m + 1
    BY <1>6
  <2> HIDE DEF hi
  <2>2. m \in Nat
    BY DEF m
  <2> QED
    BY <1>7, <2>1, <2>2
<1> HIDE DEF hi
<1> DEFINE trimmed == SubSeq(more, lo, hi)
<1>10. /\ trimmed \in Seq(Given) /\ Len(trimmed) = (IF lo <= hi THEN hi - lo + 1 ELSE 0)
       /\ \A i \in 1..hi - lo + 1 : trimmed[i] = more[lo + i - 1]
  <2>1. \A i \in lo..hi : more[i] \in Given
    BY <1>6, <1>7, <1>9
  <2>2. lo \in Int
    BY <1>7
  <2> QED
    BY <1>9, <2>1, <2>2, SubSeqProperties
<1>11. m2 \in Nat
  BY DEF m2
<1> HIDE DEF trimmed
<1>12. Len(trimmed) = Len(new) /\ \A i \in 1..Len(trimmed) : trimmed[i] = new[i]
  <2>1. m \in Nat
    BY DEF m
  <2>2. Len(trimmed) = m2
    BY <1>7, <1>9, <1>10, <1>11, <2>1
  <2>3. hi - lo + 1 = m2
    BY <1>9
  <2>4. ASSUME NEW i \in 1..m2 PROVE trimmed[i] = new[i]
    <3>1. trimmed[i] = more[lo + i - 1]
      BY <1>10, <2>3
    <3>2. more[lo + i - 1] = d[HgMax(0, l + 1 - size) + i].part
      BY <1>8
    <3> QED
      BY <1>5, <3>1, <3>2
  <2> QED
    BY <1>3, <2>2, <2>4
<1>13. trimmed = new
  BY <1>3, <1>10, <1>12, SeqEqual
<1>14. AddThenKeep(buf, d[l + 1].part, size) = trimmed
  <2>1. AddThenKeep(buf, d[l + 1].part, size)
          = SubSeq(more, HgMax(1, Len(more) - size + 1), Len(more))
    BY DEF AddThenKeep, more
  <2>2. HgMax(1, Len(more) - size + 1) = lo
    BY <1>1, <1>6 DEF lo, HgMax, m
  <2> QED
    BY <2>1, <2>2 DEF trimmed, hi
<1> QED
  BY <1>13, <1>14 DEF buf, new

LEMMA PtStart == ASSUME HiggsSpeechAssumption, PartsInit PROVE PtInv(job)
<1>1. PICK mode \in {"long", "dialogue"}, rolling \in BOOLEAN, b \in Buffers,
           turns \in UNION {[1..n -> Voices2 \cup {NoVoice2}] : n \in 1..Parts} :
        job = [kind |-> "parts", at |-> "part", mode |-> mode, rolling |-> rolling,
           buffer |-> b, turns |-> turns, part |-> 1, buf |-> <<>>,
           prev |-> [v \in Voices2 |-> 0], done |-> <<>>, gaps |-> 0, ok |-> FALSE]
  BY DEF PartsInit
<1>2. turns \in Seq(Voices2 \union {NoVoice2})
  <2>1. PICK n \in 1..Parts : turns \in [1..n -> Voices2 \cup {NoVoice2}]
    BY <1>1
  <2>2. n \in Nat
    BY DEF HiggsSpeechAssumption
  <2> QED
    BY <2>1, <2>2
<1>3. /\ b \in Nat /\ <<>> \in Seq(Given) /\ <<>> \in Seq(DoneParts) /\ Len(<<>>) = 0
      /\ [v \in Voices2 |-> 0] \in [Voices2 -> Nat] /\ 1 \in Nat \ {0} /\ 0 \in Nat
  BY DEF HiggsSpeechAssumption
<1>4. job \in PtJobs
  BY <1>1, <1>2, <1>3, Zenon DEF PtJobs
<1>5. /\ job.done = <<>> /\ job.buf = <<>> /\ job.buffer = b /\ job.gaps = 0
      /\ job.prev = [v \in Voices2 |-> 0]
  BY <1>1
<1>6. InOrder(job)
  BY <1>3, <1>5 DEF InOrder
<1>7. KeptParts(<<>>, 0, b) = <<>>
  <2>1. KeptParts(<<>>, 0, b) \in Seq(Given) /\ Len(KeptParts(<<>>, 0, b)) = 0
    <3>1. 0 \in Nat /\ \A i \in 1..0 : (<<>>)[i].part \in Given
      OBVIOUS
    <3> QED
      BY <1>3, <3>1, KeptIsSeq
  <2> QED
    BY <2>1, EmptySeq
<1>8. \A v \in Voices2 : LatestTurn(job, 0, v, job.prev[v])
  BY <1>5 DEF LatestTurn
<1>9. Continued(job)
  BY <1>3, <1>5, <1>7, <1>8 DEF Continued, HgMax
<1> QED
  BY <1>4, <1>6, <1>9 DEF PtInv

\* What is said of the parts done depends on them, the turns and the way of
\* reading alone.
LEMMA RefKept ==
  ASSUME NEW j \in PtJobs, NEW k \in PtJobs, NEW i \in 1..Len(j.done), RefRight(j, i),
         k.turns = j.turns, k.mode = j.mode, k.rolling = j.rolling, k.buffer = j.buffer,
         \A l \in 1..Len(j.done) : k.done[l] = j.done[l]
  PROVE  RefRight(k, i)
<1>1. Len(j.done) \in Nat /\ i \in Nat /\ i - 1 \in Nat /\ j.buffer \in Nat
  BY DEF PtJobs
<1>2. \A l \in 1..i - 1 : l \in 1..Len(j.done)
  BY <1>1
<1>3. KeptParts(k.done, i - 1, j.buffer) = KeptParts(j.done, i - 1, j.buffer)
  <2> DEFINE m == i - 1
  <2>1. m \in Nat /\ SameUpto(k.done, j.done, m)
    BY <1>1, <1>2 DEF SameUpto
  <2> HIDE DEF m
  <2>2. KeptParts(k.done, m, j.buffer) = KeptParts(j.done, m, j.buffer)
    <3>1. j.buffer \in Nat
      BY <1>1
    <3> QED
      BY <2>1, <3>1, KeptSame, SMTT(30)
  <2> QED
    BY <2>2 DEF m
<1>4. k.done[i] = j.done[i]
  OBVIOUS
<1>5. ASSUME NEW v, NEW b, LatestTurn(j, i - 1, v, b) PROVE LatestTurn(k, i - 1, v, b)
  BY <1>2, <1>5 DEF LatestTurn
<1> QED
  BY <1>3, <1>4, <1>5 DEF RefRight

LEMMA PtMoves ==
  ASSUME HiggsSpeechAssumption, PtInv(job), PartSkipped \/ PartsEnd
  PROVE  PtInv(job')
<1>1. job \in PtJobs /\ InOrder(job) /\ Continued(job) /\ job.part \in Nat \ {0}
  BY DEF PtInv, PtJobs
<1>2. /\ job' \in PtJobs
      /\ job'.mode = job.mode /\ job'.rolling = job.rolling /\ job'.buffer = job.buffer
      /\ job'.turns = job.turns /\ job'.buf = job.buf /\ job'.prev = job.prev
      /\ job'.done = job.done /\ job'.gaps = job.gaps /\ job'.part >= job.part
  <2>1. CASE PartSkipped
    <3>1. job' = [job EXCEPT !.part = job.part + 1] /\ job.part + 1 \in Nat \ {0}
      BY <1>1, <2>1 DEF PartSkipped
    <3>2. job' \in PtJobs
      BY <1>1, <3>1, Zenon DEF PtJobs
    <3>3. job'.rolling = job.rolling
      BY <1>1, <3>1 DEF PtJobs
    <3>4. job'.part = job.part + 1
      BY <1>1, <3>1 DEF PtJobs
    <3>5. job'.part >= job.part
      BY <1>1, <3>4
    <3> QED
      BY <1>1, <3>1, <3>2, <3>3, <3>5 DEF PtJobs
  <2>2. CASE PartsEnd
    <3> DEFINE ok == job.mode = "long" \/ job.done # <<>>
    <3>1. job' = [job EXCEPT !.at = "end", !.ok = ok] /\ ok \in BOOLEAN
      BY <2>2, Zenon DEF PartsEnd
    <3> HIDE DEF ok
    <3>2. job' \in PtJobs
      BY <1>1, <3>1, Zenon DEF PtJobs
    <3> QED
      BY <1>1, <3>1, <3>2 DEF PtJobs
  <2> QED
    BY <2>1, <2>2
<1>3. InOrder(job')
  <2>1. \A i \in 1..Len(job.done) : job.done[i].part < job'.part
    <3>1. \A i \in 1..Len(job.done) : job.done[i].part \in Nat
      <4>1. \A i \in 1..Len(job.done) : job.done[i] \in DoneParts
        BY <1>1, ElementOfSeq DEF PtJobs
      <4> QED
        BY <4>1 DEF DoneParts
    <3>2. job'.part \in Nat
      BY <1>2 DEF PtJobs
    <3> QED
      BY <1>1, <1>2, <3>1, <3>2 DEF InOrder
  <2> QED
    BY <1>1, <1>2, <2>1 DEF InOrder
<1>4. Continued(job')
  <2>1. \A i \in 1..Len(job.done) : RefRight(job', i)
    <3>1. \A i \in 1..Len(job.done) : RefRight(job, i)
      BY <1>1 DEF Continued
    <3> QED
      BY <1>1, <1>2, <3>1, RefKept
  <2>2. \A l, v, b : LatestTurn(job, l, v, b) => LatestTurn(job', l, v, b)
    BY <1>2 DEF LatestTurn
  <2> QED
    BY <1>1, <1>2, <2>1, <2>2 DEF Continued
<1> QED
  BY <1>2, <1>3, <1>4 DEF PtInv

\* A part that is rendered continues what it should, and is what the next one
\* continues.
LEMMA PtRenders ==
  ASSUME HiggsSpeechAssumption, PtInv(job), PartRendered
  PROVE  PtInv(job')
<1> DEFINE L == Len(job.done)
           k == job.part
           v == job.turns[k]
           d == [part |-> k, ref |-> RefOf(job)]
           done == Append(job.done, d)
           gaps == IF job.mode = "dialogue" /\ job.done # <<>> THEN job.gaps + 1 ELSE job.gaps
           buf == IF job.mode = "long" THEN AddThenKeep(job.buf, k, job.buffer) ELSE job.buf
           prev == IF job.mode = "dialogue" /\ job.rolling
                   THEN [job.prev EXCEPT ![v] = k] ELSE job.prev
<1>1. /\ job \in PtJobs /\ InOrder(job) /\ Continued(job)
      /\ job.mode \in {"long", "dialogue"} /\ k \in Nat \ {0} /\ L \in Nat /\ job.buffer \in Nat
      /\ job.gaps \in Nat /\ job.done \in Seq(DoneParts) /\ job.prev \in [Voices2 -> Nat]
      /\ job.buf \in Seq(Given) /\ Len(job.turns) \in Nat
  BY DEF PtInv, PtJobs
<1>2. /\ k \in 1..Len(job.turns)
      /\ job.mode = "dialogue" => v \in Voices2
      /\ v \in Given
  <2>1. k \in 1..Len(job.turns)
    BY <1>1 DEF PartRendered, PastLast
  <2>2. v \in Voices2 \union {NoVoice2}
    BY <1>1, <2>1 DEF PtJobs
  <2> QED
    BY <2>1, <2>2 DEF PartRendered, Skipped, Given
<1>3. job' = [job EXCEPT !.part = k + 1, !.done = done, !.gaps = gaps, !.buf = buf, !.prev = prev]
  <2> DEFINE j == [job EXCEPT !.part = @ + 1, !.done = Append(@, d),
                     !.gaps = IF job.mode = "dialogue" /\ job.done # <<>> THEN @ + 1 ELSE @]
  <2>1. job' = IF job.mode = "long" THEN [j EXCEPT !.buf = AddThenKeep(@, k, job.buffer)]
               ELSE IF job.rolling THEN [j EXCEPT !.prev[v] = k] ELSE j
    BY DEF PartRendered
  <2>2. j = [job EXCEPT !.part = k + 1, !.done = done, !.gaps = gaps]
    BY <1>1 DEF PtJobs
  <2>3. CASE job.mode = "long"
    <3>1. buf = AddThenKeep(job.buf, k, job.buffer) /\ prev = job.prev
      BY <2>3
    <3> HIDE DEF done, gaps, j, buf, prev
    <3>2. j.buf = job.buf
      BY <1>1, <2>2 DEF PtJobs
    <3>3. job' = [j EXCEPT !.buf = buf]
      BY <2>1, <2>2, <2>3, <3>1, <3>2 DEF PtJobs
    <3> QED
      BY <1>1, <2>2, <3>1, <3>3 DEF PtJobs
  <2>4. CASE job.mode = "dialogue" /\ job.rolling
    <3>1. prev = [job.prev EXCEPT ![v] = k] /\ buf = job.buf
      BY <2>4
    <3> HIDE DEF done, gaps, j, buf, prev
    <3>2. j.prev = job.prev
      BY <1>1, <2>2 DEF PtJobs
    <3>3. job' = [j EXCEPT !.prev = prev]
      BY <2>1, <2>2, <2>4, <3>1, <3>2 DEF PtJobs
    <3> QED
      BY <1>1, <2>2, <3>1, <3>3 DEF PtJobs
  <2>5. CASE job.mode = "dialogue" /\ ~job.rolling
    <3>1. prev = job.prev /\ buf = job.buf
      BY <2>5
    <3>2. job' = j
      BY <2>1, <2>5
    <3> HIDE DEF done, gaps, j, buf, prev
    <3> QED
      BY <1>1, <2>2, <3>1, <3>2 DEF PtJobs
  <2> QED
    BY <1>1, <2>3, <2>4, <2>5
<1>4. RefOf(job) \in Seq(Given)
  <2>1. CASE job.mode = "long"
    BY <1>1, <2>1 DEF RefOf
  <2>2. CASE job.mode # "long"
    <3> DEFINE tail == IF job.rolling /\ PrevOf(job, v) # 0 THEN <<PrevOf(job, v)>> ELSE <<>>
    <3>1. RefOf(job) = <<v>> \o tail
      BY <2>2 DEF RefOf
    <3>2. <<v>> \in Seq(Given)
      BY <1>2
    <3>3. job.prev[v] \in Nat /\ job.prev[v] \in Given
      BY <1>1, <1>2, <2>2 DEF Given
    <3>4. tail \in Seq(Given)
      BY <3>3 DEF PrevOf
    <3> HIDE DEF tail, v
    <3> QED
      BY <3>1, <3>2, <3>4, ConcatProperties
  <2> QED
    BY <2>1, <2>2
<1>5. /\ d \in DoneParts /\ d.part = k /\ d.ref = RefOf(job)
  BY <1>1, <1>4 DEF DoneParts
<1> HIDE DEF d
<1>6. /\ done \in Seq(DoneParts) /\ Len(done) = L + 1 /\ done[L + 1] = d
      /\ \A i \in 1..L : done[i] = job.done[i]
  BY <1>1, <1>5, AppendProperties
<1> HIDE DEF done
<1>7. \A i \in 1..L + 1 : done[i].part \in Nat /\ done[i].part \in Given
  <2>1. \A i \in 1..Len(done) : done[i] \in DoneParts
    BY <1>6, ElementOfSeq
  <2> QED
    BY <1>6, <2>1 DEF DoneParts, Given
<1>8. job.mode = "long" =>
        /\ RefOf(job) = KeptParts(done, L, job.buffer)
        /\ buf = KeptParts(done, L + 1, job.buffer)
  <2> SUFFICES ASSUME job.mode = "long"
               PROVE  /\ RefOf(job) = KeptParts(done, L, job.buffer)
                      /\ buf = KeptParts(done, L + 1, job.buffer)
    OBVIOUS
  <2>1. job.buf = KeptParts(job.done, L, job.buffer) /\ RefOf(job) = job.buf
    BY <1>1 DEF Continued, RefOf
  <2>2. KeptParts(done, L, job.buffer) = KeptParts(job.done, L, job.buffer)
    <3>1. L \in Nat /\ job.buffer \in Nat /\ SameUpto(done, job.done, L)
      BY <1>1, <1>6 DEF SameUpto
    <3> QED
      BY <3>1, KeptSame
  <2>3. AddThenKeep(KeptParts(done, L, job.buffer), done[L + 1].part, job.buffer)
          = KeptParts(done, L + 1, job.buffer)
    BY <1>1, <1>7, KeptGrows
  <2> QED
    BY <1>5, <1>6, <2>1, <2>2, <2>3
<1>9. buf \in Seq(Given)
  <2>1. L + 1 \in Nat
    BY <1>1
  <2>2. KeptParts(done, L + 1, job.buffer) \in Seq(Given)
    BY <1>1, <1>7, <2>1, KeptIsSeq
  <2> QED
    BY <1>1, <1>8, <2>2
<1>10. /\ gaps \in Nat
       /\ job.mode = "dialogue" => gaps = HgMax(0, L)
  <2>1. job.mode = "dialogue" => job.gaps = HgMax(0, L - 1)
    BY <1>1 DEF Continued
  <2>2. job.done # <<>> <=> L > 0
    BY <1>1
  <2> QED
    BY <1>1, <2>1, <2>2 DEF HgMax
<1>11. prev \in [Voices2 -> Nat]
  BY <1>1, <1>2
<1> HIDE DEF buf, gaps
<1>12. job' \in PtJobs
  <2>1. k + 1 \in Nat \ {0}
    BY <1>1
  <2> HIDE DEF prev
  <2> QED
    BY <1>1, <1>3, <1>6, <1>9, <1>10, <1>11, <2>1, Zenon DEF PtJobs
<1>13. /\ job'.mode = job.mode /\ job'.rolling = job.rolling /\ job'.buffer = job.buffer
       /\ job'.turns = job.turns /\ job'.buf = buf /\ job'.prev = prev
       /\ job'.done = done /\ job'.gaps = gaps /\ job'.part = k + 1
  <2> HIDE DEF prev
  <2> QED
    BY <1>1, <1>3 DEF PtJobs
<1>14. InOrder(job')
  <2>1. \A i \in 1..L : /\ done[i].part \in 1..Len(job.turns) /\ done[i].part < k
                        /\ \A l \in 1..L : i < l => done[i].part < done[l].part
    BY <1>1, <1>6 DEF InOrder
  <2>2. done[L + 1].part = k
    BY <1>5, <1>6
  <2>0. \A i \in 1..L + 1 : i \in 1..L \/ i = L + 1
    BY <1>1
  <2>3. ASSUME NEW i \in 1..L + 1
        PROVE  done[i].part \in 1..Len(job.turns) /\ done[i].part < k + 1
    <3>1. CASE i \in 1..L
      BY <1>1, <1>7, <2>1, <3>1
    <3>2. CASE i = L + 1
      BY <1>1, <1>2, <2>2, <3>2
    <3> QED
      BY <2>0, <3>1, <3>2
  <2>4. ASSUME NEW i \in 1..L + 1, NEW l \in 1..L + 1, i < l
        PROVE  done[i].part < done[l].part
    <3>0. i \in 1..L
      BY <1>1, <2>4
    <3>1. CASE l \in 1..L
      BY <2>1, <2>4, <3>0, <3>1
    <3>2. CASE l = L + 1
      BY <2>1, <2>2, <3>0, <3>2
    <3> QED
      BY <2>0, <3>1, <3>2
  <2> QED
    BY <1>6, <1>13, <2>3, <2>4 DEF InOrder
<1>15. ASSUME NEW i \in 1..L PROVE RefRight(job', i)
  <2>1. RefRight(job, i)
    BY <1>1 DEF Continued
  <2> QED
    BY <1>1, <1>6, <1>12, <1>13, <2>1, RefKept
<1>16. \A voice, b : LatestTurn(job, L, voice, b) => LatestTurn(job', L, voice, b)
  BY <1>6, <1>13 DEF LatestTurn
<1>17. RefRight(job', L + 1)
  <2>1. done[L + 1].part = k /\ done[L + 1].ref = RefOf(job) /\ (L + 1) - 1 = L
    BY <1>1, <1>5, <1>6
  <2>2. CASE job.mode = "long"
    BY <1>8, <1>13, <2>1, <2>2 DEF RefRight
  <2>3. CASE job.mode = "dialogue"
    <3> DEFINE b == job.prev[v]
    <3>1. job.rolling => LatestTurn(job', L, v, b)
      BY <1>1, <1>2, <1>16, <2>3 DEF Continued
    <3>2. RefOf(job) = <<v>> \o (IF job.rolling /\ b # 0 THEN <<b>> ELSE <<>>)
      BY <2>3 DEF RefOf, PrevOf
    <3>3. job'.turns[job'.done[L + 1].part] = v
      BY <1>13, <2>1
    <3> HIDE DEF v, b
    <3>4. \E x : /\ job'.rolling => LatestTurn(job', (L + 1) - 1, v, x)
                 /\ job'.done[L + 1].ref = <<v>> \o (IF job'.rolling /\ x # 0 THEN <<x>> ELSE <<>>)
      BY <1>13, <2>1, <3>1, <3>2
    <3> QED
      BY <1>13, <2>3, <3>3, <3>4 DEF RefRight
  <2> QED
    BY <1>1, <2>2, <2>3
<1>18. job.mode = "dialogue" /\ job.rolling =>
         \A voice \in Voices2 : LatestTurn(job', L + 1, voice, prev[voice])
  <2> SUFFICES ASSUME job.mode = "dialogue", job.rolling, NEW voice \in Voices2
               PROVE  LatestTurn(job', L + 1, voice, prev[voice])
    OBVIOUS
  <2>1. LatestTurn(job', L, voice, job.prev[voice])
    BY <1>1, <1>16 DEF Continued
  <2>2. /\ prev = [job.prev EXCEPT ![v] = k] /\ v \in Voices2
        /\ done[L + 1].part = k /\ job'.turns[k] = v
        /\ \A i \in 1..L : done[i].part < k
    BY <1>1, <1>2, <1>5, <1>6, <1>13 DEF InOrder
  <2> HIDE DEF v, prev
  <2>3. CASE voice = v
    <3>1. prev[voice] = k
      BY <1>1, <2>2, <2>3
    <3>2. ASSUME NEW i \in 1..L + 1 PROVE done[i].part <= k
      <4>1. i \in 1..L \/ i = L + 1
        BY <1>1
      <4> QED
        BY <1>1, <1>7, <2>2, <4>1, SMTT(30)
    <3>3. L + 1 \in 1..L + 1
      BY <1>1
    <3> QED
      BY <1>1, <1>13, <2>2, <2>3, <3>1, <3>2, <3>3 DEF LatestTurn
  <2>4. CASE voice # v
    <3>1. prev[voice] = job.prev[voice]
      BY <1>1, <2>2, <2>4
    <3>2. ASSUME NEW i \in 1..L + 1 PROVE i \in 1..L \/ job'.done[i].part = k
      <4>1. i \in 1..L \/ i = L + 1
        BY <1>1
      <4> QED
        BY <1>13, <2>2, <4>1
    <3>3. \A i \in 1..L : i \in 1..L + 1
      BY <1>1
    <3> QED
      BY <2>1, <2>2, <2>4, <3>1, <3>2, <3>3 DEF LatestTurn
  <2> QED
    BY <2>3, <2>4
<1>19. Continued(job')
  <2>1. \A i \in 1..Len(job'.done) : RefRight(job', i)
    <3>1. \A i \in 1..L + 1 : i \in 1..L \/ i = L + 1
      BY <1>1
    <3> QED
      BY <1>6, <1>13, <1>15, <1>17, <3>1
  <2>2. Len(job'.done) = L + 1 /\ (L + 1) - 1 = L
    BY <1>1, <1>6, <1>13
  <2> HIDE DEF prev
  <2> QED
    BY <1>8, <1>10, <1>13, <1>18, <2>1, <2>2 DEF Continued
<1> QED
  BY <1>12, <1>14, <1>19 DEF PtInv

LEMMA PtContinue == ASSUME PtInv(job) PROVE PartsContinue
<1>1. job \in PtJobs /\ InOrder(job) /\ Continued(job) /\ job.done \in Seq(DoneParts)
  BY DEF PtInv, PtJobs
<1>2. /\ Len(job.done) \in Nat /\ DOMAIN job.done = 1..Len(job.done)
      /\ \A i \in 1..Len(job.done) : job.done[i].part \in Nat
  <2>1. \A i \in 1..Len(job.done) : job.done[i] \in DoneParts
    BY <1>1, ElementOfSeq
  <2> QED
    BY <1>1, <2>1 DEF DoneParts
<1>3. job.mode = "dialogue" => job.gaps = HgMax(0, Len(job.done) - 1)
  BY <1>1 DEF Continued
<1> DEFINE d(i) == job.done[i]
           before(i) == {job.done[k].part : k \in 1..i - 1}
           own(i) == {b \in before(i) : job.turns[b] = job.turns[d(i).part]}
<1>4. ASSUME NEW i \in 1..Len(job.done)
      PROVE  /\ \A b \in before(i) : b < d(i).part
             /\ job.mode = "long" => d(i).ref = KeptParts(job.done, i - 1, job.buffer)
             /\ job.mode = "dialogue" =>
                  d(i).ref = <<job.turns[d(i).part]>>
                    \o (IF job.rolling /\ own(i) # {}
                        THEN <<CHOOSE b \in own(i) : \A a \in own(i) : a <= b>> ELSE <<>>)
  <2>1. \A k \in 1..i - 1 : k \in 1..Len(job.done) /\ k < i
    BY <1>2
  <2>2. \A b \in before(i) : b < d(i).part
    BY <1>1, <2>1 DEF InOrder
  <2>3. RefRight(job, i)
    BY <1>1 DEF Continued
  <2>4. ASSUME job.mode = "dialogue"
        PROVE  d(i).ref = <<job.turns[d(i).part]>>
                    \o (IF job.rolling /\ own(i) # {}
                        THEN <<CHOOSE b \in own(i) : \A a \in own(i) : a <= b>> ELSE <<>>)
    <3>1. PICK b : /\ job.rolling => LatestTurn(job, i - 1, job.turns[d(i).part], b)
                   /\ d(i).ref = <<job.turns[d(i).part]>>
                                   \o (IF job.rolling /\ b # 0 THEN <<b>> ELSE <<>>)
      BY <2>3, <2>4 DEF RefRight
    <3>2. ASSUME job.rolling
          PROVE  /\ own(i) # {} <=> b # 0
                 /\ b # 0 => b = CHOOSE x \in own(i) : \A a \in own(i) : a <= x
      <4>1. LatestTurn(job, i - 1, job.turns[d(i).part], b)
        BY <3>1, <3>2
      <4>2. b \in Nat /\ \A x \in own(i) : x <= b
        BY <4>1 DEF LatestTurn
      <4>3. b # 0 => b \in own(i)
        BY <4>1 DEF LatestTurn
      <4>4. \A x \in own(i) : x \in 1..Len(job.turns)
        BY <1>1, <2>1 DEF InOrder
      <4> HIDE DEF own
      <4>5. own(i) # {} => b # 0
        BY <4>2, <4>4
      <4>6. ASSUME b # 0 PROVE b = CHOOSE x \in own(i) : \A a \in own(i) : a <= x
        <5> DEFINE x == CHOOSE x \in own(i) : \A a \in own(i) : a <= x
        <5>1. b \in own(i) /\ \A a \in own(i) : a <= b
          BY <4>2, <4>3, <4>6
        <5>2. x \in own(i) /\ \A a \in own(i) : a <= x
          BY <5>1
        <5>3. x <= b /\ b <= x /\ x \in Int /\ b \in Int
          BY <4>4, <5>1, <5>2
        <5> QED
          BY <5>3
      <4> QED
        BY <4>3, <4>5, <4>6
    <3> HIDE DEF own, d
    <3>3. CASE job.rolling
      BY <3>1, <3>2, <3>3
    <3>4. CASE ~job.rolling
      BY <3>1, <3>4
    <3> QED
      BY <3>3, <3>4
  <2>5. job.mode = "long" => d(i).ref = KeptParts(job.done, i - 1, job.buffer)
    BY <2>3 DEF RefRight
  <2> QED
    BY <2>2, <2>4, <2>5
<1> QED
  BY <1>2, <1>3, <1>4 DEF PartsContinue, KeptParts

\* Whatever is drawn, of however many codebooks, and however a reading is parted:
\* the codes kept are each its codebook's and its frame's, the pieces of a stream
\* tile its frames and none is longer than a block and what is held back, a part
\* continues the chunks or the turn it should.
THEOREM SpeechKept == HiggsSpec => []SpeechIntact
<1> DEFINE Inv == HgInv(job) \/ PtInv(job)
<1>1. HiggsInit \/ PartsInit => Inv
  BY HgStart, PtStart, HiggsSpeechAssumption
<1>2. Inv /\ [HiggsNext]_job => Inv'
  <2>1. ASSUME HgInv(job), HiggsNext PROVE HgInv(job')
    <3>1. job.kind = "higgs"
      BY <2>1 DEF HgInv, HgJobs
    <3> QED
      BY <2>1, <3>1, HgDrawKeeps, HgStopKeeps, HgFinishKeeps, HiggsSpeechAssumption
         DEF HiggsNext, PartSkipped, PartRendered, PartsEnd, Kind
  <2>2. ASSUME PtInv(job), HiggsNext PROVE PtInv(job')
    <3>1. job.kind = "parts"
      BY <2>2 DEF PtInv, PtJobs
    <3> QED
      BY <2>2, <3>1, PtMoves, PtRenders, HiggsSpeechAssumption
         DEF HiggsNext, HiggsDraw, HiggsStop, HiggsFails, HiggsFinish, Kind
  <2>3. ASSUME UNCHANGED job PROVE HgInv(job)' = HgInv(job) /\ PtInv(job)' = PtInv(job)
    BY <2>3
  <2> QED
    BY <2>1, <2>2, <2>3
<1>3. Inv => SpeechIntact
  <2>1. HgInv(job) => job.kind = "higgs"
    BY DEF HgInv, HgJobs
  <2>2. PtInv(job) => job.kind = "parts"
    BY DEF PtInv, PtJobs
  <2>3. HgInv(job) => PartsContinue
    BY <2>1 DEF PartsContinue
  <2>4. PtInv(job) => KeptCodesAligned /\ StreamTiled
    BY <2>2 DEF KeptCodesAligned, StreamTiled
  <2> QED
    BY <2>3, <2>4, HgAligned, HgTiled, PtContinue DEF SpeechIntact
<1> QED
  BY <1>1, <1>2, <1>3, PTL DEF HiggsSpec
=============================================================================
