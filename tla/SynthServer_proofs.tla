--------------------------- MODULE SynthServer_proofs ---------------------------
(***************************************************************************)
(* Theorems about SynthServer, for every number of handler threads and of  *)
(* requests, both deployments and either start: the model is there when a  *)
(* section calls it, a stream is cut by its own client alone and reads its *)
(* own synthesis, and a synthesis is not disturbed.                        *)
(*                                                                         *)
(* The argument: who holds a mutex follows from where the threads are      *)
(* (Mutual, AlignerHeld), and a section's steps are taken by requests of   *)
(* its kind (KindPlaces). Whatever unloads or relocates the model holds    *)
(* synth_mutex, or waits for io_mutex_, which a synthesis of the worker    *)
(* holds; so what ensure_loaded and clear_cancel have left stays as it is  *)
(* until the section has used it (ModelThere, CancelOwn, ReadsOwn).        *)
(***************************************************************************)
EXTENDS SynthServer, FiniteSetTheorems, TLAPS

\* The places between Lock and Release.
Inside == {"ensure", "prepare", "alock", "aensure", "akill", "start", "synth",
           "finish", "use", "release"}

Mutual ==
  /\ \A h \in Handlers : pc[h] \in Inside <=> synthMutex = Thread(h)
  /\ idle \in {"unload", "aligner"} <=> synthMutex = Idler

AlignerHeld ==
  /\ \A h \in Handlers :
       /\ alignerMutex = Thread(h) =>
            pc[h] \in {"aensure", "akill", "start", "synth", "finish"}
       /\ pc[h] \in {"aensure", "akill"} => alignerMutex = Thread(h)
       /\ alignerMutex = Thread(h) /\ pc[h] \in {"start", "synth"} => alignerUp
       /\ alignerMutex = Eager(h) <=> eager[h] = "load"

\* Which requests come to which places.
KindPlaces ==
  \A h \in Handlers :
    /\ pc[h] = "begin" => Kind(h) \in Speech
    /\ pc[h] = "rensure" => isolated /\ Kind(h) \in Register
    /\ pc[h] \in {"ensure", "lock", "use", "release"} => Kind(h) \in Kinds
    /\ pc[h] = "ensure" => ~SkipsEnsure(Kind(h))
    /\ job[h].aligned => isolated
    /\ pc[h] = "prepare" => Kind(h) = "stream"
    /\ pc[h] = "aensure" => Kind(h) = "stream" /\ isolated
    /\ pc[h] = "alock" => Kind(h) \in {"stream", "unload"} /\ isolated
    /\ pc[h] = "akill" => Kind(h) = "unload" /\ isolated
    /\ pc[h] \in {"start", "synth", "finish", "leave", "save"} => Kind(h) \in Speech
    /\ pc[h] = "use" => Kind(h) \in Register \cup {"unload"}

ModelThere == CallsFindModel

CancelOwn ==
  \A h \in Handlers :
    ~isolated /\ Kind(h) = "stream" /\ pc[h] \in {"alock", "aensure", "start", "synth"}
      => cancelFlag \in {0, job[h].req}

ReadsOwn ==
  \A h \in Handlers :
    /\ pc[h] = "synth" => lastSynth = job[h].req
    /\ pc[h] = "finish" /\ ~job[h].failed => lastSynth = job[h].req

\* A request has its eager thread only while it is counted.
JoinedInTime ==
  \A h \in Handlers :
    eager[h] # "none" =>
      Kind(h) \in Speech /\ pc[h] \notin {"idle", "begin", "save"}

\* The requests in in_flight_synths.
Counted ==
  {h \in Handlers : Kind(h) \in Speech /\ pc[h] \notin {"idle", "begin", "save"}}
InFlightCounted == inFlight = Cardinality(Counted)

\* TypeOK, but for the bound of in_flight_synths.
Jobs == [kind : Kinds \cup {"none"}, req : 0..MaxRequests,
         aligned : BOOLEAN, fired : BOOLEAN, failed : BOOLEAN]

Typed ==
  /\ isolated \in BOOLEAN
  /\ pc \in [Handlers -> PCs]
  /\ job \in [Handlers -> Jobs]
  /\ eager \in [Handlers -> {"none", "lock", "load"}]
  /\ served \in 0..MaxRequests
  /\ synthMutex \in Holders /\ alignerMutex \in Holders
  /\ recent \in BOOLEAN
  /\ model \in {"none", "ready", "elsewhere"}
  /\ cancelFlag \in 0..MaxRequests /\ lastSynth \in 0..MaxRequests
  /\ alignerUp \in BOOLEAN
  /\ idle \in {"sleep", "try", "unload", "aligner"}

IInv ==
  /\ Typed /\ KindPlaces /\ Mutual /\ AlignerHeld
  /\ ModelThere /\ CancelOwn /\ ReadsOwn /\ JoinedInTime /\ InFlightCounted

-----------------------------------------------------------------------------
(* The count.                                                              *)

\* A handler that is counted, and one that is no longer.
LEMMA CountedFinite ==
  /\ IsFiniteSet(Counted) /\ Cardinality(Counted) \in Nat
  /\ Cardinality(Counted) <= Cardinality(Handlers)
<1>1. IsFiniteSet(Handlers) /\ Counted \subseteq Handlers
  BY ServerAssumption DEF Counted
<1> QED
  BY <1>1, FS_Subset, FS_CardinalityType

LEMMA OneMore ==
  ASSUME NEW h \in Handlers, h \notin Counted, Counted' = Counted \cup {h},
         InFlightCounted, inFlight' = inFlight + 1
  PROVE  InFlightCounted'
BY CountedFinite, FS_AddElement DEF InFlightCounted

LEMMA OneLess ==
  ASSUME NEW h \in Handlers, h \in Counted, Counted' = Counted \ {h},
         InFlightCounted, inFlight' = inFlight - 1
  PROVE  InFlightCounted'
BY CountedFinite, FS_RemoveElement DEF InFlightCounted

LEMMA SameCount ==
  ASSUME Counted' = Counted, InFlightCounted, UNCHANGED inFlight
  PROVE  InFlightCounted'
BY DEF InFlightCounted

-----------------------------------------------------------------------------
(* What a step does to a request's job.                                    *)

\* A request that fails, or does not.
LEMMA JobFailed ==
  ASSUME Typed, NEW h \in Handlers, NEW b \in BOOLEAN,
         job' = [job EXCEPT ![h].failed = b]
  PROVE  job' \in [Handlers -> Jobs]
BY Zenon DEF Typed, Jobs

\* A request that goes on to its next section.
LEMMA JobMoved ==
  ASSUME Typed, NEW h \in Handlers, NEW k \in Kinds,
         job' = [job EXCEPT ![h].kind = k]
  PROVE  job' \in [Handlers -> Jobs]
BY Zenon DEF Typed, Jobs

\* A request that is answered.
LEMMA JobGone ==
  ASSUME Typed, NEW h \in Handlers, job' = [job EXCEPT ![h] = NoJob]
  PROVE  job' \in [Handlers -> Jobs]
<1>1. 0 \in 0..MaxRequests
  BY ServerAssumption
<1>2. NoJob \in Jobs
  BY <1>1, Zenon DEF NoJob, Job, Jobs
<1> QED
  BY <1>2, Zenon DEF Typed

-----------------------------------------------------------------------------
(* One lemma for each action.                                              *)

\* A request comes in at the first place of its kind.
LEMMA ArriveIInv ==
  ASSUME IInv, NEW h \in Handlers, Arrive(h)
  PROVE  IInv'
<1> USE DEF IInv, Arrive, Goto, Job, NoJob, Entry, FirstSections, mutexes,
   clock, modelVars
<1>1. Typed'
  BY ServerAssumption DEF Typed, Jobs, PCs, Kinds, Speech, Register, Admin,
     Holders, Nobody, Idler, Thread, Eager, Holder
<1>2. KindPlaces'
  BY DEF Typed, Jobs, KindPlaces, Kind, Kinds, Speech, Register, Admin,
     SkipsEnsure
<1>3. Mutual' /\ AlignerHeld'
  BY DEF Typed, Jobs, Mutual, AlignerHeld, JoinedInTime, Inside, Kind,
     KindPlaces, Nobody, Idler, Thread, Eager, Holder
<1>4. ModelThere' /\ CancelOwn' /\ ReadsOwn'
  BY DEF Typed, Jobs, KindPlaces, Mutual, Inside, ModelThere, CallsFindModel,
     CancelOwn, ReadsOwn, Kind, Speech, Register, Loaded, Thread, Idler, Holder
<1>5. JoinedInTime'
  BY DEF Typed, Jobs, KindPlaces, Mutual, Inside, Kind, Kinds, Speech,
     Register, Admin, JoinedInTime, JoinsEager
<1>6. Counted' = Counted /\ UNCHANGED inFlight
  BY DEF Typed, Jobs, KindPlaces, Counted, Kind, Kinds, Speech, Register, Admin
<1> QED
  BY <1>1, <1>2, <1>3, <1>4, <1>5, <1>6, SameCount

\* A request is counted.
LEMMA BeginIInv ==
  ASSUME IInv, NEW h \in Handlers, Begin(h)
  PROVE  IInv'
<1> USE DEF IInv, Begin, Goto, mutexes
<1>1. Typed'
  BY ServerAssumption DEF Typed, Jobs, PCs, Kinds, Speech, Register, Admin,
     Holders, Nobody, Idler, Thread, Eager, Holder
<1>2. KindPlaces'
  BY DEF Typed, Jobs, KindPlaces, Kind, Kinds, Speech, Register, Admin,
     SkipsEnsure
<1>3. Mutual' /\ AlignerHeld'
  BY DEF Typed, Jobs, Mutual, AlignerHeld, JoinedInTime, Inside, Kind,
     KindPlaces, Nobody, Idler, Thread, Eager, Holder
<1>4. ModelThere' /\ CancelOwn' /\ ReadsOwn'
  BY DEF Typed, Jobs, KindPlaces, Mutual, Inside, ModelThere, CallsFindModel,
     CancelOwn, ReadsOwn, Kind, Speech, Register, Loaded, Thread, Idler, Holder
<1>5. JoinedInTime'
  BY DEF Typed, Jobs, KindPlaces, Mutual, Inside, Kind, Kinds, Speech,
     Register, Admin, JoinedInTime, JoinsEager
<1>6. InFlightCounted'
  <2>1. h \notin Counted /\ inFlight' = inFlight + 1
    BY DEF KindPlaces, Counted, Kind, Speech, Uncounts
  <2>2. Counted' = Counted \cup {h}
    BY DEF Typed, Jobs, KindPlaces, Counted, Kind, Kinds, Speech, Register, Admin
  <2> QED
    BY <2>1, <2>2, OneMore
<1> QED
  BY <1>1, <1>2, <1>3, <1>4, <1>5, <1>6

\* The worker is loaded while no synthesis runs.
LEMMA RegisterEnsureIInv ==
  ASSUME IInv, NEW h \in Handlers, RegisterEnsure(h)
  PROVE  IInv'
<1> USE DEF IInv, RegisterEnsure, Goto, Return, Job, NoJob, IoFree, mutexes,
   clock
<1>0. job' \in [Handlers -> Jobs]
  <2>1. CASE UNCHANGED job
    BY <2>1 DEF Typed
  <2>2. CASE job' = [job EXCEPT ![h] = NoJob]
    BY <2>2, JobGone
  <2> QED
    BY <2>1, <2>2
<1>1. Typed'
  BY <1>0, ServerAssumption DEF Typed, Jobs, PCs, Kinds, Speech, Register,
     Admin, Holders, Nobody, Idler, Thread, Eager, Holder
<1>2. KindPlaces'
  BY DEF Typed, Jobs, KindPlaces, Kind, Kinds, Speech, Register, Admin,
     SkipsEnsure
<1>3. Mutual' /\ AlignerHeld'
  BY DEF Typed, Jobs, Mutual, AlignerHeld, JoinedInTime, Inside, Kind,
     KindPlaces, Nobody, Idler, Thread, Eager, Holder
<1>4. ModelThere' /\ CancelOwn' /\ ReadsOwn'
  BY DEF Typed, Jobs, KindPlaces, Mutual, Inside, ModelThere, CallsFindModel,
     CancelOwn, ReadsOwn, Kind, Speech, Register, Loaded, Thread, Idler, Holder
<1>5. JoinedInTime'
  BY DEF Typed, Jobs, KindPlaces, Mutual, Inside, Kind, Kinds, Speech,
     Register, Admin, JoinedInTime, JoinsEager
<1>6. Counted' = Counted /\ UNCHANGED inFlight
  BY DEF Typed, Jobs, KindPlaces, Counted, Kind, Kinds, Speech, Register, Admin
<1> QED
  BY <1>1, <1>2, <1>3, <1>4, <1>5, <1>6, SameCount

\* synth_mutex is taken.
LEMMA LockIInv ==
  ASSUME IInv, NEW h \in Handlers, Lock(h)
  PROVE  IInv'
<1> USE DEF IInv, Lock, Goto, SkipsEnsure, clock, modelVars
<1>1. Typed'
  BY ServerAssumption DEF Typed, Jobs, PCs, Kinds, Speech, Register, Admin,
     Holders, Nobody, Idler, Thread, Eager, Holder
<1>2. KindPlaces'
  BY DEF Typed, Jobs, KindPlaces, Kind, Kinds, Speech, Register, Admin,
     SkipsEnsure
<1>3. Mutual' /\ AlignerHeld'
  BY DEF Typed, Jobs, Mutual, AlignerHeld, JoinedInTime, Inside, Kind,
     KindPlaces, Nobody, Idler, Thread, Eager, Holder
<1>4. ModelThere' /\ CancelOwn' /\ ReadsOwn'
  BY DEF Typed, Jobs, KindPlaces, Mutual, Inside, ModelThere, CallsFindModel,
     CancelOwn, ReadsOwn, Kind, Speech, Register, Loaded, Thread, Idler, Holder
<1>5. JoinedInTime'
  BY DEF Typed, Jobs, KindPlaces, Mutual, Inside, Kind, Kinds, Speech,
     Register, Admin, JoinedInTime, JoinsEager
<1>6. Counted' = Counted /\ UNCHANGED inFlight
  BY DEF Typed, Jobs, KindPlaces, Counted, Kind, Kinds, Speech, Register, Admin
<1> QED
  BY <1>1, <1>2, <1>3, <1>4, <1>5, <1>6, SameCount

\* The holder of synth_mutex loads the model.
LEMMA EnsureIInv ==
  ASSUME IInv, NEW h \in Handlers, Ensure(h)
  PROVE  IInv'
<1> USE DEF IInv
<1>1. /\ pc[h] = "ensure" /\ recent' \in BOOLEAN
      /\ UNCHANGED <<isolated, eager, served, synthMutex, alignerMutex, inFlight,
                      cancelFlag, lastSynth, alignerUp, idle>>
      /\ \/ model' = "ready" /\ Goto(h, AfterEnsure(Kind(h))) /\ UNCHANGED job
         \/ model' = "none" /\ Goto(h, "release") /\ Fail(h)
  <2>1. recent' \in BOOLEAN
    BY Zenon DEF Ensure, Typed
  <2> QED
    BY <2>1, Zenon DEF Ensure, mutexes
<1>2. ASSUME model' = "ready", Goto(h, AfterEnsure(Kind(h))), UNCHANGED job
     PROVE  IInv'
  <2> USE DEF Kind
  <2>a. \E l \in {"prepare", "start", "use", "release"} :
          /\ pc' = [pc EXCEPT ![h] = l]
          /\ l = "prepare" => Kind(h) = "stream"
          /\ l = "start" => Kind(h) = "whole"
          /\ l = "use" => Kind(h) \in Register
          /\ Kind(h) \in Kinds
    BY <1>1, <1>2 DEF KindPlaces, SkipsEnsure, Kinds, Speech, Register, Admin,
       AfterEnsure, Goto
  <2>0. job' \in [Handlers -> Jobs]
    BY <1>1, <1>2 DEF Typed
  <2>1. Typed'
    BY <1>1, <1>2, <2>a, <2>0, ServerAssumption DEF Typed, Jobs, PCs, Kinds, Speech,
       Register, Admin, Holders, Nobody, Idler, Thread, Eager, Holder
  <2>2. KindPlaces'
    BY <1>1, <1>2, <2>a DEF Typed, Jobs, KindPlaces, Kind, Kinds, Speech, Register,
       Admin, SkipsEnsure
  <2>3. Mutual' /\ AlignerHeld'
    BY <1>1, <1>2, <2>a DEF Typed, Jobs, Mutual, AlignerHeld, JoinedInTime, Inside,
       Kind, KindPlaces, Nobody, Idler, Thread, Eager, Holder
  <2>4. ModelThere' /\ CancelOwn' /\ ReadsOwn'
    BY <1>1, <1>2, <2>a DEF Typed, Jobs, KindPlaces, Mutual, Inside, ModelThere,
       CallsFindModel, CancelOwn, ReadsOwn, Kind, Speech, Register, Loaded,
       Thread, Idler, Holder
  <2>5. JoinedInTime'
    BY <1>1, <1>2, <2>a DEF Typed, Jobs, KindPlaces, Mutual, Inside, Kind, Kinds,
       Speech, Register, Admin, JoinedInTime, JoinsEager
  <2>6. Counted' = Counted /\ UNCHANGED inFlight
    BY <1>1, <1>2, <2>a DEF Typed, Jobs, KindPlaces, Counted, Kind, Kinds, Speech,
       Register, Admin
  <2> QED
    BY <2>1, <2>2, <2>3, <2>4, <2>5, <2>6, SameCount
<1>3. ASSUME model' = "none", Goto(h, "release"), Fail(h)
     PROVE  IInv'
  <2> USE DEF Goto, Fail
  <2>0. job' \in [Handlers -> Jobs]
    BY <1>1, <1>3, JobFailed DEF Fail
  <2>1. Typed'
    BY <1>1, <1>3, <2>0, ServerAssumption DEF Typed, Jobs, PCs, Kinds, Speech,
       Register, Admin, Holders, Nobody, Idler, Thread, Eager, Holder
  <2>2. KindPlaces'
    BY <1>1, <1>3 DEF Typed, Jobs, KindPlaces, Kind, Kinds, Speech, Register,
       Admin, SkipsEnsure
  <2>3. Mutual' /\ AlignerHeld'
    BY <1>1, <1>3 DEF Typed, Jobs, Mutual, AlignerHeld, JoinedInTime, Inside,
       Kind, KindPlaces, Nobody, Idler, Thread, Eager, Holder
  <2>4. ModelThere' /\ CancelOwn' /\ ReadsOwn'
    BY <1>1, <1>3 DEF Typed, Jobs, KindPlaces, Mutual, Inside, ModelThere,
       CallsFindModel, CancelOwn, ReadsOwn, Kind, Speech, Register, Loaded,
       Thread, Idler, Holder
  <2>5. JoinedInTime'
    BY <1>1, <1>3 DEF Typed, Jobs, KindPlaces, Mutual, Inside, Kind, Kinds,
       Speech, Register, Admin, JoinedInTime, JoinsEager
  <2>6. Counted' = Counted /\ UNCHANGED inFlight
    BY <1>1, <1>3 DEF Typed, Jobs, KindPlaces, Counted, Kind, Kinds, Speech,
       Register, Admin
  <2> QED
    BY <2>1, <2>2, <2>3, <2>4, <2>5, <2>6, SameCount
<1> QED
  BY <1>1, <1>2, <1>3

\* synth_mutex is given back.
LEMMA ReleaseIInv ==
  ASSUME IInv, NEW h \in Handlers, Release(h)
  PROVE  IInv'
<1> USE DEF IInv
<1>1. /\ pc[h] = "release" /\ synthMutex' = Nobody
      /\ UNCHANGED <<isolated, eager, served, alignerMutex, inFlight, recent,
                      model, cancelFlag, lastSynth, alignerUp, idle>>
      /\ \/ Kind(h) \in Speech /\ Goto(h, "leave") /\ UNCHANGED job
         \/ Kind(h) \notin Speech /\ Return(h)
         \/ \E k \in NextSections(Kind(h)) :
              /\ job' = [job EXCEPT ![h].kind = k]
              /\ Goto(h, IF k \in Speech THEN "begin" ELSE "lock")
  BY Zenon DEF Release, clock, modelVars
<1>2. ASSUME Kind(h) \in Speech, Goto(h, "leave"), UNCHANGED job
     PROVE  IInv'
  <2> USE DEF Goto
  <2>0. job' \in [Handlers -> Jobs]
    BY <1>1, <1>2 DEF Typed
  <2>1. Typed'
    BY <1>1, <1>2, <2>0, ServerAssumption DEF Typed, Jobs, PCs, Kinds, Speech,
       Register, Admin, Holders, Nobody, Idler, Thread, Eager, Holder
  <2>2. KindPlaces'
    BY <1>1, <1>2 DEF Typed, Jobs, KindPlaces, Kind, Kinds, Speech, Register,
       Admin, SkipsEnsure
  <2>3. Mutual' /\ AlignerHeld'
    BY <1>1, <1>2 DEF Typed, Jobs, Mutual, AlignerHeld, JoinedInTime, Inside,
       Kind, KindPlaces, Nobody, Idler, Thread, Eager, Holder
  <2>4. ModelThere' /\ CancelOwn' /\ ReadsOwn'
    BY <1>1, <1>2 DEF Typed, Jobs, KindPlaces, Mutual, Inside, ModelThere,
       CallsFindModel, CancelOwn, ReadsOwn, Kind, Speech, Register, Loaded,
       Thread, Idler, Holder
  <2>5. JoinedInTime'
    BY <1>1, <1>2 DEF Typed, Jobs, KindPlaces, Mutual, Inside, Kind, Kinds,
       Speech, Register, Admin, JoinedInTime, JoinsEager
  <2>6. Counted' = Counted /\ UNCHANGED inFlight
    BY <1>1, <1>2 DEF Typed, Jobs, KindPlaces, Counted, Kind, Kinds, Speech,
       Register, Admin
  <2> QED
    BY <2>1, <2>2, <2>3, <2>4, <2>5, <2>6, SameCount
<1>3. ASSUME Kind(h) \notin Speech, Return(h)
     PROVE  IInv'
  <2> USE DEF Return, Goto, NoJob, Job
  <2>0. job' \in [Handlers -> Jobs]
    BY <1>1, <1>3, JobGone DEF Return
  <2>1. Typed'
    BY <1>1, <1>3, <2>0, ServerAssumption DEF Typed, Jobs, PCs, Kinds, Speech,
       Register, Admin, Holders, Nobody, Idler, Thread, Eager, Holder
  <2>2. KindPlaces'
    BY <1>1, <1>3 DEF Typed, Jobs, KindPlaces, Kind, Kinds, Speech, Register,
       Admin, SkipsEnsure
  <2>3. Mutual' /\ AlignerHeld'
    BY <1>1, <1>3 DEF Typed, Jobs, Mutual, AlignerHeld, JoinedInTime, Inside,
       Kind, KindPlaces, Nobody, Idler, Thread, Eager, Holder
  <2>4. ModelThere' /\ CancelOwn' /\ ReadsOwn'
    BY <1>1, <1>3 DEF Typed, Jobs, KindPlaces, Mutual, Inside, ModelThere,
       CallsFindModel, CancelOwn, ReadsOwn, Kind, Speech, Register, Loaded,
       Thread, Idler, Holder
  <2>5. JoinedInTime'
    BY <1>1, <1>3 DEF Typed, Jobs, KindPlaces, Mutual, Inside, Kind, Kinds,
       Speech, Register, Admin, JoinedInTime, JoinsEager
  <2>6. Counted' = Counted /\ UNCHANGED inFlight
    BY <1>1, <1>3 DEF Typed, Jobs, KindPlaces, Counted, Kind, Kinds, Speech,
       Register, Admin
  <2> QED
    BY <2>1, <2>2, <2>3, <2>4, <2>5, <2>6, SameCount
<1>4. ASSUME NEW k \in NextSections(Kind(h)),
            job' = [job EXCEPT ![h].kind = k],
            Goto(h, IF k \in Speech THEN "begin" ELSE "lock")
     PROVE  IInv'
  <2> USE DEF Goto, NextSections
  <2>0. job' \in [Handlers -> Jobs]
    BY <1>1, <1>4, JobMoved DEF NextSections, Kinds, Speech, Register
  <2>1. Typed'
    BY <1>1, <1>4, <2>0, ServerAssumption DEF Typed, Jobs, PCs, Kinds, Speech,
       Register, Admin, Holders, Nobody, Idler, Thread, Eager, Holder
  <2>2. KindPlaces'
    BY <1>1, <1>4 DEF Typed, Jobs, KindPlaces, Kind, Kinds, Speech, Register,
       Admin, SkipsEnsure
  <2>3. Mutual' /\ AlignerHeld'
    BY <1>1, <1>4 DEF Typed, Jobs, Mutual, AlignerHeld, JoinedInTime, Inside,
       Kind, KindPlaces, Nobody, Idler, Thread, Eager, Holder
  <2>4. ModelThere' /\ CancelOwn' /\ ReadsOwn'
    BY <1>1, <1>4 DEF Typed, Jobs, KindPlaces, Mutual, Inside, ModelThere,
       CallsFindModel, CancelOwn, ReadsOwn, Kind, Speech, Register, Loaded,
       Thread, Idler, Holder
  <2>5. JoinedInTime'
    BY <1>1, <1>4 DEF Typed, Jobs, KindPlaces, Mutual, Inside, Kind, Kinds,
       Speech, Register, Admin, JoinedInTime, JoinsEager
  <2>6. Counted' = Counted /\ UNCHANGED inFlight
    BY <1>1, <1>4 DEF Typed, Jobs, KindPlaces, Counted, Kind, Kinds, Speech,
       Register, Admin
  <2> QED
    BY <2>1, <2>2, <2>3, <2>4, <2>5, <2>6, SameCount
<1> QED
  BY <1>1, <1>2, <1>3, <1>4

\* The holder of synth_mutex clears the cancel flag.
LEMMA PrepareIInv ==
  ASSUME IInv, NEW h \in Handlers, Prepare(h)
  PROVE  IInv'
<1> USE DEF IInv, Prepare, Goto, Fail, ClearCancel, mutexes, clock
<1>0. job' \in [Handlers -> Jobs]
  <2>1. CASE UNCHANGED job
    BY <2>1 DEF Typed
  <2>2. CASE job' = [job EXCEPT ![h].failed = TRUE]
    BY <2>2, JobFailed
  <2> QED
    BY <2>1, <2>2
<1>1. Typed'
  BY <1>0, ServerAssumption DEF Typed, Jobs, PCs, Kinds, Speech, Register,
     Admin, Holders, Nobody, Idler, Thread, Eager, Holder
<1>2. KindPlaces'
  BY DEF Typed, Jobs, KindPlaces, Kind, Kinds, Speech, Register, Admin,
     SkipsEnsure
<1>3. Mutual' /\ AlignerHeld'
  BY DEF Typed, Jobs, Mutual, AlignerHeld, JoinedInTime, Inside, Kind,
     KindPlaces, Nobody, Idler, Thread, Eager, Holder
<1>4. ModelThere' /\ CancelOwn' /\ ReadsOwn'
  BY DEF Typed, Jobs, KindPlaces, Mutual, Inside, ModelThere, CallsFindModel,
     CancelOwn, ReadsOwn, Kind, Speech, Register, Loaded, Thread, Idler, Holder
<1>5. JoinedInTime'
  BY DEF Typed, Jobs, KindPlaces, Mutual, Inside, Kind, Kinds, Speech,
     Register, Admin, JoinedInTime, JoinsEager
<1>6. Counted' = Counted /\ UNCHANGED inFlight
  BY DEF Typed, Jobs, KindPlaces, Counted, Kind, Kinds, Speech, Register, Admin
<1> QED
  BY <1>1, <1>2, <1>3, <1>4, <1>5, <1>6, SameCount

\* aligner_session_mutex is taken.
LEMMA AlignerLockIInv ==
  ASSUME IInv, NEW h \in Handlers, AlignerLock(h)
  PROVE  IInv'
<1> USE DEF IInv, AlignerLock, Goto, clock, modelVars
<1>1. Typed'
  BY ServerAssumption DEF Typed, Jobs, PCs, Kinds, Speech, Register, Admin,
     Holders, Nobody, Idler, Thread, Eager, Holder
<1>2. KindPlaces'
  BY DEF Typed, Jobs, KindPlaces, Kind, Kinds, Speech, Register, Admin,
     SkipsEnsure
<1>3. Mutual' /\ AlignerHeld'
  BY DEF Typed, Jobs, Mutual, AlignerHeld, JoinedInTime, Inside, Kind,
     KindPlaces, Nobody, Idler, Thread, Eager, Holder
<1>4. ModelThere' /\ CancelOwn' /\ ReadsOwn'
  BY DEF Typed, Jobs, KindPlaces, Mutual, Inside, ModelThere, CallsFindModel,
     CancelOwn, ReadsOwn, Kind, Speech, Register, Loaded, Thread, Idler, Holder
<1>5. JoinedInTime'
  BY DEF Typed, Jobs, KindPlaces, Mutual, Inside, Kind, Kinds, Speech,
     Register, Admin, JoinedInTime, JoinsEager
<1>6. Counted' = Counted /\ UNCHANGED inFlight
  BY DEF Typed, Jobs, KindPlaces, Counted, Kind, Kinds, Speech, Register, Admin
<1> QED
  BY <1>1, <1>2, <1>3, <1>4, <1>5, <1>6, SameCount

\* The mutex is kept only with an aligner that is up.
LEMMA AlignerEnsureIInv ==
  ASSUME IInv, NEW h \in Handlers, AlignerEnsure(h)
  PROVE  IInv'
<1> USE DEF IInv, AlignerEnsure, Goto, clock, modelVars
<1>1. Typed'
  BY ServerAssumption DEF Typed, Jobs, PCs, Kinds, Speech, Register, Admin,
     Holders, Nobody, Idler, Thread, Eager, Holder
<1>2. KindPlaces'
  BY DEF Typed, Jobs, KindPlaces, Kind, Kinds, Speech, Register, Admin,
     SkipsEnsure
<1>3. Mutual' /\ AlignerHeld'
  BY DEF Typed, Jobs, Mutual, AlignerHeld, JoinedInTime, Inside, Kind,
     KindPlaces, Nobody, Idler, Thread, Eager, Holder
<1>4. ModelThere' /\ CancelOwn' /\ ReadsOwn'
  BY DEF Typed, Jobs, KindPlaces, Mutual, Inside, ModelThere, CallsFindModel,
     CancelOwn, ReadsOwn, Kind, Speech, Register, Loaded, Thread, Idler, Holder
<1>5. JoinedInTime'
  BY DEF Typed, Jobs, KindPlaces, Mutual, Inside, Kind, Kinds, Speech,
     Register, Admin, JoinedInTime, JoinsEager
<1>6. Counted' = Counted /\ UNCHANGED inFlight
  BY DEF Typed, Jobs, KindPlaces, Counted, Kind, Kinds, Speech, Register, Admin
<1> QED
  BY <1>1, <1>2, <1>3, <1>4, <1>5, <1>6, SameCount

\* The synthesis is the latest.
LEMMA StartIInv ==
  ASSUME IInv, NEW h \in Handlers, Start(h)
  PROVE  IInv'
<1> USE DEF IInv, Start, Goto, Fail, Loaded, mutexes, clock
<1>0. job' \in [Handlers -> Jobs]
  <2>1. CASE UNCHANGED job
    BY <2>1 DEF Typed
  <2>2. CASE job' = [job EXCEPT ![h].failed = TRUE]
    BY <2>2, JobFailed
  <2> QED
    BY <2>1, <2>2
<1>1. Typed'
  BY <1>0, ServerAssumption DEF Typed, Jobs, PCs, Kinds, Speech, Register,
     Admin, Holders, Nobody, Idler, Thread, Eager, Holder
<1>2. KindPlaces'
  BY DEF Typed, Jobs, KindPlaces, Kind, Kinds, Speech, Register, Admin,
     SkipsEnsure
<1>3. Mutual' /\ AlignerHeld'
  BY DEF Typed, Jobs, Mutual, AlignerHeld, JoinedInTime, Inside, Kind,
     KindPlaces, Nobody, Idler, Thread, Eager, Holder
<1>4. ModelThere' /\ CancelOwn' /\ ReadsOwn'
  BY DEF Typed, Jobs, KindPlaces, Mutual, Inside, ModelThere, CallsFindModel,
     CancelOwn, ReadsOwn, Kind, Speech, Register, Loaded, Thread, Idler, Holder
<1>5. JoinedInTime'
  BY DEF Typed, Jobs, KindPlaces, Mutual, Inside, Kind, Kinds, Speech,
     Register, Admin, JoinedInTime, JoinsEager
<1>6. Counted' = Counted /\ UNCHANGED inFlight
  BY DEF Typed, Jobs, KindPlaces, Counted, Kind, Kinds, Speech, Register, Admin
<1> QED
  BY <1>1, <1>2, <1>3, <1>4, <1>5, <1>6, SameCount

\* Only the stream that holds synth_mutex is cancelled.
LEMMA DispatchCancelIInv ==
  ASSUME IInv, NEW h \in Handlers, DispatchCancel(h)
  PROVE  IInv'
<1> USE DEF IInv, DispatchCancel, mutexes, clock
<1>0. job' \in [Handlers -> Jobs]
  BY Zenon DEF Typed, Jobs
<1>1. Typed'
  BY <1>0, ServerAssumption DEF Typed, Jobs, PCs, Kinds, Speech, Register,
     Admin, Holders, Nobody, Idler, Thread, Eager, Holder
<1>2. KindPlaces'
  BY DEF Typed, Jobs, KindPlaces, Kind, Kinds, Speech, Register, Admin,
     SkipsEnsure
<1>3. Mutual' /\ AlignerHeld'
  BY DEF Typed, Jobs, Mutual, AlignerHeld, JoinedInTime, Inside, Kind,
     KindPlaces, Nobody, Idler, Thread, Eager, Holder
<1>4. ModelThere' /\ CancelOwn' /\ ReadsOwn'
  BY DEF Typed, Jobs, KindPlaces, Mutual, Inside, ModelThere, CallsFindModel,
     CancelOwn, ReadsOwn, Kind, Speech, Register, Loaded, Thread, Idler, Holder
<1>5. JoinedInTime'
  BY DEF Typed, Jobs, KindPlaces, Mutual, Inside, Kind, Kinds, Speech,
     Register, Admin, JoinedInTime, JoinsEager
<1>6. Counted' = Counted /\ UNCHANGED inFlight
  BY DEF Typed, Jobs, KindPlaces, Counted, Kind, Kinds, Speech, Register, Admin
<1> QED
  BY <1>1, <1>2, <1>3, <1>4, <1>5, <1>6, SameCount

\* A failure may have killed the worker.
LEMMA SynthEndsIInv ==
  ASSUME IInv, NEW h \in Handlers, SynthEnds(h)
  PROVE  IInv'
<1> USE DEF IInv, SynthEnds, CallEnds, Goto, Loaded, mutexes, clock
<1>0. job' \in [Handlers -> Jobs]
  <2>1. PICK ok \in BOOLEAN : job' = [job EXCEPT ![h].failed = ~ok]
    OBVIOUS
  <2>2. (~ok) \in BOOLEAN
    BY <2>1
  <2> QED
    BY <2>1, <2>2, JobFailed
<1>1. Typed'
  BY <1>0, ServerAssumption DEF Typed, Jobs, PCs, Kinds, Speech, Register,
     Admin, Holders, Nobody, Idler, Thread, Eager, Holder
<1>2. KindPlaces'
  BY DEF Typed, Jobs, KindPlaces, Kind, Kinds, Speech, Register, Admin,
     SkipsEnsure
<1>3. Mutual' /\ AlignerHeld'
  BY DEF Typed, Jobs, Mutual, AlignerHeld, JoinedInTime, Inside, Kind,
     KindPlaces, Nobody, Idler, Thread, Eager, Holder
<1>4. ModelThere' /\ CancelOwn' /\ ReadsOwn'
  BY DEF Typed, Jobs, KindPlaces, Mutual, Inside, ModelThere, CallsFindModel,
     CancelOwn, ReadsOwn, Kind, Speech, Register, Loaded, Thread, Idler, Holder
<1>5. JoinedInTime'
  BY DEF Typed, Jobs, KindPlaces, Mutual, Inside, Kind, Kinds, Speech,
     Register, Admin, JoinedInTime, JoinsEager
<1>6. Counted' = Counted /\ UNCHANGED inFlight
  BY DEF Typed, Jobs, KindPlaces, Counted, Kind, Kinds, Speech, Register, Admin
<1> QED
  BY <1>1, <1>2, <1>3, <1>4, <1>5, <1>6, SameCount

\* aligner_session_mutex is given back.
LEMMA FinishIInv ==
  ASSUME IInv, NEW h \in Handlers, Finish(h)
  PROVE  IInv'
<1> USE DEF IInv, Finish, Goto, clock, modelVars
<1>1. Typed'
  BY ServerAssumption DEF Typed, Jobs, PCs, Kinds, Speech, Register, Admin,
     Holders, Nobody, Idler, Thread, Eager, Holder
<1>2. KindPlaces'
  BY DEF Typed, Jobs, KindPlaces, Kind, Kinds, Speech, Register, Admin,
     SkipsEnsure
<1>3. Mutual' /\ AlignerHeld'
  BY DEF Typed, Jobs, Mutual, AlignerHeld, JoinedInTime, Inside, Kind,
     KindPlaces, Nobody, Idler, Thread, Eager, Holder
<1>4. ModelThere' /\ CancelOwn' /\ ReadsOwn'
  BY DEF Typed, Jobs, KindPlaces, Mutual, Inside, ModelThere, CallsFindModel,
     CancelOwn, ReadsOwn, Kind, Speech, Register, Loaded, Thread, Idler, Holder
<1>5. JoinedInTime'
  BY DEF Typed, Jobs, KindPlaces, Mutual, Inside, Kind, Kinds, Speech,
     Register, Admin, JoinedInTime, JoinsEager
<1>6. Counted' = Counted /\ UNCHANGED inFlight
  BY DEF Typed, Jobs, KindPlaces, Counted, Kind, Kinds, Speech, Register, Admin
<1> QED
  BY <1>1, <1>2, <1>3, <1>4, <1>5, <1>6, SameCount

\* The request is no longer counted.
LEMMA LeaveIInv ==
  ASSUME IInv, NEW h \in Handlers, Leave(h)
  PROVE  IInv'
<1> USE DEF IInv, Leave, Goto, Return, Job, NoJob, Uncounts, mutexes, modelVars
<1>0. job' \in [Handlers -> Jobs]
  <2>1. CASE UNCHANGED job
    BY <2>1 DEF Typed
  <2>2. CASE job' = [job EXCEPT ![h] = NoJob]
    BY <2>2, JobGone
  <2> QED
    BY <2>1, <2>2
<1>1. Typed'
  BY <1>0, ServerAssumption DEF Typed, Jobs, PCs, Kinds, Speech, Register,
     Admin, Holders, Nobody, Idler, Thread, Eager, Holder
<1>2. KindPlaces'
  BY DEF Typed, Jobs, KindPlaces, Kind, Kinds, Speech, Register, Admin,
     SkipsEnsure
<1>3. Mutual' /\ AlignerHeld'
  BY DEF Typed, Jobs, Mutual, AlignerHeld, JoinedInTime, Inside, Kind,
     KindPlaces, Nobody, Idler, Thread, Eager, Holder
<1>4. ModelThere' /\ CancelOwn' /\ ReadsOwn'
  BY DEF Typed, Jobs, KindPlaces, Mutual, Inside, ModelThere, CallsFindModel,
     CancelOwn, ReadsOwn, Kind, Speech, Register, Loaded, Thread, Idler, Holder
<1>5. JoinedInTime'
  BY DEF Typed, Jobs, KindPlaces, Mutual, Inside, Kind, Kinds, Speech,
     Register, Admin, JoinedInTime, JoinsEager
<1>6. InFlightCounted'
  <2>1. h \in Counted /\ inFlight' = inFlight - 1
    BY DEF KindPlaces, Counted, Kind, Speech, Uncounts
  <2>2. Counted' = Counted \ {h}
    BY DEF Typed, Jobs, KindPlaces, Counted, Kind, Kinds, Speech, Register, Admin
  <2> QED
    BY <2>1, <2>2, OneLess
<1> QED
  BY <1>1, <1>2, <1>3, <1>4, <1>5, <1>6

\* A call outside the lock, while no synthesis of the worker runs.
LEMMA SaveIInv ==
  ASSUME IInv, NEW h \in Handlers, Save(h)
  PROVE  IInv'
<1> USE DEF IInv, Save, Goto, Return, Job, NoJob, CallEnds, Loaded, IoFree,
   mutexes, clock
<1>1. Typed'
  BY ServerAssumption DEF Typed, Jobs, PCs, Kinds, Speech, Register, Admin,
     Holders, Nobody, Idler, Thread, Eager, Holder
<1>2. KindPlaces'
  BY DEF Typed, Jobs, KindPlaces, Kind, Kinds, Speech, Register, Admin,
     SkipsEnsure
<1>3. Mutual' /\ AlignerHeld'
  BY DEF Typed, Jobs, Mutual, AlignerHeld, JoinedInTime, Inside, Kind,
     KindPlaces, Nobody, Idler, Thread, Eager, Holder
<1>4. ModelThere' /\ CancelOwn' /\ ReadsOwn'
  BY DEF Typed, Jobs, KindPlaces, Mutual, Inside, ModelThere, CallsFindModel,
     CancelOwn, ReadsOwn, Kind, Speech, Register, Loaded, Thread, Idler, Holder
<1>5. JoinedInTime'
  BY DEF Typed, Jobs, KindPlaces, Mutual, Inside, Kind, Kinds, Speech,
     Register, Admin, JoinedInTime, JoinsEager
<1>6. Counted' = Counted /\ UNCHANGED inFlight
  BY DEF Typed, Jobs, KindPlaces, Counted, Kind, Kinds, Speech, Register, Admin
<1> QED
  BY <1>1, <1>2, <1>3, <1>4, <1>5, <1>6, SameCount

\* A call of the holder of synth_mutex.
LEMMA UseIInv ==
  ASSUME IInv, NEW h \in Handlers, Use(h)
  PROVE  IInv'
<1> USE DEF IInv, Use, CallEnds, Goto, Loaded, mutexes, clock
<1>0. job' \in [Handlers -> Jobs]
  <2>1. PICK ok \in BOOLEAN, goesOn \in BOOLEAN :
          job' = [job EXCEPT ![h].failed = ~ok /\ ~goesOn]
    OBVIOUS
  <2>2. (~ok /\ ~goesOn) \in BOOLEAN
    BY <2>1
  <2> QED
    BY <2>1, <2>2, JobFailed
<1>1. Typed'
  BY <1>0, ServerAssumption DEF Typed, Jobs, PCs, Kinds, Speech, Register,
     Admin, Holders, Nobody, Idler, Thread, Eager, Holder
<1>2. KindPlaces'
  BY DEF Typed, Jobs, KindPlaces, Kind, Kinds, Speech, Register, Admin,
     SkipsEnsure
<1>3. Mutual' /\ AlignerHeld'
  BY DEF Typed, Jobs, Mutual, AlignerHeld, JoinedInTime, Inside, Kind,
     KindPlaces, Nobody, Idler, Thread, Eager, Holder
<1>4. ModelThere' /\ CancelOwn' /\ ReadsOwn'
  BY DEF Typed, Jobs, KindPlaces, Mutual, Inside, ModelThere, CallsFindModel,
     CancelOwn, ReadsOwn, Kind, Speech, Register, Loaded, Thread, Idler, Holder
<1>5. JoinedInTime'
  BY DEF Typed, Jobs, KindPlaces, Mutual, Inside, Kind, Kinds, Speech,
     Register, Admin, JoinedInTime, JoinsEager
<1>6. Counted' = Counted /\ UNCHANGED inFlight
  BY DEF Typed, Jobs, KindPlaces, Counted, Kind, Kinds, Speech, Register, Admin
<1> QED
  BY <1>1, <1>2, <1>3, <1>4, <1>5, <1>6, SameCount

\* An unload of the holder of synth_mutex.
LEMMA AdminUnloadIInv ==
  ASSUME IInv, NEW h \in Handlers, AdminUnload(h)
  PROVE  IInv'
<1> USE DEF IInv, AdminUnload, Goto, mutexes, clock
<1>1. Typed'
  BY ServerAssumption DEF Typed, Jobs, PCs, Kinds, Speech, Register, Admin,
     Holders, Nobody, Idler, Thread, Eager, Holder
<1>2. KindPlaces'
  BY DEF Typed, Jobs, KindPlaces, Kind, Kinds, Speech, Register, Admin,
     SkipsEnsure
<1>3. Mutual' /\ AlignerHeld'
  BY DEF Typed, Jobs, Mutual, AlignerHeld, JoinedInTime, Inside, Kind,
     KindPlaces, Nobody, Idler, Thread, Eager, Holder
<1>4. ModelThere' /\ CancelOwn' /\ ReadsOwn'
  BY DEF Typed, Jobs, KindPlaces, Mutual, Inside, ModelThere, CallsFindModel,
     CancelOwn, ReadsOwn, Kind, Speech, Register, Loaded, Thread, Idler, Holder
<1>5. JoinedInTime'
  BY DEF Typed, Jobs, KindPlaces, Mutual, Inside, Kind, Kinds, Speech,
     Register, Admin, JoinedInTime, JoinsEager
<1>6. Counted' = Counted /\ UNCHANGED inFlight
  BY DEF Typed, Jobs, KindPlaces, Counted, Kind, Kinds, Speech, Register, Admin
<1> QED
  BY <1>1, <1>2, <1>3, <1>4, <1>5, <1>6, SameCount

\* The aligner is killed by the holder of its mutex.
LEMMA AdminKillsAlignerIInv ==
  ASSUME IInv, NEW h \in Handlers, AdminKillsAligner(h)
  PROVE  IInv'
<1> USE DEF IInv, AdminKillsAligner, Goto, clock, modelVars
<1>1. Typed'
  BY ServerAssumption DEF Typed, Jobs, PCs, Kinds, Speech, Register, Admin,
     Holders, Nobody, Idler, Thread, Eager, Holder
<1>2. KindPlaces'
  BY DEF Typed, Jobs, KindPlaces, Kind, Kinds, Speech, Register, Admin,
     SkipsEnsure
<1>3. Mutual' /\ AlignerHeld'
  BY DEF Typed, Jobs, Mutual, AlignerHeld, JoinedInTime, Inside, Kind,
     KindPlaces, Nobody, Idler, Thread, Eager, Holder
<1>4. ModelThere' /\ CancelOwn' /\ ReadsOwn'
  BY DEF Typed, Jobs, KindPlaces, Mutual, Inside, ModelThere, CallsFindModel,
     CancelOwn, ReadsOwn, Kind, Speech, Register, Loaded, Thread, Idler, Holder
<1>5. JoinedInTime'
  BY DEF Typed, Jobs, KindPlaces, Mutual, Inside, Kind, Kinds, Speech,
     Register, Admin, JoinedInTime, JoinsEager
<1>6. Counted' = Counted /\ UNCHANGED inFlight
  BY DEF Typed, Jobs, KindPlaces, Counted, Kind, Kinds, Speech, Register, Admin
<1> QED
  BY <1>1, <1>2, <1>3, <1>4, <1>5, <1>6, SameCount

\* The eager thread takes the aligner's mutex.
LEMMA EagerLockIInv ==
  ASSUME IInv, NEW h \in Handlers, EagerLock(h)
  PROVE  IInv'
<1> USE DEF IInv, EagerLock, clock, modelVars
<1>1. Typed'
  BY ServerAssumption DEF Typed, Jobs, PCs, Kinds, Speech, Register, Admin,
     Holders, Nobody, Idler, Thread, Eager, Holder
<1>2. KindPlaces'
  BY DEF Typed, Jobs, KindPlaces, Kind, Kinds, Speech, Register, Admin,
     SkipsEnsure
<1>3. Mutual' /\ AlignerHeld'
  BY DEF Typed, Jobs, Mutual, AlignerHeld, JoinedInTime, Inside, Kind,
     KindPlaces, Nobody, Idler, Thread, Eager, Holder
<1>4. ModelThere' /\ CancelOwn' /\ ReadsOwn'
  BY DEF Typed, Jobs, KindPlaces, Mutual, Inside, ModelThere, CallsFindModel,
     CancelOwn, ReadsOwn, Kind, Speech, Register, Loaded, Thread, Idler, Holder
<1>5. JoinedInTime'
  BY DEF Typed, Jobs, KindPlaces, Mutual, Inside, Kind, Kinds, Speech,
     Register, Admin, JoinedInTime, JoinsEager
<1>6. Counted' = Counted /\ UNCHANGED inFlight
  BY DEF Typed, Jobs, KindPlaces, Counted, Kind, Kinds, Speech, Register, Admin
<1> QED
  BY <1>1, <1>2, <1>3, <1>4, <1>5, <1>6, SameCount

\* The eager thread gives it back.
LEMMA EagerLoadIInv ==
  ASSUME IInv, NEW h \in Handlers, EagerLoad(h)
  PROVE  IInv'
<1> USE DEF IInv, EagerLoad, clock, modelVars
<1>1. Typed'
  BY ServerAssumption DEF Typed, Jobs, PCs, Kinds, Speech, Register, Admin,
     Holders, Nobody, Idler, Thread, Eager, Holder
<1>2. KindPlaces'
  BY DEF Typed, Jobs, KindPlaces, Kind, Kinds, Speech, Register, Admin,
     SkipsEnsure
<1>3. Mutual' /\ AlignerHeld'
  BY DEF Typed, Jobs, Mutual, AlignerHeld, JoinedInTime, Inside, Kind,
     KindPlaces, Nobody, Idler, Thread, Eager, Holder
<1>4. ModelThere' /\ CancelOwn' /\ ReadsOwn'
  BY DEF Typed, Jobs, KindPlaces, Mutual, Inside, ModelThere, CallsFindModel,
     CancelOwn, ReadsOwn, Kind, Speech, Register, Loaded, Thread, Idler, Holder
<1>5. JoinedInTime'
  BY DEF Typed, Jobs, KindPlaces, Mutual, Inside, Kind, Kinds, Speech,
     Register, Admin, JoinedInTime, JoinsEager
<1>6. Counted' = Counted /\ UNCHANGED inFlight
  BY DEF Typed, Jobs, KindPlaces, Counted, Kind, Kinds, Speech, Register, Admin
<1> QED
  BY <1>1, <1>2, <1>3, <1>4, <1>5, <1>6, SameCount

\* Nothing is taken yet.
LEMMA IdleWakesIInv ==
  ASSUME IInv, IdleWakes
  PROVE  IInv'
<1> USE DEF IInv, IdleWakes, mutexes, clock, modelVars
<1>1. Typed'
  BY ServerAssumption DEF Typed, Jobs, PCs, Kinds, Speech, Register, Admin,
     Holders, Nobody, Idler, Thread, Eager, Holder
<1>2. KindPlaces'
  BY DEF Typed, Jobs, KindPlaces, Kind, Kinds, Speech, Register, Admin,
     SkipsEnsure
<1>3. Mutual' /\ AlignerHeld'
  BY DEF Typed, Jobs, Mutual, AlignerHeld, JoinedInTime, Inside, Kind,
     KindPlaces, Nobody, Idler, Thread, Eager, Holder
<1>4. ModelThere' /\ CancelOwn' /\ ReadsOwn'
  BY DEF Typed, Jobs, KindPlaces, Mutual, Inside, ModelThere, CallsFindModel,
     CancelOwn, ReadsOwn, Kind, Speech, Register, Loaded, Thread, Idler, Holder
<1>5. JoinedInTime'
  BY DEF Typed, Jobs, KindPlaces, Mutual, Inside, Kind, Kinds, Speech,
     Register, Admin, JoinedInTime, JoinsEager
<1>6. Counted' = Counted /\ UNCHANGED inFlight
  BY DEF Typed, Jobs, KindPlaces, Counted, Kind, Kinds, Speech, Register, Admin
<1> QED
  BY <1>1, <1>2, <1>3, <1>4, <1>5, <1>6, SameCount

\* synth_mutex is taken if it is free.
LEMMA IdleTriesIInv ==
  ASSUME IInv, IdleTries
  PROVE  IInv'
<1> USE DEF IInv, IdleTries, OwnsLock, NextTick, clock, modelVars
<1>1. Typed'
  BY ServerAssumption DEF Typed, Jobs, PCs, Kinds, Speech, Register, Admin,
     Holders, Nobody, Idler, Thread, Eager, Holder
<1>2. KindPlaces'
  BY DEF Typed, Jobs, KindPlaces, Kind, Kinds, Speech, Register, Admin,
     SkipsEnsure
<1>3. Mutual' /\ AlignerHeld'
  BY DEF Typed, Jobs, Mutual, AlignerHeld, JoinedInTime, Inside, Kind,
     KindPlaces, Nobody, Idler, Thread, Eager, Holder
<1>4. ModelThere' /\ CancelOwn' /\ ReadsOwn'
  BY DEF Typed, Jobs, KindPlaces, Mutual, Inside, ModelThere, CallsFindModel,
     CancelOwn, ReadsOwn, Kind, Speech, Register, Loaded, Thread, Idler, Holder
<1>5. JoinedInTime'
  BY DEF Typed, Jobs, KindPlaces, Mutual, Inside, Kind, Kinds, Speech,
     Register, Admin, JoinedInTime, JoinsEager
<1>6. Counted' = Counted /\ UNCHANGED inFlight
  BY DEF Typed, Jobs, KindPlaces, Counted, Kind, Kinds, Speech, Register, Admin
<1> QED
  BY <1>1, <1>2, <1>3, <1>4, <1>5, <1>6, SameCount

\* The idle thread holds synth_mutex.
LEMMA IdleUnloadsIInv ==
  ASSUME IInv, IdleUnloads
  PROVE  IInv'
<1> USE DEF IInv, IdleUnloads, mutexes, clock
<1>1. Typed'
  BY ServerAssumption DEF Typed, Jobs, PCs, Kinds, Speech, Register, Admin,
     Holders, Nobody, Idler, Thread, Eager, Holder
<1>2. KindPlaces'
  BY DEF Typed, Jobs, KindPlaces, Kind, Kinds, Speech, Register, Admin,
     SkipsEnsure
<1>3. Mutual' /\ AlignerHeld'
  BY DEF Typed, Jobs, Mutual, AlignerHeld, JoinedInTime, Inside, Kind,
     KindPlaces, Nobody, Idler, Thread, Eager, Holder
<1>4. ModelThere' /\ CancelOwn' /\ ReadsOwn'
  BY DEF Typed, Jobs, KindPlaces, Mutual, Inside, ModelThere, CallsFindModel,
     CancelOwn, ReadsOwn, Kind, Speech, Register, Loaded, Thread, Idler, Holder
<1>5. JoinedInTime'
  BY DEF Typed, Jobs, KindPlaces, Mutual, Inside, Kind, Kinds, Speech,
     Register, Admin, JoinedInTime, JoinsEager
<1>6. Counted' = Counted /\ UNCHANGED inFlight
  BY DEF Typed, Jobs, KindPlaces, Counted, Kind, Kinds, Speech, Register, Admin
<1> QED
  BY <1>1, <1>2, <1>3, <1>4, <1>5, <1>6, SameCount

\* The aligner goes only if nobody holds its mutex.
LEMMA IdleTriesAlignerIInv ==
  ASSUME IInv, IdleTriesAligner
  PROVE  IInv'
<1> USE DEF IInv, IdleTriesAligner, clock, modelVars
<1>1. Typed'
  BY ServerAssumption DEF Typed, Jobs, PCs, Kinds, Speech, Register, Admin,
     Holders, Nobody, Idler, Thread, Eager, Holder
<1>2. KindPlaces'
  BY DEF Typed, Jobs, KindPlaces, Kind, Kinds, Speech, Register, Admin,
     SkipsEnsure
<1>3. Mutual' /\ AlignerHeld'
  BY DEF Typed, Jobs, Mutual, AlignerHeld, JoinedInTime, Inside, Kind,
     KindPlaces, Nobody, Idler, Thread, Eager, Holder
<1>4. ModelThere' /\ CancelOwn' /\ ReadsOwn'
  BY DEF Typed, Jobs, KindPlaces, Mutual, Inside, ModelThere, CallsFindModel,
     CancelOwn, ReadsOwn, Kind, Speech, Register, Loaded, Thread, Idler, Holder
<1>5. JoinedInTime'
  BY DEF Typed, Jobs, KindPlaces, Mutual, Inside, Kind, Kinds, Speech,
     Register, Admin, JoinedInTime, JoinsEager
<1>6. Counted' = Counted /\ UNCHANGED inFlight
  BY DEF Typed, Jobs, KindPlaces, Counted, Kind, Kinds, Speech, Register, Admin
<1> QED
  BY <1>1, <1>2, <1>3, <1>4, <1>5, <1>6, SameCount

\* The clock.
LEMMA TickIInv ==
  ASSUME IInv, Tick
  PROVE  IInv'
<1> USE DEF IInv, Tick, mutexes, modelVars
<1>1. Typed'
  BY ServerAssumption DEF Typed, Jobs, PCs, Kinds, Speech, Register, Admin,
     Holders, Nobody, Idler, Thread, Eager, Holder
<1>2. KindPlaces'
  BY DEF Typed, Jobs, KindPlaces, Kind, Kinds, Speech, Register, Admin,
     SkipsEnsure
<1>3. Mutual' /\ AlignerHeld'
  BY DEF Typed, Jobs, Mutual, AlignerHeld, JoinedInTime, Inside, Kind,
     KindPlaces, Nobody, Idler, Thread, Eager, Holder
<1>4. ModelThere' /\ CancelOwn' /\ ReadsOwn'
  BY DEF Typed, Jobs, KindPlaces, Mutual, Inside, ModelThere, CallsFindModel,
     CancelOwn, ReadsOwn, Kind, Speech, Register, Loaded, Thread, Idler, Holder
<1>5. JoinedInTime'
  BY DEF Typed, Jobs, KindPlaces, Mutual, Inside, Kind, Kinds, Speech,
     Register, Admin, JoinedInTime, JoinsEager
<1>6. Counted' = Counted /\ UNCHANGED inFlight
  BY DEF Typed, Jobs, KindPlaces, Counted, Kind, Kinds, Speech, Register, Admin
<1> QED
  BY <1>1, <1>2, <1>3, <1>4, <1>5, <1>6, SameCount

-----------------------------------------------------------------------------
(* The invariant.                                                          *)

\* Nothing has happened yet.
LEMMA InitIInv ==
  ASSUME Init
  PROVE  IInv
<1> USE DEF Init
<1>1. 0 \in 0..MaxRequests
  BY ServerAssumption
<1>2. NoJob \in Jobs
  BY <1>1, Zenon DEF NoJob, Job, Jobs
<1>3. job \in [Handlers -> Jobs]
  BY <1>2
<1>4. Typed
  BY <1>1, <1>3, ServerAssumption DEF Typed, PCs, Holders, Nobody
<1>5. KindPlaces /\ JoinedInTime
  BY DEF KindPlaces, JoinedInTime, Kind, NoJob, Job
<1>6. Mutual /\ AlignerHeld
  BY ServerAssumption DEF Mutual, AlignerHeld, Inside, Nobody, Idler, Thread,
     Eager, Holder
<1>7. ModelThere /\ CancelOwn /\ ReadsOwn
  BY DEF ModelThere, CallsFindModel, CancelOwn, ReadsOwn
<1>8. Counted = {}
  BY DEF Counted
<1>9. InFlightCounted
  BY <1>8, FS_EmptySet DEF InFlightCounted
<1> QED
  BY <1>4, <1>5, <1>6, <1>7, <1>9 DEF IInv

\* Every step keeps it.
LEMMA NextIInv ==
  ASSUME IInv, [Next]_vars
  PROVE  IInv'
<1>1. ASSUME NEW h \in Handlers, Arrive(h) \/ HandlerStep(h) \/ DispatchCancel(h)
      PROVE  IInv'
  BY <1>1, ArriveIInv, BeginIInv, RegisterEnsureIInv, EnsureIInv, PrepareIInv,
     AlignerEnsureIInv, StartIInv, SynthEndsIInv, FinishIInv, ReleaseIInv,
     LeaveIInv, SaveIInv, UseIInv, AdminUnloadIInv, AdminKillsAlignerIInv,
     DispatchCancelIInv DEF HandlerStep
<1>2. ASSUME NEW h \in Handlers,
             Lock(h) \/ AlignerLock(h) \/ EagerLock(h) \/ EagerLoad(h)
      PROVE  IInv'
  BY <1>2, LockIInv, AlignerLockIInv, EagerLockIInv, EagerLoadIInv
<1>3. CASE IdleStep \/ Tick
  BY <1>3, IdleWakesIInv, IdleTriesIInv, IdleUnloadsIInv, IdleTriesAlignerIInv,
     TickIInv DEF IdleStep
<1>4. CASE UNCHANGED vars
  <2> USE <1>4 DEF vars, mutexes, clock, modelVars
  <2>1. Typed' /\ KindPlaces' /\ JoinedInTime'
    BY DEF IInv, Typed, KindPlaces, JoinedInTime, Kind, SkipsEnsure
  <2>2. Mutual' /\ AlignerHeld'
    BY DEF IInv, Mutual, AlignerHeld
  <2>3. ModelThere' /\ CancelOwn' /\ ReadsOwn'
    BY DEF IInv, ModelThere, CallsFindModel, CancelOwn, ReadsOwn, Kind, Loaded
  <2>4. Counted' = Counted
    BY DEF Counted, Kind
  <2> QED
    BY <2>1, <2>2, <2>3, <2>4, SameCount DEF IInv
<1> QED
  BY <1>1, <1>2, <1>3, <1>4 DEF Next

\* The invariant holds throughout.
LEMMA Invariance == Spec => []IInv
BY InitIInv, NextIInv, PTL DEF Spec

-----------------------------------------------------------------------------
(* Theorems.                                                               *)

\* Every variable keeps its type.
THEOREM TypeCorrect == Spec => []TypeOK
<1>1. ASSUME IInv PROVE TypeOK
  BY <1>1, CountedFinite, ServerAssumption, FS_CardinalityType
     DEF IInv, Typed, TypeOK, InFlightCounted, Jobs
<1> QED
  BY <1>1, Invariance, PTL

\* in_flight_synths (server.cpp:1075) is at every step the number of speech
\* requests between their InFlightGuard and its end, whichever way they leave;
\* an eager aligner thread is gone before its request is no longer counted.
THEOREM InFlightExact == Spec => [](InFlightCounted /\ JoinedInTime)
<1>1. IInv => InFlightCounted /\ JoinedInTime
  BY DEF IInv
<1> QED
  BY <1>1, Invariance, PTL

\* In process, the model that ensure_loaded_locked left is still there when
\* the section calls it, for any number of handlers beside the idle thread.
THEOREM ModelFound == Spec => []CallsFindModel
<1>1. ASSUME IInv PROVE CallsFindModel
  BY <1>1 DEF IInv, ModelThere
<1> QED
  BY <1>1, Invariance, PTL

\* A stream is cut by its own request's cancel alone, and what it reads after
\* the call has returned, under synth_mutex, is of its own synthesis.
THEOREM StreamsKept == Spec => []StreamsKeepOwn
<1>1. ASSUME IInv PROVE OwnCancelOnly
  BY <1>1 DEF IInv, CancelOwn, OwnCancelOnly
<1>2. ASSUME IInv PROVE StreamsReadOwn
  <2>1. ASSUME NEW h \in Handlers, pc[h] = "finish", NEW g \in Handlers \ {h},
               pc[g] = "synth"
        PROVE  FALSE
    BY <1>2, <2>1 DEF IInv, Mutual, Inside, Thread, Holder
  <2> QED
    BY <1>2, <2>1 DEF IInv, ReadsOwn, StreamsReadOwn, ReadsOwnSynth
<1> QED
  BY <1>1, <1>2, Invariance, PTL DEF StreamsKeepOwn

\* While a synthesis runs nobody unloads, reloads or relocates its model, and
\* nobody takes down the aligner its stream uses.
THEOREM Undisturbed == Spec => SynthUndisturbed
<1>1. ASSUME IInv, Next, NEW h \in Handlers, pc[h] = "synth", pc'[h] = "synth"
      PROVE  /\ model' = model
             /\ alignerMutex = Thread(h) => alignerUp'
  <2> USE <1>1 DEF mutexes, clock, modelVars, Goto, Return
  <2>1. alignerMutex = Thread(h) => alignerUp
    BY DEF IInv, AlignerHeld
  <2>2. /\ \A g \in Handlers : pc[g] \in Inside => g = h
        /\ idle \notin {"unload", "aligner"}
    BY DEF IInv, Mutual, Inside, Thread, Idler, Holder
  <2>3. isolated => ~IoFree
    BY DEF IoFree
  <2>4. \A g \in Handlers : pc[g] = "rensure" => isolated
    BY DEF IInv, KindPlaces
  <2>5. ASSUME NEW g \in Handlers, HandlerStep(g)
        PROVE  model' = model
    <3>1. CASE Begin(g) \/ RegisterEnsure(g) \/ Save(g)
      BY <2>3, <2>4, <3>1 DEF Begin, RegisterEnsure, Save, CallEnds
    <3>2. CASE \/ Ensure(g) \/ Use(g) \/ AdminUnload(g) \/ AdminKillsAligner(g)
               \/ Prepare(g) \/ AlignerEnsure(g) \/ Start(g) \/ SynthEnds(g)
               \/ Finish(g) \/ Release(g)
      <4>1. g # h \/ SynthEnds(g)
        BY <3>2 DEF Ensure, Use, AdminUnload, AdminKillsAligner, Prepare,
           AlignerEnsure, Start, Finish, Release
      <4>2. SynthEnds(g) => g # h
        BY DEF SynthEnds, IInv, Typed
      <4>3. pc[g] \in Inside
        BY <3>2 DEF Ensure, Use, AdminUnload, AdminKillsAligner, Prepare,
           AlignerEnsure, Start, SynthEnds, Finish, Release, Inside
      <4> QED
        BY <4>1, <4>2, <4>3, <2>2
    <3>3. CASE Leave(g)
      BY <3>3 DEF Leave
    <3> QED
      BY <2>5, <3>1, <3>2, <3>3 DEF HandlerStep
  <2>6. ASSUME NEW g \in Handlers, HandlerStep(g), alignerUp
        PROVE  alignerUp'
    <3>1. CASE AdminKillsAligner(g)
      BY <3>1, <2>2 DEF AdminKillsAligner, Inside
    <3>2. CASE AlignerEnsure(g)
      BY <3>2, <2>6 DEF AlignerEnsure
    <3>3. CASE ~AdminKillsAligner(g) /\ ~AlignerEnsure(g)
      BY <3>3, <2>6 DEF HandlerStep, Begin, RegisterEnsure, Ensure, Prepare,
         Start, SynthEnds, Finish, Release, Leave, Save, Use, AdminUnload
    <3> QED
      BY <3>1, <3>2, <3>3
  <2>7. ASSUME NEW g \in Handlers, Arrive(g) \/ DispatchCancel(g) \/ Lock(g)
               \/ AlignerLock(g) \/ EagerLock(g) \/ EagerLoad(g)
        PROVE  model' = model /\ (alignerUp => alignerUp')
    <3>1. CASE EagerLoad(g)
      <4>1. model' = model
        BY <3>1 DEF EagerLoad
      <4>2. alignerUp' \in {alignerUp, TRUE}
        BY <3>1, Zenon DEF EagerLoad
      <4>3. CASE alignerUp' = alignerUp
        BY <4>1, <4>3
      <4>4. CASE alignerUp' = TRUE
        BY <4>1, <4>4
      <4> QED
        BY <4>2, <4>3, <4>4, Zenon
    <3>2. CASE ~EagerLoad(g)
      BY <2>7, <3>2 DEF Arrive, DispatchCancel, Lock, AlignerLock,
         EagerLock
    <3> QED
      BY <3>1, <3>2
  <2>8. CASE IdleStep \/ Tick
    BY <2>8, <2>1, <2>2 DEF IdleStep, IdleWakes, IdleTries, IdleUnloads,
       IdleTriesAligner, Tick
  <2> QED
    BY <2>1, <2>5, <2>6, <2>7, <2>8 DEF Next
<1>2. ASSUME IInv, [Next]_vars
      PROVE  [\A h \in Handlers : pc[h] = "synth" /\ pc'[h] = "synth" =>
                /\ model' = model
                /\ alignerMutex = Thread(h) => alignerUp']_vars
  BY <1>1, <1>2
<1> QED
  BY <1>2, Invariance, PTL DEF Spec, SynthUndisturbed
=================================================================================
