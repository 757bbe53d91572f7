--------------------------- MODULE SessionService ---------------------------
(***************************************************************************)
(* What the server needs of a worker session, whatever the engine behind   *)
(* it: a worker that is down, starting or up, and calls made on it one at  *)
(* a time. A call gets a number of its own and ends in one of two ways:    *)
(* it delivers the one answer made for it, or it fails and the worker is   *)
(* down. A call is never given another call's answer and nothing is left   *)
(* over for the next call.                                                 *)
(***************************************************************************)
EXTENDS Naturals

CONSTANTS Callers, Nobody

VARIABLES
  holder,   \* the caller inside the session, or Nobody
  worker,   \* "down", "starting", "up"
  next,     \* number of the next call
  call,     \* number of the call being served, or 0
  answer    \* numbers of the calls whose answer awaits delivery

vars == <<holder, worker, next, call, answer>>

Init ==
  /\ holder = Nobody /\ worker = "down"
  /\ next = 1 /\ call = 0 /\ answer = {}

\* A worker for another configuration replaces the one that is there.
Start(c) ==
  /\ holder = Nobody /\ holder' = c
  /\ worker' = "starting"
  /\ UNCHANGED <<next, call, answer>>

Started ==
  /\ worker = "starting" /\ worker' = "up"
  /\ holder' = Nobody
  /\ UNCHANGED <<next, call, answer>>

Call(c) ==
  /\ holder = Nobody /\ worker = "up"
  /\ holder' = c
  /\ call' = next /\ next' = next + 1
  /\ UNCHANGED <<worker, answer>>

Answer ==
  /\ call # 0 /\ answer = {}
  /\ answer' = {call}
  /\ UNCHANGED <<holder, worker, next, call>>

Deliver ==
  /\ call # 0 /\ answer = {call}
  /\ holder' = Nobody /\ call' = 0 /\ answer' = {}
  /\ UNCHANGED <<worker, next>>

\* Also a call that fails before it reached the worker.
Fail ==
  /\ holder' = Nobody /\ worker' = "down"
  /\ call' = 0 /\ answer' = {}
  /\ \/ UNCHANGED next
     \/ holder = Nobody /\ worker = "up" /\ next' = next + 1

Next ==
  \/ \E c \in Callers : Start(c) \/ Call(c)
  \/ Started \/ Answer \/ Deliver \/ Fail

Spec == Init /\ [][Next]_vars
=============================================================================
