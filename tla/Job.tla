-------------------------------- MODULE Job --------------------------------
(* The algorithms of the engines, each a small state machine of its own,    *)
(* run side by side: a behaviour is one computation, and the field kind of  *)
(* job says of which algorithm. A finished one is left as it is.            *)
VARIABLE job

Kind(k) == job.kind = k
Ended == job.at = "end" /\ UNCHANGED job
=============================================================================
