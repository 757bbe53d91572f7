-------------------------- MODULE MCTalkerCache --------------------------
(***************************************************************************)
(* TalkerCache for TLC. Three voices and a snapshot cache of two entries,  *)
(* so that stores evict; a long request that grows the slab twice past its *)
(* initial budget, and short ones that make it shrink; buckets of two      *)
(* rows, so that the step graph is rebuilt and reused within a request.    *)
(***************************************************************************)
EXTENDS TalkerCache, TLC

CONSTANTS k1, k2, k3, s1, s2

MCCacheableOf == k1 :> 1 @@ k2 :> 2 @@ k3 :> 1

MCRequests ==
  {[key |-> k1, prefill |-> 3, max |-> m, sig |-> s1] : m \in {1, 10}}
  \cup {[key |-> k, prefill |-> 3, max |-> 2, sig |-> s1] : k \in {k2, k3}}
  \cup {[key |-> NoKey, prefill |-> 1, max |-> m, sig |-> s2] : m \in {1, 3}}
==========================================================================
