--------------------------- MODULE MCSiblingServer ---------------------------
(* Two requests over every pair of routes of a product, whichever comes      *)
(* first; in some scenarios one of them asks for another GPU.                *)
EXTENDS SiblingServer
MCWishes == {"", "g2"}

Pairs(p) == [Requests -> Routes(p)]
Plain == [r \in Requests |-> ""]
FirstWishes == [r \in Requests |-> IF r = "r1" THEN "g2" ELSE ""]

\* One of two scenarios that differ in the names of the requests is enough.
Rank(x) == (IF x.early THEN 1 ELSE 0) + (IF x.streams THEN 2 ELSE 0)
           + (IF x.kept THEN 4 ELSE 0) + (IF x.aligned THEN 8 ELSE 0)
           + (CASE x.call = "ENCODE" -> 16 [] x.call = "LOAD" -> 64 [] x.call = "TRIAL" -> 32 [] OTHER -> 0)
Ordered(route) == Rank(route["r1"]) <= Rank(route["r2"])

Scenario(routes, wish, n) ==
  {[route |-> x, wish |-> wish, crashes |-> n] : x \in {y \in routes : Ordered(y)}}

MCScenarios ==
  Scenario(Pairs("higgs") \union Pairs("breeze"), Plain, 0)
  \union Scenario({x \in Pairs("breeze") : x["r1"] \in BreezeUpload \union BreezeAudio /\ x["r2"].aligned}, Plain, 1)
  \union Scenario({x \in Pairs("breeze") : x["r1"] \in BreezeAudio /\ x["r2"].streams}, FirstWishes, 0)
=============================================================================
