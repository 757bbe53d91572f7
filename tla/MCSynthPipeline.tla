-------------------------- MODULE MCSynthPipeline --------------------------
(* Two full batches and a leftover, the first batch a smaller one: the     *)
(* queue holds several chunks, and a chunk is decoded while others wait.   *)
EXTENDS SynthPipeline
=============================================================================
