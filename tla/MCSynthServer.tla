-------------------------- MODULE MCSynthServer --------------------------
(* Two handlers and two requests, in both deployments: one holds the locks  *)
(* while the other waits for them, runs a section that takes none, or comes *)
(* after the first and finds the flag, the count, the model or the aligner  *)
(* it left. The idle thread and the eager threads run beside both.          *)
EXTENDS SynthServer
===========================================================================
