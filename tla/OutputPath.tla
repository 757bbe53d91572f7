----------------------------- MODULE OutputPath -----------------------------
(***************************************************************************)
(* The stages behind the vocoder, one computation at a time: a sound that  *)
(* is stretched, or one that is encoded, in chunks of any size.            *)
(***************************************************************************)
EXTENDS TimeStretch, StreamEncoder

OutputInit == StretchInit \/ EncodeInit
OutputNext == StretchNext \/ EncodeNext

OutputSpec == OutputInit /\ [][OutputNext]_job

\* The stages behind the vocoder put out what a single pass over the whole
\* audio would, however it was cut into chunks.
OutputFaithful == StretchFaithful /\ EncodedFaithful
=============================================================================
