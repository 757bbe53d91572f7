---------------------------- MODULE MCTalkerRead ----------------------------
(***************************************************************************)
(* The talker's cache and one read of a long passage, for TLC: one or the  *)
(* other of the two machines runs, as its own specification says; the      *)
(* other stays where it begins, the read where it has answered. They share *)
(* no variable, and no property speaks of both.                            *)
(***************************************************************************)
EXTENDS MCTalkerCache, MCLongRead

VARIABLE turn   \* the machine that runs

\* A read that has answered; which one does not matter to the talker.
Answered ==
  /\ read = [chunks |-> ChunkText(<<1>>), isolated |-> FALSE, named |-> FALSE,
             max |-> CHOOSE m \in Budgets : TRUE, gap |-> CHOOSE g \in Gaps : TRUE]
  /\ eng = [pc |-> "gone", ci |-> 1, T |-> 0, out |-> 0, next |-> 0,
            hist |-> NoVoice, used |-> NoVoice]
  /\ meta = 0 /\ cancel = FALSE /\ wire = <<>> /\ wd = "gone" /\ sent = FALSE
  /\ con = [at |-> "over", anchor |-> 0, open |-> FALSE, chunk |-> 0,
            base |-> 0, word |-> 0, pcm |-> <<>>]
  /\ q = <<>> /\ feeding = FALSE /\ failed = FALSE
  /\ thread = [at |-> "gone", job |-> <<>>] /\ all = <<>>
  /\ final = <<>> /\ stream = <<>> /\ made = <<[T |-> 0, cut |-> FALSE]>>

MCNext ==
  \/ turn = "talker" /\ Next /\ UNCHANGED <<readVars, turn>>
  \/ turn = "read" /\ ReadNext /\ UNCHANGED <<vars, turn>>

MCSpec ==
  /\ \/ turn = "talker" /\ Init /\ Answered
     \/ turn = "read" /\ Init /\ req = (CHOOSE r \in Requests : TRUE) /\ ReadInit
  /\ [][MCNext]_<<vars, readVars, turn>>
  /\ WF_readVars(Render) /\ WF_readVars(Provider) /\ WF_readVars(Thread)
  /\ WF_readVars(Record)
=============================================================================
