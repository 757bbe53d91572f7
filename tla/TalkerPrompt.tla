---------------------------- MODULE TalkerPrompt ----------------------------
(***************************************************************************)
(* What the Qwen3 talker is told: the rows of a request's prompt and of    *)
(* its decode steps, each the sum of a text embedding and a codec          *)
(* embedding, and the K/V rows of a prompt's prefix kept for the next      *)
(* request with the same key. An embedding is known by the token it is of. *)
(***************************************************************************)
EXTENDS Integers, Sequences, Job

CONSTANTS Languages,    \* language ids, 0 for none
          Speakers,     \* speaker embeddings, 0 for none
          InstructLens, \* tokens of an instruction, 0 for none
          RefLens,      \* tokens of a reference's transcript, 0 for no voice to clone
          ContentLens,  \* tokens of the text to say
          PromptSteps   \* decode steps followed

ASSUME TalkerPromptAssumption ==
  /\ Languages \cup Speakers \cup InstructLens \cup RefLens \subseteq Nat
  /\ ContentLens \subseteq Nat \ {0} /\ PromptSteps \in Nat \ {0}

Tok(t)    == <<t, 0>>
Nothing   == Tok("none")
Words(t, n) == [i \in 1..n |-> <<t, i>>]

\* encode_for_tts, encode_instruct. The text said differs from request to request.
Role       == <<Tok("im_start"), Tok("assistant"), Tok("newline")>>
Suffix     == <<Tok("im_end"), Tok("newline")>> \o Role
Wrapped(x) == Role \o x \o Suffix
EncodeInstruct(n) ==
  IF n = 0 THEN <<>>
  ELSE <<Tok("im_start"), Tok("user"), Tok("newline")>> \o Words("do", n)
       \o <<Tok("im_end"), Tok("newline")>>

\* A request, number q of the job.
Content(r)  == Words(<<"say", r.q>>, r.content)
Tokens(r)   == Wrapped(Content(r))
RefText(r)  == LET x == Wrapped(Words("ref", r.ref)) IN SubSeq(x, 4, Len(x) - 5)
Icl(r)      == r.ref > 0

-----------------------------------------------------------------------------
(* build_prefill_graph                                                     *)

\* lookup_embedding_rows, project_text_tokens: a row for each id, in order.
TextOnly(x)    == [i \in DOMAIN x |-> [text |-> x[i], codec |-> Nothing]]
TextOver(x, c) == [i \in DOMAIN x |-> [text |-> x[i], codec |-> c]]
CodecOver(c, t) == [i \in DOMAIN c |-> [text |-> t, codec |-> c[i]]]

CodecPrefill(r) ==
  IF r.lang = 0 THEN <<Tok("nothink"), Tok("think_bos"), Tok("think_eos")>>
  ELSE <<Tok("think"), Tok("think_bos"), <<"lang", r.lang>>, Tok("think_eos")>>

\* The codec prefill, the speaker and codec_pad, with tts_pad on all but the last.
Overlay(r) ==
  CodecOver(CodecPrefill(r) \o (IF r.speaker = 0 THEN <<>> ELSE << <<"speaker", r.speaker>> >>),
            Tok("tts_pad"))
  \o <<[text |-> Tok("tts_bos"), codec |-> Tok("codec_pad")]>>

PromptPrefix(r) == TextOnly(EncodeInstruct(r.instruct)) \o TextOnly(SubSeq(Tokens(r), 1, 3)) \o Overlay(r)

\* The frames of the reference, as many as its transcript has tokens here.
CodecSection(r) == CodecOver(<<Tok("codec_bos")>> \o Words("code", r.ref), Tok("tts_pad"))

Count(r, framing) == Len(Tokens(r)) - framing
NewText(r) == SubSeq(Tokens(r), 4, 3 + Count(r, 8))

Prompt(r) ==
  IF Icl(r)
  THEN PromptPrefix(r) \o TextOver(RefText(r) \o NewText(r) \o <<Tok("tts_eos")>>, Tok("codec_pad"))
       \o CodecSection(r)
  ELSE PromptPrefix(r) \o <<[text |-> Tokens(r)[4], codec |-> Tok("codec_bos")]>>

\* Mutant: the trailing text starts where the new text of a clone does.
TrailingFromFour(r) ==
  IF Icl(r) THEN <<Tok("tts_pad")>>
  ELSE SubSeq(Tokens(r), 4, 3 + Count(r, 9)) \o <<Tok("tts_eos")>>

\* The text not in the prompt yet, one token with each decode step.
Trailing(r) ==
  IF Icl(r) THEN <<Tok("tts_pad")>>
  ELSE SubSeq(Tokens(r), 5, 4 + Count(r, 9)) \o <<Tok("tts_eos")>>

CacheableLen(r) == Len(PromptPrefix(r)) + (IF Icl(r) THEN r.ref ELSE 0)

-----------------------------------------------------------------------------
(* generate                                                                *)

\* What the prefix depends on, hashed.
KeyOf(r) == [icl |-> Icl(r), lang |-> r.lang, speaker |-> r.speaker,
             instruct |-> r.instruct, ref |-> r.ref]

Requests2(q) == [q : {q}, lang : Languages, speaker : Speakers, instruct : InstructLens,
                 ref : RefLens, content : ContentLens]

PromptInit ==
  \E r \in Requests2(1) :
    job = [kind |-> "prompt", at |-> "prefill", r |-> r, kept |-> {}, rows |-> <<>>, fed |-> <<>>]

\* The kept rows that answer to the request's key, if they are as many as its prefix.
Hits == {c \in job.kept : c.key = KeyOf(job.r) /\ Len(c.rows) = CacheableLen(job.r)}

\* A hit restores the prefix and forwards what follows; a miss forwards all of
\* it and keeps the prefix.
Prefilled ==
  /\ Kind("prompt") /\ job.at = "prefill"
  /\ LET r == job.r
         all == Prompt(r)
         n == CacheableLen(r)
         Start(c) == c.rows \o SubSeq(all, n + 1, Len(all))
     IN IF Hits = {}
        THEN job' = [job EXCEPT !.at = "step", !.rows = all,
                       !.kept = {c \in @ : c.key # KeyOf(r)}
                                \cup {[key |-> KeyOf(r), rows |-> SubSeq(all, 1, n)]}]
        ELSE \E c \in Hits : job' = [job EXCEPT !.at = "step", !.rows = Start(c)]

\* Step s is fed the codes of frame s and the next token of the text.
PromptStep ==
  /\ Kind("prompt") /\ job.at = "step" /\ Len(job.fed) < PromptSteps
  /\ LET s == Len(job.fed) + 1
         t == Trailing(job.r)
     IN job' = [job EXCEPT !.fed = Append(@,
                  [text |-> IF s <= Len(t) THEN t[s] ELSE Tok("tts_pad"), codec |-> <<"frame", s>>])]

NextRequest ==
  /\ Kind("prompt") /\ job.at = "step" /\ Len(job.fed) = PromptSteps
  /\ IF job.r.q = 2 THEN job' = [job EXCEPT !.at = "end"]
     ELSE \E r \in Requests2(2) :
            job' = [job EXCEPT !.at = "prefill", !.r = r, !.rows = <<>>, !.fed = <<>>]

PromptNext == Prefilled \/ PromptStep \/ NextRequest

PromptSpec == PromptInit /\ [][PromptNext]_job

-----------------------------------------------------------------------------
\* The talker hears the transcript of the voice it clones and then its own text,
\* each token once and in order, then one end of text and nothing but padding;
\* a token counts in whichever of prompt and steps it comes; beside it the codec
\* channel is padding up to the start of speech, from which the codes of the
\* voice and then the frames follow without a gap (tts_transformer.cpp:1684).
HearsItsText ==
  job.kind = "prompt" /\ job.at = "step" =>
    LET r     == job.r
        body  == SubSeq(job.rows, Len(PromptPrefix(r)) + 1, Len(job.rows)) \o job.fed
        text  == Words("ref", r.ref) \o Content(r) \o <<Tok("tts_eos")>>
        codes == <<Tok("codec_bos")>> \o Words("code", r.ref) \o Words("frame", Len(job.fed))
        mute  == Len(body) - Len(codes)
    IN /\ \A i \in 1..Len(body) :
            /\ body[i].text = IF i <= Len(text) THEN text[i] ELSE Tok("tts_pad")
            /\ body[i].codec = IF i <= mute THEN Tok("codec_pad") ELSE codes[i - mute]
       /\ Len(job.fed) >= r.content => Len(body) >= Len(text)

\* However the prompt was computed, its rows are those of the request's own
\* prompt: nothing of a request with another language, speaker, instruction,
\* voice or text (tts_transformer.cpp:1864, qwen3_tts.cpp:954).
PromptIsOwn == job.kind = "prompt" /\ job.at = "step" => job.rows = Prompt(job.r)

\* What the talker is given: its own prompt, and through prompt and steps its
\* whole text.
PromptFaithful == HearsItsText /\ PromptIsOwn
=============================================================================
