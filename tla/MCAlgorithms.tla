---------------------------- MODULE MCAlgorithms ----------------------------
(* The algorithm modules side by side, on small instances.                  *)
EXTENDS SiblingLm, FramePredictor, Sampling, TalkerPrompt, HiggsSpeech,
        FaStream, FaTimings, CodecNets, KernelHooks, OutputPath

\* Two words and three tokens, parted in two ways.
MCFaWords == {<<<<1>>, <<2, 3>>>>, <<<<1, 2>>, <<3>>>>}

\* Twice as likely for each step of a logit.
MCExp == [v \in Logits |-> 2 ^ (v + 8)]

\* Audio: with a pause, mostly quiet, all alike, a single loud bin,
\* and one long run.
MCLadders == {<<1, 2, 0, 1, 1, 2>>, <<0, 0, 3, 1, 0, 0, 3>>, <<2, 2, 2>>, <<0, 5, 0, 0>>,
               <<3, 3, 3, 3, 3, 0, 0, 0>>}

\* Two generations of the vocoder, one under an old key and one without.
MCNetFiles == {[rates |-> <<2>>, key |-> "none"], [rates |-> <<2>>, key |-> "legacy"],
               [rates |-> <<2, 3>>, key |-> "canonical"]}
MCV1Rates == <<2>>
MCNetClips == <<<<<<1, 3>>, <<2, 0>>, <<4, 1>>, <<3, 3>>>>, <<<<5, 2>>, <<1, 1>>, <<0, 4>>>>>>

\* Clips around the lengths of a frame, of a downsampling, and of a few seconds.
MCClipLens == 1..70 \cup 955..965 \cup 1915..1930 \cup {3839, 3840, 3841, 48000, 48001}
MCRefLens == 119..160 \cup {479, 480, 481, 961, 1919, 1920, 1921, 24000, 24001, 71999}
MCCodeBooks == <<<<0, 3, 7, 3>>, <<-5, 2, 6, 2>>, <<-2, 1, 0>>>>
MCFeatures == (0..2) \X (0..2)

\* Faster and slower; a sound that wavers and one that repeats itself.
MCStretchSpeeds == {<<1, 2>>, <<3, 2>>, <<4, 5>>, <<3, 1>>, <<4, 1>>, <<2, 1>>}
MCStretchSounds ==
  {<<1, 3, -2, 0, 2, 3, -1, -3, 1, 2, 0, 1, 3, -2, 1, 0, -1, 2>>,
   <<2, 2, -1, -1, 2, 2, -1, -1, 2, 2, -1, -1, 3, 3, 3>>}

Init == LmInit \/ DepthInit \/ FrameInit \/ DrawInit \/ PromptInit \/ HiggsInit \/ PartsInit
        \/ FaInit \/ TimesInit \/ NetInit \/ CodecInit \/ HooksInit \/ StretchInit
        \/ EncodeInit
Next == LmNext \/ FrameNext \/ DrawNext \/ PromptNext \/ HiggsNext \/ FaNext \/ TimeWords \/ NetNext
        \/ CodecNext \/ HooksNext \/ StretchNext \/ EncodeNext \/ Ended
Spec == Init /\ [][Next]_job
=============================================================================
