--------------------------- MODULE MCVoiceCommands ---------------------------
(* Requests with one utterance of each kind; and, in behaviours of their own, *)
(* the samples of SpeechSamples.                                             *)
EXTENDS VoiceCommands, SpeechSamples

CONSTANTS r1, r2

MCUtterance ==
    {<<>>, <<"question">>, <<"xiaopai">>, <<"hello", "xiaopai">>, <<"xiaopai", "question">>,
     <<"xiaopai", "bye">>, <<"volume", "up">>, <<"volume", "down", "most">>}
MCSymmetry == Permutations(Request)

MCInit == VoiceInit /\ (sample = NoSample \/ SampleInit)
MCSpec == MCInit /\ [][VoiceNext /\ sample = NoSample /\ sample' = sample]_<<voiceVars, sample>>
=============================================================================
