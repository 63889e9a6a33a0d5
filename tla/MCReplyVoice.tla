---------------------------- MODULE MCReplyVoice ----------------------------
(* An instance for TLC: a reply of a sentence and a control that ends it, and *)
(* then the only sentence of a reply of a later generation.                   *)
EXTENDS ReplyVoice, TLC

MCScript ==
    <<[turn |-> "a", seg |-> 0, gen |-> 1, text |-> TRUE, end |-> FALSE],
      [turn |-> "a", seg |-> 1, gen |-> 1, text |-> FALSE, end |-> TRUE],
      [turn |-> "b", seg |-> 0, gen |-> 2, text |-> TRUE, end |-> TRUE]>>
=============================================================================
