-------------------------- MODULE MCRealtimeSessions --------------------------
(* Texts: an ordinary one, a wake word with and without a question, a sleep word. *)
EXTENDS RealtimeSessions
MCWakes == {"wake", "wake_ask"} \cap Texts
MCWakesOnly == {"wake"} \cap Texts
MCSleeps == {"bye"} \cap Texts
MCSymmetry == Permutations(Session) \cup Permutations(Bridge)
=============================================================================
