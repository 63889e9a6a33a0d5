--------------------------- MODULE MCCommandStore ---------------------------
(* An instance of CommandStore for TLC: one device that restarts once, a    *)
(* delivery of two commands, a dialogue sentence without a TTL and a        *)
(* reminder's sentence with one.                                            *)
EXTENDS CommandStore

CONSTANTS dev, c1, c2, d1

MCEnvelope ==
    LET speak == [device |-> dev, delivery |-> d1, type |-> "speak", safety |-> "normal",
                  priority |-> 50, sourceType |-> "dialogue", sourceId |-> "turn",
                  segment |-> 1, generation |-> 0, ttl |-> FALSE]
        reminder == [speak EXCEPT !.sourceType = "morrow_notice", !.sourceId = "n1", !.ttl = TRUE]
    IN  [c \in {c1, c2} |-> IF c = c1 THEN speak ELSE reminder]
=============================================================================
