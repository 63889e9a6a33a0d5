------------------------- MODULE MCCommandDelivery -------------------------
(* One device that restarts once: a dialogue sentence without a TTL and a   *)
(* find_owner command of a timer with one.                                  *)
EXTENDS CommandDelivery

CONSTANTS c1, c2

MCEnvelope ==
    [c \in Cmd |->
        IF c = c1
        THEN [device |-> dev, delivery |-> NoDelivery, type |-> "speak", safety |-> "normal",
              priority |-> 50, sourceType |-> "dialogue", sourceId |-> "turn",
              segment |-> 1, generation |-> 0, ttl |-> FALSE]
        ELSE [device |-> dev, delivery |-> NoDelivery, type |-> "find_owner", safety |-> "normal",
              priority |-> 85, sourceType |-> "", sourceId |-> "",
              segment |-> 0, generation |-> 0, ttl |-> TRUE]]

MCQueueMeta ==
    [c \in Cmd |->
        [type |-> Envelope[c].type, priority |-> Envelope[c].priority, coalesceKey |-> "",
         discardable |-> FALSE, interrupt |-> FALSE, generation |-> 0]]
=============================================================================
