---------------------------- MODULE MCNoticeOutbox ----------------------------
(* One device and one reminder of two sentences that is submitted up to      *)
(* three times; the memory queue may be full with a command that outranks   *)
(* speech.                                                                  *)
EXTENDS NoticeOutbox

CONSTANTS MCTexts

MCSentences == [n \in Notice |-> MCTexts]
MCCmd == (Notice \X (1 .. MaxSubmissions) \X (1 .. MCTexts)) \cup {Other}

MCEnvelope ==
    [c \in Cmd |->
        [device |-> dev, delivery |-> NoDelivery, type |-> IF c = Other THEN "volume" ELSE "speak",
         safety |-> "normal", priority |-> 50,
         sourceType |-> IF c = Other THEN "" ELSE "morrow_notice",
         sourceId |-> IF c = Other THEN "" ELSE c[1],
         segment |-> IF c = Other THEN 0 ELSE c[3], generation |-> 0, ttl |-> TRUE]]

MCKey == <<"first", "second">>
MCQueueMeta ==
    [c \in Cmd |->
        [type |-> Envelope[c].type, priority |-> IF c = Other THEN 95 ELSE 50,
         coalesceKey |-> IF c = Other THEN "volume" ELSE MCKey[c[3]],
         discardable |-> FALSE, interrupt |-> FALSE, generation |-> 0]]
=============================================================================
