SPECIFICATION FairSpec
CONSTANTS
    Script <- MCScript
    QueueSize = 2
    MaxStops = 1
    None = NoItem
INVARIANTS StopTakesHold SpeakingIsHeld
PROPERTIES RepliesLetGo
CHECK_DEADLOCK FALSE
