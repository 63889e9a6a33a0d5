------------------------ MODULE MCDeviceCommandQueue ------------------------
(* DeviceCommandQueue with room for three of: a stop, three faces that      *)
(* share a key, a find_owner, and two sentences of which one is local.       *)
EXTENDS DeviceCommandQueue

MCMeta ==
    LET meta(type, priority, key, discardable, interrupt, generation) ==
            [type |-> type, priority |-> priority, coalesceKey |-> key,
             discardable |-> discardable, interrupt |-> interrupt, generation |-> generation]
    IN  [c \in {"stop", "face1", "face2", "face3", "find", "segment", "speak"} |->
            CASE c = "stop"    -> meta("stop", 100, "", FALSE, TRUE, 0)
              [] c = "face1"   -> meta("face", 65, "face", TRUE, FALSE, 0)
              [] c = "face2"   -> meta("face", 65, "face", TRUE, FALSE, 0)
              [] c = "face3"   -> meta("face", 70, "face", TRUE, FALSE, 0)
              [] c = "find"    -> meta("find_owner", 85, "", FALSE, FALSE, 0)
              [] c = "segment" -> meta("speak", 60, "morrow:1", FALSE, FALSE, 1)
              [] c = "speak"   -> meta("speak", 10, "speak", TRUE, TRUE, 0)]
=============================================================================
