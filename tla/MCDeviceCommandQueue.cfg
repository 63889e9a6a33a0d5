SPECIFICATION Spec
CONSTANTS
    QCmd = {"stop", "face1", "face2", "face3", "find", "segment", "speak"}
    QBoots = {0, 1}
    Meta <- MCMeta
    MaxSize = 3
INVARIANTS NewestOfKeyWins
PROPERTIES PutCostsNothingHigher
