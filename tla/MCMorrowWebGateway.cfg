SPECIFICATION FairSpec
CONSTANTS
    m1 = m1
    t1 = t1
    t2 = t2
    Turn = {m1}
    Source <- MCSource
    Thread = {t1, t2}
    MaxSession = 1
    MaxResets = 1
    MaxFaults = 1
    None = None
INVARIANTS
    SwitchingIsVisible
    OneSession
    SavedWhereAsked
PROPERTIES PageCatchesUp
CHECK_DEADLOCK FALSE
