SPECIFICATION Spec
CONSTANTS
    s1 = s1
    s2 = s2
    b1 = b1
    b2 = b2
    Session = {s1, s2}
    Device = {"default", "dev"}
    Default = "default"
    NoSession = NoSession
    Bridge = {b1, b2}
    NoBridge = NoBridge
    MaxMessages = 4
    Texts = {"ask", "wake", "wake_ask", "bye"}
    Wakes <- MCWakes
    WakesOnly <- MCWakesOnly
    Sleeps <- MCSleeps
INVARIANTS SessionsTypeOK NoOrphanBridge RegistryIsTrue TextStaysHome
SYMMETRY MCSymmetry
CHECK_DEADLOCK FALSE
