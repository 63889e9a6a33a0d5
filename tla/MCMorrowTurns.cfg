SPECIFICATION CoordSpec
CONSTANTS
    r1 = r1
    r2 = r2
    w = w
    Request = {r1}
    NoRequest = NoRequest
    Thread = {t1, t2}
    Resetter = {t2}
    EventQueueSize = 2
    MaxTexts = 1
    MaxDrops = 1
    MaxSession = 1
    Device = {"dev", "web"}
    Web = "web"
    DeviceOf <- MCDeviceOf
    QueueSize = 1
    MaxGeneration = 2
    MaxBatch = 2
INVARIANTS CoordTypeOK SpeechIsFenced StoredKeepsUp RepliesEnd
PROPERTIES SpeaksBehindTheFence
CHECK_DEADLOCK FALSE
