SPECIFICATION FairWorkerSpec
CONSTANTS
    r1 = r1
    r2 = r2
    w = w
    Request = {r1, w}
    NoRequest = NoRequest
    Thread = {t1}
    Resetter = {}
    EventQueueSize = 2
    MaxTexts = 1
    MaxDrops = 0
    MaxSession = 0
    Device = {"dev", "web"}
    Web = "web"
    DeviceOf <- MCDeviceOf
    QueueSize = 1
    MaxGeneration = 1
    MaxBatch = 1
PROPERTIES PendingTurnsEnd
CHECK_DEADLOCK FALSE
