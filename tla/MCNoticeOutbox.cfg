SPECIFICATION OutboxSpec
CONSTANTS
    dev = dev
    Other = other
    MCTexts = 2
    Device = {dev}
    Cmd <- MCCmd
    Delivery = {}
    NoDelivery = NoDelivery
    Notice = {"n1"}
    NoCmd = NoCmd
    Boots = {1, 2}
    Envelope <- MCEnvelope
    MaxAttempts = 2
    MaxGeneration = 1
    Sentences <- MCSentences
    MaxSubmissions = 2
    QueueSize = 1
    QueueMeta <- MCQueueMeta
    ScanLimit = 1
    MaxMishaps = 1
INVARIANTS OutboxTypeOK LinkedOnceByEach RenderedMeansHeard ExpiredMeansLate ReminderKept
CHECK_DEADLOCK FALSE
