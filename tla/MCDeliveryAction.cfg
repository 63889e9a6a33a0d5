SPECIFICATION DeliverySpec
CONSTANTS
    dev = dev
    c1 = c1
    c2 = c2
    Device = {dev}
    Cmd = {c2}
    Delivery = {}
    NoDelivery = NoDelivery
    Notice = {}
    NoCmd = NoCmd
    Boots = {1, 2}
    Envelope <- MCEnvelope
    MaxAttempts = 2
    MaxGeneration = 0
    Handler = {"h1", "h2"}
    NoHandler = NoHandler
    QueueSize = 2
    QueueMeta <- MCQueueMeta
    SpeechCapacity = 1
    Local = local
    MaxLocal = 0
    MaxLate = 1
INVARIANTS OncePerBoot BoundToBoot
PROPERTIES DeliversAsPromised
