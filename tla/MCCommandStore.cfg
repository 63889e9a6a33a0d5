SPECIFICATION FairSpec
CONSTANTS
    dev = dev
    c1 = c1
    c2 = c2
    d1 = d1
    Device = {dev}
    Cmd = {c1, c2}
    Delivery = {d1}
    NoDelivery = NoDelivery
    Notice = {"n1"}
    NoCmd = NoCmd
    Boots = {1, 2}
    Envelope <- MCEnvelope
    MaxAttempts = 2
    MaxGeneration = 1
INVARIANTS TypeOK AttemptBudget DeliveryReportsOutcome
PROPERTIES TerminalIsFinal NoticeNeverAhead NoticeEventuallySettles
