SPECIFICATION Spec
CONSTANTS
    QueueCap = 2
    MaxRequests = 2
    Targets = {t1}
    Prices = {1}
    Configs <- PollOnly
    Kinds <- SessionKinds
INVARIANT NoRefireOnStaleSignal
CHECK_DEADLOCK FALSE
