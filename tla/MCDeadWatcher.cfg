SPECIFICATION Spec
CONSTANTS
    QueueCap = 2
    MaxRequests = 1
    Targets = {t1}
    Prices = {1}
    Configs <- PollOnly
    Kinds <- SessionKinds
PROPERTY DeadWatcherDisarms
CHECK_DEADLOCK FALSE
