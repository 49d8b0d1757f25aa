SPECIFICATION Spec
CONSTANTS
    QueueCap = 2
    MaxRequests = 3
    Targets = {t1}
    Prices = {1}
    Configs <- PollOnly
    Kinds <- AllKinds
INVARIANT NonceBroadcastOnce
CHECK_DEADLOCK FALSE
