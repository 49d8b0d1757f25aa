SPECIFICATION Spec
CONSTANTS
    Wallets = {"w1", "w2"}
    Drops = {d1}
    Listings <- SomeListings
    Configs <- SomeConfigs
    QueueCap = 1
    MaxTriggers = 2
    MaxNow = 1
    MaxPuts = 1
    MaxMoves = 1
PROPERTIES
    ImplementsPolicy
    EveryTriggerSettles
    ListCatchesUp
CHECK_DEADLOCK FALSE
