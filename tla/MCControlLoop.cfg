SPECIFICATION Spec
CONSTANTS
    QueueCap = 2
    MaxRequests = 3
    Targets = {t1, t2}
    Prices = {0, 1}
    Configs <- AnyConfig
    Kinds <- AllKinds
SYMMETRY TargetSymmetry
INVARIANTS
    DisarmedIsClean
    PreparedForTarget
    MainNoncesIncrease
    OneFirePerTrigger
    CollisionsSkip
PROPERTIES
    ImplementsSession
CHECK_DEADLOCK FALSE
