SPECIFICATION Spec
CONSTANTS
    Drops = {d1, d2}
    Pages = {p1}
    Starts <- AtOne
    Ends <- AtOne
    Options <- SomeOptions
    None = None
    Empty = Empty
    Garbled = Garbled
    QueueCap = 1
    MaxTime = 1
    MaxCalls = 3
    MaxCrashes = 1
SYMMETRY DropSymmetry
INVARIANTS SavesStick LoopFollowsConfig 
PROPERTIES RestartKeepsChoice
CHECK_DEADLOCK FALSE
