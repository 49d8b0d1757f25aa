SPECIFICATION Spec
CONSTANTS
    Second = 2
    SecondsPerDay = 3
    Timeout = 3
    Refuse = 6
    Starts <- SomeStarts
    Offsets <- SomeOffsets
    MaxTicks = 7
    MaxHeight = 6
INVARIANTS
    DateParsed
    GateSound
    AgeIsADeployment
    ProbesBounded
