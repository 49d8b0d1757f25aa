SPECIFICATION Spec
CONSTANTS
    Capacity = 1
    MaxEvents = 2
    MaxRestarts = 1
    MaxMounts = 1
    MaxBreaks = 1
INVARIANTS StreamTruth AuditAdmitsGaps
PROPERTIES PageSettles
CHECK_DEADLOCK FALSE
