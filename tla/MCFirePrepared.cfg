SPECIFICATION Spec
CONSTANTS
    Wallets = {w1}
    MaxBackups = 2
INVARIANTS NoBareAck InclusionDecides
PROPERTIES KeepsPromise InclusionNoticed AlwaysReturns
CHECK_DEADLOCK FALSE
