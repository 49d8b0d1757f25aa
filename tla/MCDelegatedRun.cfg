SPECIFICATION Spec
CONSTANTS
    Runs = {r1, r2}
    Count = 2
    Fees = {1, 2}
INVARIANTS NoNonceGap ResultsTrue Serial
PROPERTIES AnnouncesSerially EveryRunEnds
CHECK_DEADLOCK FALSE
