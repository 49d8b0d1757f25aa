SPECIFICATION Spec
CONSTANTS
    QueueCap = 2
    MaxRequests = 3
    Targets = {t1}
    Prices = {1}
    Configs <- AnyConfig
    Kinds <- SessionKinds
PROPERTIES
    AbortDisarms
    SignalFires
    WatcherFailureDisarms
CHECK_DEADLOCK FALSE
