SPECIFICATION Spec
CONSTANTS
    Requests = {r1, r2}
    Sessions = {s1, s2}
    Keys = {k1, k2}
    Flows = {f1, f2}
    None = None
    Cap = 1
    FlowLife = 1
    MaxCalls = 6
    MaxSecrets = 2
    MaxStep = 2
SYMMETRY Symmetry
INVARIANTS StagesPromote DeviceCap EnabledIsProven
PROPERTIES ImplementsSignIn LoginCodesOnce SignedOutForGood
CHECK_DEADLOCK FALSE
