SPECIFICATION RateSpec
CONSTANTS
    Requests = {r1, r2, r3, r4}
    Users = {alice, bob}
    NoUser = NoUser
    NoLimiter = NoLimiter
    Burst = 2
    Interval = 2
    MaxTime = 3
SYMMETRY Symmetry
INVARIANTS
    RateTypeOK
    WindowBudget
PROPERTIES
    RefusalDeserved
