SPECIFICATION AccessSpec
CONSTANTS
    Requests = {r1}
    Users = {alice}
    NoUser = NoUser
    NoLimiter = NoLimiter
    Burst = 1
    Interval = 1
    MaxTime = 0
INVARIANTS
    ContextErrorsMapped
