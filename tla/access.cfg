SPECIFICATION AccessSpec
CONSTANTS
    Requests = {r1, r2}
    Users = {alice, bob}
    NoUser = NoUser
    NoLimiter = NoLimiter
    Burst = 1
    Interval = 1
    MaxTime = 1
SYMMETRY Symmetry
INVARIANTS
    AccessTypeOK
    LoggedAsSent
    RunsArePaid
    HonestStatus
