SPECIFICATION Spec
CONSTANTS
    Calls = {r1, r2, r3}
    Keys = {k1, k2}
    Ids = {i1, i2, i3}
    NoId = NoId
    NoKey = NoKey
    Vacant = Vacant
    Sentinel = Sentinel
    Faults = {"insert", "cancel", "crash"}
    ClientRetries = FALSE
SYMMETRY Symmetry
INVARIANTS
    FailedLeavesNothing
    AtRest
PROPERTIES
    IdempotentRegister
    EntryRetained
