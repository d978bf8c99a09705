SPECIFICATION Spec
CONSTANTS
    Calls = {r1, r2, r3}
    Keys = {k1}
    Ids = {i1, i2, i3}
    NoId = NoId
    NoKey = NoKey
    Vacant = Vacant
    Sentinel = Sentinel
    Faults = {"redis", "pendingTTL", "entryTTL", "insert", "commit", "cancel", "crash"}
    ClientRetries = FALSE
SYMMETRY Symmetry
INVARIANTS
    TypeOK
    Budget
    PublishedIdsAreRows
    SameAnswer
    TxProgress
    DualWrite
