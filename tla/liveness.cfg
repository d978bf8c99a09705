SPECIFICATION FairSpec
CONSTANTS
    Calls = {r1, r2, r3}
    Keys = {k1}
    Ids = {i1, i2, i3}
    NoId = NoId
    NoKey = NoKey
    Vacant = Vacant
    Sentinel = Sentinel
    Faults = {"pendingTTL", "insert", "crash"}
    ClientRetries = TRUE
PROPERTIES
    GetsThrough
