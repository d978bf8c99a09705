SPECIFICATION Spec
CONSTANTS
    Calls = {r1, r2}
    Keys = {k1}
    Ids = {i1, i2}
    NoId = NoId
    NoKey = NoKey
    Vacant = Vacant
    Sentinel = Sentinel
    Faults = {"cancel"}
    ClientRetries = FALSE
INVARIANT Remembered
