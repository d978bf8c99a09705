SPECIFICATION FairBatchSpec
CONSTANTS
    r1 = r1
    r2 = r2
    r3 = r3
    r4 = r4
    r5 = r5
    r6 = r6
    bPair = bPair
    bOther = bOther
    Batches = {bPair, bOther}
    Items <- PairAndLarge
    MaxBatchSize = 2
    Calls = {r1, r2, r3, r4, r5, r6}
    Keys = {k1}
    Ids = {i1, i2, i3}
    NoId = NoId
    NoKey = NoKey
    Vacant = Vacant
    Sentinel = Sentinel
    Faults = {"insert", "cancel", "crash", "entryTTL"}
    ClientRetries = FALSE
INVARIANTS
    BatchTypeOK
    ResultsParallel
    RepeatsAnswered
    NoSelfBlock
PROPERTIES
    AsSubmissions
    BatchAnswered
