SPECIFICATION FairProcessSpec
CONSTANTS
    Requests = {r1, r2, r3}
    Unset = Unset
    Env = {Unset, 8081, 9000}
    Taken = {9000}
INVARIANTS
    ProcessTypeOK
    StoresOutliveHandlers
    AcceptedAreServed
    NothingCutShort
PROPERTIES
    SignalEnds
