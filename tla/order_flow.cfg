CONSTANTS
    r1 = r1
    r2 = r2
    k1 = k1
    k2 = k2
    Requests = {r1, r2}
    Keys = {k1, k2}
    MaxDeliver = 2
    MaxFaults = 3
SPECIFICATION FairSpec
INVARIANTS
    OrderTypeOK
    OneOrderPerKey
    OrderTellsTheOutcome
PROPERTIES
    FinishedOrderStays
    DispatchedBuyEnds
CHECK_DEADLOCK FALSE
