CONSTANTS
    r1 = r1
    r2 = r2
    k1 = k1
    Requests = {r1, r2}
    Keys = {k1}
    MaxDeliver = 2
    MaxFaults = 1
SPECIFICATION Spec
INVARIANTS
    RetryConfirms
CHECK_DEADLOCK FALSE
