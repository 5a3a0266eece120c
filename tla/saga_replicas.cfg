SPECIFICATION Spec
CONSTANTS
    Allocations = {a1}
    Workers = {w1, w2}
    ApprovalThreshold = 1
    MaxApprovals = 1
    BarStock = 1
    FaultKinds = {"crash", "receipt", "release"}
    MaxFaults = 2
    MaxOutcomes = 3
CHECK_DEADLOCK FALSE
INVARIANTS
    AnnouncedMintIsReal
