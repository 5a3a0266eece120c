SPECIFICATION Spec
CONSTANTS
    Allocations = {a1}
    Workers = {w1}
    ApprovalThreshold = 1
    MaxApprovals = 1
    BarStock = 1
    FaultKinds = {"receipt"}
    MaxFaults = 1
    MaxOutcomes = 2
CHECK_DEADLOCK FALSE
INVARIANTS
    RefundedNeverMints
