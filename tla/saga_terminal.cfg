SPECIFICATION Spec
CONSTANTS
    Allocations = {a1}
    Workers = {w1, w2}
    ApprovalThreshold = 1
    MaxApprovals = 1
    BarStock = 1
    FaultKinds = {}
    MaxFaults = 0
    MaxOutcomes = 2
CHECK_DEADLOCK FALSE
PROPERTIES
    TerminalIsFinal
