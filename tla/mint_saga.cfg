SPECIFICATION FairSpec
CONSTANTS
    Allocations = {a1, a2}
    Workers = {w1}
    ApprovalThreshold = 1
    MaxApprovals = 1
    BarStock = 1
    FaultKinds = {"crash"}
    MaxFaults = 2
    MaxOutcomes = 2
CHECK_DEADLOCK FALSE
INVARIANTS
    SagaTypeOK
    BarsAndRefundsFollowTheMint
PROPERTIES
    ImplementsOutcomes
    ApprovalsKept
    EverySagaIsAnnounced
