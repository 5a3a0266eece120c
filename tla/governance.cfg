SPECIFICATION MCSpec
CONSTANTS
    Scenarios <- GovernanceScenarios
    MaxTime = 3
    AuditorAccounts = {"a1", "a2"}
    InitialAuditors = {"a1"}
    AttestedGrams = {0, 800, 1200}
    GrowthCaps = {4999}
    MaxSignatures = 2
    MaxAttestations = 3
    Wallets = {"alice", "treasury"}
    Jurisdictions = {"TR"}
    KycExpiries = {9}
    TravelThresholds = {1000}
    TransferAmounts = {}
    Allowances = {}
    Allocations = {"al1"}
    MintAmounts = {0, 399, 400}
    Proposers = {"svc"}
    Officers = {"officer"}
    ApproverAccounts = {"p1", "p2", "p3"}
    InitialApprovers = {"p1", "p2"}
    InitialApprovalThreshold = 2
    ReserveAges = {1}
    RateLimits = {}
    FeeRecipients = {"treasury"}
    RedemptionOrders = {}
    BurnAmounts = {}
    PhysicalMinima = {0}
    MaxNonce = 0
INVARIANTS
    AttestationMonotonicity
    AuditorQuorum
    RoleCountsInSync
    VotesAreForTheRequest
    MintQuorum
    SingleUseAllocation
PROPERTIES
    ZeroReserveIsFinal
    ImplementsProposals
CHECK_DEADLOCK FALSE
