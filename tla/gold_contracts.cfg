SPECIFICATION Spec
CONSTANTS
    MaxTime = 2
    AuditorAccounts = {"aud"}
    InitialAuditors = {"aud"}
    AttestedGrams = {400}
    GrowthCaps = {}
    MaxSignatures = 1
    MaxAttestations = 1
    Wallets = {"alice"}
    Jurisdictions = {"TR"}
    KycExpiries = {2}
    TravelThresholds = {1}
    TransferAmounts = {}
    Allowances = {399}
    Allocations = {"al1"}
    MintAmounts = {400}
    Proposers = {"svc"}
    Officers = {}
    ApproverAccounts = {"p1"}
    InitialApprovers = {"p1"}
    InitialApprovalThreshold = 1
    ReserveAges = {1}
    RateLimits = {}
    FeeRecipients = {"alice"}
    RedemptionOrders = {"o1"}
    BurnAmounts = {399}
    PhysicalMinima = {0}
    MaxNonce = 0
INVARIANTS TypeOK
CHECK_DEADLOCK FALSE
