SPECIFICATION MCSpec
CONSTANTS
    Scenarios <- LedgerScenarios
    MaxTime = 4
    AuditorAccounts = {"aud"}
    InitialAuditors = {"aud"}
    AttestedGrams = {399, 400, 800, 1600}
    GrowthCaps = {}
    MaxSignatures = 1
    MaxAttestations = 2
    Wallets = {"alice", "treasury"}
    Jurisdictions = {"TR", "US"}
    KycExpiries = {2}
    TravelThresholds = {400, 401}
    TransferAmounts = {400}
    Allowances = {798}
    Allocations = {"al1", "al2", "al3"}
    MintAmounts = {400}
    Proposers = {"svc"}
    Officers = {}
    ApproverAccounts = {"p1"}
    InitialApprovers = {"p1"}
    InitialApprovalThreshold = 1
    ReserveAges = {1, 9}
    RateLimits <- MCRateLimits
    FeeRecipients = {"treasury"}
    RedemptionOrders = {"o1"}
    BurnAmounts = {399}
    PhysicalMinima = {0, 400}
    MaxNonce = 2
INVARIANTS
    RateLimitDoubled
    AuthorizationBurnsOnce
    SupplyIsAccountedFor
PROPERTIES
    ReserveBacksTheSupply
    MovementsComply
CHECK_DEADLOCK FALSE
