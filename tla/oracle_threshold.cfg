SPECIFICATION OracleSpec
CONSTANTS
    MaxTime = 3
    AuditorAccounts = {"a1", "a2"}
    InitialAuditors = {"a1"}
    AttestedGrams = {0, 2, 3}
    GrowthCaps = {4999}
    MaxSignatures = 2
    MaxAttestations = 3
INVARIANT ThresholdSatisfiable
CHECK_DEADLOCK FALSE
