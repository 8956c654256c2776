SPECIFICATION Spec
CONSTANTS
    Elasticity = 2
    Denominator = 8
    MinBaseFee = 64
    PriorityCap = 10
    MinEffective = 50
    LiveSeed = 0
    FirstFee = 1000
    GasLimits = {20, 40}
    InitialLimit = 40
    HeadersCarryFee = TRUE
    Shares = {0, 90}
    MaxBlocks = 4
INVARIANTS
    CoversNextBlock
