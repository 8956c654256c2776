SPECIFICATION FairSpec
CONSTANTS
    a = a
    b = b
    Pools = {a, b}
    V3Pools = {b}
    ExoticPools = {}
    Rates = {5, 20}
    Paths <- TwoPaths
    Scale = 10
    Unquoted = 9
    MaxPathsPerBlock = 2
    ChannelBuffer = 1
    RpcMayFail = FALSE
    MaxBlock = 3
    BroadcastCap = 1
    InOrder = TRUE
    LastSynced = 2
    MaxMempool = 0
INVARIANTS
    RatesFollowDb
    EmittedIsCurrent
    MovedPathsEvaluated
PROPERTIES
    TouchReachesRates
    SendUnblocks
