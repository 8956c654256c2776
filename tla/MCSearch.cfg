SPECIFICATION Spec
CONSTANTS
    a = a
    b = b
    Pools = {a, b}
    V3Pools = {a}
    ExoticPools = {b}
    Rates = {5, 20}
    Paths <- OnePath
    Scale = 10
    Unquoted = 9
    MaxPathsPerBlock = 1
    ChannelBuffer = 1
    RpcMayFail = TRUE
    MaxBlock = 3
    BroadcastCap = 1
    InOrder = FALSE
    LastSynced = 0
    MaxMempool = 2
INVARIANTS
    RatesFollowDb
    PublishedFirst
    CacheIsExact
    NeverAheadOfChain
    DbMirrorsHead
