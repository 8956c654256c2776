SPECIFICATION TxSpec
CONSTANTS
    w = w
    s = s
    t = t
    u = u
    Tokens = {w, s, t, u}
    Paths <- SharedToken
    StartTokens = {w, s}
    ConfiguredStarts = {w, s}
    Providers = 2
    StrikeThreshold = 3
    MaxStaleBlocks = 0
    ChannelBuffer = 1
    DryRun = FALSE
    SkipPreflight = FALSE
    InitialFiles <- AnyFile
    RpcMayFail = TRUE
    DiskMayFail = FALSE
    MaxHead = 2
    MaxJobs = 4
    MaxCrashes = 1
INVARIANTS
    FileIsBlacklist
    BlacklistedForFailures
    TokenHalfThreshold
