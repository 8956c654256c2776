SPECIFICATION FairSpec
CONSTANTS
    w = w
    t = t
    s1 = s1
    s2 = s2
    Tokens = {w, t}
    Paths <- OneCycle
    StartTokens = {w}
    ConfiguredStarts = {w}
    Providers = 1
    StrikeThreshold = 1
    MaxStaleBlocks = 0
    ChannelBuffer = 1
    DryRun = FALSE
    SkipPreflight = FALSE
    InitialFiles <- FreshFile
    RpcMayFail = TRUE
    DiskMayFail = TRUE
    MaxHead = 1
    MaxJobs = 3
    MaxCrashes = 1
    Workers = {s1, s2}
    SimMode = FALSE
    MaxArbs = 2
INVARIANTS
    NonceGapFree
PROPERTIES
    BlacklistHolds
    WorkersReturn
    SenderReturns
