SPECIFICATION Spec
CONSTANTS
    w0 = w0
    t0 = t0
    u0 = u0
    pv2 = pv2
    pv3 = pv3
    pal = pal
    r1 = r1
    r2 = r2
    NoToken = NoToken
    Tokens = {w0, t0, u0}
    Pools = {pv2, pv3, pal}
    TokensOf <- PairOf
    ProtocolOf <- KindOf
    RouterKeyed = {"pancakeswapv2", "pancakeswapv3"}
    Routers <- RouterOf
    Detectable = {w0, t0}
    NaturesOf <- Behaviours
    Suspects = {w0, u0}
    TopPages <- TwoPages
    RpcMayFail = TRUE
    MaxRuns = 3
    MaxTurns = 1
    OtherRouters = {}
    Pending <- Transactions
    MaxPath = 3
    MaxCalls = 2
INVARIANTS
    NewPoolsTested
