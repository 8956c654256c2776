SPECIFICATION Spec
CONSTANTS
    v2 = v2
    v3 = v3
    reserves = reserves
    slot0 = slot0
    tick = tick
    Pools = {v2, v3}
    Slots = {reserves, slot0, tick}
    PoolOf <- TwoPools
    Traced = {reserves, slot0}
    Prefetched = {slot0}
    Seeded = {reserves}
    Workers = {w1, w2}
    RpcMayFail = TRUE
    MaxBlock = 3
INVARIANTS
    AppliedStays
    SeesItsBlock
