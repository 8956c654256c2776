SPECIFICATION Spec
CONSTANTS
    s = s
    t = t
    u = u
    v = v
    Tokens = {s, t, u, v}
    Pools = {p1, p2, p3, p4, p5}
    StartTokens <- TwoStarts
    MaxHops = 3
    MaxPathsPerToken = 3
SYMMETRY PoolTokenSymmetry
INVARIANTS
    FindsDocumentedCycles
