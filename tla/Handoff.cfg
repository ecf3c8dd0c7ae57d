CONSTANTS
    c1 = c1
    c2 = c2
    c3 = c3
    Nil = Nil
    Conns <- ThreeConns
    k1 = k1
    k2 = k2
    a = a
    b = b
    large = large
    Keys = {k1, k2}
    Vals = {a, b, large}
    Size <- MCSize
    Hash <- MCHash
    Budget = 1
    MaxValue = 2
    UnlinkFails = TRUE
    MaxId = 3
    None = None
    Bad = Bad
SPECIFICATION PartSpec
INVARIANTS OwnersExact ShardExact
PROPERTIES Applied DrainFinishes ImplementsLossyCache
