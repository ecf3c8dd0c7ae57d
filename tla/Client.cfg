CONSTANTS
    Node <- MCNode
    Shard <- MCShard
    Weights <- MCWeights
    Score <- MCScore
    Start <- MCStart
    Churning <- MCChurning
    Factor = 1
    Caller = {c1, c2}
    Closer = {k1, k2}
    MaxHistory = 2
    MaxConns = 2
    MaxTries = 2
SPECIFICATION FairSpec
CHECK_DEADLOCK FALSE
INVARIANTS PoolSafe CoherentTopology OneHolder
PROPERTIES Placed CloseReturns
