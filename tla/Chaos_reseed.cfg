CONSTANTS
    Node <- MCNode
    Shard <- MCShard
    Score <- MCScore
    Factor = 1
    Target = 1
    Cycles = 2
    Healthy = TRUE
    Scenarios = {"data-node"}
    Topologies <- MCTopologies
    Sweeps <- MCSweeps
SPECIFICATION Spec
CHECK_DEADLOCK FALSE
PROPERTIES KillAfterSeed
