CONSTANTS
    Node <- MCNode
    Shard <- MCShard
    Score <- MCScore
    Factor = 1
    Target = 1
    Cycles = 2
    Healthy = FALSE
    Scenarios = {"data-node", "leader", "both"}
    Topologies <- MCTopologies
    Sweeps <- MCSweeps
    MaxScrapes = 3
    MaxProbes = 1
SPECIFICATION ObserversSpec
CHECK_DEADLOCK FALSE
INVARIANTS PassHonest ProgressHonest ExporterSafe
PROPERTIES ChaosEnds LoopsReturn
