CONSTANTS
    a = a
    b = b
    NoOp = NoOp
    Ops <- MCOps
    MaxSeq = 3
    BatchMax = 2
    GroupDelay = TRUE
    MaxCrashes = 2
    Scripts <- MCScripts
    RCap = 3
    WCap = 3
    KCap = 2
    Builds = {TRUE, FALSE}
    w1 = w1
    w2 = w2
    c1 = c1
    c2 = c2
    c3 = c3
    k1 = k1
    k2 = k2
    Workers = {w1, w2}
    Conns = {c1, c2, c3}
    Keys = {k1, k2}
    Vals = {1}
    WorkerOf <- MCWorkerOf
    Writers <- MCWriters
    Absent = Absent
    Idle = Idle
    WalBatchMax = 2
    MaxOps = 3
    MaxKills = 1
SPECIFICATION ProcessSpec
INVARIANTS AckedDurable LogInOrder BuffersSafe ProgramOrder MemorySafe AckedKept RamMatchesReplay
PROPERTIES StickyFreezes ImplementsDurableLog AllComplete Flows
