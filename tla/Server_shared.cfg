SPECIFICATION ServerSpec
CONSTANTS
    w1 = w1
    w2 = w2
    c1 = c1
    c2 = c2
    k1 = k1
    Workers = {w1, w2}
    Conns = {c1, c2}
    Keys = {k1}
    Vals = {1, 2}
    WorkerOf <- SharedWorkerOf
    Writers <- SharedWriters
    Absent = Absent
    Idle = Idle
    WalBatchMax = 2
    MaxOps = 2
    MaxKills = 0
INVARIANT RamMatchesReplay
