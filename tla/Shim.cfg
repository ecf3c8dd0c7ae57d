CONSTANTS
    n1 = n1
    n2 = n2
    n3 = n3
    NoView = NoView
    Node = {n1, n2, n3}
    Views <- MCViews
    FirstView <- MCFirstView
    MaxWrites = 2
    MaxPolls = 1
    Changes <- MCChanges
    Calls <- MCCalls
    MaxTasks = 2
    MaxBytes = 3
    Workers = 1
    AckThreads = 1
    Stoppable = {n1}
    me = me
    p = p
    q = q
    s1 = s1
    s2 = s2
    None = None
    Self = me
    Peer = {p, q}
    Shard = {s1, s2}
    Count = 2
    History <- MCHistory
    MaxAttempts = 2
    w1 = w1
    NoValue = NoValue
    Writer = {w1}
    Values <- MCValues
    UnaryValueLimit = 1
    ChunkSize = 2
CHECK_DEADLOCK FALSE
SPECIFICATION ShimSpec
INVARIANTS FanoutSafe AnswerHonest ViewSafe  WireExact
PROPERTIES TasksRun FollowerSettles
