CONSTANTS
    Replica = {r1, r2, r3}
    Active = {r1, r2}
    DataNode = {d1}
    Factor = 1
    MaxTerm = 2
    MaxLog = 4
    MaxRestarts = 1
    MaxSnapshots = 1
SYMMETRY Symmetry
CHECK_DEADLOCK FALSE
SPECIFICATION Spec
INVARIANTS StateSafe PublishedNeverBack
PROPERTIES NoInformedWipe
