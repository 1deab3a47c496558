SPECIFICATION Spec
CONSTANTS
    Shards = 2
    c1 = c1
    c2 = c2
    Client = {c1, c2}
    NoClient = NoClient
    Roles <- SafetyRoles
    Ops <- MCOps
    QueueCap = 1
    MaxOps <- MCMaxOps
SYMMETRY Symmetry
INVARIANTS DecisionIsAtomic NoLeftoverTransaction SnapshotIsCut WatchIsolation
CHECK_DEADLOCK FALSE
