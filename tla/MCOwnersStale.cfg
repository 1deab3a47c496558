SPECIFICATION Spec
CONSTANTS
    Shards = 2
    c1 = c1
    c2 = c2
    Client = {c1, c2}
    NoClient = NoClient
    Roles <- LiveRoles
    Ops <- MCOps
    QueueCap = 1
    MaxOps <- LiveMaxOps
INVARIANTS NoStalePreparation
CHECK_DEADLOCK FALSE
