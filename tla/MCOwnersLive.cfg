SPECIFICATION FairSpec
CONSTANTS
    Shards = 2
    c1 = c1
    c2 = c2
    Client = {c1, c2}
    NoClient = NoClient
    Roles <- LiveRoles
    Ops <- LiveOps
    QueueCap = 1
    MaxOps <- LiveMaxOps
PROPERTIES ExclusionEnds OwnersProgress
CHECK_DEADLOCK FALSE
