SPECIFICATION Spec
CONSTANTS
    c1 = c1
    c2 = c2
    x = x
    y = y
    NoConn = NoConn
    NoChannel = NoChannel
    Conns = {c1, c2}
    Channels = {x, y}
    Resp3 = {c1}
    Secured = {TRUE, FALSE}
    Lists <- TwoChannels
    Batches <- MCBatches
    MaxChannels = 2
    Capacity = 2
    MaxPublications = 3
    MaxCommands = 2
INVARIANTS IndexConsistent CountersExact ExactDelivery MessagesInPlace
CHECK_DEADLOCK FALSE
