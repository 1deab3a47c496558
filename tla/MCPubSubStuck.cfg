SPECIFICATION FairSpec
CONSTANTS
    c1 = c1
    c2 = c2
    x = x
    y = y
    NoConn = NoConn
    NoChannel = NoChannel
    Conns = {c1, c2}
    Channels = {x}
    Resp3 = {c1}
    Secured = {FALSE}
    Lists <- OneChannel
    Batches <- NoBatches
    MaxChannels = 2
    Capacity = 2
    MaxPublications = 2
    MaxCommands = 2
PROPERTIES MessagesProgress
CHECK_DEADLOCK FALSE
