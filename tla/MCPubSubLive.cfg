SPECIFICATION FairSpec
CONSTANTS
    c1 = c1
    c2 = c2
    x = x
    y = y
    NoConn = NoConn
    NoChannel = NoChannel
    Conns = {c1, c2}
    Channels = {x}
    Resp3 = {c1}
    Secured = {TRUE}
    Lists <- OneChannel
    Batches <- OtherBatch
    MaxChannels = 2
    Capacity = 2
    MaxPublications = 3
    MaxCommands = 2
VIEW WithoutTranscript
PROPERTIES EvictionCloses MessagesProgress
CHECK_DEADLOCK FALSE
