CONSTANTS
    a = a
    b = b
    Item <- MCItem
    Depth = 3
    HalfWord = 7
    MaxLive = 2
    Overwritable = FALSE
    MaxMulti = 2
    UartDepth = 3
    UartHalfWord = 32768
    Tags = 6
    MaxBacklog = 2
    MaxRead = 2
SPECIFICATION ClientSpec
INVARIANTS
    RefusalMeansWork
    SendsInOrder
    NothingStranded
    
PROPERTIES
    RefusesUntilDrained
    ImplementsLossyFifo
    FlushMeansSent
    CallsReturn
