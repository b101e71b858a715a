CONSTANTS
    DoorMax = 2
    QueueMax = 8
    BtnDepth = 8
    HalfWord = 32768
    SecTicks = 2
    LockDelay = 1
    DelayWord = 3
    ConfigIdle = 2
    PollPeriod = 2
    Campaigns <- OpenedAndMoved
    Prompt = TRUE
SPECIFICATION FairSpec
INVARIANTS
    OpensWereAsked

    
