CONSTANTS
    DoorMax = 2
    QueueMax = 4
    BtnDepth = 8
    HalfWord = 32768
    SecTicks = 4
    LockDelay = 2
    DelayWord = 3
    ConfigIdle = 2
    PollPeriod = 2
    Campaigns <- OpenedTwice
    Prompt = TRUE
SPECIFICATION Spec
PROPERTIES
    RelocksWhenDue
