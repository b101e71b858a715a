CONSTANTS
    DoorMax = 2
    QueueMax = 4
    BtnDepth = 8
    HalfWord = 32768
    SecTicks = 2
    LockDelay = 1
    DelayWord = 3
    ConfigIdle = 2
    PollPeriod = 10
    Campaigns <- OpenedOnce
    Prompt = TRUE
SPECIFICATION FairSpec
PROPERTIES
    OpenDoorRelocks
