CONSTANTS
    DoorMax = 2
    QueueMax = 4
    BtnDepth = 8
    HalfWord = 32768
    SecTicks = 1
    LockDelay = 1
    DelayWord = 3
    ConfigIdle = 2
    PollPeriod = 0
    Campaigns <- OpenedOrConfigured
    Prompt = FALSE
SPECIFICATION Spec
INVARIANTS
    TimersCanExpire
    SelectedIsRegistered
PROPERTIES
    ImplementsDoorLock
