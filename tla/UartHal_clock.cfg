CONSTANTS
    FifoSize = 2
    Byte = {1}
    HalBlocks = {}
    HalSends = 0
    HalRecvs = 0
    HalGets = {}
SPECIFICATION HalSpec
INVARIANTS
    ClockedByOwnTimer
CHECK_DEADLOCK FALSE
