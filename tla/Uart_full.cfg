CONSTANTS
    UartDepth = 2
    UartHalfWord = 32768
    Tags = 4
    MaxBacklog = 3
    MaxRead = 1
SPECIFICATION UartSpec
PROPERTIES
    BlocksWhileFull
