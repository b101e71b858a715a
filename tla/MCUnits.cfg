CONSTANTS
    DoorMax = 3
    Port = {0, 1, 2, 3}
    Feature = {}
    BoardDoors = 4
    CfgKeys = 4
    Models <- MCModels
    Channels = 2
    Samples = 3
    Depth = 2
    HalfWord = 32768
    HoldWord = 4
    LongPress = 2
    Calm = TRUE
    ca = ca
    cb = cb
    Blank = Blank
    Quote = Quote
    Newline = Newline
    ParseSize = 20
    MaxNodes = 4
    MaxDepth = 2
    PoolTokens = 2
    Hash <- MCHash
    Commands <- MCCommands
    Input <- MCInput
    DynBlocks = {1, 2, 3, 4}
    DynWords = {ca, cb}
    DynLines <- MCDynLines
    IntBits = 16
    DbgFormats <- MCFormats
    DbgNumbers = {0, 9, 10, 255, 4096, 32767, 32768, 60000, 65535}
    DbgStrings <- MCStrings
    StkPrograms <- MCPrograms
SPECIFICATION UnitsSpec
INVARIANTS
    RecordMatchesRelays
    
    
    
    LongpressEarned
    CommandsKept
    
    
PROPERTIES
    ImplementsInterlock
    SettlesExactly
    RunsDeepestCommand
CHECK_DEADLOCK FALSE
