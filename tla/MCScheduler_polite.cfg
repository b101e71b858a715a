CONSTANTS
    TasksMax = 2
    QueueMax = 4
    TableMax = 2
    HalfWord = 6
    Cfg <- MCCfg
    Posted = {2}
    MaxCalls = 4
    Drawn = {3}
    Polite = TRUE
    NoFunc = NoFunc
SPECIFICATION FairSpec
INVARIANTS
    NodesNotLeaked
PROPERTIES
    ImplementsDispatch
    
