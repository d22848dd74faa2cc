SPECIFICATION Spec
CONSTANTS
    Jobs = {k1, k2}
    NoJob = NoJob
    Idle = Idle
    MaxRetries = 1
    NItems = 2
    MaxBacklog = 1
    MaxExcuse = 1
    BatchLimit = 1
    MayBreak = {1}
    MayDrop = {1}
    Calls <- AllCalls
    Kinds <- OnlyLiquidations
PROPERTY NothingStarves
