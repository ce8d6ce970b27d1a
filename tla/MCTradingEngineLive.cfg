CONSTANTS
    MaxTicks = 2
    RingCap = 1
    PendingCap = 4
    PoolSize = 0
    Warmup = 1
    OutCap = 1
    InCap = 2
    ExBatch = 1
    GwBatch = 1
SPECIFICATION FairSpec
PROPERTIES ShutdownCompletes TicksAreFilled ExchangeLetsGo
