CONSTANTS
    MaxTicks = 5
    RingCap = 1
    PendingCap = 4
    PoolSize = 1
    Warmup = 1
    OutCap = 1
    InCap = 2
    ExBatch = 1
    GwBatch = 2
SPECIFICATION Spec
INVARIANTS TypeOK NothingLost FlowInv NoMutualBlock FillMatchesItsTick WarmupExcluded LogDrained
