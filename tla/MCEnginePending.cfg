CONSTANTS
    MaxTicks = 4
    RingCap = 1
    PendingCap = 2
    PoolSize = 1
    Warmup = 1
    OutCap = 2
    InCap = 2
    ExBatch = 1
    GwBatch = 2
SPECIFICATION Spec
INVARIANT FillMatchesItsTick
