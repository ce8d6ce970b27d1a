\* The counter and the ticks it paces end at their bounds. Multiplier is the
\* low 16 bits of 0x9E3779B97F4A7C15, of which a map of 4 slots uses three.
CONSTANTS
    N = 4
    Value = {x, y}
    Fresh = Fresh
    CapBits = 2
    Multiplier = 31765
    Key = {1, 2, 6, 9, 17, 22}
    Val = {u, v}
    NoVal = NoVal
    WordBits = 6
    Ask = {1, 5}
    Align = {1, 4}
    TicksPerNs = 2
    Sample = 4
    PeriodNs = 2
    MaxTsc = 14
    MaxMade = 6
SPECIFICATION Spec
INVARIANTS FreeListExact BlocksSound NeverFlattered NothingOwed
PROPERTIES ImplementsPool ImplementsMap
CHECK_DEADLOCK FALSE
