CONSTANTS
    Starts <- EightDigits
    Stretch = 24
    FixBuf = 112
SPECIFICATION Spec
INVARIANT OrderFits
