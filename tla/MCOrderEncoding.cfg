CONSTANTS
    Starts <- SevenDigits
    Stretch = 24
    FixBuf = 112
SPECIFICATION Spec
INVARIANTS OrderSurvives WellFormed
