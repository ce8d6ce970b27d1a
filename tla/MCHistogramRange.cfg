CONSTANTS
    kSubBits = 1
    kMaxOctave = 3
    Samples <- BeyondRange
    MaxRecords = 1
SPECIFICATION Spec
INVARIANT BucketExists
