CONSTANTS
    kSubBits = 1
    kMaxOctave = 4
    Samples = {0, 3, 6, 13}
    MaxRecords = 3
SPECIFICATION Spec
INVARIANTS BucketsFaithful CleanSnapshotExact SnapshotBetween
PROPERTY PagesMonotone
