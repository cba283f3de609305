SPECIFICATION Spec
CONSTANTS
    k1 = k1
    k2 = k2
    k3 = k3
    a1 = a1
    a2 = a2
    Keys = {k1, k2, k3}
    Artifacts = {a1, a2}
    None = None
    Digest <- CollidingDigest
    KeyBytes <- KeySizes
    ArtifactBytes <- PlanSizes
    RecordBytes = 1
    MaxEntries = 2
    MaxBytes = 7
    MaxClock = 9
INVARIANTS
    OccupancyIsExact
PROPERTY
    ImplementsLru
CHECK_DEADLOCK FALSE
