\* One worker: requests come one at a time and no call fails.
SPECIFICATION Spec
CONSTANTS
    w1 = w1
    w2 = w2
    f1 = f1
    f2 = f2
    f3 = f3
    b1 = b1
    b2 = b2
    None = None
    Worker = {w1}
    File = {f1, f2, f3}
    Bucket = {b1, b2}
    Existing = {b1}
    Name = {"n1"}
    Key = {"k1", "k2"}
    Size = {0, 1, 2, 3}
    Quota = {0, 3}
    Expiry = {"never"}
    MaxFileSize = 2
    CleanupLimit = 1
    DataShards = 2
    ParityShards = 1
    ChunkSize = 1
    Ops = {"put", "get", "delete", "create", "remove", "version"}
    MaxFaults = 0
    MaxCrashes = 0
SYMMETRY FileSymmetry
INVARIANTS
    CountersExact
    StoredWithinQuota
    LiveNamesUnique
    DeletedBucketEmpty
    NoOrphanShards
PROPERTIES
    VersioningSticks
    VersionsStack
    WholeReads
    ServesAtomically
