\* Two uploads race for the last bytes of a quota.
SPECIFICATION Spec
CONSTANTS
    w1 = w1
    w2 = w2
    f1 = f1
    f2 = f2
    f3 = f3
    b1 = b1
    b2 = b2
    None = None
    Worker = {w1, w2}
    File = {f1, f2}
    Bucket = {b1}
    Existing = {b1}
    Name = {"n1"}
    Key = {"k1"}
    Size = {1}
    Quota = {1}
    Expiry = {"never"}
    MaxFileSize = 2
    CleanupLimit = 1
    DataShards = 1
    ParityShards = 1
    ChunkSize = 1
    Ops = {"put"}
    MaxFaults = 0
    MaxCrashes = 0
SYMMETRY WorkerFileSymmetry
INVARIANTS
    StoredWithinQuota
