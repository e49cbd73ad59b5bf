\* Every operation races for one bucket and one version; a failed call, a crash.
SPECIFICATION FairSpec
CONSTANTS
    w1 = w1
    w2 = w2
    f1 = f1
    f2 = f2
    f3 = f3
    b1 = b1
    b2 = b2
    None = None
    Worker = {w1, w2}
    File = {f1}
    Bucket = {b1}
    Existing = {}
    Name = {"n1"}
    Key = {"k1"}
    Size = {1}
    Quota = {1}
    Expiry = {"pending"}
    MaxFileSize = 2
    CleanupLimit = 1
    DataShards = 1
    ParityShards = 1
    ChunkSize = 1
    Ops = {"put", "get", "delete", "clean", "remove", "create", "version"}
    MaxFaults = 1
    MaxCrashes = 1
INVARIANTS
    RefundedOnce
PROPERTIES
    DeletedBucketFrozen
    RequestsAnswered
