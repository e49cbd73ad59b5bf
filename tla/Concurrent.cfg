\* Two workers; a bucket is created, then uploads, range and whole downloads and
\* deletes race; one failed call and one crash.
SPECIFICATION RSpec
CONSTANTS
    None = None
    Worker = {w1, w2}
    File = {f1, f2}
    Bucket = {b1}
    Existing = {}
    Name = {"n1"}
    Key = {"k1"}
    Size = {1}
    Quota = {0, 1}
    Expiry = {"never"}
    MaxFileSize = 2
    CleanupLimit = 1
    DataShards = 1
    ParityShards = 1
    ChunkSize = 1
    Ops = {"put", "get", "delete", "create"}
    MaxFaults = 1
    MaxCrashes = 1
SYMMETRY WorkerFileSymmetry
INVARIANTS
    IndInv
    TypeOK
    DurableBeforeVisible
    AckedIsComplete
    RecordedWithinQuota
    RangeOfVersion
    RangeOfNewest
