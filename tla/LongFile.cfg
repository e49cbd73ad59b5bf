\* The test of the end-to-end round trip: ten chunks and the 4+2 code.
SPECIFICATION DownloadSpec
CONSTANTS
    Body <- MCBody
    Values = {7}
    Lengths = {20}
    MaxLost = 0
    MaxInt = 99
    DataShards = 4
    ParityShards = 2
    ChunkSize = 2
INVARIANTS
    DownloadReturnsUpload
