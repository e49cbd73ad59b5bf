\* The Quick Start's upload and download: ten bytes, less than one chunk, and the
\* 4+2 code.
SPECIFICATION DownloadSpec
CONSTANTS
    Body <- MCBody
    Values = {7}
    Lengths = {10}
    MaxLost = 0
    MaxInt = 99
    DataShards = 4
    ParityShards = 2
    ChunkSize = 16
INVARIANTS
    DownloadReturnsUpload
