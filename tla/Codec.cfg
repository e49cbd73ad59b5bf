\* Bodies over two byte values, short, full and over-long stripes, two losses;
\* ranges closed, open, inverted, beyond the ends and up to the largest int64.
SPECIFICATION DownloadSpec
CONSTANTS
    Body <- MCBody
    Values = {1, 200}
    Lengths = {1, 3, 5}
    MaxLost = 2
    MaxInt = 9
    DataShards = 2
    ParityShards = 2
    ChunkSize = 2
INVARIANTS
    IntactDownload
    DataComesFirst
    RangeExact
