\* Writes, reads and deletes of one key race; every rename may work or fail.
SPECIFICATION DiskSpec
CONSTANTS
    w1 = w1
    w2 = w2
    r1 = r1
    r2 = r2
    None = None
    Writer = {w1, w2}
    Reader = {r1, r2}
    Blocks <- MCBlocks
    MaxFaults = 1
    MaxDeaths = 1
INVARIANTS
    PlacedIsWhole
    ReturnedIsWhole
    TempsReclaimed
PROPERTIES
    AtomicWhileRenamed
