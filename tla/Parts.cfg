\* Two uploads of two parts, sent again or half way, failed calls and crashes.
SPECIFICATION MSpec
CONSTANTS
    Worker = {w1, w2}
    Upload = {u1, u2}
    Part = {1, 2}
    Body = {b1, b2}
    Size <- MCSize
    MaxFaults = 1
    Lists <- MCLists
    MaxSent = 2
    None = None
SYMMETRY MultipartSymmetry
INVARIANTS
    OwnPartsOnly
    SettledIsExact
