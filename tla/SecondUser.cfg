\* A client creates two users of different names and addresses.
SPECIFICATION USpec
CONSTANTS
    c1 = c1
    c2 = c2
    r1 = r1
    r2 = r2
    u0 = u0
    u1 = u1
    u2 = u2
    None = None
    Replica = {r1}
    Client = {c1}
    UserId = {u0, u1, u2}
    Admin = u0
    Username = {"admin", "ann", "bob"}
    Email = {"root@x", "ann@x", "bob@x"}
    Role = {"user"}
    AccessTTL = 2
    RefreshTTL = 4
    MaxSkew = 0
    MaxTime = 0
    MaxFaults = 0
INVARIANTS
    ConflictIsOfNames
