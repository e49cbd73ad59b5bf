\* Two clients, two replicas whose clocks differ, sessions that run out.
SPECIFICATION USpec
CONSTANTS
    c1 = c1
    c2 = c2
    r1 = r1
    r2 = r2
    u0 = u0
    u1 = u1
    u2 = u2
    None = None
    Replica = {r1, r2}
    Client = {c1, c2}
    UserId = {u0, u1, u2}
    Admin = u0
    Username = {"admin", "ann"}
    Email = {"a@x", "b@x"}
    Role = {"user"}
    AccessTTL = 2
    RefreshTTL = 4
    MaxSkew = 1
    MaxTime = 6
    MaxFaults = 1
SYMMETRY ClientReplicaIdSymmetry
INVARIANTS
    UsersTypeOK
    ClaimsCurrent
    SessionKept
