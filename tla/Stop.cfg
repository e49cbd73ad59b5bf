\* Two replicas over one database, two requests, a failure and a death.
SPECIFICATION HSpec
CONSTANTS
    Replica = {r1, r2}
    NoReplica = NoReplica
    Migrations = 2
    Client = {c1, c2}
    Ranger = {c2}
    MaxCalls = 1
    MaxFaults = 1
    MaxDeaths = 1
CHECK_DEADLOCK FALSE
INVARIANTS
    ServerTypeOK
    HealthyUntilClosed
    HalfSeededByAccident
PROPERTIES
    StopsAfterSignal
    SeedFinished
