SPECIFICATION FairSpec
CONSTANTS
    s1 = s1
    s2 = s2
    v1 = v1
    v2 = v2
    v3 = v3
    d1 = d1
    d2 = d2
    u1 = u1
    u2 = u2
    a1 = a1
    a2 = a2
    k1 = k1
    k2 = k2
    w1 = w1
    w2 = w2
    Nil = Nil
    Sessions = {s1, s2}
    Ops <- AccountOps
    Pos <- Order
    Vehicles = {v1}
    Drivers = {d1}
    Users = {u1, u2}
    AccountOf <- OneAccount
    SeedVehicles = {v1}
    SeedDrivers = {}
    AssignmentIds = {a1, a2}
    KeyIds = {}
    WaveIds = {}
    MaxSlot = 0
    MaxVersion = 1
    MaxRev = 3
INVARIANT AccountNeedsDriver
PROPERTY Answered
