SPECIFICATION Spec
CONSTANTS
    s1 = s1
    s2 = s2
    v1 = v1
    v2 = v2
    v3 = v3
    d1 = d1
    d2 = d2
    u1 = u1
    u2 = u2
    a1 = a1
    a2 = a2
    k1 = k1
    k2 = k2
    w1 = w1
    w2 = w2
    Nil = Nil
    Sessions = {s1, s2}
    Ops <- CustodyOps
    Pos <- Order
    Vehicles = {v1}
    Drivers = {d1}
    Users = {u1}
    AccountOf <- NoAccounts
    SeedVehicles = {}
    SeedDrivers = {d1}
    AssignmentIds = {a1}
    KeyIds = {k1}
    WaveIds = {w1}
    MaxSlot = 1
    MaxVersion = 3
    MaxRev = 2
SYMMETRY SessionSymmetry
INVARIANT ChecksStillHold
INVARIANT NoLostUpdate
PROPERTY HistoryFrozen
PROPERTY ImplementsCustody
INVARIANT LeavesSettled
