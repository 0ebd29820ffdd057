SPECIFICATION FairSpec
CONSTANTS
    i1 = i1
    i2 = i2
    h1 = h1
    h2 = h2
    u1 = u1
    u2 = u2
    c1 = c1
    c2 = c2
    p1 = p1
    s1 = s1
    s2 = s2
    j1 = j1
    j2 = j2
    Nil = Nil
    Items = {i1}
    Holders = {h1}
    Users = {u1, u2}
    SuperAdmins = {u2}
    Issues = {}
    Plain = {p1}
    Sessions = {s1}
    Jobs = {j1}
    Quantities = {1}
    MaxStock = 1
    MaxAttempts = 2
    MaxVersion = 2
    MaxEpisode = 1
    MaxSubjects = 1
    MaxFaults = 1
    Ops <- AlertOps
CHECK_DEADLOCK FALSE
INVARIANT AlertsFollowStock
PROPERTY RemindersSettle
PROPERTY AlertsReach
