SPECIFICATION Spec
CONSTANTS
    i1 = i1
    h1 = h1
    h2 = h2
    u1 = u1
    u2 = u2
    c1 = c1
    c2 = c2
    p1 = p1
    s1 = s1
    s2 = s2
    j1 = j1
    j2 = j2
    Nil = Nil
    i2 = i2
    Items = {i1, i2}
    Holders = {h1, h2}
    Users = {u1}
    SuperAdmins = {}
    Issues = {c1, c2}
    Plain = {p1}
    Sessions = {s1, s2}
    Jobs = {j1, j2}
    Quantities = {1, 2}
    MaxStock = 2
    MaxAttempts = 2
    MaxVersion = 3
    MaxEpisode = 1
    MaxSubjects = 2
    MaxFaults = 0
    Ops <- CustodyOps
CONSTRAINT OneTopic
CONSTRAINT OneIdentifier
SYMMETRY Symmetric
CHECK_DEADLOCK FALSE
INVARIANT RemindersFollow
INVARIANT ChecksStand
PROPERTY ImplementsStore
