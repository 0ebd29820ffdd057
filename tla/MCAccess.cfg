SPECIFICATION Spec
CONSTANTS
    u1 = u1
    u2 = u2
    u3 = u3
    u4 = u4
    d1 = d1
    d2 = d2
    e1 = e1
    e2 = e2
    e3 = e3
    i1 = i1
    i2 = i2
    t1 = t1
    t2 = t2
    s1 = s1
    s2 = s2
    Nil = Nil
    Users = {u1, u2, u3, u4}
    SeedRole <- Roles1
    Drivers = {d1, d2}
    Emails = {e1, e2, e3}
    Invitations = {i1, i2}
    Tokens = {t1, t2}
    Sessions = {s1, s2}
    Offers <- SomeOffers
    Rights <- SomeRights
    SeedEmail <- Emails1
    MaxVersion = 2
CONSTRAINT Calm
SYMMETRY Symmetric
INVARIANT OneAccount
INVARIANT DeliveryTold
PROPERTY Admission
