SPECIFICATION OfficeSpec
CONSTANTS
    a1 = a1
    a2 = a2
    a3 = a3
    c1 = c1
    c2 = c2
    q1 = q1
    q2 = q2
    k1 = k1
    k2 = k2
    n1 = n1
    n2 = n2
    b1 = b1
    b2 = b2
    w1 = w1
    w2 = w2
    i1 = i1
    i2 = i2
    i3 = i3
    d1 = d1
    d2 = d2
    p1 = p1
    p2 = p2
    f1 = f1
    f2 = f2
    r1 = r1
    r2 = r2
    u1 = u1
    u2 = u2
    v1 = v1
    v2 = v2
    g1 = g1
    g2 = g2
    t1 = t1
    s1 = s1
    o1 = o1
    o2 = o2
    e1 = e1
    e2 = e2
    x1 = x1
    x2 = x2
    y1 = y1
    y2 = y2
    z1 = z1
    z2 = z2
    h1 = h1
    h2 = h2
    m1 = m1
    m2 = m2
    l1 = l1
    l2 = l2
    l3 = l3
    Nil = Nil
    Attempts = {a1, a2, a3}
    Visits = {c1, c2}
    RequestIds = {q1, q2}
    Photos = 2
    CategoryIds = {k1, k2}
    Names = {n1, n2}
    Trucks = {b1, b2}
    Clerks = {w1, w2}
    MaxRenames = 3
    DetailIds = {i1, i2, i3}
    Drivers = {d1, d2}
    Panels = {p1, p2}
    Filters = {f1, f2}
    MaxPages = 2
    Requests = {r1, r2}
    People = {u1, u2}
    Vans = {v1, v2}
    Files = {g1, g2}
    Threads = {t1}
    Sessions = {s1}
    MaxRows = 1
    MaxWritten = 2
    Operators = {o1, o2}
    MaxCommits = 2
    MaxRelease = 2
    MaxKept = 2
    Crew = {e1, e2}
    Texts = {x1, x2}
    Uploads = {l1, l2, l3}
    Books = {y1, y2}
    Weeks = {z1, z2}
    Sheets = {h1, h2}
    Mappings = {m1, m2}
    MaxHeader = 2
    MaxLines = 2
CONSTRAINT Small
ACTION_CONSTRAINT Orderly
INVARIANT StoreMatches
INVARIANT OneReport
INVARIANT LinearHistory
INVARIANT LoadingEnds
INVARIANT OwnOnly
INVARIANT ListedOpens
INVARIANT Recoverable
INVARIANT PreviewTells
PROPERTY BookedOnDuty
PROPERTY LabelsFollow
PROPERTY Guarded
