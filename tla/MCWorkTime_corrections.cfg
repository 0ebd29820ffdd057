SPECIFICATION Spec
CONSTANTS
    s1 = s1
    s2 = s2
    d1 = d1
    d2 = d2
    a1 = a1
    a2 = a2
    e1 = e1
    e2 = e2
    c1 = c1
    c2 = c2
    r1 = r1
    r2 = r2
    r3 = r3
    r4 = r4
    Nil = Nil
    Sessions = {s1, s2}
    Pos <- Order
    Drivers = {d1, d2}
    Admins = {a1}
    EntryIds = {e1, e2}
    CorrectionIds = {c1, c2}
    RequestIds = {r1}
    Times = {0, 1, 2, 3}
    Proposals <- CorrectProposals
    MaxVersion = 3
    Ops <- CorrectionOps
CONSTRAINT OneSubject
SYMMETRY CorrectionSymmetry
INVARIANT NoDeadlock
CHECK_DEADLOCK FALSE
INVARIANT DecisionsSound
