SPECIFICATION ListsSpec
CONSTANTS
    Nil = Nil
    Filters = {f1, f2}
    MaxPages = 2
    Requests = {r1, r2}
INVARIANT SettledMatches
