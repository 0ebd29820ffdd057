SPECIFICATION Spec
CONSTANTS
    i1 = i1
    i2 = i2
    i3 = i3
    s1 = s1
    s2 = s2
    Imports <- SomeImports
    Contents = {"first", "second", "faulty"}
    Valid = {"first", "second"}
    Sessions <- SomeSessions
    Faults = {"crash", "lost"}
    Nil = Nil
SYMMETRY Alike
CHECK_DEADLOCK FALSE
INVARIANT ChainSound
INVARIANT SnapshotSuffices
PROPERTY ImplementsRevisions
