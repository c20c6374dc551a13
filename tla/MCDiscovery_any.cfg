SPECIFICATION Spec
CONSTANTS
    t1 = t1
    a1 = a1
    a2 = a2
    a3 = a3
    a4 = a4
    None = None
    Garbage = Garbage
    Threads = {t1}
    Names = {a1, a2, a3, a4}
    InitialCount = 2
SYMMETRY Symmetric
INVARIANTS
    TypeOK
    ListedWereAttached
    AttachedAreListed
    NoInstanceLeft
