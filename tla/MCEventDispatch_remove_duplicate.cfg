SPECIFICATION Spec
CONSTANTS
    u1 = u1
    u2 = u2
    c1 = c1
    c2 = c2
    h1 = h1
    h2 = h2
    f1 = f1
    f2 = f2
    eLog = eLog
    eKey = eKey
    eConfig = eConfig
    None = None
    UserThreads = {u1}
    CecThreads = {c1}
    Handlers = {h1, h2}
    Callables = {f1, f2}
    CallableOf <- PlainFunctions
    Events = {eLog, eKey}
    Undispatched = {}
    MaxEntries = 3
    Duplicates = TRUE
    SelfRemoval = FALSE
INVARIANT RemovalTakesEffect
