SPECIFICATION FairSpec
CONSTANTS
    u1 = u1
    u2 = u2
    c1 = c1
    c2 = c2
    h1 = h1
    h2 = h2
    f1 = f1
    f2 = f2
    eLog = eLog
    eKey = eKey
    eConfig = eConfig
    None = None
    UserThreads = {u1}
    CecThreads = {c1, c2}
    Handlers = {h1}
    Callables = {f1, f2}
    CallableOf <- OneFunction
    Events = {eLog, eConfig}
    Undispatched = {eConfig}
    MaxEntries = 2
    Duplicates = TRUE
    SelfRemoval = TRUE
INVARIANTS
    RefsMatchEntries
PROPERTIES
    DeliveryReturns
    RemovalReturns
CHECK_DEADLOCK FALSE
