SPECIFICATION Spec
CONSTANTS
    u1 = u1
    u2 = u2
    c1 = c1
    c2 = c2
    None = None
    Registry = Registry
    DeviceFields = 1
    MaxListed = 2
    UserThreads = {u1, u2}
    CecThreads = {c1}
    QuietClose = FALSE
    ClosesFirst = FALSE
    Failures = TRUE
INVARIANTS
    TypeOK
    CallbacksOnLiveObject
    CallsOnLiveInstance
    RefsMatchHolders
    UnreachableIsPinned
    InstanceEndsWithObject
    LockAsNeeded
CHECK_DEADLOCK FALSE
