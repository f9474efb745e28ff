SPECIFICATION Spec
CONSTANTS
    r1 = r1
    r2 = r2
    r3 = r3
    k1 = k1
    k2 = k2
    k3 = k3
    t1 = t1
    t2 = t2
    rootA = rootA
    rootB = rootB
    Requests = {r1, r2, r3}
    Keys = {k1, k2}
    Targets = {t1}
    Roots = {rootA, rootB}
    KeyOf <- SharedKeyOf
    TargetOf <- SharedTargetOf
    RootOf <- SharedRootOf
    Inherits = {r3}
    MaxConcurrent = 1
    MaxPending = 2
INVARIANTS
    OneAtATime NoStrandedJob SingleFlight NoAbandonedWork
    HistoryTellsOutcome ClosedIsQuiet
PROPERTIES CancelScope ImplementsTicketSafety
CHECK_DEADLOCK FALSE
