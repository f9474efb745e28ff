SPECIFICATION LoopSpec
CONSTANTS
    r1 = r1
    r2 = r2
    r3 = r3
    k1 = k1
    k2 = k2
    k3 = k3
    t1 = t1
    t2 = t2
    rootA = rootA
    rootB = rootB
    Requests = {r1, r2, r3}
    Keys = {k1, k2, k3}
    Targets = {t1, t2}
    Roots = {rootA, rootB}
    KeyOf <- ApartKeyOf
    TargetOf <- ApartTargetOf
    RootOf <- ApartRootOf
    Inherits = {}
    MaxConcurrent = 1
    MaxPending = 2
CONSTRAINT TwoJobs
INVARIANT QueueInv
PROPERTIES AllAnswered ShutdownReturns CancelIsPrompt DoomIsPrompt
CHECK_DEADLOCK FALSE
