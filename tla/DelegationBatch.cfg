SPECIFICATION BusSpec
CONSTANTS
    a = a
    b = b
    ab = ab
    ac = ac
    ac2 = ac2
    abc = abc
    acb = acb
    ba = ba
    A = A
    B = B
    C = C
    NoParent = NoParent
    Requests = {a, ab, ac, abc, acb}
    Keys = {a, ab, ac, abc, acb}
    Targets = {A, B, C}
    Roots = {A}
    KeyOf <- Own
    TargetOf <- BatchTarget
    RootOf <- BatchRoot
    ParentOf <- BatchParent
    Inherits = {ab, ac, abc, acb}
    MaxConcurrent = 1
    MaxPending = 5
    Removable = {}
    Events = {"timeout"}
INVARIANT NoCircularWait
CHECK_DEADLOCK FALSE
