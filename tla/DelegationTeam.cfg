SPECIFICATION BusSpec
CONSTANTS
    a = a
    b = b
    ab = ab
    ac = ac
    ac2 = ac2
    abc = abc
    acb = acb
    ba = ba
    A = A
    B = B
    C = C
    NoParent = NoParent
    Requests = {a, b, ac, ac2}
    Keys = {a, b, ac, ac2}
    Targets = {A, C}
    Roots = {A, B}
    KeyOf <- Own
    TargetOf <- TeamTarget
    RootOf <- TeamRoot
    ParentOf <- TeamParent
    Inherits = {ac, ac2}
    MaxConcurrent = 1
    MaxPending = 3
    Removable = {}
    Events = {"stop", "shutdown"}
INVARIANTS GraphCountsWaits NoOrphans SlotsConserved
PROPERTIES DoomedAskNothing DoomedNeverBegins
CHECK_DEADLOCK FALSE
