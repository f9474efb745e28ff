SPECIFICATION TimedSpec
CONSTANTS
    a = a
    b = b
    ab = ab
    ac = ac
    ac2 = ac2
    abc = abc
    acb = acb
    ba = ba
    A = A
    B = B
    C = C
    NoParent = NoParent
    Requests = {a, b, ab}
    Keys = {a, b, ab}
    Targets = {A, B}
    Roots = {A, B}
    KeyOf <- Own
    TargetOf <- BusyTarget
    RootOf <- BusyRoot
    ParentOf <- BusyParent
    Inherits = {ab}
    MaxConcurrent = 1
    MaxPending = 4
    Removable = {B}
    Events = {"leave", "timeout", "stop"}
PROPERTY AllReplied
CHECK_DEADLOCK FALSE
