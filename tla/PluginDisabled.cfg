SPECIFICATION Spec
CONSTANTS
    c1 = c1
    c2 = c2
    a1 = a1
    a2 = a2
    Closer = Closer
    None = None
    Calls = {c1}
    BigCalls = {}
    Admins = {a1}
    Asks <- Disables
    OwnTimerFirst = FALSE
    MaxSpawns = 2
INVARIANT DisabledStaysDown
CHECK_DEADLOCK FALSE
