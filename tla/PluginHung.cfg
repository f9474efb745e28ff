SPECIFICATION FairSpec
CONSTANTS
    c1 = c1
    c2 = c2
    a1 = a1
    a2 = a2
    Closer = Closer
    None = None
    Calls = {c1, c2}
    BigCalls = {}
    Admins = {}
    Asks <- NoAsks
    OwnTimerFirst = FALSE
    MaxSpawns = 2
PROPERTY TimedOutIsReplaced
CHECK_DEADLOCK FALSE
