SPECIFICATION FairSpec
CONSTANTS
    c1 = c1
    c2 = c2
    a1 = a1
    a2 = a2
    Closer = Closer
    None = None
    Calls = {c1}
    BigCalls = {c1}
    Admins = {a1, a2}
    Asks <- DisablesAndRestarts
    OwnTimerFirst = TRUE
    MaxSpawns = 2
INVARIANTS OneProcess NotReplayed PendingIsHeard ClosedRunsNothing
PROPERTIES CallsEnd TasksEnd
CHECK_DEADLOCK FALSE
