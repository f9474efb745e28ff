SPECIFICATION ServicesSpec
CONSTANTS
    h1 = h1
    h2 = h2
    x1 = x1
    c1 = c1
    d1 = d1
    o1 = o1
    m1 = m1
    q1 = q1
    r1 = r1
    r2 = r2
    u = u
    v = v
    AAPL = AAPL
    MSFT = MSFT
    e1 = e1
    None = None
    NoRow = None
    Nobody = None
    Absent = None
    NoSession = None
    NoEntry = None
    NoThesis = None
    NoId = None
    NoFixture = None
    Handlers = {h1, h2}
    Turns = {x1}
    OpsOf <- TeamCalls
    TeamIds = {m1}
    AgentIds = {1, 2, 3}
    RequestIds = {q1}
    SpecialistRoles = {r1, r2}
    Stored <- Tables
    MaxRequests = 3
    Clients = {h1, h2}
    Powers <- IdentityCalls
    UserIds = {1, 2}
    Sids = {11, 12}
    KeyIds = {21}
    OwnedAgents = {31}
    GivenIds <- SomeIds
    Calls <- SomeCalls
    Imported <- OldHistories
    Edits = {"rename", "delete"}
    MaxTurns = 2
    MaxRounds = 2
    MaxFailed = 2
    Readers = {"sse", "chat"}
    MaxDeltas = 2
    Callers = {c1, d1}
    UserOf <- TwoTenants
    Symbols = {AAPL, MSFT}
    Events = {e1}
    ThesisIds = {1}
    WatchIds = {11, 12}
    AlertIds = {21, 22}
    ThesisInputs <- TheseInputs
    WatchInputs <- ItemInputs
    AlertStatuses = {"dismissed"}
    MayOmit = FALSE
    MaxWrites = 5
    MaxClock = 1
    Operators = {o1}
    Copiers = {o1}
    Wrote <- GoTransactions
    FileOrder <- GoData
    AgentOf <- Directories
    MaxEdits = 1
    MaxCommands = 3
    ProviderOrder <- TwoProviders
    PluginOrder <- TwoPlugins
    Rows <- Fixtures
    Wanted <- TheMatch
    Purposes = {"evidence", "data", "espn", "search", "form", "h2h", "sporttery"}
    Tickers = {AAPL}
    EventQueries = {}
    MacroViews = {}
    Holdings = {}
    Cards = {r1}
    Minutes = 1
    Long = 1
    Second = 3
    MaxTime = 4
    MaxScripts = 2
    NoAnswer = None
    Editors = {h1, h2}
    EditsOf <- ProviderEdits
    Accounts = {u, v}
    Admins = {v}
    Bots = {b1}
    BotOwner <- BotOf
    ProviderNames = {q1}
    RowIds = {1, 2}
    MasterKeys = {1, 2}
    CutOff = CutOff
    NoValue = None
    b1 = b1
    Checked = {"turns"}
INVARIANT ProviderSeesPairs
CHECK_DEADLOCK FALSE
