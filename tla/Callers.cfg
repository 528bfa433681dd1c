SPECIFICATION CallersSpec
CONSTANTS
    google = google
    github = github
    here = here
    there = there
    Users <- Accounts
    Providers = {google, github}
    StaticClient = static
    DcrClients = {app}
    Uris = {here, there, elsewhere}
    Allowlist = {here, there}
    Challenges = {pkce}
    SessionIds = {s1}
    Posts = {p1}
    Bodies <- Switch
    BadMacs = {}
    MaxDeriveRetries = 0
    None = None
    StateTtl = 1
    CodeTtl = 1
    JwtTtl = 1
    MaxNow = 2
    MaxStates = 2
    MaxCodes = 2
    MaxJwts = 2
    MaxEvictions = 0
    Callers = {evenflow}
    Boards = {b1, b2}
    Sprints = {sp1}
    Items = {i1}
    Days = {d1, d2}
    Readings <- SomeReadings
    PerHour = 1
    Buckets = 2
    Window = 2
    MaxAge = 0
    MaxSpent = 4
    MaxEvents = 1
SYMMETRY Alike
INVARIANTS PublishedByConsent BudgetIsExact
PROPERTIES RepublishCorrects
CHECK_DEADLOCK FALSE
