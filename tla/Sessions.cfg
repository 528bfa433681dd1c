SPECIFICATION FairSpec
CONSTANTS
    google = google
    github = github
    here = here
    there = there
    Users <- Accounts
    Providers = {google, github}
    StaticClient = static
    DcrClients = {app}
    Uris = {here, there, elsewhere}
    Allowlist = {here, there}
    Challenges = {pkce}
    SessionIds = {s1}
    Posts = {p1, p2}
    Bodies <- Requests
    BadMacs <- OneMiss
    MaxDeriveRetries = 1
    None = None
    StateTtl = 1
    CodeTtl = 1
    JwtTtl = 1
    MaxNow = 1
    MaxStates = 1
    MaxCodes = 1
    MaxJwts = 2
    MaxEvictions = 1
PROPERTIES CutSessionsReaped EveryMessageAnswered
CHECK_DEADLOCK FALSE
