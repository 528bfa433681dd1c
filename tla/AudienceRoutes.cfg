SPECIFICATION Spec
CONSTANTS
    Members = {f, a}
    Founder = f
    Invites = {i1}
    None = None
    Routes <- AllRoutes
    InviteTtl = 2
    Slots = {s1, s2}
    Gap = 0
    MaxNow = 3
    MaxRequests = 2
    MaxFailures = 1
INVARIANTS TypeOK PinvIndexExact GrantsFollowDeclaration
CHECK_DEADLOCK FALSE
