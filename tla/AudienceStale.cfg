SPECIFICATION Spec
CONSTANTS
    Members = {f, a}
    Founder = f
    Invites = {i1}
    None = None
    Routes <- CustodialKeyRoutes
    InviteTtl = 3
    Slots = {s1, s2}
    Gap = 0
    MaxNow = 2
    MaxRequests = 2
    MaxFailures = 0
PROPERTIES EpochNeverRegresses
CHECK_DEADLOCK FALSE
