SPECIFICATION Spec
CONSTANTS
    Members = {f, a}
    Founder = f
    Invites = {i1}
    None = None
    Routes <- AllRoutes
    InviteTtl = 3
    Slots = {s1}
    Gap = 1
    MaxNow = 4
    MaxRequests = 3
    MaxFailures = 1
INVARIANTS MintedInviteKnown MembersHoldCurrentKey
PROPERTIES RefinesRoom
CHECK_DEADLOCK FALSE
