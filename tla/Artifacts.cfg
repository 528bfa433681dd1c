SPECIFICATION Spec
CONSTANTS
    Pubkeys = {k1, k2}
    Slugs = {d}
    Blobs = {b1, b2}
    Times = {1, 2}
    Slots = {s1, s2}
    None = None
    Quota = 2
    AvatarUploads = TRUE
    RevokeTags <- OneOrBoth
    MaxUploads = 2
    MaxPublishes = 2
    MaxRevokes = 1
    MaxLost = 1
INVARIANTS TypeOK IndexesAgree NoRevokedRender QuotaCoversBlobs
PROPERTIES RefinesLedger
CHECK_DEADLOCK FALSE
SYMMETRY Symmetry
