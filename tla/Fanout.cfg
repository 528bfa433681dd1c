SPECIFICATION Spec
CONSTANTS
    q1 = q1
    Relays = {r1, r2}
    Requests = {q1}
    Plans <- Single
    Messages = {"ok", "rate-limited", "banned"}
    MaxUnacked = 2
    RateLimit = 1
    MaxEvictions = 1
INVARIANTS TypeOK NoStall EveryDeliveryAccounted CommentFollowsScore OkMeansTaken ThrottleReachesPool
PROPERTIES EveryRequestAnswered
CHECK_DEADLOCK FALSE
