SPECIFICATION Spec
CONSTANTS
    u1 = u1
    g1 = g1
    q1 = q1
    q2 = q2
    q3 = q3
    w1 = w1
    w2 = w2
    None = None
    Past = Past
    Users = {u1}
    Guilds = {g1}
    Requests = {q1, q2, q3}
    EarlierWarnings = {w1, w2}
    Casts <- AdminCasts
    CacheTTL = 1
    StaleWhileRateLimited = 2
    SessionTTL = 3
    RetryAfters = {1, 2}
    MaxTime = 4
INVARIANTS
    ConfigIsKept
CHECK_DEADLOCK FALSE
