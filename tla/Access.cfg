SPECIFICATION AccessSpec
CONSTANTS
    Accounts = {a, b}
    Roles = {r1, r2}
    Workers = {w1, w2}
    MaxRequests = 3
    Absent = absent
    Requests = {w1, w2}
    Nobody = nobody
    Life = 2
    Skew = 2
    Ttl = 0
    MaxTime = 2
    MaxTokens = 3
    MaxRedirects = 2
    MaxArrivals = 3
SYMMETRY Symmetry
INVARIANTS
    SomebodyRemains
    NoLoops
    StepUpIsConfirmed
    RaceSignsNobodyOut
CHECK_DEADLOCK FALSE
