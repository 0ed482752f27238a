CONSTANTS
    w1 = w1
    w2 = w2
    base = base
    sepolia = sepolia
    p = p
    id1 = id1
    NoId = NoId
    Pass = Pass
    Workers <- const_Workers
    Contracts <- const_OneProxy
    Upgradeable <- const_OneProxy
    Fragile <- const_OneProxy
    PaymentIds = {}
    PaidFor <- const_NoPayments
    FREE_BETA = TRUE
    DailyMax = 1
    CACHE_TTL = 2
    PROXY_CACHE_TTL = 1
    DayLength = 2
    MaxNow = 3
    MaxCode = 2
    MaxRestarts = 0
SYMMETRY Symmetry
SPECIFICATION Spec
INVARIANTS
    TypeOK
    HoldsWhileFunded
    StaleByScanTime
PROPERTIES
    SettlesOnce
