CONSTANTS
    w1 = w1
    w2 = w2
    base = base
    sepolia = sepolia
    p = p
    id1 = id1
    NoId = NoId
    Pass = Pass
    Workers <- const_Workers
    Contracts <- const_TwoChains
    Upgradeable <- const_OneProxy
    Fragile <- const_OneProxy
    PaymentIds = {id1}
    PaidFor <- const_OnePayment
    FREE_BETA = FALSE
    DailyMax = 1
    CACHE_TTL = 0
    PROXY_CACHE_TTL = 0
    DayLength = 2
    MaxNow = 0
    MaxCode = 1
    MaxRestarts = 1
SPECIFICATION FairSpec
INVARIANTS
    OnlyEstablishedCached
    PaymentOnce
    SpendCap
PROPERTIES
    RequestsAnswered
    RespectsOutcome
