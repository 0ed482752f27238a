CONSTANTS
    w1 = w1
    w2 = w2
    base = base
    sepolia = sepolia
    p = p
    id1 = id1
    NoId = NoId
    Pass = Pass
    Workers <- const_OneWorker
    Contracts <- const_OneProxy
    Upgradeable <- const_OneProxy
    Fragile = {}
    PaymentIds = {id1}
    PaidFor <- const_OnePayment
    FREE_BETA = FALSE
    DailyMax = 1
    CACHE_TTL = 2
    PROXY_CACHE_TTL = 1
    DayLength = 2
    MaxNow = 0
    MaxCode = 2
    MaxRestarts = 0
SPECIFICATION Spec
INVARIANTS
    PaidIsDelivered
