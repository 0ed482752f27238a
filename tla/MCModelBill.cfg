CONSTANTS
    w1 = w1
    c1 = c1
    NoId = NoId
    Pass = Pass
    Workers = {w1}
    Contracts <- const_Contracts
    Upgradeable = {}
    Fragile = {}
    PaymentIds = {}
    PaidFor <- const_NoPayments
    FREE_BETA = TRUE
    DailyMax = 1
    CACHE_TTL = 1
    PROXY_CACHE_TTL = 1
    DayLength = 2
    MaxNow = 0
    MaxCode = 1
    MaxRestarts = 0
SPECIFICATION BillSpec
INVARIANT BillCap
