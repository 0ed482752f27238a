CONSTANTS
    w1 = w1
    w2 = w2
    main = main
    test = test
    msg = msg
    NoRequest = NoRequest
    Nobody = Nobody
    Workers <- const_Workers
    Purchases <- const_Purchases
    PaymentId <- const_PaymentId
    Messages = {msg}
    Issued <- const_Issued
    PASS_MAX_AGE = 1
    MaxNow = 3
    MaxRestarts = 1
    MaxRedeploys = 1
SPECIFICATION FairSpec
INVARIANTS TypeOK PurchaseOnce NothingLost ReplayWindow
PROPERTY PaymentsAnswered
