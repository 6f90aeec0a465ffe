CONSTANTS
    w1 = w1
    w2 = w2
    WQES <- MC_WQES
    STRIDES = 3
    C = 2
    MAX_PKT = 2
    ERR_STRIDES = {0}
    FLUSH_MIDWQE = FALSE
    BATCH_MAX = 2
    WCE_MAX = 2
    CQ_MAX = 3
SPECIFICATION FairSpec
INVARIANT TypeOK
INVARIANT StridesConserved
INVARIANT RefCountAccounts
PROPERTY WqeEventuallyFree
