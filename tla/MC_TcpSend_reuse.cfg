CONSTANTS
    SEQ_SPACE = 32
    WND_SPACE = 64
    DUPACK_SPACE = 8
    ISS = 29
    IRS = 7
    INIT_SEGS <- MC_Segs
    INIT_STATES = {"LISTEN"}
    WNDS = {5}
    TIMESTAMPS = {TRUE}
    SENT_RESULTS = {"ERR_OK", "ERR_ABRT"}
    CONN_RESULTS = {"ERR_OK", "ERR_ABRT"}
    PEER_FIN = TRUE
    STRAY = FALSE
    BOGUS_ACKS = FALSE
    NEW_RESULTS = {"ERR_OK", "ERR_MEM"}
    REUSE_CB = TRUE

SPECIFICATION Spec

INVARIANT SynRcvdHasSyn
