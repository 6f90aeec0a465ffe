CONSTANTS
    SEQ_SPACE = 32
    WND_SPACE = 64
    DUPACK_SPACE = 8
    ISS = 29
    IRS = 7
    INIT_SEGS <- MC_Segs
    INIT_STATES = {"SYN_SENT", "SYN_RCVD", "ESTABLISHED"}
    WNDS = {0, 5}
    TIMESTAMPS = {FALSE, TRUE}
    SENT_RESULTS = {"ERR_OK", "ERR_ABRT"}
    CONN_RESULTS = {"ERR_OK", "ERR_ABRT"}
    PEER_FIN = TRUE
    STRAY = FALSE
    BOGUS_ACKS = FALSE
    NEW_RESULTS = {"ERR_OK"}
    REUSE_CB = FALSE

SPECIFICATION Spec

INVARIANT TypeOK
INVARIANT QueuelenAccounting
INVARIANT SendQueueCovers
INVARIANT SentMatchesAcked
