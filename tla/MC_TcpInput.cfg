CONSTANTS
    SEQ_SPACE = 16
    WND_SPACE = 64
    DUPACK_SPACE = 256
    IRS = 12
    N = 5
    RCV_WND = 6
    INIT_STATES = {"ESTABLISHED", "FIN_WAIT_1", "FIN_WAIT_2"}
    QUICKACK = {FALSE, TRUE}
    RECV_RESULTS = {"ERR_OK", "ERR_ABRT"}
    CLOSED_RESULTS = {"ERR_OK", "ERR_ABRT"}
    PEER_RESPECTS_WND = TRUE

SPECIFICATION FairSpec

INVARIANT TypeOK
INVARIANT OoseqWellFormed
INVARIANT RcvNxtMatchesDelivered
INVARIANT WindowAccounting

PROPERTY RcvProgressMonotone
PROPERTY DeliversStream
PROPERTY AllEventuallyReceived
