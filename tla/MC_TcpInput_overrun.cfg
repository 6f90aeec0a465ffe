CONSTANTS
    SEQ_SPACE = 16
    WND_SPACE = 64
    DUPACK_SPACE = 256
    IRS = 12
    N = 4
    RCV_WND = 3
    INIT_STATES = {"ESTABLISHED"}
    QUICKACK = {FALSE}
    RECV_RESULTS = {"ERR_OK"}
    CLOSED_RESULTS = {"ERR_OK"}
    PEER_RESPECTS_WND = FALSE

SPECIFICATION Spec

INVARIANT RcvWndBounded
