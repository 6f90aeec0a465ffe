CONSTANTS
    SEQ_SPACE = 16
    WND_SPACE = 64
    DUPACK_SPACE = 256
    IRS = 12
    N = 3
    RCV_WND = 4
    INIT_STATES = {"ESTABLISHED"}
    QUICKACK = {FALSE}
    RECV_RESULTS = {"ERR_OK", "ERR_MEM"}
    CLOSED_RESULTS = {"ERR_OK"}
    PEER_RESPECTS_WND = TRUE

SPECIFICATION Spec

PROPERTY DeliversStream
