CONSTANTS
    SEQ_SPACE = 32
    WND_SPACE = 64
    ENABLE_WND_SCALE = TRUE
    RCV_WND_SCALE = 7
    PCBS <- MC_Pcbs
    SEGMENTS <- MC_Segments

SPECIFICATION Spec

INVARIANT TypeOK
INVARIANT ParseMatchesReference
