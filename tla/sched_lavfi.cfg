CONSTANTS
    demux <- OverlayDemux
    filters <- CopyFilters
    Decoders = {}
    Encoders = {"enc"}
    Muxers = {"mux"}
    NbInputs <- LavfiNbInputs
    Dst <- LavfiDst
    Tolerance = 1
    QueueSize = 1
    PreMuxSize = 3
    Script <- LavfiScript
    Lead <- AllZero
    OwnFrames <- LavfiFrames
    InputLimit <- NoInputLimit
    CopyLimit <- LavfiLimit
    Whole <- Each2
    MayFail = {}
    Interrupts = FALSE
    EndTs = {}
SPECIFICATION Spec
CHECK_DEADLOCK FALSE
INVARIANT NoRunaway
INVARIANT NoSendAfterEnd
