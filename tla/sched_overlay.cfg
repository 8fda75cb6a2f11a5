CONSTANTS
    demux <- OverlayDemux
    filters <- CopyFilters
    Decoders = {"deca", "decb"}
    Encoders = {"enc"}
    Muxers = {"mux"}
    NbInputs <- OverlayNbInputs
    Dst <- OverlayDst
    Tolerance = 1
    QueueSize = 1
    PreMuxSize = 3
    Script <- OverlayScript
    Lead <- AllZero
    OwnFrames <- NoOwnFrames
    InputLimit <- NoInputLimit
    CopyLimit <- NoCopyLimit
    Whole <- Each2
    MayFail = {}
    Interrupts = FALSE
    EndTs = {"deca"}
SPECIFICATION Spec
CHECK_DEADLOCK FALSE
INVARIANT SomeoneRuns
INVARIANT EndFrameComesFirst
