CONSTANTS
    demux <- CopyDemux
    filters <- CopyFilters
    Decoders = {"dec"}
    Encoders = {"enc"}
    Muxers = {"mux"}
    NbInputs <- CopyNbInputs
    Dst <- CopyDst
    Tolerance = 1
    QueueSize = 1
    PreMuxSize = 4
    Script <- EarlyScript
    Lead <- AllZero
    OwnFrames <- NoOwnFrames
    InputLimit <- OneFrame
    CopyLimit <- CopyOne
    Whole <- Each2
    MayFail = {"enc"}
    Interrupts = TRUE
    EndTs = {"dec"}
SPECIFICATION Spec
CHECK_DEADLOCK FALSE
INVARIANT StopUnfreezes
INVARIANT SomeoneRuns
INVARIANT NoSendAfterEnd
