CONSTANTS
    demux <- CopyDemux
    filters <- CopyFilters
    Decoders = {"dec"}
    Encoders = {"enc"}
    Muxers = {"mux"}
    NbInputs <- CopyNbInputs
    Dst <- CopyDst
    Tolerance = 1
    QueueSize = 1
    PreMuxSize = 2
    Script <- CopyScript
    Lead <- AllZero
    OwnFrames <- NoOwnFrames
    InputLimit <- NoInputLimit
    CopyLimit <- NoCopyLimit
    Whole <- Each2
    MayFail = {}
    Interrupts = FALSE
    EndTs = {}
SPECIFICATION FairSpec
CHECK_DEADLOCK FALSE
PROPERTY Terminates
