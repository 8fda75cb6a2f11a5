CONSTANTS
    demux <- CopyDemux
    filters <- CopyFilters
    Decoders = {"dec"}
    Encoders = {"enc"}
    Muxers = {"mux"}
    NbInputs <- CopyNbInputs
    Dst <- CopyDst
    Tolerance = 1
    QueueSize = 1
    PreMuxSize = 3
    Script <- MixedScript
    Lead <- MixedLead
    OwnFrames <- MixedFrames
    InputLimit <- NoInputLimit
    CopyLimit <- NoCopyLimit
    Whole <- MixedWhole
    MayFail = {}
    Interrupts = FALSE
    EndTs = {"dec"}
SPECIFICATION FairSpec
CHECK_DEADLOCK FALSE
INVARIANT TypeOK
INVARIANT Complete
INVARIANT NothingLeftPreMuxed
PROPERTY InOrder
PROPERTY Terminates
