CONSTANTS
    demux <- CopyDemux
    filters <- CopyFilters
    Decoders = {"dec"}
    Encoders = {"enc"}
    Muxers = {"mux"}
    NbInputs <- CopyNbInputs
    Dst <- TeeDst
    Tolerance = 1
    QueueSize = 1
    PreMuxSize = 9
    Script <- TeeScript
    Lead <- TeeLead
    OwnFrames <- MixedFrames
    InputLimit <- NoInputLimit
    CopyLimit <- NoCopyLimit
    Whole <- Each6
    MayFail = {}
    Interrupts = FALSE
    EndTs = {}
SPECIFICATION Spec
CHECK_DEADLOCK FALSE
INVARIANT SomeoneRuns
