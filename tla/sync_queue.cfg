CONSTANTS
    NbStreams = 3
    Limiting = {0, 1}
    FrameSamples <- AvSamples
    FramesMax <- TwoVideo
    BufSize = 2
    NOPTS <- Unset
    Lengths <- AvLengths
    Gaps = {0}
    MaxTime = 5
    Untimed = {2}
    MayHangUp = {0}
SPECIFICATION Spec
INVARIANT TypeOK
INVARIANT NoneAhead
INVARIANT LateStreamsFinished
INVARIANT Bounded
INVARIANT InOrder
INVARIANT Complete
INVARIANT AllClosed
PROPERTY NoFrameAfterEnd
