CONSTANTS
    NbStreams = 2
    QueueSize = 2
    SizeMax = 7
    upstream = upstream
    heartbeat = heartbeat
    other = other
    Senders = {upstream, heartbeat, other}
    StreamOf <- MCStreamOf
    AllocOutcomes = {TRUE}
    MaxSend <- MCMaxSend
SPECIFICATION FairSpec
INVARIANT ReceiverNotForgotten
INVARIANT SendersNotForgotten
INVARIANT StreamsStayPaired
INVARIANT StreamsKeepOrder
INVARIANT DoneIsFinal
PROPERTY ImplementsChannels
PROPERTY SendersGetThrough
PROPERTY EndsAreReported
