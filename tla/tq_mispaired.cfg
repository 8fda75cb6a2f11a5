CONSTANTS
    NbStreams = 2
    QueueSize = 1
    SizeMax = 7
    upstream = upstream
    heartbeat = heartbeat
    other = other
    Senders = {upstream, other}
    StreamOf <- MCStreamOfPair
    AllocOutcomes = {TRUE, FALSE}
    MaxSend <- MCMaxSendTwo
SPECIFICATION Spec
INVARIANT ItemKeepsItsStream
