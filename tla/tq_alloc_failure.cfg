CONSTANTS
    NbStreams = 2
    QueueSize = 1
    SizeMax = 7
    upstream = upstream
    heartbeat = heartbeat
    other = other
    Senders = {upstream, heartbeat, other}
    StreamOf <- MCStreamOf
    AllocOutcomes = {TRUE, FALSE}
    MaxSend <- MCMaxSendTwo
SPECIFICATION Spec
INVARIANT IndexAvailable
INVARIANT TypeOK
