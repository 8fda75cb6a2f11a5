CONSTANTS
    junk = junk
    Junk = junk
    s1 = s1
    s2 = s2
    r1 = r1
    r2 = r2
    nelem = 3
    Senders = {s1, s2}
    Receivers = {r1, r2}
    Errors = {1}
    MaxSend = 5
SPECIFICATION FairSpec
INVARIANT NoLostWakeup
INVARIANT GrowthKeepsContents
PROPERTY ImplementsChannel
PROPERTY CallsReturn
