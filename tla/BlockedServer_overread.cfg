SPECIFICATION FairSpec
CONSTANTS
    c1 = c1
    c2 = c2
    c3 = c3
    NoConn = NoConn
    Conns <- OneConn
    Fds = {4, 5}
    Msgs <- FrameMsgs
    MTU = 5
    MaxMsgs = 2
    MaxBacklog = 1
    Profiles <- EagerLongProfiles
    Faults = {}
PROPERTY MessageDelivered
