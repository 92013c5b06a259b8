SPECIFICATION FairSpec
CONSTANTS
    c1 = c1
    c2 = c2
    c3 = c3
    NoConn = NoConn
    Conns <- OneConn
    Fds = {4, 5}
    Msgs <- TinyMsgs
    MTU = 5
    MaxMsgs = 1
    MaxBacklog = 1
    Profiles <- EagerProfiles
    Faults = {"eof"}
PROPERTY DisconnectReported
