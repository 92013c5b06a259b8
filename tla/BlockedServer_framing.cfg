SPECIFICATION FairSpec
CONSTANTS
    c1 = c1
    c2 = c2
    c3 = c3
    NoConn = NoConn
    Conns <- OneConn
    Fds = {4, 5}
    Msgs <- FrameMsgs
    MTU = 5
    MaxMsgs = 3
    MaxBacklog = 1
    Profiles <- CarefulProfiles
    Faults = {"eof", "reset", "sendfail", "appclose"}
PROPERTIES ImplementsChannel
